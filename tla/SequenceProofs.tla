--------------------------- MODULE SequenceProofs ---------------------------
(***************************************************************************)
(* WarmSeqsUnique and NumberedInOrder hold for every number of callers,    *)
(* calls and losses of the counter.                                        *)
(*                                                                         *)
(* The argument.  Until a cold start is disturbed, the counter, when it    *)
(* exists, is at least every number in the table or on its way there       *)
(* (CounterAbove), and a caller about to set it is alone and holds the     *)
(* largest number of the table (ReadIsMax): INCR then gives a number above *)
(* all of them.  Messages are told apart by their calls (CallsApart).      *)
(***************************************************************************)
EXTENDS Sequence, TLAPS

Allocated(p) == pc[p] \in {"release", "insert"}

CallsApart ==
    /\ \A p \in Callers : pc[p] # "idle" => call[p] <= calls
    /\ \A r \in rows : r.call <= calls
    /\ \A p, q \in Callers : p # q /\ pc[p] # "idle" /\ pc[q] # "idle" => call[p] # call[q]
    /\ \A p \in Callers, r \in rows : pc[p] # "idle" => call[p] # r.call
    /\ \A r, s \in rows : r.call = s.call => r = s

CounterAbove ==
    counter # None =>
        /\ \A r \in rows : r.seq <= counter
        /\ \A p \in Callers : Allocated(p) => number[p] <= counter

NumbersApart ==
    /\ \A p, q \in Callers : p # q /\ Allocated(p) /\ Allocated(q) => number[p] # number[q]
    /\ \A p \in Callers, r \in rows : Allocated(p) => number[p] # r.seq

ReadIsMax == \A p \in Callers : pc[p] = "set" => \A r \in rows : r.seq <= number[p]

FloorsBelow ==
    \A p \in Callers :
        /\ pc[p] # "idle" => floor[p] \subseteq Seqs
        /\ Allocated(p) => \A n \in floor[p] : n < number[p]

Counting ==
    /\ UniqueSeqs /\ CounterAbove /\ NumbersApart /\ ReadIsMax /\ FloorsBelow
    /\ ~ColdOverlap

IInv == TypeOK /\ CallsApart /\ (disturbed \/ Counting)

-----------------------------------------------------------------------------
(* The variables keep their types. *)
LEMMA TypePreserved ==
  TypeOK /\ [Next]_vars => TypeOK'
<1> SUFFICES ASSUME TypeOK, [Next]_vars PROVE TypeOK'
  OBVIOUS
<1> USE NoneAssumption DEF TypeOK
<1>a. disturbed' \in BOOLEAN
  BY DEF Next, vars
<1>1. ASSUME NEW p \in Callers, Begin(p) PROVE TypeOK'
  BY <1>1, <1>a DEF Begin, Goto, Seqs
<1>2. ASSUME NEW p \in Callers, CheckKey(p) PROVE TypeOK'
  BY <1>2, <1>a DEF CheckKey, Goto
<1>3. ASSUME NEW p \in Callers, TakeLock(p) PROVE TypeOK'
  BY <1>3, <1>a DEF TakeLock, Goto
<1>4. ASSUME NEW p \in Callers, WaitForKey(p) PROVE TypeOK'
  BY <1>4, <1>a DEF WaitForKey, Goto
<1>5. ASSUME NEW p \in Callers, ReadMax(p) PROVE TypeOK'
  BY <1>5, <1>a DEF ReadMax, Goto, Seqs
<1>6. ASSUME NEW p \in Callers, SetCounter(p) PROVE TypeOK'
  BY <1>6, <1>a DEF SetCounter, Goto
<1>7. ASSUME NEW p \in Callers, Incr(p) PROVE TypeOK'
  BY <1>7, <1>a DEF Incr, Goto, Next1
<1>8. ASSUME NEW p \in Callers, Release(p) PROVE TypeOK'
  BY <1>8, <1>a DEF Release, Goto
<1>9. ASSUME NEW p \in Callers, Insert(p) PROVE TypeOK'
  BY <1>9, <1>a DEF Insert, Goto, Reset
<1>10. ASSUME NEW p \in Callers, Stop(p) PROVE TypeOK'
  BY <1>10, <1>a DEF Stop, Goto, Reset
<1>11. ASSUME LoseCounter PROVE TypeOK'
  BY <1>11, <1>a DEF LoseCounter
<1>12. ASSUME ExpireLock PROVE TypeOK'
  BY <1>12, <1>a DEF ExpireLock
<1>13. CASE UNCHANGED vars
  BY <1>13, <1>a DEF vars
<1> QED
  BY <1>1, <1>2, <1>3, <1>4, <1>5, <1>6, <1>7, <1>8, <1>9, <1>10, <1>11, <1>12, <1>13 DEF Next, CallerStep

(* Calls keep telling messages apart. *)
LEMMA CallsPreserved ==
  TypeOK /\ CallsApart /\ [Next]_vars => CallsApart'
<1> SUFFICES ASSUME TypeOK, CallsApart, [Next]_vars PROVE CallsApart'
  OBVIOUS
<1> USE DEF TypeOK, CallsApart
<1>1. ASSUME NEW p \in Callers, Begin(p) PROVE CallsApart'
  BY <1>1 DEF Begin, Goto, Seqs
<1>2. ASSUME NEW p \in Callers, CheckKey(p) PROVE CallsApart'
  BY <1>2 DEF CheckKey, Goto
<1>3. ASSUME NEW p \in Callers, TakeLock(p) PROVE CallsApart'
  BY <1>3 DEF TakeLock, Goto
<1>4. ASSUME NEW p \in Callers, WaitForKey(p) PROVE CallsApart'
  BY <1>4 DEF WaitForKey, Goto
<1>5. ASSUME NEW p \in Callers, ReadMax(p) PROVE CallsApart'
  BY <1>5 DEF ReadMax, Goto, Seqs
<1>6. ASSUME NEW p \in Callers, SetCounter(p) PROVE CallsApart'
  BY <1>6 DEF SetCounter, Goto
<1>7. ASSUME NEW p \in Callers, Incr(p) PROVE CallsApart'
  BY <1>7 DEF Incr, Goto, Next1
<1>8. ASSUME NEW p \in Callers, Release(p) PROVE CallsApart'
  BY <1>8 DEF Release, Goto
<1>9. ASSUME NEW p \in Callers, Insert(p) PROVE CallsApart'
  BY <1>9 DEF Insert, Goto, Reset
<1>10. ASSUME NEW p \in Callers, Stop(p) PROVE CallsApart'
  BY <1>10 DEF Stop, Goto, Reset
<1>11. ASSUME LoseCounter PROVE CallsApart'
  BY <1>11 DEF LoseCounter
<1>12. ASSUME ExpireLock PROVE CallsApart'
  BY <1>12 DEF ExpireLock
<1>13. CASE UNCHANGED vars
  BY <1>13 DEF vars
<1> QED
  BY <1>1, <1>2, <1>3, <1>4, <1>5, <1>6, <1>7, <1>8, <1>9, <1>10, <1>11, <1>12, <1>13 DEF Next, CallerStep

(* While no cold start is disturbed, a step keeps the numbers in order. *)
LEMMA CountingPreserved ==
  TypeOK /\ CallsApart /\ (disturbed \/ Counting) /\ [Next]_vars => (disturbed \/ Counting)'
<1> SUFFICES ASSUME TypeOK, CallsApart, Counting, [Next]_vars, ~ColdOverlap' PROVE Counting'
  BY DEF Next, vars, TypeOK, Counting, ColdOverlap
<1> USE NoneAssumption DEF TypeOK, Counting, UniqueSeqs, CounterAbove, NumbersApart, ReadIsMax,
        FloorsBelow, Allocated, Seqs
<1>1. ASSUME NEW p \in Callers, Begin(p) PROVE Counting'
  BY <1>1 DEF Begin, Goto, Seqs
<1>2. ASSUME NEW p \in Callers, CheckKey(p) PROVE Counting'
  BY <1>2 DEF CheckKey, Goto
<1>3. ASSUME NEW p \in Callers, TakeLock(p) PROVE Counting'
  BY <1>3 DEF TakeLock, Goto
<1>4. ASSUME NEW p \in Callers, WaitForKey(p) PROVE Counting'
  BY <1>4 DEF WaitForKey, Goto
<1>5. ASSUME NEW p \in Callers, ReadMax(p) PROVE Counting'
  BY <1>5 DEF ReadMax, Goto, Seqs
<1>6. ASSUME NEW p \in Callers, SetCounter(p) PROVE Counting'
  <2>1. \A q \in Callers \ {p} : pc[q] = "idle"
    BY <1>6 DEF SetCounter, ColdOverlap
  <2>2. \A q \in Callers : ~Allocated(q) /\ pc'[q] \notin {"set", "release", "insert"}
    BY <1>6, <2>1 DEF SetCounter, Goto
  <2>3. CounterAbove'
    BY <1>6, <2>2 DEF SetCounter
  <2> QED
    BY <1>6, <2>2, <2>3 DEF SetCounter, Goto
<1>7. ASSUME NEW p \in Callers, Incr(p) PROVE Counting'
  <2>1. counter \in Nat
    BY <1>7 DEF Incr, ColdOverlap
  <2>2. counter' = counter + 1 /\ number' = [number EXCEPT ![p] = counter + 1] /\ UNCHANGED <<rows, floor>>
    BY <1>7, <2>1 DEF Incr, Next1
  <2>3. \A q \in Callers : q # p => pc'[q] = pc[q] /\ number'[q] = number[q]
    BY <1>7, <2>2 DEF Incr, Goto
  <2>4. pc'[p] \in {"release", "insert"} /\ number'[p] = counter + 1 /\ pc[p] = "incr"
    BY <1>7, <2>2 DEF Incr, Goto
  <2>5. rows' = rows /\ \A r \in rows : r.seq \in Nat
    BY <2>2
  <2>6. CounterAbove'
    BY <2>1, <2>2, <2>3, <2>4, <2>5
  <2>7. NumbersApart'
    BY <2>1, <2>3, <2>4, <2>5
  <2>8. FloorsBelow'
    BY <2>1, <2>2, <2>3, <2>4, <2>5
  <2> QED
    BY <2>2, <2>3, <2>4, <2>6, <2>7, <2>8
<1>8. ASSUME NEW p \in Callers, Release(p) PROVE Counting'
  BY <1>8 DEF Release, Goto
<1>9. ASSUME NEW p \in Callers, Insert(p) PROVE Counting'
  <2>1. UniqueSeqs'
    BY <1>9 DEF Insert
  <2>2. CounterAbove'
    BY <1>9 DEF Insert, Goto, Reset
  <2>3. NumbersApart'
    BY <1>9 DEF Insert, Goto, Reset
  <2>4. ReadIsMax'
    BY <1>9 DEF Insert, Goto, Reset, ColdOverlap
  <2>5. FloorsBelow'
    BY <1>9 DEF Insert, Goto, Reset
  <2> QED
    BY <2>1, <2>2, <2>3, <2>4, <2>5
<1>10. ASSUME NEW p \in Callers, Stop(p) PROVE Counting'
  BY <1>10 DEF Stop, Goto, Reset
<1>11. ASSUME LoseCounter PROVE Counting'
  BY <1>11 DEF LoseCounter
<1>12. ASSUME ExpireLock PROVE Counting'
  BY <1>12 DEF ExpireLock
<1>13. CASE UNCHANGED vars
  BY <1>13 DEF vars
<1> QED
  BY <1>1, <1>2, <1>3, <1>4, <1>5, <1>6, <1>7, <1>8, <1>9, <1>10, <1>11, <1>12, <1>13 DEF Next, CallerStep

(* The strengthened invariant is inductive. *)
THEOREM Invariance == Spec => []IInv
<1>1. ASSUME Init PROVE IInv
  <2>1. TypeOK
    BY <1>1, NoneAssumption DEF Init, TypeOK
  <2>2. CallsApart
    BY <1>1 DEF Init, CallsApart
  <2>3. Counting
    BY <1>1 DEF Init, Counting, UniqueSeqs, CounterAbove, NumbersApart, ReadIsMax, FloorsBelow,
       Allocated, ColdOverlap
  <2> QED
    BY <2>1, <2>2, <2>3 DEF IInv
<1>2. IInv /\ [Next]_vars => IInv'
  BY TypePreserved, CallsPreserved, CountingPreserved DEF IInv
<1> QED
  BY <1>1, <1>2, PTL DEF Spec

(* Every variable keeps its type, whatever the callers do. *)
THEOREM Types == Spec => []TypeOK
<1>1. IInv => TypeOK
  BY DEF IInv
<1> QED
  BY <1>1, Invariance, PTL

(* Two messages never share a number unless a cold start of the counter    *)
(* was not alone. *)
THEOREM WarmUnique == Spec => []WarmSeqsUnique
<1>1. IInv => WarmSeqsUnique
  BY DEF IInv, Counting, WarmSeqsUnique
<1> QED
  BY <1>1, Invariance, PTL

(* Under the same condition, a message is numbered above everything that   *)
(* was in the table when its call began. *)
THEOREM InOrder == Spec => []NumberedInOrder
<1>1. IInv => NumberedInOrder
  BY DEF IInv, Counting, FloorsBelow, Allocated, NumberedInOrder
<1> QED
  BY <1>1, Invariance, PTL
=============================================================================
