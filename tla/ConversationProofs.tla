--------------------------- MODULE ConversationProofs ---------------------------
(***************************************************************************)
(* The preview follows the history: StaleIsPending, LatestIsShown,         *)
(* NeverOlder and DeletedForGood hold for any callers, messages, edits and *)
(* times.                                                                  *)
(*                                                                         *)
(* The argument.  A row is written once by the request or the job it       *)
(* belongs to (Calls, Inserts, SystemJobs), and afterwards only edited or  *)
(* deleted, by a request that then owes a refresh.  Who owes the preview   *)
(* its work is counted more strictly than the properties do: a request     *)
(* that fell back on a system message another one has stored owes nothing, *)
(* since a job for that message remains (Owed, StaleIsOwed, LatestIsOwed). *)
(***************************************************************************)
EXTENDS Conversation, TLAPS

(* Messages are stored and numbered in the order they were begun, and a    *)
(* deleted one is empty.                                                   *)
Numbered ==
    /\ \A m \in Msgs : Stored(m) => m <= sent
    /\ \A m \in system : m <= sent

DeletedIsEmpty == \A m \in Msgs : Stored(m) /\ row[m].deleted => row[m].text = None

(* What a request knows of the message it is about.                        *)
Call(c) ==
    /\ pc[c] = "insert" =>
           /\ mine[c].kind = "activity"
           /\ ~Stored(mine[c].msg) /\ mine[c].msg \notin system /\ mine[c].msg <= sent
    /\ pc[c] \in {"edit", "delete"} => mine[c].kind = "refresh"
    /\ pc[c] \notin {"idle", "insert"} /\ mine[c].kind # "system" => Stored(mine[c].msg)
    /\ pc[c] # "idle" /\ mine[c].kind = "system" => mine[c].msg \in system

Calls == \A c \in Callers : Call(c)

(* No two requests insert the same message.                                *)
Inserts ==
    \A c, d \in Callers :
        c # d /\ pc[c] = "insert" /\ pc[d] = "insert" => mine[c].msg # mine[d].msg

SystemJobs == \A j \in jobs : j.kind = "system" => j.msg \in system

(* A job, or a request that will not find its work done by another.        *)
Owed(m, kinds) ==
    \/ \E j \in jobs : j.msg = m /\ j.kind \in kinds \cup {"system"}
    \/ \E c \in Callers : /\ pc[c] \in {"enqueue", "fallback"}
                          /\ mine[c].msg = m /\ mine[c].kind \in kinds
    \/ m \in lost

StaleIsOwed ==
    last # None /\ shown # Preview(last) => Owed(last, {"activity", "refresh"})

LatestIsOwed ==
    \A m \in Msgs : Stored(m) /\ m \notin dropped /\ (last = None \/ Before(last, m)) =>
        Owed(m, {"activity"})

Parts == TypeOK /\ Numbered /\ DeletedIsEmpty /\ Calls /\ Inserts /\ SystemJobs

IInv == Parts /\ StaleIsOwed /\ LatestIsOwed

(* What a step may do to the rows: a stored one keeps its time, and one    *)
(* that changes leaves a refresh to its request; a new one is owed its     *)
(* place in the preview or belongs to a failed send.                       *)
KeepsRow(m) ==
    /\ row'[m] # None /\ row'[m].at = row[m].at
    /\ row[m].deleted => row'[m].deleted
    /\ row'[m].deleted => row'[m].text = None
    /\ \/ row'[m] = row[m]
       \/ \E c \in Callers : /\ pc'[c] = "enqueue"
                             /\ mine'[c].msg = m /\ mine'[c].kind = "refresh"

NewRow(m) ==
    /\ m <= sent
    /\ row'[m].deleted => row'[m].text = None
    /\ m \in dropped' \/ Owed(m, {"activity"})'

RowStep ==
    /\ row' \in [Msgs -> Rows \cup {None}]
    /\ \A m \in Msgs : Stored(m) => KeepsRow(m)
    /\ \A m \in Msgs : ~Stored(m) /\ row'[m] # None => NewRow(m)

-----------------------------------------------------------------------------
(* The rows.                                                               *)

(* A request under way is about a message.                                 *)
LEMMA MineTyped ==
  ASSUME TypeOK, NEW c \in Callers, pc[c] # "idle"
  PROVE  /\ mine[c] \in Jobs /\ mine[c].msg \in Msgs
         /\ mine[c].kind \in {"activity", "refresh", "system"}
BY DEF TypeOK, Jobs

(* A row that exists is a row.                                             *)
LEMMA RowTyped ==
  ASSUME TypeOK, NEW m \in Msgs, Stored(m)
  PROVE  /\ row[m] \in Rows /\ row[m].at \in 0..MaxClock
         /\ row[m].text \in Texts \cup {None} /\ row[m].deleted \in BOOLEAN
BY DEF TypeOK, Stored, Rows

(* A message just sent is a row.                                           *)
LEMMA NewTyped ==
  ASSUME TypeOK
  PROVE  /\ [at |-> clock, text |-> 0, deleted |-> FALSE] \in Rows
         /\ [at |-> clock, text |-> None, deleted |-> TRUE] \in Rows
<1>1. 0 \in Texts /\ clock \in 0..MaxClock
  BY BoundsAssumption DEF TypeOK, Texts
<1>2. QED
  BY <1>1 DEF Rows

(* Inserting one row leaves the others.                                    *)
LEMMA InsertStep ==
  ASSUME Parts, NEW m \in Msgs, ~Stored(m), NEW r \in Rows,
         row' = [row EXCEPT ![m] = r], r.deleted => r.text = None, m <= sent,
         m \in dropped' \/ Owed(m, {"activity"})'
  PROVE  RowStep
<1>1. row \in [Msgs -> Rows \cup {None}]
  BY DEF Parts, TypeOK
<1>2. row' \in [Msgs -> Rows \cup {None}] /\ row'[m] = r
  BY <1>1
<1>3. \A n \in Msgs : n # m => row'[n] = row[n]
  BY <1>1
<1>4. ASSUME NEW n \in Msgs, Stored(n) PROVE KeepsRow(n)
  BY <1>3, <1>4 DEF KeepsRow, Stored, Parts, DeletedIsEmpty
<1>5. ASSUME NEW n \in Msgs, ~Stored(n), row'[n] # None PROVE NewRow(n)
  <2>1. n = m
    BY <1>3, <1>5 DEF Stored
  <2>2. QED
    BY <1>2, <2>1 DEF NewRow
<1>6. QED
  BY <1>2, <1>4, <1>5 DEF RowStep

(* Changing the content of one row leaves the others.                      *)
LEMMA ChangeStep ==
  ASSUME Parts, NEW c \in Callers, NEW m \in Msgs, Stored(m), NEW r \in Rows,
         row' = [row EXCEPT ![m] = r],
         r.at = row[m].at, r.deleted => r.text = None, row[m].deleted => r.deleted,
         pc'[c] = "enqueue", mine'[c].msg = m, mine'[c].kind = "refresh"
  PROVE  RowStep
<1>1. row \in [Msgs -> Rows \cup {None}]
  BY DEF Parts, TypeOK
<1>2. row' \in [Msgs -> Rows \cup {None}] /\ row'[m] = r /\ r # None
  BY <1>1, NoneAssumption
<1>3. \A n \in Msgs : n # m => row'[n] = row[n]
  BY <1>1
<1>4. KeepsRow(m)
  BY <1>2 DEF KeepsRow
<1>5. ASSUME NEW n \in Msgs, Stored(n), n # m PROVE KeepsRow(n)
  BY <1>3, <1>5 DEF KeepsRow, Stored, Parts, DeletedIsEmpty
<1>6. ASSUME NEW n \in Msgs, ~Stored(n) PROVE row'[n] = None
  BY <1>3, <1>6 DEF Stored
<1>7. QED
  BY <1>2, <1>4, <1>5, <1>6 DEF RowStep

(* A step that writes no row.                                              *)
LEMMA RowsStay ==
  ASSUME Parts, row' = row
  PROVE  RowStep
BY DEF Parts, TypeOK, RowStep, KeepsRow, Stored, DeletedIsEmpty

(* Every step keeps to RowStep.                                            *)
LEMMA RowsStep ==
  Parts /\ [Next]_vars => RowStep
<1> SUFFICES ASSUME Parts, [Next]_vars PROVE RowStep
  OBVIOUS
<1>1. ASSUME NEW c \in Callers, Send(c) \/ SendSystem(c) \/ Enqueue(c) \/ EnqueueFails(c) \/
             Abandon(c)
      PROVE RowStep
  BY <1>1, RowsStay DEF Send, SendSystem, Enqueue, EnqueueFails, Abandon
<1>2. ASSUME NEW c \in Callers, NEW m \in Msgs, BeginEdit(c, m) \/ BeginDelete(c, m)
      PROVE RowStep
  BY <1>2, RowsStay DEF BeginEdit, BeginDelete
<1>3. ASSUME NEW j \in jobs, HandleUpdate(j) \/ LoseJob(j) PROVE RowStep
  BY <1>3, RowsStay DEF HandleUpdate, LoseJob
<1>4. ASSUME Tick PROVE RowStep
  BY <1>4, RowsStay DEF Tick
<1>5. ASSUME NEW c \in Callers, Insert(c) PROVE RowStep
  <2> DEFINE r == [at |-> clock, text |-> 0, deleted |-> FALSE]
  <2>a. mine[c].msg \in Msgs
    BY <1>5, MineTyped DEF Insert, Parts
  <2>b. PICK m \in Msgs : m = mine[c].msg
    BY <2>a
  <2>1. pc[c] = "insert" /\ row' = [row EXCEPT ![m] = r] /\ mine' = mine /\ pc'[c] = "enqueue"
    BY <1>5, <2>b DEF Insert, InsertRow, Goto, Parts, TypeOK
  <2>2. m \in Msgs /\ ~Stored(m) /\ m <= sent /\ mine[c].kind = "activity"
    BY <2>1, <2>b, MineTyped DEF Parts, Calls, Call
  <2>3. Owed(m, {"activity"})'
    BY <2>1, <2>2, <2>b DEF Owed
  <2>4. r \in Rows /\ ~r.deleted
    BY NewTyped DEF Parts
  <2> HIDE DEF r
  <2>5. QED
    BY <2>1, <2>2, <2>3, <2>4, InsertStep
<1>6. ASSUME NEW c \in Callers, DropMessage(c) PROVE RowStep
  <2> DEFINE m == mine[c].msg
             r == [at |-> clock, text |-> 0, deleted |-> FALSE]
             s == [at |-> clock, text |-> None, deleted |-> TRUE]
  <2>2. /\ pc[c] = "insert" /\ dropped' = dropped \cup {m}
        /\ row' = [row EXCEPT ![m] = r] \/ row' = [row EXCEPT ![m] = s]
    BY <1>6 DEF DropMessage, InsertRow
  <2>3. m \in Msgs /\ ~Stored(m) /\ m <= sent
    BY <2>2, MineTyped DEF Parts, Calls, Call
  <2>4. r \in Rows /\ s \in Rows /\ ~r.deleted /\ s.text = None
    BY NewTyped DEF Parts
  <2> HIDE DEF m, r, s
  <2>5. m \in dropped'
    BY <2>2
  <2>6. CASE row' = [row EXCEPT ![m] = r]
    BY <2>3, <2>4, <2>5, <2>6, InsertStep
  <2>7. CASE row' = [row EXCEPT ![m] = s]
    BY <2>3, <2>4, <2>5, <2>7, InsertStep
  <2>8. QED
    BY <2>2, <2>6, <2>7
<1>7. ASSUME NEW c \in Callers, UpdateContent(c) PROVE RowStep
  <2> DEFINE m == mine[c].msg
             r == [row[m] EXCEPT !.text = text[c]]
  <2>1. CASE row[m].deleted
    BY <1>7, <2>1, RowsStay DEF UpdateContent
  <2>2. CASE ~row[m].deleted
    <3>1. /\ pc[c] = "edit" /\ row' = [row EXCEPT ![m] = r]
          /\ mine' = mine /\ pc'[c] = "enqueue"
      BY <1>7, <2>2 DEF UpdateContent, Goto, Parts, TypeOK
    <3>2. m \in Msgs /\ Stored(m) /\ mine[c].kind = "refresh"
      BY <3>1, MineTyped DEF Parts, Calls, Call
    <3>3. row[m] \in Rows /\ text[c] \in Texts
      BY <3>2, RowTyped DEF Parts, TypeOK
    <3>4. r \in Rows /\ r.at = row[m].at /\ r.deleted = row[m].deleted
      BY <3>3 DEF Rows
    <3> HIDE DEF m, r
    <3>5. mine'[c].msg = m /\ mine'[c].kind = "refresh"
      BY <3>1, <3>2 DEF m
    <3>6. QED
      BY <2>2, <3>1, <3>2, <3>4, <3>5, ChangeStep
  <2>3. QED
    BY <2>1, <2>2
<1>8. ASSUME NEW c \in Callers, SoftDelete(c) PROVE RowStep
  <2> DEFINE m == mine[c].msg
             r == [row[m] EXCEPT !.deleted = TRUE, !.text = None]
  <2>1. /\ pc[c] = "delete" /\ mine' = mine /\ pc'[c] = "enqueue"
        /\ row' = [row EXCEPT ![m].deleted = TRUE, ![m].text = None]
    BY <1>8 DEF SoftDelete, Goto, Parts, TypeOK
  <2>2. m \in Msgs /\ Stored(m) /\ mine[c].kind = "refresh"
    BY <2>1, MineTyped DEF Parts, Calls, Call
  <2>3. row[m] \in Rows /\ row \in [Msgs -> Rows \cup {None}]
    BY <2>2, RowTyped DEF Parts, TypeOK
  <2>4. r \in Rows /\ r.at = row[m].at /\ r.deleted /\ r.text = None
    BY <2>3 DEF Rows
  <2>5. row' = [row EXCEPT ![m] = r]
    BY <2>1, <2>2, <2>3
  <2> HIDE DEF m, r
  <2>6. mine'[c].msg = m /\ mine'[c].kind = "refresh"
    BY <2>1, <2>2 DEF m
  <2>7. QED
    BY <2>1, <2>2, <2>4, <2>5, <2>6, ChangeStep
<1>9. ASSUME NEW c \in Callers, Fallback(c) PROVE RowStep
  <2>1. CASE row' = row
    BY <2>1, RowsStay
  <2>2. CASE mine[c].kind = "system" /\ ~Stored(mine[c].msg)
    <3> DEFINE r == [at |-> clock, text |-> 0, deleted |-> FALSE]
    <3>a. mine[c].msg \in Msgs
      BY <1>9, MineTyped DEF Fallback, Parts
    <3>b. PICK m \in Msgs : m = mine[c].msg
      BY <3>a
    <3>1. /\ pc[c] = "fallback" /\ pc' = pc /\ row' = [row EXCEPT ![m] = r]
          /\ mine' = [mine EXCEPT ![c] = [kind |-> "activity", msg |-> m]]
      BY <1>9, <2>2, <3>b DEF Fallback, InsertRow, Owes
    <3>2. m \in Msgs /\ m \in system
      BY <2>2, <3>1, <3>b, MineTyped DEF Parts, Calls, Call
    <3>3. m <= sent
      BY <3>2 DEF Parts, Numbered
    <3>4. mine'[c] = [kind |-> "activity", msg |-> m]
      BY <3>1 DEF Parts, TypeOK
    <3>5. Owed(m, {"activity"})'
      BY <3>1, <3>4 DEF Owed
    <3>6. r \in Rows /\ ~r.deleted
      BY NewTyped DEF Parts
    <3> HIDE DEF r
    <3>7. ~Stored(m)
      BY <2>2, <3>b
    <3>8. QED
      BY <3>1, <3>2, <3>3, <3>5, <3>6, <3>7, InsertStep
  <2>3. QED
    BY <1>9, <2>1, <2>2 DEF Fallback
<1>10. ASSUME NEW j \in jobs, HandleSystem(j) PROVE RowStep
  <2>1. CASE row' = row
    BY <2>1, RowsStay
  <2>2. CASE ~Stored(j.msg)
    <3> DEFINE r == [at |-> clock, text |-> 0, deleted |-> FALSE]
    <3>1. j.kind = "system" /\ row' = [row EXCEPT ![j.msg] = r] /\ jobs' = jobs
      BY <1>10, <2>2 DEF HandleSystem, InsertRow
    <3>2. j.msg \in Msgs /\ j.msg \in system
      BY <3>1 DEF Parts, SystemJobs, TypeOK, Jobs
    <3>3. j.msg <= sent
      BY <3>2 DEF Parts, Numbered
    <3>4. Owed(j.msg, {"activity"})'
      BY <3>1 DEF Owed
    <3>5. r \in Rows /\ ~r.deleted
      BY NewTyped DEF Parts
    <3> HIDE DEF r
    <3>6. QED
      BY <2>2, <3>1, <3>2, <3>3, <3>4, <3>5, InsertStep
  <2>3. QED
    BY <1>10, <2>1, <2>2 DEF HandleSystem
<1>11. CASE UNCHANGED vars
  BY <1>11, RowsStay DEF vars
<1>12. QED
  BY <1>1, <1>2, <1>3, <1>4, <1>5, <1>6, <1>7, <1>8, <1>9, <1>10, <1>11 DEF Next, Request

-----------------------------------------------------------------------------
(* The preview.                                                            *)

(* A step that touches the preview shows a stored message as it is, and    *)
(* none before the one shown.                                              *)
ConvStep ==
    \/ last' = last /\ shown' = shown
    \/ \E m \in Msgs :
           /\ Stored(m) /\ row' = row /\ last' = m /\ shown' = Preview(m)
           /\ last = None \/ ~Before(m, last)

(* A message is not before itself.                                         *)
LEMMA BeforeIrreflexive ==
  ASSUME TypeOK, NEW m \in Msgs, Stored(m)
  PROVE  ~Before(m, m)
<1>1. row[m].at \in Nat /\ m \in Nat
  BY RowTyped, BoundsAssumption DEF Msgs
<1>2. QED
  BY <1>1 DEF Before

(* Both statements keep to ConvStep.                                       *)
LEMMA StatementsStep ==
  ASSUME TypeOK, NEW m \in Msgs, Stored(m), row' = row, Promote(m) \/ Refresh(m)
  PROVE  ConvStep
<1>1. CASE Promote(m)
  BY <1>1 DEF Promote, conv, ConvStep
<1>2. CASE Refresh(m)
  <2>1. CASE last = m
    BY <1>2, <2>1, BeforeIrreflexive DEF Refresh, ConvStep
  <2>2. CASE last # m
    BY <1>2, <2>2 DEF Refresh, ConvStep
  <2>3. QED
    BY <2>1, <2>2
<1>3. QED
  BY <1>1, <1>2

(* Every step keeps to ConvStep.                                           *)
LEMMA ConvSteps ==
  Parts /\ [Next]_vars => ConvStep
<1> SUFFICES ASSUME Parts, [Next]_vars PROVE ConvStep
  OBVIOUS
<1>1. ASSUME NEW c \in Callers, Send(c) \/ SendSystem(c) \/ Enqueue(c) \/ EnqueueFails(c) \/
             Abandon(c) \/ Insert(c) \/ DropMessage(c) \/ UpdateContent(c) \/ SoftDelete(c)
      PROVE ConvStep
  BY <1>1 DEF Send, SendSystem, Enqueue, EnqueueFails, Abandon, Insert, DropMessage,
     UpdateContent, SoftDelete, conv, ConvStep
<1>2. ASSUME NEW c \in Callers, NEW m \in Msgs, BeginEdit(c, m) \/ BeginDelete(c, m)
      PROVE ConvStep
  BY <1>2 DEF BeginEdit, BeginDelete, conv, ConvStep
<1>3. ASSUME NEW j \in jobs, LoseJob(j) PROVE ConvStep
  BY <1>3 DEF LoseJob, conv, ConvStep
<1>4. ASSUME Tick PROVE ConvStep
  BY <1>4 DEF Tick, conv, ConvStep
<1>5. ASSUME NEW c \in Callers, Fallback(c) PROVE ConvStep
  <2>1. CASE UNCHANGED conv
    BY <2>1 DEF conv, ConvStep
  <2>2. CASE mine[c].kind # "system"
    <3>1. pc[c] = "fallback" /\ row' = row /\ Apply(mine[c])
      BY <1>5, <2>2 DEF Fallback
    <3>2. mine[c].msg \in Msgs /\ Stored(mine[c].msg)
      BY <2>2, <3>1, MineTyped DEF Parts, Calls, Call
    <3>3. PICK m \in Msgs : m = mine[c].msg
      BY <3>2
    <3>4. Promote(m) \/ Refresh(m)
      BY <3>1, <3>3 DEF Apply
    <3>5. QED
      BY <3>1, <3>2, <3>3, <3>4, StatementsStep DEF Parts
  <2>3. QED
    BY <1>5, <2>1, <2>2 DEF Fallback
<1>6. ASSUME NEW j \in jobs, HandleUpdate(j) PROVE ConvStep
  <2>1. j.kind # "system" /\ j.msg \in Msgs /\ Stored(j.msg) /\ row' = row
    BY <1>6 DEF HandleUpdate, Parts, TypeOK, Jobs
  <2>2. Promote(j.msg) \/ Refresh(j.msg)
    BY <1>6 DEF HandleUpdate, Apply
  <2>3. QED
    BY <2>1, <2>2, StatementsStep DEF Parts
<1>7. ASSUME NEW j \in jobs, HandleSystem(j) PROVE ConvStep
  <2>1. CASE UNCHANGED conv
    BY <2>1 DEF conv, ConvStep
  <2>2. CASE Stored(j.msg)
    <3>1. j.msg \in Msgs /\ row' = row /\ Promote(j.msg)
      BY <1>7, <2>2 DEF HandleSystem, Parts, TypeOK, Jobs
    <3>2. QED
      BY <2>2, <3>1, StatementsStep DEF Parts
  <2>3. QED
    BY <1>7, <2>1, <2>2 DEF HandleSystem
<1>8. CASE UNCHANGED vars
  BY <1>8 DEF vars, ConvStep
<1>9. QED
  BY <1>1, <1>2, <1>3, <1>4, <1>5, <1>6, <1>7, <1>8 DEF Next, Request

-----------------------------------------------------------------------------
(* The requests and the jobs.                                              *)

(* The rest of TypeOK.                                                     *)
CallTypes ==
    /\ clock \in 0..MaxClock /\ sent \in 0..MaxSends /\ edits \in Texts
    /\ system \subseteq Msgs /\ dropped \subseteq Msgs /\ lost \subseteq Msgs
    /\ jobs \subseteq Jobs
    /\ pc \in [Callers -> {"idle", "insert", "edit", "delete", "enqueue", "fallback"}]
    /\ mine \in [Callers -> Jobs \cup {None}]
    /\ \A c \in Callers : pc[c] # "idle" => mine[c] # None
    /\ text \in [Callers -> Texts]

(* The requests and the jobs keep their types.                             *)
LEMMA CallTypesPreserved ==
  Parts /\ [Next]_vars => CallTypes'
<1> SUFFICES ASSUME Parts, [Next]_vars PROVE CallTypes'
  OBVIOUS
<1>0. CallTypes
  BY DEF Parts, TypeOK, CallTypes
<1>a. 0 \in Texts
  BY BoundsAssumption DEF Texts
<1> USE <1>0
<1>1. ASSUME NEW c \in Callers, Send(c) PROVE CallTypes'
  <2>1. sent + 1 \in Msgs /\ sent + 1 \in 0..MaxSends
    BY <1>1, BoundsAssumption DEF Send, CallTypes, Msgs
  <2>2. /\ [kind |-> "activity", msg |-> sent + 1] \in Jobs
        /\ [kind |-> "system", msg |-> sent + 1] \in Jobs
    BY <2>1 DEF Jobs
  <2>3. /\ [kind |-> "activity", msg |-> sent + 1] # None
        /\ [kind |-> "system", msg |-> sent + 1] # None
    BY <2>2, NoneAssumption
  <2>4. QED
    BY <1>1, <2>1, <2>2, <2>3 DEF Send, Owes, Goto, CallTypes
<1>2. ASSUME NEW c \in Callers, SendSystem(c) PROVE CallTypes'
  <2>1. sent + 1 \in Msgs /\ sent + 1 \in 0..MaxSends
    BY <1>2, BoundsAssumption DEF SendSystem, CallTypes, Msgs
  <2>2. /\ [kind |-> "activity", msg |-> sent + 1] \in Jobs
        /\ [kind |-> "system", msg |-> sent + 1] \in Jobs
    BY <2>1 DEF Jobs
  <2>3. /\ [kind |-> "activity", msg |-> sent + 1] # None
        /\ [kind |-> "system", msg |-> sent + 1] # None
    BY <2>2, NoneAssumption
  <2>4. QED
    BY <1>2, <2>1, <2>2, <2>3 DEF SendSystem, Owes, Goto, CallTypes
<1>3. ASSUME NEW c \in Callers, Insert(c) \/ UpdateContent(c) \/ SoftDelete(c) PROVE CallTypes'
  BY <1>3, <1>a DEF Insert, UpdateContent, SoftDelete, Goto, Done, CallTypes
<1>4. ASSUME NEW c \in Callers, DropMessage(c) \/ Abandon(c) PROVE CallTypes'
  <2>1. mine[c].msg \in Msgs
    BY <1>4, MineTyped DEF DropMessage, Abandon, Parts
  <2>2. QED
    BY <1>4, <1>a, <2>1 DEF DropMessage, Abandon, Done, Goto, CallTypes
<1>5. ASSUME NEW c \in Callers, Enqueue(c) \/ EnqueueFails(c) PROVE CallTypes'
  <2>1. mine[c] \in Jobs
    BY <1>5, MineTyped DEF Enqueue, EnqueueFails, Parts
  <2>2. QED
    BY <1>5, <1>a, <2>1 DEF Enqueue, EnqueueFails, Done, Goto, CallTypes
<1>6. ASSUME NEW c \in Callers, Fallback(c) PROVE CallTypes'
  <2>1. pc[c] = "fallback" /\ mine[c].msg \in Msgs
    BY <1>6, MineTyped DEF Fallback, Parts
  <2>2. [kind |-> "activity", msg |-> mine[c].msg] \in Jobs
    BY <2>1 DEF Jobs
  <2>3. [kind |-> "activity", msg |-> mine[c].msg] # None
    BY <2>2, NoneAssumption
  <2>4. mine' \in [Callers -> Jobs \cup {None}]
    BY <1>6, <2>2 DEF Fallback, Owes, Done, CallTypes
  <2>5. /\ pc' \in [Callers -> {"idle", "insert", "edit", "delete", "enqueue", "fallback"}]
        /\ text' \in [Callers -> Texts]
    BY <1>6, <1>a DEF Fallback, Done, Goto, CallTypes
  <2>6. \A d \in Callers : pc'[d] # "idle" => mine'[d] # None
    BY <1>6, <2>2, <2>3 DEF Fallback, Owes, Done, Goto, CallTypes
  <2>7. QED
    BY <1>6, <2>4, <2>5, <2>6 DEF Fallback, CallTypes
<1>7. ASSUME NEW c \in Callers, NEW m \in Msgs, BeginEdit(c, m) \/ BeginDelete(c, m)
      PROVE CallTypes'
  <2>1. [kind |-> "refresh", msg |-> m] \in Jobs
    BY DEF Jobs
  <2>2. [kind |-> "refresh", msg |-> m] # None
    BY <2>1, NoneAssumption
  <2>3. mine' = [mine EXCEPT ![c] = [kind |-> "refresh", msg |-> m]]
    BY <1>7 DEF BeginEdit, BeginDelete, Owes
  <2>4. edits' \in Texts /\ text' \in [Callers -> Texts]
    BY <1>7, BoundsAssumption DEF BeginEdit, BeginDelete, CallTypes, Texts
  <2>5. QED
    BY <1>7, <2>1, <2>2, <2>3, <2>4 DEF BeginEdit, BeginDelete, Goto, CallTypes
<1>8. ASSUME NEW j \in jobs, HandleUpdate(j) \/ HandleSystem(j) PROVE CallTypes'
  BY <1>8 DEF HandleUpdate, HandleSystem, Acknowledged, CallTypes
<1>9. ASSUME NEW j \in jobs, LoseJob(j) PROVE CallTypes'
  BY <1>9 DEF LoseJob, Acknowledged, CallTypes, Jobs
<1>10. ASSUME Tick PROVE CallTypes'
  BY <1>10, BoundsAssumption DEF Tick, CallTypes
<1>11. CASE UNCHANGED vars
  BY <1>11 DEF vars, CallTypes
<1>12. QED
  BY <1>1, <1>2, <1>3, <1>4, <1>5, <1>6, <1>7, <1>8, <1>9, <1>10, <1>11 DEF Next, Request

(* The variables keep their types, and what is shown, updated or to be     *)
(* updated is stored.                                                      *)
LEMMA TypePreserved ==
  Parts /\ [Next]_vars => TypeOK'
<1> SUFFICES ASSUME Parts, [Next]_vars PROVE TypeOK'
  OBVIOUS
<1>1. RowStep /\ ConvStep /\ CallTypes'
  BY RowsStep, ConvSteps, CallTypesPreserved
<1>2. row' \in [Msgs -> Rows \cup {None}] /\ \A m \in Msgs : Stored(m) => row'[m] # None
  BY <1>1 DEF RowStep, KeepsRow
<1>3. last' \in Msgs \cup {None} /\ (last' # None => row'[last'] # None)
  BY <1>1, <1>2 DEF ConvStep, Parts, TypeOK
<1>4. shown' \in Texts \cup {Deleted, None}
  <2>1. CASE shown' = shown
    BY <2>1 DEF Parts, TypeOK
  <2>2. ASSUME NEW m \in Msgs, Stored(m), shown' = Preview(m)
        PROVE  shown' \in Texts \cup {Deleted, None}
    BY <2>2, RowTyped DEF Preview, Parts
  <2>3. QED
    BY <1>1, <2>1, <2>2 DEF ConvStep
<1>5. \A j \in jobs' : j.kind # "system" => row'[j.msg] # None
  <2>1. \A j \in jobs : j.kind # "system" => row'[j.msg] # None
    BY <1>2 DEF Parts, TypeOK, Jobs
  <2>2. ASSUME NEW c \in Callers, Enqueue(c) \/ EnqueueFails(c)
        PROVE  \A j \in jobs' : j.kind # "system" => row'[j.msg] # None
    <3>1. pc[c] = "enqueue" /\ mine[c] \in Jobs /\ mine[c].msg \in Msgs
      BY <2>2, MineTyped DEF Enqueue, EnqueueFails, Parts
    <3>2. mine[c].kind # "system" => row'[mine[c].msg] # None
      BY <3>1, <1>2 DEF Parts, Calls, Call
    <3>3. jobs' \subseteq jobs \cup {mine[c]}
      BY <2>2 DEF Enqueue, EnqueueFails
    <3>4. QED
      BY <2>1, <3>2, <3>3
  <2>3. ASSUME NEW c \in Callers,
               \/ Send(c) \/ SendSystem(c) \/ Insert(c) \/ DropMessage(c)
               \/ UpdateContent(c) \/ SoftDelete(c) \/ Fallback(c) \/ Abandon(c)
        PROVE  jobs' \subseteq jobs
    BY <2>3 DEF Send, SendSystem, Insert, DropMessage, UpdateContent, SoftDelete, Fallback, Abandon
  <2>4. ASSUME NEW c \in Callers, NEW m \in Msgs, BeginEdit(c, m) \/ BeginDelete(c, m)
        PROVE  jobs' \subseteq jobs
    BY <2>4 DEF BeginEdit, BeginDelete
  <2>5. ASSUME NEW j \in jobs, HandleUpdate(j) \/ HandleSystem(j) \/ LoseJob(j)
        PROVE  jobs' \subseteq jobs
    BY <2>5 DEF HandleUpdate, HandleSystem, LoseJob, Acknowledged
  <2>6. ASSUME Tick \/ UNCHANGED vars PROVE jobs' \subseteq jobs
    BY <2>6 DEF Tick, vars
  <2>7. jobs' \subseteq jobs \/ \A j \in jobs' : j.kind # "system" => row'[j.msg] # None
    BY <2>2, <2>3, <2>4, <2>5, <2>6 DEF Next, Request
  <2>8. QED
    BY <2>1, <2>7
<1>6. QED
  BY <1>1, <1>2, <1>3, <1>4, <1>5 DEF TypeOK, CallTypes, Stored

(* No message is stored before it was begun.                               *)
LEMMA NumberedPreserved ==
  Parts /\ [Next]_vars => Numbered'
<1> SUFFICES ASSUME Parts, [Next]_vars PROVE Numbered'
  OBVIOUS
<1>a. \A m \in Msgs : row'[m] # None => m <= sent
  BY RowsStep DEF RowStep, NewRow, Parts, Numbered, Stored
<1>b. sent \in Nat /\ sent + 1 \in Nat /\ \A m \in Msgs : m \in Nat
  BY BoundsAssumption DEF Parts, TypeOK, Msgs
<1>c. \A m \in system : m \in Msgs /\ m <= sent
  BY DEF Parts, TypeOK, Numbered
<1>d. ASSUME sent' = sent \/ sent' = sent + 1, system' \subseteq system \cup {sent'}
      PROVE  Numbered'
  BY <1>a, <1>b, <1>c, <1>d DEF Numbered, Stored
<1>1. ASSUME NEW c \in Callers, Send(c) PROVE Numbered'
  BY <1>1, <1>a, <1>b, <1>c, <1>d DEF Send
<1>2. ASSUME NEW c \in Callers, SendSystem(c) PROVE Numbered'
  BY <1>2, <1>a, <1>b, <1>c, <1>d DEF SendSystem
<1>3. ASSUME NEW c \in Callers, Insert(c) \/ DropMessage(c) \/ UpdateContent(c) \/ SoftDelete(c)
             \/ Enqueue(c) \/ EnqueueFails(c) \/ Fallback(c) \/ Abandon(c)
      PROVE Numbered'
  BY <1>3, <1>a, <1>b, <1>c, <1>d DEF Insert, DropMessage, UpdateContent, SoftDelete, Enqueue,
     EnqueueFails, Fallback, Abandon
<1>4. ASSUME NEW c \in Callers, NEW m \in Msgs, BeginEdit(c, m) \/ BeginDelete(c, m)
      PROVE Numbered'
  BY <1>4, <1>a, <1>b, <1>c, <1>d DEF BeginEdit, BeginDelete
<1>5. ASSUME NEW j \in jobs, HandleUpdate(j) \/ HandleSystem(j) \/ LoseJob(j) PROVE Numbered'
  BY <1>5, <1>a, <1>b, <1>c, <1>d DEF HandleUpdate, HandleSystem, LoseJob
<1>6. ASSUME Tick PROVE Numbered'
  BY <1>6, <1>a, <1>b, <1>c, <1>d DEF Tick
<1>7. CASE UNCHANGED vars
  BY <1>7, <1>a, <1>b, <1>c, <1>d DEF vars
<1>8. QED
  BY <1>1, <1>2, <1>3, <1>4, <1>5, <1>6, <1>7 DEF Next, Request

(* A deleted row stays empty.                                              *)
LEMMA DeletedPreserved ==
  Parts /\ [Next]_vars => DeletedIsEmpty'
BY RowsStep DEF RowStep, KeepsRow, NewRow, DeletedIsEmpty, Stored

(* System messages are added with a new number.                            *)
LEMMA SystemGrows ==
  ASSUME Parts, [Next]_vars
  PROVE  /\ sent \in Nat /\ sent' \in {sent, sent + 1}
         /\ system \subseteq system' /\ system' \subseteq system \cup {sent + 1}
<1>0. sent \in Nat
  BY BoundsAssumption DEF Parts, TypeOK
<1> DEFINE G == /\ sent' \in {sent, sent + 1}
                /\ system \subseteq system' /\ system' \subseteq system \cup {sent + 1}
<1>1. ASSUME NEW c \in Callers, Request(c) PROVE G
  BY <1>1 DEF Request, Send, SendSystem, Insert, DropMessage, BeginEdit, BeginDelete,
     UpdateContent, SoftDelete, Enqueue, EnqueueFails, Fallback, Abandon
<1>2. ASSUME NEW j \in jobs, HandleUpdate(j) \/ HandleSystem(j) \/ LoseJob(j) PROVE G
  BY <1>2 DEF HandleUpdate, HandleSystem, LoseJob
<1>3. ASSUME Tick \/ UNCHANGED vars PROVE G
  BY <1>3 DEF Tick, vars
<1> HIDE DEF G
<1>4. G
  BY <1>1, <1>2, <1>3 DEF Next
<1>5. QED
  BY <1>0, <1>4 DEF G

(* A row is inserted by the request it belongs to, or is a system message. *)
LEMMA InsertedBy ==
  ASSUME Parts, [Next]_vars, NEW m \in Msgs, ~Stored(m), row'[m] # None
  PROVE  \/ m \in system
         \/ \E c \in Callers : pc[c] = "insert" /\ mine[c].msg = m /\ pc'[c] # "insert"
<1> DEFINE G == \/ m \in system
                \/ \E c \in Callers : pc[c] = "insert" /\ mine[c].msg = m /\ pc'[c] # "insert"
<1>0. /\ row \in [Msgs -> Rows \cup {None}] /\ row[m] = None
      /\ pc \in [Callers -> {"idle", "insert", "edit", "delete", "enqueue", "fallback"}]
  BY DEF Parts, TypeOK, Stored
<1>1. ASSUME row' = row PROVE FALSE
  BY <1>0, <1>1
<1>2. ASSUME NEW c \in Callers, Insert(c) \/ DropMessage(c) PROVE G
  <2>1. pc[c] = "insert" /\ pc'[c] # "insert"
    BY <1>2, <1>0 DEF Insert, DropMessage, Goto, Done
  <2>2. mine[c].msg = m
    BY <1>2, <1>0 DEF Insert, DropMessage, InsertRow
  <2>3. QED
    BY <2>1, <2>2
<1>3. ASSUME NEW c \in Callers, UpdateContent(c) \/ SoftDelete(c) PROVE FALSE
  <2>1. pc[c] \in {"edit", "delete"}
    BY <1>3 DEF UpdateContent, SoftDelete
  <2>2. mine[c].msg \in Msgs /\ Stored(mine[c].msg)
    BY <2>1, MineTyped DEF Parts, Calls, Call
  <2>3. mine[c].msg = m
    BY <1>3, <1>0, <2>2 DEF UpdateContent, SoftDelete
  <2>4. QED
    BY <2>2, <2>3
<1>4. ASSUME NEW c \in Callers, Fallback(c) PROVE G
  <2>1. pc[c] = "fallback" /\ mine[c].kind = "system" /\ mine[c].msg = m
    BY <1>4, <1>0 DEF Fallback, InsertRow
  <2>2. QED
    BY <2>1 DEF Parts, Calls, Call
<1>5. ASSUME NEW j \in jobs, HandleSystem(j) PROVE G
  <2>1. j.kind = "system" /\ j.msg = m
    BY <1>5, <1>0 DEF HandleSystem, InsertRow
  <2>2. QED
    BY <2>1 DEF Parts, SystemJobs
<1>6. ASSUME NEW c \in Callers,
             Send(c) \/ SendSystem(c) \/ Enqueue(c) \/ EnqueueFails(c) \/ Abandon(c)
      PROVE FALSE
  BY <1>6, <1>1 DEF Send, SendSystem, Enqueue, EnqueueFails, Abandon
<1>7. ASSUME NEW c \in Callers, NEW n \in Msgs, BeginEdit(c, n) \/ BeginDelete(c, n) PROVE FALSE
  BY <1>7, <1>1 DEF BeginEdit, BeginDelete
<1>8. ASSUME NEW j \in jobs, HandleUpdate(j) \/ LoseJob(j) PROVE FALSE
  BY <1>8, <1>1 DEF HandleUpdate, LoseJob
<1>9. ASSUME Tick \/ UNCHANGED vars PROVE FALSE
  BY <1>9, <1>1 DEF Tick, vars
<1> HIDE DEF G
<1>10. G
  BY <1>2, <1>3, <1>4, <1>5, <1>6, <1>7, <1>8, <1>9 DEF Next, Request
<1>11. QED
  BY <1>10 DEF G

(* A request that does nothing keeps what it knows.                        *)
LEMMA CallKept ==
  ASSUME Parts, [Next]_vars, NEW u \in Callers, pc'[u] = pc[u], mine'[u] = mine[u]
  PROVE  Call(u)'
<1>1. CASE pc[u] = "idle"
  BY <1>1 DEF Call
<1>2. CASE pc[u] # "idle"
  <2>1. mine[u].msg \in Msgs /\ Call(u)
    BY <1>2, MineTyped DEF Parts, Calls
  <2>2. Stored(mine[u].msg) => row'[mine[u].msg] # None
    BY <2>1, RowsStep DEF RowStep, KeepsRow
  <2>3. /\ sent \in Nat /\ sent' \in {sent, sent + 1}
        /\ system \subseteq system' /\ system' \subseteq system \cup {sent + 1}
    BY SystemGrows
  <2>4. mine[u].msg \in Nat
    BY <2>1, BoundsAssumption DEF Msgs
  <2>5. mine[u].msg <= sent => mine[u].msg <= sent' /\ mine[u].msg # sent + 1
    BY <2>3, <2>4
  <2>6. pc[u] = "insert" => row'[mine[u].msg] = None
    BY <2>1, InsertedBy DEF Call, Parts, Inserts, Stored
  <2>7. QED
    BY <2>1, <2>2, <2>3, <2>5, <2>6 DEF Call, Stored
<1>3. QED
  BY <1>1, <1>2

(* Each step leaves its request with what it has just learned.             *)
LEMMA CallsPreserved ==
  Parts /\ [Next]_vars => Calls'
<1> SUFFICES ASSUME Parts, [Next]_vars PROVE Calls'
  OBVIOUS
<1>n. sent \in Nat
  BY SystemGrows
<1>t. /\ pc \in [Callers -> {"idle", "insert", "edit", "delete", "enqueue", "fallback"}]
      /\ mine \in [Callers -> Jobs \cup {None}]
      /\ row \in [Msgs -> Rows \cup {None}]
  BY DEF Parts, TypeOK
<1>s. ASSUME pc' = pc, mine' = mine PROVE Calls'
  BY <1>s, CallKept DEF Calls
<1>o. ASSUME NEW c \in Callers, Call(c)',
             \A u \in Callers : u # c => pc'[u] = pc[u] /\ mine'[u] = mine[u]
      PROVE  Calls'
  BY <1>o, CallKept DEF Calls
<1>1. ASSUME NEW c \in Callers, Send(c) \/ SendSystem(c) PROVE Calls'
  <2>1. sent + 1 \in Msgs
    BY <1>1, <1>n, BoundsAssumption DEF Send, SendSystem, Msgs
  <2>2. row'[sent + 1] = None /\ sent + 1 \notin system
    BY <1>1, <1>n, <2>1 DEF Send, SendSystem, Parts, Numbered, Stored
  <2>3. sent' = sent + 1 /\ mine'[c].msg = sent + 1
    BY <1>1, <1>t DEF Send, SendSystem, Owes
  <2>4. ASSUME Send(c) PROVE Call(c)'
    <3>1. pc'[c] = "insert" /\ mine'[c].kind = "activity" /\ system' = system
      BY <2>4, <1>t DEF Send, Owes, Goto
    <3>2. sent + 1 <= sent'
      BY <2>3, <1>n
    <3>3. Call(c)'
      BY <2>2, <2>3, <3>1, <3>2 DEF Call, Stored
    <3>4. QED
      BY <3>3
  <2>5. ASSUME SendSystem(c) PROVE Call(c)'
    <3>1. pc'[c] = "enqueue" /\ mine'[c].kind = "system" /\ system' = system \cup {sent + 1}
      BY <2>5, <1>t DEF SendSystem, Owes, Goto
    <3>2. QED
      BY <2>3, <3>1 DEF Call
  <2>8. Call(c)'
    BY <1>1, <2>4, <2>5
  <2>9. \A u \in Callers : u # c => pc'[u] = pc[u] /\ mine'[u] = mine[u]
    BY <1>1, <1>t DEF Send, SendSystem, Goto, Owes, Done
  <2>10. QED
    BY <2>8, <2>9, <1>o
<1>2. ASSUME NEW c \in Callers, Insert(c) PROVE Calls'
  <2>1. /\ pc[c] = "insert" /\ pc'[c] = "enqueue" /\ mine' = mine
        /\ row' = [row EXCEPT ![mine[c].msg] = [at |-> clock, text |-> 0, deleted |-> FALSE]]
    BY <1>2, <1>t DEF Insert, InsertRow, Goto
  <2>2. mine[c].msg \in Msgs /\ mine[c].kind = "activity"
    BY <2>1, MineTyped DEF Parts, Calls, Call
  <2>3. row'[mine[c].msg] # None
    BY <2>1, <2>2, <1>t, NewTyped, NoneAssumption DEF Parts
  <2>8. Call(c)'
    BY <2>1, <2>2, <2>3 DEF Call, Stored
  <2>9. \A u \in Callers : u # c => pc'[u] = pc[u] /\ mine'[u] = mine[u]
    BY <1>2, <1>t DEF Insert, Goto, Owes, Done
  <2>10. QED
    BY <2>8, <2>9, <1>o
<1>3. ASSUME NEW c \in Callers, DropMessage(c) \/ Abandon(c) \/ Enqueue(c) PROVE Calls'
  <2>1. pc'[c] = "idle"
    BY <1>3, <1>t DEF DropMessage, Abandon, Enqueue, Done, Goto
  <2>8. Call(c)'
    BY <2>1 DEF Call
  <2>9. \A u \in Callers : u # c => pc'[u] = pc[u] /\ mine'[u] = mine[u]
    BY <1>3, <1>t DEF DropMessage, Abandon, Enqueue, Goto, Owes, Done
  <2>10. QED
    BY <2>8, <2>9, <1>o
<1>4. ASSUME NEW c \in Callers, UpdateContent(c) \/ SoftDelete(c) PROVE Calls'
  <2>1. pc'[c] = "idle" \/ (pc'[c] = "enqueue" /\ mine' = mine)
    BY <1>4, <1>t DEF UpdateContent, SoftDelete, Done, Goto
  <2>2. pc[c] \in {"edit", "delete"}
    BY <1>4 DEF UpdateContent, SoftDelete
  <2>3. mine[c].msg \in Msgs /\ Stored(mine[c].msg) /\ mine[c].kind = "refresh"
    BY <2>2, MineTyped DEF Parts, Calls, Call
  <2>4. row'[mine[c].msg] # None
    BY <2>3, RowsStep DEF RowStep, KeepsRow
  <2>8. Call(c)'
    BY <2>1, <2>3, <2>4 DEF Call, Stored
  <2>9. \A u \in Callers : u # c => pc'[u] = pc[u] /\ mine'[u] = mine[u]
    BY <1>4, <1>t DEF UpdateContent, SoftDelete, Goto, Owes, Done
  <2>10. QED
    BY <2>8, <2>9, <1>o
<1>5. ASSUME NEW c \in Callers, EnqueueFails(c) PROVE Calls'
  <2>1. pc[c] = "enqueue" /\ pc'[c] = "fallback" /\ mine' = mine /\ row' = row /\ system' = system
    BY <1>5, <1>t DEF EnqueueFails, Goto
  <2>8. Call(c)'
    BY <2>1 DEF Call, Parts, Calls, Stored
  <2>9. \A u \in Callers : u # c => pc'[u] = pc[u] /\ mine'[u] = mine[u]
    BY <1>5, <1>t DEF EnqueueFails, Goto, Owes, Done
  <2>10. QED
    BY <2>8, <2>9, <1>o
<1>6. ASSUME NEW c \in Callers, Fallback(c) PROVE Calls'
  <2>1. \/ pc'[c] = "idle"
        \/ /\ pc[c] = "fallback" /\ pc'[c] = "fallback"
           /\ mine'[c] = [kind |-> "activity", msg |-> mine[c].msg] /\ InsertRow(mine[c].msg)
    BY <1>6, <1>t DEF Fallback, Done, Goto, Owes
  <2>2. ASSUME pc'[c] = "idle" PROVE Call(c)'
    BY <2>2 DEF Call
  <2>3. ASSUME pc[c] = "fallback", pc'[c] = "fallback", InsertRow(mine[c].msg),
               mine'[c] = [kind |-> "activity", msg |-> mine[c].msg]
        PROVE  Call(c)'
    <3>1. mine[c].msg \in Msgs
      BY <2>3, MineTyped DEF Parts
    <3>2. row'[mine[c].msg] # None
      BY <2>3, <3>1, <1>t, NewTyped, NoneAssumption DEF Parts, InsertRow
    <3>3. QED
      BY <2>3, <3>2 DEF Call, Stored
  <2>8. Call(c)'
    BY <2>1, <2>2, <2>3
  <2>9. \A u \in Callers : u # c => pc'[u] = pc[u] /\ mine'[u] = mine[u]
    BY <1>6, <1>t DEF Fallback, Goto, Owes, Done
  <2>10. QED
    BY <2>8, <2>9, <1>o
<1>7. ASSUME NEW c \in Callers, NEW m \in Msgs, BeginEdit(c, m) \/ BeginDelete(c, m)
      PROVE Calls'
  <2>1. /\ pc'[c] \in {"edit", "delete"} /\ mine'[c] = [kind |-> "refresh", msg |-> m]
        /\ row' = row /\ Stored(m)
    BY <1>7, <1>t DEF BeginEdit, BeginDelete, Goto, Owes
  <2>8. Call(c)'
    BY <2>1 DEF Call, Stored
  <2>9. \A u \in Callers : u # c => pc'[u] = pc[u] /\ mine'[u] = mine[u]
    BY <1>7, <1>t DEF BeginEdit, BeginDelete, Goto, Owes, Done
  <2>10. QED
    BY <2>8, <2>9, <1>o
<1>8. ASSUME NEW j \in jobs, HandleUpdate(j) \/ HandleSystem(j) \/ LoseJob(j) PROVE Calls'
  BY <1>8, <1>s DEF HandleUpdate, HandleSystem, LoseJob
<1>9. ASSUME Tick PROVE Calls'
  BY <1>9, <1>s DEF Tick
<1>10. CASE UNCHANGED vars
  BY <1>10, <1>s DEF vars
<1>11. QED
  BY <1>1, <1>2, <1>3, <1>4, <1>5, <1>6, <1>7, <1>8, <1>9, <1>10 DEF Next, Request

(* Two requests never insert the same message: each begins with a number   *)
(* of its own.                                                             *)
LEMMA InsertsPreserved ==
  Parts /\ [Next]_vars => Inserts'
<1> SUFFICES ASSUME Parts, [Next]_vars PROVE Inserts'
  OBVIOUS
<1>t. /\ pc \in [Callers -> {"idle", "insert", "edit", "delete", "enqueue", "fallback"}]
      /\ mine \in [Callers -> Jobs \cup {None}]
  BY DEF Parts, TypeOK
<1>1. ASSUME NEW c \in Callers, Send(c) PROVE Inserts'
  <2>1. /\ mine'[c].msg = sent + 1
        /\ \A d \in Callers : d # c => pc'[d] = pc[d] /\ mine'[d] = mine[d]
    BY <1>1, <1>t DEF Send, Owes, Goto
  <2>2. \A d \in Callers : d # c /\ pc[d] = "insert" => mine[d].msg # sent + 1
    <3>1. sent \in Nat
      BY SystemGrows
    <3>2. \A d \in Callers : pc[d] = "insert" => mine[d].msg \in Nat /\ mine[d].msg <= sent
      BY MineTyped, BoundsAssumption DEF Parts, Calls, Call, Msgs
    <3>3. QED
      BY <3>1, <3>2
  <2>3. QED
    BY <2>1, <2>2 DEF Inserts, Parts
<1>2. ASSUME \A d \in Callers : pc'[d] = "insert" => pc[d] = "insert" /\ mine'[d] = mine[d]
      PROVE  Inserts'
  BY <1>2 DEF Inserts, Parts
<1>3. ASSUME NEW c \in Callers,
             \/ SendSystem(c) \/ Insert(c) \/ DropMessage(c) \/ UpdateContent(c)
             \/ SoftDelete(c) \/ Enqueue(c) \/ EnqueueFails(c) \/ Fallback(c) \/ Abandon(c)
      PROVE  Inserts'
  <2>1. /\ pc'[c] # "insert"
        /\ \A d \in Callers : d # c => pc'[d] = pc[d] /\ mine'[d] = mine[d]
    BY <1>3, <1>t DEF SendSystem, Insert, DropMessage, UpdateContent, SoftDelete, Enqueue,
       EnqueueFails, Fallback, Abandon, Goto, Owes, Done
  <2>2. QED
    BY <2>1, <1>2
<1>4. ASSUME NEW c \in Callers, NEW m \in Msgs, BeginEdit(c, m) \/ BeginDelete(c, m)
      PROVE  Inserts'
  <2>1. /\ pc'[c] # "insert"
        /\ \A d \in Callers : d # c => pc'[d] = pc[d] /\ mine'[d] = mine[d]
    BY <1>4, <1>t DEF BeginEdit, BeginDelete, Goto, Owes
  <2>2. QED
    BY <2>1, <1>2
<1>5. ASSUME NEW j \in jobs, HandleUpdate(j) \/ HandleSystem(j) \/ LoseJob(j) PROVE Inserts'
  BY <1>5, <1>2 DEF HandleUpdate, HandleSystem, LoseJob
<1>6. ASSUME Tick \/ UNCHANGED vars PROVE Inserts'
  BY <1>6, <1>2 DEF Tick, vars
<1>7. QED
  BY <1>1, <1>3, <1>4, <1>5, <1>6 DEF Next, Request

(* A job for a system message is about a system message.                   *)
LEMMA SystemJobsPreserved ==
  Parts /\ [Next]_vars => SystemJobs'
<1> SUFFICES ASSUME Parts, [Next]_vars PROVE SystemJobs'
  OBVIOUS
<1>0. system \subseteq system'
  BY SystemGrows
<1>1. ASSUME jobs' \subseteq jobs PROVE SystemJobs'
  BY <1>0, <1>1 DEF SystemJobs, Parts
<1>2. ASSUME NEW c \in Callers, Enqueue(c) \/ EnqueueFails(c) PROVE SystemJobs'
  <2>1. pc[c] = "enqueue" /\ jobs' \subseteq jobs \cup {mine[c]}
    BY <1>2 DEF Enqueue, EnqueueFails
  <2>2. mine[c].kind = "system" => mine[c].msg \in system
    BY <2>1 DEF Parts, Calls, Call
  <2>3. QED
    BY <1>0, <2>1, <2>2 DEF SystemJobs, Parts
<1>3. ASSUME NEW c \in Callers,
             \/ Send(c) \/ SendSystem(c) \/ Insert(c) \/ DropMessage(c)
             \/ UpdateContent(c) \/ SoftDelete(c) \/ Fallback(c) \/ Abandon(c)
      PROVE  SystemJobs'
  BY <1>3, <1>1 DEF Send, SendSystem, Insert, DropMessage, UpdateContent, SoftDelete, Fallback,
     Abandon
<1>4. ASSUME NEW c \in Callers, NEW m \in Msgs, BeginEdit(c, m) \/ BeginDelete(c, m)
      PROVE  SystemJobs'
  BY <1>4, <1>1 DEF BeginEdit, BeginDelete
<1>5. ASSUME NEW j \in jobs, HandleUpdate(j) \/ HandleSystem(j) \/ LoseJob(j)
      PROVE  SystemJobs'
  BY <1>5, <1>1 DEF HandleUpdate, HandleSystem, LoseJob, Acknowledged
<1>6. ASSUME Tick \/ UNCHANGED vars PROVE SystemJobs'
  BY <1>6, <1>1 DEF Tick, vars
<1>7. QED
  BY <1>2, <1>3, <1>4, <1>5, <1>6 DEF Next, Request

(* Parts is inductive.                                                     *)
LEMMA PartsPreserved ==
  Parts /\ [Next]_vars => Parts'
BY TypePreserved, NumberedPreserved, DeletedPreserved, CallsPreserved, InsertsPreserved,
   SystemJobsPreserved DEF Parts

-----------------------------------------------------------------------------
(* The order of the history.                                               *)

(* Before is a strict total order of the stored messages.                  *)
LEMMA BeforeOrder ==
  ASSUME TypeOK, NEW m \in Msgs, NEW n \in Msgs, Stored(m), Stored(n)
  PROVE  /\ ~(Before(m, n) /\ Before(n, m))
         /\ Before(m, n) \/ m = n \/ Before(n, m)
<1>1. row[m].at \in Nat /\ m \in Nat /\ row[n].at \in Nat /\ n \in Nat
  BY RowTyped, BoundsAssumption DEF Msgs
<1>2. QED
  BY <1>1 DEF Before

(* It is transitive.                                                       *)
LEMMA BeforeTransitive ==
  ASSUME TypeOK, NEW k \in Msgs, NEW m \in Msgs, NEW n \in Msgs,
         Stored(k), Stored(m), Stored(n), ~Before(m, k), Before(m, n)
  PROVE  Before(k, n)
<1>1. /\ row[k].at \in Nat /\ k \in Nat /\ row[m].at \in Nat /\ m \in Nat
      /\ row[n].at \in Nat /\ n \in Nat
  BY RowTyped, BoundsAssumption DEF Msgs
<1>2. QED
  BY <1>1 DEF Before

(* What is owed for a message stays owed until it is done, by a request or *)
(* by the worker.                                                          *)
LEMMA OwedKept ==
  ASSUME Parts, [Next]_vars, NEW m \in Msgs, NEW kinds \in SUBSET {"activity", "refresh"},
         Owed(m, kinds)
  PROVE  \/ Owed(m, kinds)'
         \/ row' = row /\ Promote(m)
         \/ row' = row /\ "refresh" \in kinds /\ Refresh(m)
<1> DEFINE Worked == \/ row' = row /\ Promote(m)
                     \/ row' = row /\ "refresh" \in kinds /\ Refresh(m)
           G == Owed(m, kinds)' \/ Worked
<1>t. /\ pc \in [Callers -> {"idle", "insert", "edit", "delete", "enqueue", "fallback"}]
      /\ mine \in [Callers -> Jobs \cup {None}]
  BY DEF Parts, TypeOK
<1>1. ASSUME m \in lost' PROVE G
  BY <1>1 DEF Owed
<1>2. lost \subseteq lost'
  <2>1. ASSUME NEW c \in Callers, Request(c) PROVE lost \subseteq lost'
    BY <2>1 DEF Request, Send, SendSystem, Insert, DropMessage, BeginEdit, BeginDelete,
       UpdateContent, SoftDelete, Enqueue, EnqueueFails, Fallback, Abandon
  <2>2. ASSUME NEW j \in jobs, HandleUpdate(j) \/ HandleSystem(j) \/ LoseJob(j)
        PROVE  lost \subseteq lost'
    BY <2>2 DEF HandleUpdate, HandleSystem, LoseJob
  <2>3. ASSUME Tick \/ UNCHANGED vars PROVE lost \subseteq lost'
    BY <2>3 DEF Tick, vars
  <2>4. QED
    BY <2>1, <2>2, <2>3 DEF Next
<1>3. ASSUME NEW j \in jobs, j.msg = m, j.kind \in kinds \cup {"system"} PROVE G
  <2>1. ASSUME j \in jobs' PROVE G
    BY <1>3, <2>1 DEF Owed
  <2>2. ASSUME NEW c \in Callers, Request(c) PROVE j \in jobs'
    BY <2>2 DEF Request, Send, SendSystem, Insert, DropMessage, BeginEdit, BeginDelete,
       UpdateContent, SoftDelete, Enqueue, EnqueueFails, Fallback, Abandon
  <2>3. ASSUME NEW i \in jobs, HandleUpdate(i) \/ HandleSystem(i) \/ LoseJob(i), i # j
        PROVE  j \in jobs'
    BY <2>3 DEF HandleUpdate, HandleSystem, LoseJob, Acknowledged
  <2>4. ASSUME HandleUpdate(j) PROVE Worked
    BY <1>3, <2>4 DEF HandleUpdate, Apply
  <2>5. ASSUME HandleSystem(j), j \notin jobs' PROVE Worked
    BY <1>3, <2>5 DEF HandleSystem
  <2>6. ASSUME LoseJob(j) PROVE m \in lost'
    BY <1>3, <2>6 DEF LoseJob
  <2>7. ASSUME Tick \/ UNCHANGED vars PROVE j \in jobs'
    BY <2>7 DEF Tick, vars
  <2> HIDE DEF Worked
  <2>8. j \in jobs' \/ Worked \/ m \in lost'
    BY <2>2, <2>3, <2>4, <2>5, <2>6, <2>7 DEF Next
  <2>9. QED
    BY <2>1, <2>8, <1>1
<1>4. ASSUME NEW c \in Callers, pc[c] \in {"enqueue", "fallback"}, mine[c].msg = m,
             mine[c].kind \in kinds
      PROVE  G
  <2>1. ASSUME pc'[c] \in {"enqueue", "fallback"}, mine'[c] = mine[c] PROVE G
    BY <1>4, <2>1 DEF Owed
  <2>2. ASSUME NEW d \in Callers, Request(d), d # c PROVE pc'[c] = pc[c] /\ mine'[c] = mine[c]
    BY <2>2, <1>t DEF Request, Send, SendSystem, Insert, DropMessage, BeginEdit, BeginDelete,
       UpdateContent, SoftDelete, Enqueue, EnqueueFails, Fallback, Abandon, Goto, Owes, Done
  <2>3. ASSUME Request(c), pc[c] = "enqueue"
        PROVE  Enqueue(c) \/ EnqueueFails(c) \/ Abandon(c)
    BY <2>3 DEF Request, Send, SendSystem, Insert, DropMessage, BeginEdit, BeginDelete,
       UpdateContent, SoftDelete, Fallback
  <2>4. ASSUME Request(c), pc[c] = "fallback" PROVE Fallback(c) \/ Abandon(c)
    BY <2>4 DEF Request, Send, SendSystem, Insert, DropMessage, BeginEdit, BeginDelete,
       UpdateContent, SoftDelete, Enqueue, EnqueueFails
  <2>5. ASSUME Enqueue(c) PROVE G
    <3>1. mine[c] \in jobs'
      BY <2>5 DEF Enqueue
    <3>2. QED
      BY <1>4, <3>1 DEF Owed
  <2>6. ASSUME EnqueueFails(c) PROVE G
    <3>1. pc'[c] = "fallback" /\ mine'[c] = mine[c]
      BY <2>6, <1>t DEF EnqueueFails, Goto
    <3>2. QED
      BY <2>1, <3>1
  <2>7. ASSUME Abandon(c) PROVE G
    <3>1. m \in lost'
      BY <1>4, <2>7 DEF Abandon
    <3>2. QED
      BY <1>1, <3>1
  <2>8. ASSUME Fallback(c) PROVE G
    <3>1. row' = row /\ Apply(mine[c])
      BY <1>4, <2>8 DEF Fallback
    <3>2. Worked
      BY <1>4, <3>1 DEF Apply
    <3>3. QED
      BY <3>2
  <2>9. ASSUME NEW j \in jobs, HandleUpdate(j) \/ HandleSystem(j) \/ LoseJob(j)
        PROVE  pc'[c] = pc[c] /\ mine'[c] = mine[c]
    BY <2>9 DEF HandleUpdate, HandleSystem, LoseJob
  <2>10. ASSUME Tick \/ UNCHANGED vars PROVE pc'[c] = pc[c] /\ mine'[c] = mine[c]
    BY <2>10 DEF Tick, vars
  <2>11. ASSUME Request(c) PROVE G
    <3> HIDE DEF G
    <3>1. QED
      BY <1>4, <2>3, <2>4, <2>5, <2>6, <2>7, <2>8, <2>11
  <2>12. ASSUME pc'[c] = pc[c], mine'[c] = mine[c] PROVE G
    <3>1. pc'[c] \in {"enqueue", "fallback"}
      BY <1>4, <2>12
    <3> HIDE DEF G
    <3>2. QED
      BY <2>1, <2>12, <3>1
  <2> HIDE DEF G
  <2>13. QED
    BY <2>2, <2>9, <2>10, <2>11, <2>12 DEF Next
<1> HIDE DEF G
<1>5. G
  BY <1>1, <1>2, <1>3, <1>4 DEF Owed
<1>6. QED
  BY <1>5 DEF G

(* The preview is behind its message only while somebody owes it a job.    *)
LEMMA StalePreserved ==
  Parts /\ StaleIsOwed /\ [Next]_vars => StaleIsOwed'
<1> DEFINE K == {"activity", "refresh"}
<1> SUFFICES ASSUME Parts, StaleIsOwed, [Next]_vars, last' # None, shown' # Preview(last)'
             PROVE  Owed(last, K)'
  BY DEF StaleIsOwed
<1>1. last' = last /\ shown' = shown
  <2>1. ASSUME NEW m \in Msgs, row' = row, last' = m, shown' = Preview(m) PROVE FALSE
    BY <2>1 DEF Preview
  <2>2. QED
    BY <2>1, ConvSteps DEF ConvStep
<1>2. last \in Msgs /\ Stored(last)
  BY <1>1 DEF Parts, TypeOK
<1>3. PICK m \in Msgs : m = last
  BY <1>2
<1>4. KeepsRow(m)
  BY <1>2, <1>3, RowsStep DEF RowStep
<1>5. CASE row'[m] # row[m]
  <2>1. PICK c \in Callers : pc'[c] = "enqueue" /\ mine'[c].msg = m /\ mine'[c].kind = "refresh"
    BY <1>4, <1>5 DEF KeepsRow
  <2>2. Owed(m, K)'
    BY <2>1 DEF Owed
  <2>3. QED
    BY <2>2, <1>1, <1>3 DEF Owed
<1>6. CASE row'[m] = row[m]
  <2>1. Preview(last)' = Preview(m)
    BY <1>1, <1>3, <1>6 DEF Preview
  <2>2. shown # Preview(m)
    BY <1>1, <2>1
  <2>3. Owed(m, K)
    BY <1>1, <1>3, <2>2 DEF StaleIsOwed
  <2>4. ~Promote(m)
    <3>1. ~Before(m, last)
      BY <1>2, <1>3, BeforeOrder DEF Parts
    <3>2. QED
      BY <1>1, <2>2, <3>1 DEF Promote
  <2>5. ~Refresh(m)
    BY <1>1, <1>3, <2>2 DEF Refresh
  <2>6. Owed(m, K)'
    BY <2>3, <2>4, <2>5, OwedKept
  <2>7. QED
    BY <2>6, <1>1, <1>3 DEF Owed
<1>7. QED
  BY <1>5, <1>6

(* A message after the one shown is owed its place in the preview.         *)
LEMMA LatestPreserved ==
  Parts /\ LatestIsOwed /\ [Next]_vars => LatestIsOwed'
<1> DEFINE K == {"activity"}
<1> SUFFICES ASSUME Parts, LatestIsOwed, [Next]_vars, NEW m \in Msgs,
                    row'[m] # None, m \notin dropped', last' = None \/ Before(last, m)'
             PROVE  Owed(m, K)'
  BY DEF LatestIsOwed, Stored
<1>1. CASE ~Stored(m)
  BY <1>1, RowsStep DEF RowStep, NewRow
<1>2. CASE Stored(m)
  <2>1. dropped \subseteq dropped'
    <3>1. ASSUME NEW c \in Callers, Request(c) PROVE dropped \subseteq dropped'
      BY <3>1 DEF Request, Send, SendSystem, Insert, DropMessage, BeginEdit, BeginDelete,
         UpdateContent, SoftDelete, Enqueue, EnqueueFails, Fallback, Abandon
    <3>2. ASSUME NEW j \in jobs, HandleUpdate(j) \/ HandleSystem(j) \/ LoseJob(j)
          PROVE  dropped \subseteq dropped'
      BY <3>2 DEF HandleUpdate, HandleSystem, LoseJob
    <3>3. ASSUME Tick \/ UNCHANGED vars PROVE dropped \subseteq dropped'
      BY <3>3 DEF Tick, vars
    <3>4. QED
      BY <3>1, <3>2, <3>3 DEF Next
  <2>2. row'[m].at = row[m].at
    BY <1>2, RowsStep DEF RowStep, KeepsRow
  <2>3. last # None => last \in Msgs /\ Stored(last) /\ row'[last].at = row[last].at
    BY RowsStep DEF RowStep, KeepsRow, Parts, TypeOK
  <2>4. last = None \/ Before(last, m)
    <3>1. CASE last' = last
      BY <2>2, <2>3, <3>1 DEF Before
    <3>2. ASSUME NEW n \in Msgs, Stored(n), row' = row, last' = n, last # None, ~Before(n, last)
          PROVE  Before(last, m)
      <4>1. Before(n, m)
        BY <3>2, ValuesAssumption DEF Before, Msgs
      <4>2. QED
        BY <4>1, <3>2, <2>3, <1>2, BeforeTransitive DEF Parts
    <3>3. QED
      BY <3>1, <3>2, ConvSteps DEF ConvStep
  <2>5. Owed(m, K)
    BY <1>2, <2>1, <2>4 DEF LatestIsOwed
  <2>6. ASSUME row' = row, Promote(m) PROVE FALSE
    <3>1. last' = m \/ (last' = last /\ last # None /\ Before(m, last))
      BY <2>6 DEF Promote, conv
    <3>2. last' # None
      BY <3>1, ValuesAssumption DEF Msgs
    <3>3. CASE last' = m
      <4>1. Before(m, m)
        BY <2>6, <3>2, <3>3 DEF Before
      <4>2. QED
        BY <4>1, <1>2, BeforeIrreflexive DEF Parts
    <3>4. CASE last' = last /\ last # None /\ Before(m, last)
      <4>1. Before(last, m)
        BY <3>4, <2>4
      <4>2. QED
        BY <3>4, <4>1, <2>3, <1>2, BeforeOrder DEF Parts
    <3>5. QED
      BY <3>1, <3>3, <3>4
  <2>7. QED
    BY <2>5, <2>6, OwedKept
<1>3. QED
  BY <1>1, <1>2

-----------------------------------------------------------------------------
(* An empty conversation: the invariant holds at the start.                *)
LEMMA InitInvariant == Init => IInv
<1> SUFFICES ASSUME Init PROVE IInv
  OBVIOUS
<1>1. TypeOK
  BY BoundsAssumption DEF Init, TypeOK, Texts, Jobs
<1>2. Numbered /\ DeletedIsEmpty /\ LatestIsOwed
  BY DEF Init, Numbered, DeletedIsEmpty, LatestIsOwed, Stored
<1>3. Calls /\ Inserts /\ SystemJobs /\ StaleIsOwed
  BY DEF Init, Calls, Call, Inserts, SystemJobs, StaleIsOwed
<1>4. QED
  BY <1>1, <1>2, <1>3 DEF IInv, Parts

(* IInv is inductive: its parts together.                                  *)
LEMMA NextInvariant == IInv /\ [Next]_vars => IInv'
BY PartsPreserved, StalePreserved, LatestPreserved DEF IInv

(* IInv holds of every behaviour.                                          *)
LEMMA Invariance == Spec => []IInv
<1>1. QED
  BY InitInvariant, NextInvariant, PTL DEF Spec

(* Who owes the preview its work has it pending.                           *)
LEMMA OwedIsPending ==
  ASSUME NEW m, NEW kinds, Owed(m, kinds)
  PROVE  Pending(m, kinds \cup {"system"})
BY DEF Owed, Pending

(* Every variable of the conversation keeps its type, and the preview and  *)
(* the jobs for it are about stored messages (room.sql:96-115).            *)
THEOREM Types == Spec => []TypeOK
<1>1. IInv => TypeOK
  BY DEF IInv, Parts
<1>2. QED
  BY <1>1, Invariance, PTL

(* The preview shows the current content of its message or a job for it is *)
(* still to come, for any number of requests, messages and edits and any   *)
(* order of the jobs (room.sql:106, seed/verify.go:57).                    *)
THEOREM StalePending == Spec => []StaleIsPending
<1>1. IInv => StaleIsPending
  <2>1. {"activity", "refresh"} \cup {"system"} = {"activity", "refresh", "system"}
    OBVIOUS
  <2>2. QED
    BY <2>1, OwedIsPending DEF IInv, StaleIsOwed, StaleIsPending
<1>2. QED
  BY <1>1, Invariance, PTL

(* No message in the history comes after the one in the preview without a  *)
(* job for it to come or a failed send (room.sql:106-107).                 *)
THEOREM LatestShown == Spec => []LatestIsShown
<1>1. IInv => LatestIsShown
  <2>1. {"activity"} \cup {"system"} = {"activity", "system"}
    OBVIOUS
  <2>2. QED
    BY <2>1, OwedIsPending DEF IInv, LatestIsOwed, LatestIsShown
<1>2. QED
  BY <1>1, Invariance, PTL

(* The preview never goes back to an older message, in any order of any    *)
(* jobs (room.sql:107).                                                    *)
THEOREM OnlyNewer == Spec => NeverOlder
<1>1. IInv /\ [Next]_vars => [last # None /\ last' # last => Before(last, last')]_vars
  <2> SUFFICES ASSUME IInv, [Next]_vars, last # None, last' # last PROVE Before(last, last')
    OBVIOUS
  <2>1. Parts
    BY DEF IInv
  <2>2. PICK m \in Msgs : Stored(m) /\ last' = m /\ ~Before(m, last)
    BY <2>1, ConvSteps DEF ConvStep
  <2>3. last \in Msgs /\ Stored(last)
    BY <2>1 DEF Parts, TypeOK
  <2>4. TypeOK
    BY <2>1 DEF Parts
  <2>5. Before(last, m)
    BY <2>2, <2>3, <2>4, BeforeOrder
  <2>6. QED
    BY <2>2, <2>5
<1>2. QED
  BY <1>1, Invariance, PTL DEF Spec, NeverOlder

(* A deleted message stays deleted and empty, whatever edits, insertions   *)
(* and jobs are under way (message.sql:86-97).                             *)
THEOREM DeletedStays == Spec => DeletedForGood
<1>1. IInv /\ [Next]_vars =>
        [\A m \in Msgs : Stored(m) /\ row[m].deleted =>
             row'[m].deleted /\ row'[m].text = None]_vars
  BY RowsStep DEF IInv, RowStep, KeepsRow
<1>2. QED
  BY <1>1, Invariance, PTL DEF Spec, DeletedForGood
=============================================================================
