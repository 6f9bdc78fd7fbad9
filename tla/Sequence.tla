------------------------------ MODULE Sequence ------------------------------
(***************************************************************************)
(* Message numbers of one conversation: SequenceStore.Next counts in the   *)
(* Redis key seq:<id> and, when the key is missing, starts again from the  *)
(* largest number in the messages table, under the lock look:seq_init:<id> *)
(* which expires after five seconds and has no owner.  The callers are     *)
(* requests of any number of API processes; each inserts the message it    *)
(* numbered, at once or through a job.  Numbers are far from 2^63.         *)
(***************************************************************************)
EXTENDS Naturals

CONSTANTS Callers,
          MaxCalls,   \* bound: calls of Next
          MaxLosses,  \* bound: times Redis loses the counter
          None

ASSUME NoneAssumption == None \notin Nat

VARIABLES
    counter,   \* seq:<id>, None when the key is missing
    lock,      \* look:seq_init:<id> exists
    rows,      \* the messages: their call and their number
    calls,     \* calls of Next so far
    losses,
    pc,        \* where each caller is
    acquired,  \* the caller took the lock: it will DEL it when Next returns
    number,    \* the maximum it read, then the number it was given
    call,      \* its call, which names the message
    floor,     \* numbers committed before its call began
    disturbed  \* a cold start was not alone (see ColdOverlap)

vars == <<counter, lock, rows, calls, losses, pc, acquired, number, call, floor, disturbed>>

Init ==
    /\ counter = None /\ lock = FALSE
    /\ rows = {} /\ calls = 0 /\ losses = 0
    /\ pc = [p \in Callers |-> "idle"]
    /\ acquired = [p \in Callers |-> FALSE]
    /\ number = [p \in Callers |-> None]
    /\ call = [p \in Callers |-> 0]
    /\ floor = [p \in Callers |-> {}]
    /\ disturbed = FALSE

Goto(p, step) == pc' = [pc EXCEPT ![p] = step]

Seqs == {r.seq : r \in rows}

Begin(p) ==
    /\ pc[p] = "idle" /\ calls < MaxCalls
    /\ calls' = calls + 1
    /\ call' = [call EXCEPT ![p] = calls + 1]
    /\ floor' = [floor EXCEPT ![p] = Seqs]
    /\ Goto(p, "exists")
    /\ UNCHANGED <<counter, lock, rows, losses, acquired, number>>

(* EXISTS seq                                                              *)
CheckKey(p) ==
    /\ pc[p] = "exists"
    /\ Goto(p, IF counter = None THEN "setnx" ELSE "incr")
    /\ UNCHANGED <<counter, lock, rows, calls, losses, acquired, number, call, floor>>

(* SETNX look 1 EX 5                                                       *)
TakeLock(p) ==
    /\ pc[p] = "setnx"
    /\ IF lock THEN Goto(p, "wait") /\ UNCHANGED <<lock, acquired>>
       ELSE /\ lock' = TRUE
            /\ acquired' = [acquired EXCEPT ![p] = TRUE]
            /\ Goto(p, "max")
    /\ UNCHANGED <<counter, rows, calls, losses, number, call, floor>>

(* Ten polls of EXISTS: the caller goes on when the key is there, and when *)
(* it is not.                                                              *)
WaitForKey(p) ==
    /\ pc[p] = "wait"
    /\ Goto(p, "incr")
    /\ UNCHANGED <<counter, lock, rows, calls, losses, acquired, number, call, floor>>

(* Variant: the number of some message instead of the largest.             *)
ReadAnySeq(p) ==
    /\ pc[p] = "max"
    /\ \E n \in {0} \cup Seqs : number' = [number EXCEPT ![p] = n]
    /\ Goto(p, "set")
    /\ UNCHANGED <<counter, lock, rows, calls, losses, acquired, call, floor>>

(* GetMaxSeq: COALESCE(MAX(seq), 0).                                       *)
ReadMax(p) ==
    /\ pc[p] = "max"
    /\ \E n \in {0} \cup Seqs :
           /\ \A m \in Seqs : m <= n
           /\ number' = [number EXCEPT ![p] = n]
    /\ Goto(p, "set")
    /\ UNCHANGED <<counter, lock, rows, calls, losses, acquired, call, floor>>

(* SET seq max                                                             *)
SetCounter(p) ==
    /\ pc[p] = "set"
    /\ counter' = number[p]
    /\ Goto(p, "incr")
    /\ UNCHANGED <<lock, rows, calls, losses, acquired, number, call, floor>>

Next1(n) == IF n = None THEN 1 ELSE n + 1

(* Variant: the caller takes the value the counter had.                    *)
IncrReturnsOld(p) ==
    /\ pc[p] = "incr"
    /\ counter' = Next1(counter)
    /\ number' = [number EXCEPT ![p] = IF counter = None THEN 0 ELSE counter]
    /\ Goto(p, IF acquired[p] THEN "release" ELSE "insert")
    /\ UNCHANGED <<lock, rows, calls, losses, acquired, call, floor>>

(* INCR seq                                                                *)
Incr(p) ==
    /\ pc[p] = "incr"
    /\ counter' = Next1(counter)
    /\ number' = [number EXCEPT ![p] = Next1(counter)]
    /\ Goto(p, IF acquired[p] THEN "release" ELSE "insert")
    /\ UNCHANGED <<lock, rows, calls, losses, acquired, call, floor>>

(* Variant: the caller forgets that it released the lock.                  *)
ReleaseAgain(p) ==
    /\ pc[p] = "release"
    /\ lock' = FALSE
    /\ Goto(p, "insert")
    /\ UNCHANGED <<counter, rows, calls, losses, acquired, number, call, floor>>

(* DEL look, deferred to the end of Next, whoever holds the lock by now.   *)
Release(p) ==
    /\ pc[p] = "release"
    /\ lock' = FALSE
    /\ acquired' = [acquired EXCEPT ![p] = FALSE]
    /\ Goto(p, "insert")
    /\ UNCHANGED <<counter, rows, calls, losses, number, call, floor>>

Reset(p) ==
    /\ Goto(p, "idle")
    /\ acquired' = [acquired EXCEPT ![p] = FALSE]
    /\ number' = [number EXCEPT ![p] = None]
    /\ call' = [call EXCEPT ![p] = 0]
    /\ floor' = [floor EXCEPT ![p] = {}]

(* InsertMessage or InsertSystemMessage.                                   *)
Insert(p) ==
    /\ pc[p] = "insert"
    /\ rows' = rows \cup {[call |-> call[p], seq |-> number[p]]}
    /\ Reset(p)
    /\ UNCHANGED <<counter, lock, calls, losses>>

(* The call fails, or its process dies, before or after its next command   *)
(* ran; the deferred DEL, under the same context, may not run.             *)
Stop(p) ==
    /\ pc[p] # "idle"
    /\ \/ acquired[p] /\ lock' = FALSE
       \/ UNCHANGED lock
    /\ Reset(p)
    /\ UNCHANGED <<counter, rows, calls, losses>>

(* Redis loses the counter: an eviction, a flush, a restart.               *)
LoseCounter ==
    /\ counter # None /\ losses < MaxLosses
    /\ losses' = losses + 1
    /\ counter' = None
    /\ UNCHANGED <<lock, rows, calls, pc, acquired, number, call, floor>>

ExpireLock ==
    /\ lock
    /\ lock' = FALSE
    /\ UNCHANGED <<counter, rows, calls, losses, pc, acquired, number, call, floor>>

CallerStep(p) ==
    \/ Begin(p) \/ CheckKey(p) \/ TakeLock(p) \/ WaitForKey(p) \/ ReadMax(p)
    \/ SetCounter(p) \/ Incr(p) \/ Release(p) \/ Insert(p) \/ Stop(p)

(* A caller is starting the counter while another call is in progress, or  *)
(* is about to count on a missing key: it gave up waiting for the lock, or *)
(* the key was lost since it looked.                                       *)
ColdOverlap ==
    \/ \E p \in Callers : /\ pc[p] \in {"setnx", "wait", "max", "set"}
                          /\ \E q \in Callers \ {p} : pc[q] # "idle"
    \/ \E p \in Callers : pc[p] = "incr" /\ counter = None

Next ==
    /\ \/ \E p \in Callers : CallerStep(p)
       \/ LoseCounter
       \/ ExpireLock
    /\ disturbed' = (disturbed \/ ColdOverlap')

Spec == Init /\ [][Next]_vars

-----------------------------------------------------------------------------
(* Type invariant.                                                         *)
TypeOK ==
    /\ counter \in Nat \cup {None} /\ lock \in BOOLEAN
    /\ rows \subseteq [call : Nat, seq : Nat]
    /\ calls \in Nat /\ losses \in Nat
    /\ pc \in [Callers -> {"idle", "exists", "setnx", "wait", "max", "set", "incr",
                           "release", "insert"}]
    /\ acquired \in [Callers -> BOOLEAN]
    /\ number \in [Callers -> Nat \cup {None}]
    /\ call \in [Callers -> Nat]
    /\ floor \in [Callers -> SUBSET Nat]
    /\ disturbed \in BOOLEAN
    /\ \A p \in Callers : pc[p] \in {"set", "release", "insert"} => number[p] \in Nat
    /\ \A p \in Callers : acquired[p] => pc[p] \in {"max", "set", "incr", "release"}

(* No two messages of the conversation have the same number                *)
(* (seed/verify.go:54 checks it, "message sequence collisions").           *)
UniqueSeqs == \A r, s \in rows : r.seq = s.seq => r = s

(* What the code does guarantee: every duplicate can be traced back to a   *)
(* cold start that was not alone.  A counter that Redis lost, calls that   *)
(* fail, their left-over locks and numbers that were never used do not     *)
(* repeat a number by themselves (sequence.go:24-74).                      *)
WarmSeqsUnique == disturbed \/ UniqueSeqs

(* A message is numbered above every message that was there before it was  *)
(* sent, so the history keeps its order, under the same condition.         *)
NumberedInOrder ==
    ~disturbed => \A p \in Callers :
        pc[p] \in {"release", "insert"} => \A n \in floor[p] : n < number[p]
=============================================================================
