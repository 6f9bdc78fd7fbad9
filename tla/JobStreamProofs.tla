---------------------------- MODULE JobStreamProofs ----------------------------
(***************************************************************************)
(* NothingVanishes and DeadAfterRetries hold for all jobs, workers,        *)
(* retries, entries and faults.                                            *)
(*                                                                         *)
(* The argument.  What a goroutine does after the handler and after the    *)
(* XACK rests on what it learned before them (Holds), and other goroutines *)
(* with the same entry cannot take that back: jobs stay handled, failures  *)
(* are never forgotten, and an entry keeps its job and attempt.  A retry   *)
(* with attempt n is only made after n failures of its job (Attempted).    *)
(***************************************************************************)
EXTENDS JobStream, FiniteSetTheorems, TLAPS

(* Goroutines only hold entries that exist; the first next entries do.     *)
Known == \A t \in Threads : \A e \in batch[t] : place[e] # "none"
Fresh == \A e \in Entries : place[e] = "none" <=> e > next

(* An entry's attempt does not run ahead of the failures of its job.       *)
Attempted ==
    \A e \in Entries : place[e] # "none" => info[e].attempt <= failures[info[e].job]

(* What is known of the entry a goroutine is processing.                   *)
Holds(t) ==
    /\ pc[t] = "handled" => JobOf(t) \in handled
    /\ pc[t] \in {"failed", "retry", "dead"} => info[Current(t)].attempt < failures[JobOf(t)]
    /\ pc[t] = "retry" => ~LastAttempt(t)
    /\ pc[t] = "dead" => LastAttempt(t)

AllHold == \A t \in Threads : Holds(t)

IInv ==
    /\ TypeOK /\ Known /\ Fresh /\ Attempted /\ AllHold
    /\ NothingVanishes /\ DeadAfterRetries

-----------------------------------------------------------------------------
(* The entry being processed.                                              *)

(* A set of naturals that is not empty has a least element.                *)
LEMMA NatMin ==
  ASSUME NEW S \in SUBSET Nat, S # {}
  PROVE  \E m \in S : \A n \in S : m <= n
<1> DEFINE T == {0 .. k : k \in S}
<1>1. T \subseteq FiniteSubsetsOf(Nat)
  <2>1. \A k \in S : IsFiniteSet(0 .. k)
    BY FS_Interval
  <2>2. \A k \in S : 0 .. k \in SUBSET Nat
    OBVIOUS
  <2>3. QED BY <2>1, <2>2 DEF FiniteSubsetsOf
<1>2. \E X \in T : \A Y \in T : <<Y, X>> \notin StrictSubsetOrdering(Nat)
  <2> HIDE DEF T
  <2>1. IsWellFoundedOn(StrictSubsetOrdering(Nat), FiniteSubsetsOf(Nat))
    BY FS_StrictSubsetOrderingWellFounded
  <2>2. T # {}
    BY DEF T
  <2>3. QED BY <1>1, <2>1, <2>2, WFMin
<1>3. PICK m \in S : \A k \in S : <<0 .. k, 0 .. m>> \notin StrictSubsetOrdering(Nat)
  BY <1>2
<1>4. \A k \in S : k < m => <<0 .. k, 0 .. m>> \in StrictSubsetOrdering(Nat)
  <2> SUFFICES ASSUME NEW k \in S, k < m PROVE <<0 .. k, 0 .. m>> \in StrictSubsetOrdering(Nat)
    OBVIOUS
  <2>1. 0 .. k \subseteq 0 .. m OBVIOUS
  <2>2. m \in 0 .. m /\ m \notin 0 .. k OBVIOUS
  <2>3. 0 .. k \in SUBSET Nat /\ 0 .. m \in SUBSET Nat OBVIOUS
  <2>4. QED BY <2>1, <2>2, <2>3 DEF StrictSubsetOrdering
<1>5. \A k \in S : m <= k
  <2> HIDE DEF T
  <2>1. \A k \in S : ~ (k < m)
    BY <1>3, <1>4
  <2>2. S \subseteq Nat
    OBVIOUS
  <2>3. QED BY <2>1, <2>2
<1>6. QED BY <1>5

(* A goroutine processes an entry of its batch.                            *)
LEMMA CurrentInBatch ==
  ASSUME TypeOK, NEW t \in Threads, batch[t] # {}
  PROVE  Current(t) \in batch[t] /\ Current(t) \in Entries
<1>1. batch[t] \subseteq Entries
  BY DEF TypeOK
<1>2. batch[t] \in SUBSET Nat
  BY <1>1, BoundsAssumption DEF Entries
<1>3. \E e \in batch[t] : \A f \in batch[t] : e <= f
  BY <1>2, NatMin
<1>4. QED
  BY <1>1, <1>3 DEF Current

(* That entry exists and names a job and an attempt.                       *)
LEMMA CurrentKnown ==
  ASSUME TypeOK, Known, NEW t \in Threads, batch[t] # {}
  PROVE  /\ Current(t) \in batch[t] /\ Current(t) \in Entries
         /\ place[Current(t)] # "none"
         /\ info[Current(t)] \in [job : Jobs, attempt : 0..MaxRetries]
         /\ JobOf(t) \in Jobs /\ info[Current(t)].attempt \in Nat
<1>1. Current(t) \in batch[t] /\ Current(t) \in Entries
  BY CurrentInBatch
<1>2. place[Current(t)] # "none"
  BY <1>1 DEF Known
<1>3. info[Current(t)] # None
  BY <1>1, <1>2 DEF TypeOK
<1>4. info[Current(t)] \in [job : Jobs, attempt : 0..MaxRetries]
  BY <1>1, <1>3 DEF TypeOK
<1>5. QED
  BY <1>1, <1>2, <1>4, BoundsAssumption DEF JobOf

(* The same of any entry that exists.                                      *)
LEMMA InfoOfKnown ==
  ASSUME TypeOK, NEW e \in Entries, place[e] # "none"
  PROVE  info[e] \in [job : Jobs, attempt : 0..MaxRetries]
BY DEF TypeOK

(* A new entry takes the next number, which was free.                      *)
LEMMA Added ==
  ASSUME TypeOK, Fresh, NEW j \in Jobs, NEW n \in 0..MaxRetries,
         NEW w \in {"waiting", "delayed"}, Add(j, n, w)
  PROVE  /\ next + 1 \in Entries /\ next' = next + 1 /\ place[next + 1] = "none"
         /\ info' = [info EXCEPT ![next + 1] = [job |-> j, attempt |-> n]]
         /\ place' = [place EXCEPT ![next + 1] = w]
<1>1. next' = next + 1 /\ next < MaxEntries /\ next \in Nat
  BY BoundsAssumption DEF Add, TypeOK
<1>2. next + 1 \in Entries /\ next + 1 > next
  BY <1>1, BoundsAssumption DEF Entries
<1>3. place[next + 1] = "none"
  BY <1>2 DEF Fresh
<1>4. info' = [info EXCEPT ![next + 1] = [job |-> j, attempt |-> n]]
  BY <1>1 DEF Add
<1>5. place' = [place EXCEPT ![next + 1] = w]
  BY <1>1 DEF Add
<1>6. QED
  BY <1>1, <1>2, <1>3, <1>4, <1>5

(* The retry of a job: its attempt is within MaxRetries.                   *)
LEMMA RetryAdded ==
  ASSUME TypeOK, Known, Fresh, AllHold, NEW t \in Threads, RetryJob(t)
  PROVE  /\ next + 1 \in Entries /\ next' = next + 1 /\ place[next + 1] = "none"
         /\ info[Current(t)].attempt + 1 \in 0..MaxRetries
         /\ info[Current(t)].attempt + 1 <= failures[JobOf(t)]
         /\ info' = [info EXCEPT ![next + 1] = [job |-> JobOf(t),
                                               attempt |-> info[Current(t)].attempt + 1]]
         /\ place' = [place EXCEPT ![next + 1] = "delayed"]
<1>1. batch[t] # {} /\ pc[t] = "retry"
  BY DEF RetryJob, TypeOK
<1>2. /\ JobOf(t) \in Jobs /\ info[Current(t)].attempt \in Nat
  BY <1>1, CurrentKnown
<1>3. info[Current(t)].attempt + 1 \in 0..MaxRetries
  BY <1>1, <1>2, BoundsAssumption DEF AllHold, Holds, LastAttempt
<1>4. info[Current(t)].attempt + 1 <= failures[JobOf(t)]
  BY <1>1, <1>2, BoundsAssumption DEF AllHold, Holds, TypeOK
<1>5. Add(JobOf(t), info[Current(t)].attempt + 1, "delayed")
  BY DEF RetryJob
<1>6. QED
  BY <1>2, <1>3, <1>4, <1>5, Added

-----------------------------------------------------------------------------
(* The variables keep their types.                                         *)
LEMMA TypePreserved ==
  TypeOK /\ Known /\ Fresh /\ AllHold /\ [Next]_vars => TypeOK'
<1> SUFFICES ASSUME TypeOK /\ Known /\ Fresh /\ AllHold, [Next]_vars PROVE TypeOK'
  OBVIOUS
<1>1. ASSUME NEW j \in Jobs, EnqueueJob(j) PROVE TypeOK'
  <2>1. Add(j, 0, "waiting")
    BY <1>1 DEF EnqueueJob
  <2>2. 0 \in 0..MaxRetries
    BY BoundsAssumption
  <2>3. /\ next + 1 \in Entries /\ next' = next + 1 /\ place[next + 1] = "none"
        /\ info' = [info EXCEPT ![next + 1] = [job |-> j, attempt |-> 0]]
        /\ place' = [place EXCEPT ![next + 1] = "waiting"]
    BY <2>1, <2>2, Added
  <2>4. info' \in [Entries -> [job : Jobs, attempt : 0..MaxRetries] \cup {None}]
    BY <2>2, <2>3 DEF TypeOK
  <2>5. next' \in 0..MaxEntries
    BY <2>3, BoundsAssumption DEF Entries, TypeOK
  <2>6. \A e \in Entries : place'[e] = "none" <=> info'[e] = None
    BY <2>2, <2>3, NoneAssumption DEF TypeOK
  <2>7. QED
    BY <1>1, <2>3, <2>4, <2>5, <2>6 DEF EnqueueJob, TypeOK, Places
<1>2. ASSUME NEW t \in Threads, ReadJobs(t) \/ ReclaimPending(t) PROVE TypeOK'
  BY <1>2 DEF ReadJobs, ReclaimPending, Deliver, Places, Stale, TypeOK
<1>3. ASSUME NEW t \in Threads, HandleSucceeds(t) PROVE TypeOK'
  <2>1. JobOf(t) \in Jobs
    BY <1>3, CurrentKnown DEF HandleSucceeds
  <2>2. QED
    BY <1>3, <2>1 DEF HandleSucceeds, stream, TypeOK
<1>4. ASSUME NEW t \in Threads, HandleFails(t) PROVE TypeOK'
  <2>1. JobOf(t) \in Jobs
    BY <1>4, CurrentKnown DEF HandleFails
  <2>2. failures' \in [Jobs -> 0..(MaxRetries + 1)]
    BY <1>4, <2>1, BoundsAssumption DEF HandleFails, TypeOK
  <2>3. QED
    BY <1>4, <2>2 DEF HandleFails, stream, TypeOK
<1>5. ASSUME NEW t \in Threads, AckHandled(t) \/ AckFailed(t) PROVE TypeOK'
  <2>1. batch[t] # {}
    BY <1>5 DEF AckHandled, AckFailed, TypeOK
  <2>2. Current(t) \in Entries /\ place[Current(t)] # "none"
    BY <2>1, CurrentKnown
  <2>3. /\ place' \in [Entries -> Places]
        /\ \A e \in Entries : place'[e] = "none" <=> place[e] = "none"
    BY <1>5, <2>2 DEF AckHandled, AckFailed, Acked, Unacked, Places, TypeOK
  <2>4. QED
    BY <1>5, <2>1, <2>3 DEF AckHandled, AckFailed, Finish, TypeOK
<1>6. ASSUME NEW t \in Threads, AckError(t) PROVE TypeOK'
  <2>1. batch[t] # {}
    BY <1>6 DEF AckError, TypeOK
  <2>2. /\ Current(t) \in Entries /\ place[Current(t)] # "none" /\ JobOf(t) \in Jobs
    BY <2>1, CurrentKnown
  <2>3. /\ place' \in [Entries -> Places]
        /\ \A e \in Entries : place'[e] = "none" <=> place[e] = "none"
    BY <1>6, <2>2 DEF AckError, Acked, Unacked, Places, TypeOK
  <2>4. faults' \in 0..MaxFaults
    BY <1>6, BoundsAssumption DEF AckError, Fault, TypeOK
  <2>5. /\ batch' \in [Threads -> SUBSET Entries] /\ lost' \subseteq Jobs
        /\ pc' \in [Threads -> {"ready", "handled", "failed", "retry", "dead"}]
        /\ \A u \in Threads : batch'[u] = {} => pc'[u] = "ready"
    BY <1>6, <2>1, <2>2 DEF AckError, Finish, TypeOK
  <2>6. QED
    BY <1>6, <2>3, <2>4, <2>5 DEF AckError, TypeOK
<1>7. ASSUME NEW t \in Threads, RetryJob(t) PROVE TypeOK'
  <2>1. /\ next + 1 \in Entries /\ next' = next + 1 /\ place[next + 1] = "none"
        /\ info[Current(t)].attempt + 1 \in 0..MaxRetries
        /\ info' = [info EXCEPT ![next + 1] = [job |-> JobOf(t),
                                              attempt |-> info[Current(t)].attempt + 1]]
        /\ place' = [place EXCEPT ![next + 1] = "delayed"]
    BY <1>7, RetryAdded
  <2>2. JobOf(t) \in Jobs
    BY <1>7, CurrentKnown DEF RetryJob, TypeOK
  <2> DEFINE new == [job |-> JobOf(t), attempt |-> info[Current(t)].attempt + 1]
  <2>3. new \in [job : Jobs, attempt : 0..MaxRetries] /\ info' = [info EXCEPT ![next + 1] = new]
    BY <2>1, <2>2
  <2> HIDE DEF new
  <2>4. info' \in [Entries -> [job : Jobs, attempt : 0..MaxRetries] \cup {None}]
    BY <2>3 DEF TypeOK
  <2>5. next' \in 0..MaxEntries
    BY <2>1, BoundsAssumption DEF Entries, TypeOK
  <2>6. \A e \in Entries : place'[e] = "none" <=> info'[e] = None
    BY <2>1, <2>3, NoneAssumption DEF TypeOK
  <2>7. QED
    BY <1>7, <2>1, <2>4, <2>5, <2>6 DEF RetryJob, Finish, TypeOK, Places
<1>8. ASSUME NEW t \in Threads, DeadLetter(t) \/ WriteError(t) \/ Crash(t) PROVE TypeOK'
  <2>1. batch[t] # {}
    BY <1>8 DEF DeadLetter, WriteError, Crash, TypeOK
  <2>2. JobOf(t) \in Jobs
    BY <2>1, CurrentKnown
  <2>3. faults' \in 0..MaxFaults
    BY <1>8, BoundsAssumption DEF DeadLetter, WriteError, Crash, Fault, TypeOK
  <2>4. QED
    BY <1>8, <2>2, <2>3 DEF DeadLetter, WriteError, Crash, Finish, stream, TypeOK
<1>9. ASSUME NEW e \in Entries, Age(e) \/ PromoteDelayed(e) PROVE TypeOK'
  BY <1>9 DEF Age, PromoteDelayed, TypeOK, Places
<1>10. ASSUME NEW e \in Entries, Trim(e) PROVE TypeOK'
  <2>1. place[e] # "none" /\ info[e].job \in Jobs
    BY <1>10, InfoOfKnown DEF Trim, Unacked
  <2>2. faults' \in 0..MaxFaults
    BY <1>10, BoundsAssumption DEF Trim, Fault, TypeOK
  <2>3. QED
    BY <1>10, <2>1, <2>2 DEF Trim, TypeOK, Places
<1>11. CASE UNCHANGED vars
  BY <1>11 DEF vars, TypeOK
<1>12. QED
  BY <1>1, <1>2, <1>3, <1>4, <1>5, <1>6, <1>7, <1>8, <1>9, <1>10, <1>11 DEF Next,
     ThreadStep

(* Entries are delivered from where they are, and stay known.              *)
LEMMA KnownPreserved ==
  TypeOK /\ Known /\ Fresh /\ AllHold /\ [Next]_vars => Known'
<1> SUFFICES ASSUME TypeOK /\ Known /\ Fresh /\ AllHold, [Next]_vars PROVE Known'
  OBVIOUS
<1>1. ASSUME NEW j \in Jobs, EnqueueJob(j) PROVE Known'
  <2>1. Add(j, 0, "waiting") /\ 0 \in 0..MaxRetries
    BY <1>1, BoundsAssumption DEF EnqueueJob
  <2>2. /\ next + 1 \in Entries /\ next' = next + 1 /\ place[next + 1] = "none"
        /\ info' = [info EXCEPT ![next + 1] = [job |-> j, attempt |-> 0]]
        /\ place' = [place EXCEPT ![next + 1] = "waiting"]
    BY <2>1, Added
  <2>3. QED
    BY <1>1, <2>2 DEF EnqueueJob, Known, TypeOK
<1>2. ASSUME NEW t \in Threads, RetryJob(t) PROVE Known'
  <2>1. /\ batch[t] # {} /\ JobOf(t) \in Jobs
        /\ Current(t) \in Entries /\ place[Current(t)] # "none"
    BY <1>2, CurrentKnown DEF RetryJob, TypeOK
  <2>2. /\ next + 1 \in Entries /\ next' = next + 1 /\ place[next + 1] = "none"
        /\ info[Current(t)].attempt + 1 \in 0..MaxRetries
        /\ info[Current(t)].attempt + 1 <= failures[JobOf(t)]
        /\ info' = [info EXCEPT ![next + 1] = [job |-> JobOf(t),
                                              attempt |-> info[Current(t)].attempt + 1]]
        /\ place' = [place EXCEPT ![next + 1] = "delayed"]
    BY <1>2, RetryAdded
  <2>3. QED
    BY <1>2, <2>2 DEF RetryJob, Finish, Known, TypeOK
<1>3. ASSUME NEW t \in Threads, ReadJobs(t) \/ ReclaimPending(t) PROVE Known'
  BY <1>3 DEF ReadJobs, ReclaimPending, Deliver, Stale, Known, TypeOK
<1>4. ASSUME NEW t \in Threads, HandleSucceeds(t) \/ HandleFails(t) PROVE Known'
  BY <1>4 DEF HandleSucceeds, HandleFails, stream, Known
<1>5. ASSUME NEW t \in Threads, AckHandled(t) \/ AckFailed(t) \/ AckError(t) PROVE Known'
  BY <1>5 DEF AckHandled, AckFailed, AckError, Acked, Finish, Known, TypeOK
<1>6. ASSUME NEW t \in Threads, DeadLetter(t) \/ WriteError(t) \/ Crash(t) PROVE Known'
  BY <1>6 DEF DeadLetter, WriteError, Crash, stream, Finish, Known, TypeOK
<1>7. ASSUME NEW e \in Entries, Age(e) \/ PromoteDelayed(e) \/ Trim(e) PROVE Known'
  BY <1>7 DEF Age, PromoteDelayed, Trim, Known, TypeOK
<1>8. CASE UNCHANGED vars
  BY <1>8 DEF vars, Known
<1>9. QED
  BY <1>1, <1>2, <1>3, <1>4, <1>5, <1>6, <1>7, <1>8 DEF Next, ThreadStep

(* Entries come into being one after the other.                            *)
LEMMA FreshPreserved ==
  TypeOK /\ Known /\ Fresh /\ AllHold /\ [Next]_vars => Fresh'
<1> SUFFICES ASSUME TypeOK /\ Known /\ Fresh /\ AllHold, [Next]_vars PROVE Fresh'
  OBVIOUS
<1>1. ASSUME NEW j \in Jobs, EnqueueJob(j) PROVE Fresh'
  <2>1. Add(j, 0, "waiting") /\ 0 \in 0..MaxRetries
    BY <1>1, BoundsAssumption DEF EnqueueJob
  <2>2. /\ next + 1 \in Entries /\ next' = next + 1 /\ place[next + 1] = "none"
        /\ info' = [info EXCEPT ![next + 1] = [job |-> j, attempt |-> 0]]
        /\ place' = [place EXCEPT ![next + 1] = "waiting"]
    BY <2>1, Added
  <2>3. \A e \in Entries : e > next + 1 <=> e > next /\ e # next + 1
    BY BoundsAssumption DEF Entries, TypeOK
  <2>4. QED
    BY <1>1, <2>2, <2>3 DEF EnqueueJob, Fresh, TypeOK
<1>2. ASSUME NEW t \in Threads, RetryJob(t) PROVE Fresh'
  <2>1. /\ batch[t] # {} /\ JobOf(t) \in Jobs
        /\ Current(t) \in Entries /\ place[Current(t)] # "none"
    BY <1>2, CurrentKnown DEF RetryJob, TypeOK
  <2>2. /\ next + 1 \in Entries /\ next' = next + 1 /\ place[next + 1] = "none"
        /\ info[Current(t)].attempt + 1 \in 0..MaxRetries
        /\ info[Current(t)].attempt + 1 <= failures[JobOf(t)]
        /\ info' = [info EXCEPT ![next + 1] = [job |-> JobOf(t),
                                              attempt |-> info[Current(t)].attempt + 1]]
        /\ place' = [place EXCEPT ![next + 1] = "delayed"]
    BY <1>2, RetryAdded
  <2>3. \A e \in Entries : e > next + 1 <=> e > next /\ e # next + 1
    BY BoundsAssumption DEF Entries, TypeOK
  <2>4. QED
    BY <1>2, <2>2, <2>3 DEF RetryJob, Fresh, TypeOK
<1>3. ASSUME NEW t \in Threads, ReadJobs(t) \/ ReclaimPending(t) PROVE Fresh'
  BY <1>3 DEF ReadJobs, ReclaimPending, Deliver, Stale, Fresh, TypeOK
<1>4. ASSUME NEW t \in Threads, HandleSucceeds(t) \/ HandleFails(t) PROVE Fresh'
  BY <1>4 DEF HandleSucceeds, HandleFails, stream, Fresh
<1>5. ASSUME NEW t \in Threads, AckHandled(t) \/ AckFailed(t) \/ AckError(t) PROVE Fresh'
  <2>1. batch[t] # {}
    BY <1>5 DEF AckHandled, AckFailed, AckError, TypeOK
  <2>2. Current(t) \in Entries /\ place[Current(t)] # "none"
    BY <2>1, CurrentKnown
  <2>3. QED
    BY <1>5, <2>2 DEF AckHandled, AckFailed, AckError, Acked, Unacked, Fresh, TypeOK
<1>6. ASSUME NEW t \in Threads, DeadLetter(t) \/ WriteError(t) \/ Crash(t) PROVE Fresh'
  BY <1>6 DEF DeadLetter, WriteError, Crash, stream, Fresh
<1>7. ASSUME NEW e \in Entries, Age(e) \/ PromoteDelayed(e) \/ Trim(e) PROVE Fresh'
  BY <1>7 DEF Age, PromoteDelayed, Trim, Unacked, Fresh, TypeOK
<1>8. CASE UNCHANGED vars
  BY <1>8 DEF vars, Fresh
<1>9. QED
  BY <1>1, <1>2, <1>3, <1>4, <1>5, <1>6, <1>7, <1>8 DEF Next, ThreadStep

(* Jobs stay handled, failures are never forgotten, entries keep their job *)
(* and attempt.                                                            *)
LEMMA Grows ==
  TypeOK /\ Known /\ Fresh /\ AllHold /\ [Next]_vars =>
    /\ handled \subseteq handled'
    /\ \A j \in Jobs : failures[j] <= failures'[j]
    /\ \A e \in Entries : place[e] # "none" => info'[e] = info[e]
<1> DEFINE G == /\ handled \subseteq handled'
                /\ \A j \in Jobs : failures[j] <= failures'[j]
                /\ \A e \in Entries : place[e] # "none" => info'[e] = info[e]
<1> SUFFICES ASSUME TypeOK /\ Known /\ Fresh /\ AllHold, [Next]_vars PROVE G
  OBVIOUS
<1>0. \A j \in Jobs : failures[j] \in Nat
  BY BoundsAssumption DEF TypeOK
<1>1. ASSUME NEW j \in Jobs, EnqueueJob(j) PROVE G
  <2>1. Add(j, 0, "waiting") /\ 0 \in 0..MaxRetries
    BY <1>1, BoundsAssumption DEF EnqueueJob
  <2>2. /\ next + 1 \in Entries /\ next' = next + 1 /\ place[next + 1] = "none"
        /\ info' = [info EXCEPT ![next + 1] = [job |-> j, attempt |-> 0]]
        /\ place' = [place EXCEPT ![next + 1] = "waiting"]
    BY <2>1, Added
  <2>3. QED
    BY <1>1, <1>0, <2>2 DEF EnqueueJob, TypeOK
<1>2. ASSUME NEW t \in Threads, RetryJob(t) PROVE G
  <2>1. /\ batch[t] # {} /\ JobOf(t) \in Jobs
        /\ Current(t) \in Entries /\ place[Current(t)] # "none"
    BY <1>2, CurrentKnown DEF RetryJob, TypeOK
  <2>2. /\ next + 1 \in Entries /\ next' = next + 1 /\ place[next + 1] = "none"
        /\ info[Current(t)].attempt + 1 \in 0..MaxRetries
        /\ info[Current(t)].attempt + 1 <= failures[JobOf(t)]
        /\ info' = [info EXCEPT ![next + 1] = [job |-> JobOf(t),
                                              attempt |-> info[Current(t)].attempt + 1]]
        /\ place' = [place EXCEPT ![next + 1] = "delayed"]
    BY <1>2, RetryAdded
  <2>3. QED
    BY <1>2, <1>0, <2>2 DEF RetryJob, TypeOK
<1>3. ASSUME NEW t \in Threads, HandleFails(t) PROVE G
  BY <1>3, <1>0, BoundsAssumption DEF HandleFails, stream, TypeOK
<1>4. ASSUME NEW t \in Threads,
             \/ ReadJobs(t) \/ ReclaimPending(t) \/ HandleSucceeds(t) \/ AckHandled(t)
             \/ AckFailed(t) \/ AckError(t) \/ DeadLetter(t) \/ WriteError(t) \/ Crash(t)
      PROVE G
  BY <1>4, <1>0 DEF ReadJobs, ReclaimPending, Deliver, HandleSucceeds, AckHandled, AckFailed,
     AckError, DeadLetter, WriteError, Crash, stream
<1>5. ASSUME NEW e \in Entries, Age(e) \/ PromoteDelayed(e) \/ Trim(e) PROVE G
  BY <1>5, <1>0 DEF Age, PromoteDelayed, Trim
<1>6. ASSUME UNCHANGED vars PROVE G
  BY <1>6, <1>0 DEF vars
<1> HIDE DEF G
<1>7. G
  BY <1>1, <1>2, <1>3, <1>4, <1>5, <1>6 DEF Next, ThreadStep
<1>8. QED
  BY <1>7 DEF G

(* An entry's attempt stays behind the failures of its job: only a retry   *)
(* carries a higher one, and its goroutine has seen the failure.           *)
LEMMA AttemptedPreserved ==
  TypeOK /\ Known /\ Fresh /\ AllHold /\ Attempted /\ [Next]_vars => Attempted'
<1> SUFFICES ASSUME TypeOK /\ Known /\ Fresh /\ AllHold, Attempted, [Next]_vars PROVE Attempted'
  OBVIOUS
<1>a. /\ \A j \in Jobs : failures[j] <= failures'[j]
      /\ \A e \in Entries : place[e] # "none" => info'[e] = info[e]
  BY Grows
<1>b. \A j \in Jobs : failures[j] \in Nat /\ failures'[j] \in Nat
  <2>1. TypeOK'
    BY TypePreserved
  <2>2. QED
    BY <2>1, BoundsAssumption DEF TypeOK
<1>c. \A e \in Entries : place[e] # "none" =>
          info[e].job \in Jobs /\ info[e].attempt \in Nat
  BY BoundsAssumption DEF TypeOK
<1>d. \A e \in Entries : place[e] # "none" => info'[e].attempt <= failures'[info'[e].job]
  BY <1>a, <1>b, <1>c DEF Attempted
<1>1. ASSUME NEW j \in Jobs, EnqueueJob(j) PROVE Attempted'
  <2>1. Add(j, 0, "waiting") /\ 0 \in 0..MaxRetries
    BY <1>1, BoundsAssumption DEF EnqueueJob
  <2>2. /\ next + 1 \in Entries /\ next' = next + 1 /\ place[next + 1] = "none"
        /\ info' = [info EXCEPT ![next + 1] = [job |-> j, attempt |-> 0]]
        /\ place' = [place EXCEPT ![next + 1] = "waiting"]
    BY <2>1, Added
  <2>3. \A e \in Entries : e # next + 1 /\ place'[e] # "none" => place[e] # "none"
    BY <2>2 DEF TypeOK
  <2>4. info'[next + 1].attempt <= failures'[info'[next + 1].job]
    BY <2>2, <1>b DEF TypeOK
  <2>5. QED
    BY <1>d, <2>3, <2>4 DEF Attempted
<1>2. ASSUME NEW t \in Threads, RetryJob(t) PROVE Attempted'
  <2>1. /\ batch[t] # {} /\ JobOf(t) \in Jobs
        /\ Current(t) \in Entries /\ place[Current(t)] # "none"
    BY <1>2, CurrentKnown DEF RetryJob, TypeOK
  <2>2. /\ next + 1 \in Entries /\ next' = next + 1 /\ place[next + 1] = "none"
        /\ info[Current(t)].attempt + 1 \in 0..MaxRetries
        /\ info[Current(t)].attempt + 1 <= failures[JobOf(t)]
        /\ info' = [info EXCEPT ![next + 1] = [job |-> JobOf(t),
                                              attempt |-> info[Current(t)].attempt + 1]]
        /\ place' = [place EXCEPT ![next + 1] = "delayed"]
    BY <1>2, RetryAdded
  <2>3. \A e \in Entries : e # next + 1 /\ place'[e] # "none" => place[e] # "none"
    BY <2>2 DEF TypeOK
  <2>4. /\ info'[next + 1].job = JobOf(t)
        /\ info'[next + 1].attempt = info[Current(t)].attempt + 1
    BY <2>2 DEF TypeOK
  <2>5. info'[next + 1].attempt <= failures'[info'[next + 1].job]
    BY <1>2, <2>1, <2>2, <2>4 DEF RetryJob
  <2>6. QED
    BY <1>d, <2>3, <2>5 DEF Attempted
<1>3. ASSUME NEW t \in Threads,
             \/ ReadJobs(t) \/ ReclaimPending(t) \/ HandleSucceeds(t) \/ HandleFails(t)
             \/ AckHandled(t) \/ AckFailed(t) \/ AckError(t) \/ DeadLetter(t)
             \/ WriteError(t) \/ Crash(t)
      PROVE  Attempted'
  <2>1. \A e \in Entries : place'[e] # "none" => place[e] # "none"
    BY <1>3 DEF ReadJobs, ReclaimPending, Deliver, Stale, HandleSucceeds, HandleFails, AckHandled,
       AckFailed, AckError, Acked, Unacked, DeadLetter, WriteError, Crash, stream, TypeOK
  <2>2. QED
    BY <1>d, <2>1 DEF Attempted
<1>4. ASSUME NEW e \in Entries, Age(e) \/ PromoteDelayed(e) \/ Trim(e) PROVE Attempted'
  <2>1. \A f \in Entries : place'[f] # "none" => place[f] # "none"
    BY <1>4 DEF Age, PromoteDelayed, Trim, Unacked, TypeOK
  <2>2. QED
    BY <1>d, <2>1 DEF Attempted
<1>5. CASE UNCHANGED vars
  BY <1>5 DEF vars, Attempted
<1>6. QED
  BY <1>1, <1>2, <1>3, <1>4, <1>5 DEF Next, ThreadStep

(* A goroutine that does nothing keeps its entry and what it knows of it.  *)
LEMMA HoldsKept ==
  ASSUME TypeOK, Known, Fresh, AllHold, [Next]_vars, NEW u \in Threads,
         batch'[u] = batch[u], pc'[u] = pc[u]
  PROVE  /\ Holds(u)'
         /\ pc[u] # "ready" => JobOf(u)' = JobOf(u)
<1>1. Current(u)' = Current(u)
  BY DEF Current
<1>2. CASE pc[u] = "ready"
  BY <1>2 DEF Holds
<1>3. CASE pc[u] # "ready"
  <2>1. batch[u] # {}
    BY <1>3 DEF TypeOK
  <2>2. /\ Current(u) \in Entries /\ place[Current(u)] # "none"
        /\ JobOf(u) \in Jobs /\ info[Current(u)].attempt \in Nat
    BY <2>1, CurrentKnown
  <2>3. info'[Current(u)] = info[Current(u)] /\ handled \subseteq handled'
    BY <2>2, Grows
  <2>4. JobOf(u)' = JobOf(u)
    BY <1>1, <2>3 DEF JobOf
  <2>5. failures[JobOf(u)] <= failures'[JobOf(u)]
    BY <2>2, Grows
  <2>6. TypeOK'
    BY TypePreserved
  <2>7. failures[JobOf(u)] \in Nat /\ failures'[JobOf(u)] \in Nat
    BY <2>2, <2>6, BoundsAssumption DEF TypeOK
  <2>8. LastAttempt(u)' = LastAttempt(u)
    BY <1>1, <2>3 DEF LastAttempt
  <2>9. Holds(u)
    BY DEF AllHold
  <2>10. pc[u] \in {"failed", "retry", "dead"} =>
           info'[Current(u)'].attempt < failures'[JobOf(u)']
    BY <1>1, <2>2, <2>3, <2>4, <2>5, <2>7, <2>9 DEF Holds
  <2>11. pc[u] = "handled" => JobOf(u)' \in handled'
    BY <2>3, <2>4, <2>9 DEF Holds
  <2>12. QED
    BY <2>4, <2>8, <2>9, <2>10, <2>11 DEF Holds
<1>4. QED
  BY <1>2, <1>3

(* Each step leaves its goroutine with what it has just learned.           *)
LEMMA AllHoldPreserved ==
  TypeOK /\ Known /\ Fresh /\ AllHold /\ Attempted /\ [Next]_vars => AllHold'
<1> SUFFICES ASSUME TypeOK /\ Known /\ Fresh /\ AllHold, Attempted, [Next]_vars
             PROVE AllHold'
  OBVIOUS
<1>0. TypeOK'
  BY TypePreserved
<1>a. ASSUME NEW t \in Threads, Holds(t)',
             \A u \in Threads : u # t => batch'[u] = batch[u] /\ pc'[u] = pc[u]
      PROVE  AllHold'
  BY <1>a, HoldsKept DEF AllHold
<1>b. ASSUME \A u \in Threads : batch'[u] = batch[u] /\ pc'[u] = pc[u] PROVE AllHold'
  BY <1>b, HoldsKept DEF AllHold
<1>1. ASSUME NEW j \in Jobs, EnqueueJob(j) PROVE AllHold'
  BY <1>1, <1>b DEF EnqueueJob
<1>2. ASSUME NEW e \in Entries, Age(e) \/ PromoteDelayed(e) \/ Trim(e) PROVE AllHold'
  BY <1>2, <1>b DEF Age, PromoteDelayed, Trim
<1>3. ASSUME NEW t \in Threads, ReadJobs(t) \/ ReclaimPending(t) PROVE AllHold'
  <2>1. pc'[t] = "ready"
    BY <1>3 DEF ReadJobs, ReclaimPending, Deliver, TypeOK
  <2>2. Holds(t)'
    BY <2>1 DEF Holds
  <2>3. \A u \in Threads : u # t => batch'[u] = batch[u] /\ pc'[u] = pc[u]
    BY <1>3 DEF ReadJobs, ReclaimPending, Deliver, TypeOK
  <2>4. QED
    BY <2>2, <2>3, <1>a
<1>4. ASSUME NEW t \in Threads,
             AckHandled(t) \/ RetryJob(t) \/ DeadLetter(t) \/ WriteError(t) \/ Crash(t)
      PROVE  AllHold'
  <2>1. pc'[t] = "ready"
    BY <1>4 DEF AckHandled, RetryJob, DeadLetter, WriteError, Crash, Finish, TypeOK
  <2>2. Holds(t)'
    BY <2>1 DEF Holds
  <2>3. \A u \in Threads : u # t => batch'[u] = batch[u] /\ pc'[u] = pc[u]
    BY <1>4 DEF AckHandled, RetryJob, DeadLetter, WriteError, Crash, Finish, TypeOK
  <2>4. QED
    BY <2>2, <2>3, <1>a
<1>5. ASSUME NEW t \in Threads, HandleSucceeds(t) PROVE AllHold'
  <2>1. pc'[t] = "handled" /\ batch' = batch /\ info' = info /\ handled' = handled \cup {JobOf(t)}
    BY <1>5 DEF HandleSucceeds, stream, TypeOK
  <2>2. JobOf(t)' = JobOf(t)
    BY <2>1 DEF JobOf, Current
  <2>3. Holds(t)'
    BY <2>1, <2>2 DEF Holds
  <2>4. \A u \in Threads : u # t => batch'[u] = batch[u] /\ pc'[u] = pc[u]
    BY <1>5 DEF HandleSucceeds, TypeOK
  <2>5. QED
    BY <2>3, <2>4, <1>a
<1>6. ASSUME NEW t \in Threads, HandleFails(t) PROVE AllHold'
  <2>1. pc'[t] = "failed" /\ batch' = batch /\ info' = info /\ batch[t] # {}
    BY <1>6 DEF HandleFails, stream, TypeOK
  <2>2. Current(t)' = Current(t)
    BY <2>1 DEF Current
  <2>3. JobOf(t)' = JobOf(t)
    BY <2>1, <2>2 DEF JobOf
  <2>4. /\ JobOf(t) \in Jobs /\ Current(t) \in Entries /\ place[Current(t)] # "none"
        /\ info[Current(t)] \in [job : Jobs, attempt : 0..MaxRetries]
    BY <2>1, CurrentKnown
  <2>5. info[Current(t)].attempt < failures'[JobOf(t)]
    <3>1. failures[JobOf(t)] \in Nat /\ info[Current(t)].attempt \in 0..MaxRetries
      BY <2>4, BoundsAssumption DEF TypeOK
    <3>2. info[Current(t)].attempt <= failures[JobOf(t)]
      BY <2>4 DEF Attempted, JobOf
    <3>3. failures'[JobOf(t)] =
            IF failures[JobOf(t)] > MaxRetries THEN failures[JobOf(t)] ELSE failures[JobOf(t)] + 1
      BY <1>6, <2>4 DEF HandleFails, TypeOK
    <3>4. QED
      BY <3>1, <3>2, <3>3, BoundsAssumption
  <2>6. Holds(t)'
    BY <2>1, <2>2, <2>3, <2>5 DEF Holds
  <2>7. \A u \in Threads : u # t => batch'[u] = batch[u] /\ pc'[u] = pc[u]
    BY <1>6 DEF HandleFails, TypeOK
  <2>8. QED
    BY <2>6, <2>7, <1>a
<1>7. ASSUME NEW t \in Threads, AckFailed(t) PROVE AllHold'
  <2>1. /\ batch' = batch /\ info' = info /\ failures' = failures /\ pc[t] = "failed"
        /\ pc'[t] = IF LastAttempt(t) THEN "dead" ELSE "retry"
    BY <1>7 DEF AckFailed, TypeOK
  <2>2. Current(t)' = Current(t)
    BY <2>1 DEF Current
  <2>3. JobOf(t)' = JobOf(t) /\ LastAttempt(t)' = LastAttempt(t)
    BY <2>1, <2>2 DEF JobOf, LastAttempt
  <2>4. info[Current(t)].attempt < failures[JobOf(t)]
    BY <2>1 DEF AllHold, Holds
  <2>5. Holds(t)'
    BY <2>1, <2>2, <2>3, <2>4 DEF Holds
  <2>6. \A u \in Threads : u # t => batch'[u] = batch[u] /\ pc'[u] = pc[u]
    BY <1>7 DEF AckFailed, TypeOK
  <2>7. QED
    BY <2>5, <2>6, <1>a
<1>8. ASSUME NEW t \in Threads, AckError(t) PROVE AllHold'
  <2>1. /\ info' = info /\ failures' = failures
        /\ \/ /\ pc[t] = "failed" /\ LastAttempt(t) /\ pc'[t] = "dead" /\ batch' = batch
           \/ pc'[t] = "ready"
    BY <1>8 DEF AckError, Finish, TypeOK
  <2>2. \A u \in Threads : u # t => batch'[u] = batch[u] /\ pc'[u] = pc[u]
    BY <1>8 DEF AckError, Finish, TypeOK
  <2>3. ASSUME pc'[t] = "ready" PROVE Holds(t)'
    BY <2>3 DEF Holds
  <2>4. ASSUME pc[t] = "failed", LastAttempt(t), pc'[t] = "dead", batch' = batch PROVE Holds(t)'
    <3>1. Current(t)' = Current(t)
      BY <2>4 DEF Current
    <3>2. JobOf(t)' = JobOf(t) /\ LastAttempt(t)' = LastAttempt(t)
      BY <2>1, <3>1 DEF JobOf, LastAttempt
    <3>3. info[Current(t)].attempt < failures[JobOf(t)]
      BY <2>4 DEF AllHold, Holds
    <3>4. QED
      BY <2>1, <2>4, <3>1, <3>2, <3>3 DEF Holds
  <2>5. QED
    BY <2>1, <2>2, <2>3, <2>4, <1>a
<1>9. CASE UNCHANGED vars
  BY <1>9, <1>b DEF vars
<1>10. QED
  BY <1>1, <1>2, <1>3, <1>4, <1>5, <1>6, <1>7, <1>8, <1>9 DEF Next, ThreadStep

-----------------------------------------------------------------------------
(* NothingVanishes.                                                        *)

Live == {"waiting", "delayed"} \cup Unacked

(* What NothingVanishes promises of a job.                                 *)
Accounted(j) == InStream(j) \/ Carried(j) \/ j \in handled \cup dead \cup lost

(* What is settled stays settled.                                          *)
LEMMA SettledKept ==
  ASSUME [Next]_vars
  PROVE  handled \cup dead \cup lost \subseteq handled' \cup dead' \cup lost'
<1> DEFINE G == handled \cup dead \cup lost \subseteq handled' \cup dead' \cup lost'
<1>1. ASSUME NEW j \in Jobs, EnqueueJob(j) PROVE G
  BY <1>1 DEF EnqueueJob
<1>2. ASSUME NEW t \in Threads,
             \/ ReadJobs(t) \/ ReclaimPending(t) \/ HandleSucceeds(t) \/ HandleFails(t)
             \/ AckHandled(t) \/ AckFailed(t) \/ AckError(t) \/ RetryJob(t) \/ DeadLetter(t)
             \/ WriteError(t) \/ Crash(t)
      PROVE G
  BY <1>2 DEF ReadJobs, ReclaimPending, Deliver, HandleSucceeds, HandleFails, AckHandled, AckFailed,
     AckError, RetryJob, DeadLetter, WriteError, Crash
<1>3. ASSUME NEW e \in Entries, Age(e) \/ PromoteDelayed(e) \/ Trim(e) PROVE G
  BY <1>3 DEF Age, PromoteDelayed, Trim
<1>4. ASSUME UNCHANGED vars PROVE G
  BY <1>4 DEF vars
<1> HIDE DEF G
<1>5. G
  BY <1>1, <1>2, <1>3, <1>4 DEF Next, ThreadStep
<1>6. QED
  BY <1>5 DEF G

(* A job enters the stream as a live entry; a retry is of a job that was   *)
(* there before.                                                           *)
LEMMA EnqueuedBefore ==
  ASSUME TypeOK /\ Known /\ Fresh /\ AllHold, [Next]_vars, NEW j \in Enqueued'
  PROVE  j \in Enqueued \/ InStream(j)'
<1> DEFINE G == j \in Enqueued \/ InStream(j)'
<1>0. ASSUME info' = info PROVE G
  BY <1>0 DEF Enqueued
<1>1. ASSUME NEW i \in Jobs, EnqueueJob(i) PROVE G
  <2>1. Add(i, 0, "waiting") /\ 0 \in 0..MaxRetries
    BY <1>1, BoundsAssumption DEF EnqueueJob
  <2>2. /\ next + 1 \in Entries /\ next' = next + 1 /\ place[next + 1] = "none"
        /\ info' = [info EXCEPT ![next + 1] = [job |-> i, attempt |-> 0]]
        /\ place' = [place EXCEPT ![next + 1] = "waiting"]
    BY <2>1, Added
  <2>3. PICK e \in Entries : info'[e] # None /\ info'[e].job = j
    BY DEF Enqueued
  <2>4. CASE e = next + 1
    BY <2>2, <2>3, <2>4 DEF InStream, TypeOK
  <2>5. CASE e # next + 1
    BY <2>2, <2>3, <2>5 DEF Enqueued, TypeOK
  <2>6. QED
    BY <2>4, <2>5
<1>2. ASSUME NEW t \in Threads, RetryJob(t) PROVE G
  <2>1. /\ batch[t] # {} /\ JobOf(t) \in Jobs
        /\ Current(t) \in Entries /\ place[Current(t)] # "none"
    BY <1>2, CurrentKnown DEF RetryJob, TypeOK
  <2>2. /\ next + 1 \in Entries /\ next' = next + 1 /\ place[next + 1] = "none"
        /\ info[Current(t)].attempt + 1 \in 0..MaxRetries
        /\ info[Current(t)].attempt + 1 <= failures[JobOf(t)]
        /\ info' = [info EXCEPT ![next + 1] = [job |-> JobOf(t),
                                              attempt |-> info[Current(t)].attempt + 1]]
        /\ place' = [place EXCEPT ![next + 1] = "delayed"]
    BY <1>2, RetryAdded
  <2>3. PICK e \in Entries : info'[e] # None /\ info'[e].job = j
    BY DEF Enqueued
  <2>4. CASE e = next + 1
    BY <2>2, <2>3, <2>4 DEF InStream, TypeOK
  <2>5. CASE e # next + 1
    BY <2>2, <2>3, <2>5 DEF Enqueued, TypeOK
  <2>6. QED
    BY <2>4, <2>5
<1>3. ASSUME NEW t \in Threads,
             \/ ReadJobs(t) \/ ReclaimPending(t) \/ HandleSucceeds(t) \/ HandleFails(t)
             \/ AckHandled(t) \/ AckFailed(t) \/ AckError(t) \/ DeadLetter(t)
             \/ WriteError(t) \/ Crash(t)
      PROVE G
  <2>1. info' = info
    BY <1>3 DEF ReadJobs, ReclaimPending, Deliver, HandleSucceeds, HandleFails, AckHandled,
       AckFailed, AckError, DeadLetter, WriteError, Crash, stream
  <2>2. QED
    BY <2>1, <1>0
<1>4. ASSUME NEW e \in Entries, Age(e) \/ PromoteDelayed(e) \/ Trim(e) PROVE G
  <2>1. info' = info
    BY <1>4 DEF Age, PromoteDelayed, Trim
  <2>2. QED
    BY <2>1, <1>0
<1>5. ASSUME UNCHANGED vars PROVE G
  <2>1. info' = info
    BY <1>5 DEF vars
  <2>2. QED
    BY <2>1, <1>0
<1> HIDE DEF G
<1>6. G
  BY <1>1, <1>2, <1>3, <1>4, <1>5 DEF Next, ThreadStep
<1>7. QED
  BY <1>6 DEF G

(* A goroutine that carries a job stays where it is, whatever the others   *)
(* do, until it writes the retry or the dead letter, or fails to.          *)
LEMMA CarrierActs ==
  ASSUME TypeOK, [Next]_vars, NEW u \in Threads, pc[u] \in {"retry", "dead"}
  PROVE  \/ batch'[u] = batch[u] /\ pc'[u] = pc[u]
         \/ RetryJob(u) \/ DeadLetter(u) \/ WriteError(u) \/ Crash(u)
<1> DEFINE Stays == batch'[u] = batch[u] /\ pc'[u] = pc[u]
<1>1. ASSUME NEW t \in Threads,
             \/ ReadJobs(t) \/ ReclaimPending(t) \/ HandleSucceeds(t) \/ HandleFails(t)
             \/ AckHandled(t) \/ AckFailed(t) \/ AckError(t)
      PROVE  Stays
  <2>1. t # u
    BY <1>1 DEF ReadJobs, ReclaimPending, HandleSucceeds, HandleFails, AckHandled, AckFailed,
       AckError, TypeOK
  <2>2. QED
    BY <1>1, <2>1 DEF ReadJobs, ReclaimPending, Deliver, HandleSucceeds, HandleFails, AckHandled,
       AckFailed, AckError, Finish, TypeOK
<1>2. ASSUME NEW t \in Threads \ {u},
             RetryJob(t) \/ DeadLetter(t) \/ WriteError(t) \/ Crash(t)
      PROVE  Stays
  BY <1>2 DEF RetryJob, DeadLetter, WriteError, Crash, Finish, TypeOK
<1>3. ASSUME \/ \E j \in Jobs : EnqueueJob(j)
             \/ \E e \in Entries : Age(e) \/ PromoteDelayed(e) \/ Trim(e)
             \/ UNCHANGED vars
      PROVE  Stays
  BY <1>3 DEF EnqueueJob, Age, PromoteDelayed, Trim, vars
<1>4. QED
  BY <1>1, <1>2, <1>3 DEF Next, ThreadStep

(* A job a goroutine carries between the XACK and its last write is        *)
(* carried on, written, or counted as lost.                                *)
LEMMA CarriedKept ==
  ASSUME TypeOK /\ Known /\ Fresh /\ AllHold, [Next]_vars, NEW j, Carried(j)
  PROVE  Accounted(j)'
<1>1. PICK u \in Threads : pc[u] \in {"retry", "dead"} /\ JobOf(u) = j
  BY DEF Carried
<1>2. batch[u] # {} /\ pc[u] # "ready"
  BY <1>1 DEF TypeOK
<1>3. CASE batch'[u] = batch[u] /\ pc'[u] = pc[u]
  BY <1>1, <1>2, <1>3, HoldsKept DEF Accounted, Carried
<1>4. CASE RetryJob(u)
  <2>1. /\ batch[u] # {} /\ JobOf(u) \in Jobs
        /\ Current(u) \in Entries /\ place[Current(u)] # "none"
    BY <1>4, CurrentKnown DEF RetryJob, TypeOK
  <2>2. /\ next + 1 \in Entries /\ next' = next + 1 /\ place[next + 1] = "none"
        /\ info[Current(u)].attempt + 1 \in 0..MaxRetries
        /\ info[Current(u)].attempt + 1 <= failures[JobOf(u)]
        /\ info' = [info EXCEPT ![next + 1] = [job |-> JobOf(u),
                                              attempt |-> info[Current(u)].attempt + 1]]
        /\ place' = [place EXCEPT ![next + 1] = "delayed"]
    BY <1>4, RetryAdded
  <2>3. info'[next + 1].job = j /\ place'[next + 1] = "delayed"
    BY <2>2, <1>1 DEF TypeOK
  <2>4. QED
    BY <2>2, <2>3 DEF Accounted, InStream
<1>5. CASE DeadLetter(u)
  BY <1>1, <1>5 DEF DeadLetter, Accounted
<1>6. CASE WriteError(u) \/ Crash(u)
  BY <1>1, <1>6 DEF WriteError, Crash, Accounted
<1>7. QED
  BY <1>1, <1>3, <1>4, <1>5, <1>6, CarrierActs

(* A live entry stays live, unless it is trimmed or acknowledged: then its *)
(* job is lost, handled, or carried by the goroutine that acknowledged it. *)
LEMMA InStreamKept ==
  ASSUME TypeOK /\ Known /\ Fresh /\ AllHold, [Next]_vars, NEW j, InStream(j)
  PROVE  Accounted(j)'
<1>1. PICK e \in Entries : place[e] \in Live /\ info[e].job = j
  BY DEF InStream, Live
<1>2. place[e] # "none"
  BY <1>1 DEF Live, Unacked
<1>3. info'[e] = info[e]
  BY <1>2, Grows
<1>4. ASSUME place'[e] \in Live PROVE Accounted(j)'
  BY <1>1, <1>3, <1>4 DEF Accounted, InStream, Live, Unacked
<1>5. ASSUME NEW i \in Jobs, EnqueueJob(i) PROVE place'[e] \in Live
  <2>1. Add(i, 0, "waiting") /\ 0 \in 0..MaxRetries
    BY <1>5, BoundsAssumption DEF EnqueueJob
  <2>2. /\ next + 1 \in Entries /\ next' = next + 1 /\ place[next + 1] = "none"
        /\ info' = [info EXCEPT ![next + 1] = [job |-> i, attempt |-> 0]]
        /\ place' = [place EXCEPT ![next + 1] = "waiting"]
    BY <2>1, Added
  <2>3. QED
    BY <2>2, <1>1, <1>2 DEF Live, TypeOK
<1>6. ASSUME NEW t \in Threads, RetryJob(t) PROVE place'[e] \in Live
  <2>1. /\ batch[t] # {} /\ JobOf(t) \in Jobs
        /\ Current(t) \in Entries /\ place[Current(t)] # "none"
    BY <1>6, CurrentKnown DEF RetryJob, TypeOK
  <2>2. /\ next + 1 \in Entries /\ next' = next + 1 /\ place[next + 1] = "none"
        /\ info[Current(t)].attempt + 1 \in 0..MaxRetries
        /\ info[Current(t)].attempt + 1 <= failures[JobOf(t)]
        /\ info' = [info EXCEPT ![next + 1] = [job |-> JobOf(t),
                                              attempt |-> info[Current(t)].attempt + 1]]
        /\ place' = [place EXCEPT ![next + 1] = "delayed"]
    BY <1>6, RetryAdded
  <2>3. QED
    BY <2>2, <1>1, <1>2 DEF Live, TypeOK
<1>7. ASSUME NEW t \in Threads,
             \/ ReadJobs(t) \/ ReclaimPending(t) \/ HandleSucceeds(t) \/ HandleFails(t)
             \/ DeadLetter(t) \/ WriteError(t) \/ Crash(t)
      PROVE  place'[e] \in Live
  BY <1>1, <1>7 DEF ReadJobs, ReclaimPending, Deliver, Stale, HandleSucceeds, HandleFails,
     DeadLetter, WriteError, Crash, stream, Live, Unacked, TypeOK
<1>8. ASSUME NEW t \in Threads, AckHandled(t) PROVE Accounted(j)'
  <2>1. CASE e = Current(t)
    <3>1. j \in handled
      BY <1>8, <2>1, <1>1 DEF AckHandled, AllHold, Holds, JobOf
    <3>2. QED
      BY <3>1, <1>8 DEF AckHandled, Accounted
  <2>2. CASE e # Current(t)
    BY <1>8, <2>2, <1>1, <1>4 DEF AckHandled, Acked, TypeOK
  <2>3. QED
    BY <2>1, <2>2
<1>9. ASSUME NEW t \in Threads, AckFailed(t) PROVE Accounted(j)'
  <2>1. CASE e = Current(t)
    <3>1. pc'[t] \in {"retry", "dead"} /\ batch' = batch /\ info' = info
      BY <1>9 DEF AckFailed, TypeOK
    <3>2. JobOf(t)' = j
      BY <3>1, <2>1, <1>1 DEF JobOf, Current
    <3>3. QED
      BY <3>1, <3>2 DEF Accounted, Carried
  <2>2. CASE e # Current(t)
    BY <1>9, <2>2, <1>1, <1>4 DEF AckFailed, Acked, TypeOK
  <2>3. QED
    BY <2>1, <2>2
<1>10. ASSUME NEW t \in Threads, AckError(t) PROVE Accounted(j)'
  <2>1. CASE place'[e] \in Live
    BY <2>1, <1>4
  <2>2. CASE place'[e] \notin Live
    <3>1. e = Current(t) /\ place' # place
      BY <1>10, <2>2, <1>1 DEF AckError, Acked, TypeOK
    <3>2. JobOf(t) = j
      BY <3>1, <1>1 DEF JobOf
    <3>3. CASE pc[t] = "handled"
      <4>1. j \in handled
        BY <3>2, <3>3 DEF AllHold, Holds
      <4>2. QED
        BY <4>1, <1>10 DEF AckError, Accounted
    <3>4. CASE pc[t] = "failed" /\ LastAttempt(t)
      <4>1. pc'[t] = "dead" /\ batch' = batch /\ info' = info
        BY <1>10, <3>4 DEF AckError, TypeOK
      <4>2. JobOf(t)' = j
        BY <4>1, <3>2 DEF JobOf, Current
      <4>3. QED
        BY <4>1, <4>2 DEF Accounted, Carried
    <3>5. CASE pc[t] = "failed" /\ ~LastAttempt(t)
      <4>1. lost' = lost \cup {j}
        BY <1>10, <3>1, <3>2, <3>5 DEF AckError
      <4>2. QED
        BY <4>1 DEF Accounted
    <3>6. QED
      BY <1>10, <3>3, <3>4, <3>5 DEF AckError
  <2>3. QED
    BY <2>1, <2>2
<1>11. ASSUME NEW f \in Entries, Age(f) \/ PromoteDelayed(f) PROVE place'[e] \in Live
  BY <1>1, <1>11 DEF Age, PromoteDelayed, Live, Unacked, TypeOK
<1>12. ASSUME NEW f \in Entries, Trim(f) PROVE Accounted(j)'
  <2>1. CASE f = e
    BY <1>1, <1>12, <2>1 DEF Trim, Accounted
  <2>2. CASE f # e
    BY <1>1, <1>4, <1>12, <2>2 DEF Trim, TypeOK
  <2>3. QED
    BY <2>1, <2>2
<1>13. CASE UNCHANGED vars
  BY <1>1, <1>4, <1>13 DEF vars
<1>14. QED
  BY <1>4, <1>5, <1>6, <1>7, <1>8, <1>9, <1>10, <1>11, <1>12, <1>13 DEF Next, ThreadStep

(* No step makes a job vanish.                                             *)
LEMMA NothingPreserved ==
  TypeOK /\ Known /\ Fresh /\ AllHold /\ NothingVanishes /\ [Next]_vars => NothingVanishes'
<1> SUFFICES ASSUME TypeOK /\ Known /\ Fresh /\ AllHold, NothingVanishes, [Next]_vars,
                    NEW j \in Enqueued'
             PROVE  Accounted(j)'
  BY DEF NothingVanishes, Accounted
<1>1. CASE InStream(j)'
  BY <1>1 DEF Accounted
<1>2. CASE j \in Enqueued
  <2>1. Accounted(j)
    BY <1>2 DEF NothingVanishes, Accounted
  <2>2. CASE InStream(j)
    BY <2>2, InStreamKept
  <2>3. CASE Carried(j)
    BY <2>3, CarriedKept
  <2>4. CASE j \in handled \cup dead \cup lost
    BY <2>4, SettledKept DEF Accounted
  <2>5. QED
    BY <2>1, <2>2, <2>3, <2>4 DEF Accounted
<1>3. QED
  BY <1>1, <1>2, EnqueuedBefore

(* A dead job has failed MaxRetries + 1 times when it is dead-lettered,    *)
(* and no failure is counted beyond that.                                  *)
LEMMA DeadPreserved ==
  TypeOK /\ Known /\ Fresh /\ AllHold /\ DeadAfterRetries /\ [Next]_vars => DeadAfterRetries'
<1> SUFFICES ASSUME TypeOK /\ Known /\ Fresh /\ AllHold, DeadAfterRetries, [Next]_vars
             PROVE  DeadAfterRetries'
  OBVIOUS
<1>0. /\ failures' \in [Jobs -> 0..(MaxRetries + 1)]
      /\ dead \subseteq Jobs
  BY TypePreserved DEF TypeOK
<1>a. \A j \in Jobs : failures[j] <= failures'[j]
  BY Grows
<1>b. \A j \in dead : failures'[j] = MaxRetries + 1
  BY <1>0, <1>a, BoundsAssumption DEF DeadAfterRetries
<1>1. ASSUME NEW t \in Threads, DeadLetter(t) PROVE DeadAfterRetries'
  <2>1. batch[t] # {} /\ pc[t] = "dead"
    BY <1>1 DEF DeadLetter, TypeOK
  <2>2. JobOf(t) \in Jobs /\ info[Current(t)].attempt \in Nat
    BY <2>1, CurrentKnown
  <2>3. MaxRetries <= info[Current(t)].attempt /\ info[Current(t)].attempt < failures[JobOf(t)]
    BY <2>1, <2>2, BoundsAssumption DEF AllHold, Holds, LastAttempt
  <2>4. failures[JobOf(t)] \in 0..(MaxRetries + 1)
    BY <2>2 DEF TypeOK
  <2>5. failures[JobOf(t)] = MaxRetries + 1
    BY <2>2, <2>3, <2>4, BoundsAssumption
  <2>6. failures' = failures /\ dead' = dead \cup {JobOf(t)}
    BY <1>1 DEF DeadLetter
  <2>7. QED
    BY <2>5, <2>6, <1>b DEF DeadAfterRetries
<1>2. ASSUME dead' = dead PROVE DeadAfterRetries'
  BY <1>2, <1>b DEF DeadAfterRetries
<1>3. ASSUME NEW j \in Jobs, EnqueueJob(j) PROVE dead' = dead
  BY <1>3 DEF EnqueueJob
<1>4. ASSUME NEW t \in Threads,
             \/ ReadJobs(t) \/ ReclaimPending(t) \/ HandleSucceeds(t) \/ HandleFails(t)
             \/ AckHandled(t) \/ AckFailed(t) \/ AckError(t) \/ RetryJob(t)
             \/ WriteError(t) \/ Crash(t)
      PROVE  dead' = dead
  BY <1>4 DEF ReadJobs, ReclaimPending, Deliver, HandleSucceeds, HandleFails, AckHandled,
     AckFailed, AckError, RetryJob, WriteError, Crash
<1>5. ASSUME NEW e \in Entries, Age(e) \/ PromoteDelayed(e) \/ Trim(e) PROVE dead' = dead
  BY <1>5 DEF Age, PromoteDelayed, Trim
<1>6. CASE UNCHANGED vars
  BY <1>6, <1>2 DEF vars
<1>7. QED
  BY <1>1, <1>2, <1>3, <1>4, <1>5, <1>6 DEF Next, ThreadStep

-----------------------------------------------------------------------------
(* Nothing enqueued, nobody at work: the invariant holds at the start.     *)
LEMMA InitInvariant == Init => IInv
<1> SUFFICES ASSUME Init PROVE IInv
  OBVIOUS
<1>1. TypeOK
  BY BoundsAssumption DEF Init, TypeOK, Places
<1>2. Known /\ Attempted /\ AllHold /\ DeadAfterRetries
  BY DEF Init, Known, Attempted, AllHold, Holds, DeadAfterRetries
<1>3. Fresh
  BY BoundsAssumption DEF Init, Fresh, Entries
<1>4. NothingVanishes
  BY DEF Init, NothingVanishes, Enqueued
<1>5. QED
  BY <1>1, <1>2, <1>3, <1>4 DEF IInv

(* IInv is inductive: its parts together.                                  *)
LEMMA NextInvariant == IInv /\ [Next]_vars => IInv'
BY TypePreserved, KnownPreserved, FreshPreserved, AttemptedPreserved, AllHoldPreserved,
   NothingPreserved, DeadPreserved DEF IInv

(* IInv holds of every behaviour.                                          *)
LEMMA Invariance == Spec => []IInv
<1>1. QED
  BY InitInvariant, NextInvariant, PTL DEF Spec

(* Every variable of the job stream keeps its type, and no retry is made   *)
(* beyond MaxRetries (worker.go:122-171).                                  *)
THEOREM Types == Spec => []TypeOK
<1>1. IInv => TypeOK
  BY DEF IInv
<1>2. QED
  BY <1>1, Invariance, PTL

(* A job never disappears unnoticed, for any number of jobs, entries,      *)
(* workers and faults (worker.go:140-171).                                 *)
THEOREM NothingLost == Spec => []NothingVanishes
<1>1. IInv => NothingVanishes
  BY DEF IInv
<1>2. QED
  BY <1>1, Invariance, PTL

(* No job is given up before its handler failed MaxRetries + 1 times, for  *)
(* every MaxRetries and whoever ran it (worker.go:122-136).                *)
THEOREM DeadIsTired == Spec => []DeadAfterRetries
<1>1. IInv => DeadAfterRetries
  BY DEF IInv
<1>2. QED
  BY <1>1, Invariance, PTL
=============================================================================
