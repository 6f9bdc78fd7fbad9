------------------------------ MODULE JobStream ------------------------------
(***************************************************************************)
(* One Redis stream of jobs with its consumer group, the sorted set of     *)
(* delayed retries, the dead-letter stream, and the goroutines of the      *)
(* workers: those that read new entries (Worker.Run) and those that take   *)
(* over entries left unacknowledged for reclaimIdle (Worker.reclaimer).    *)
(* Both run processOne, each on one entry of its batch at a time.  An      *)
(* entry is a delivery of a job with its attempt count; a retry gets an    *)
(* entry of its own.  Unparsable entries and job types without a handler   *)
(* are left out, as are the times at which retries are due.                *)
(***************************************************************************)
EXTENDS Naturals, FiniteSets

CONSTANTS Jobs,
          Readers, Reclaimers,
          BatchSize,   \* defaultCount
          MaxRetries,
          MaxEntries,  \* bound: entries, enough for every retry of the Jobs
          MaxFaults,   \* bound: crashes, failed Redis commands, trimmed entries
          None

Threads == Readers \cup Reclaimers
Entries == 1..MaxEntries

ASSUME BoundsAssumption == MaxRetries \in Nat /\ MaxEntries \in Nat /\ MaxFaults \in Nat
ASSUME NoneAssumption == None \notin [job : Jobs, attempt : 0..MaxRetries]

VARIABLES
    place,    \* where each entry is
    info,     \* its job and attempt, None before it exists
    next,     \* entries made so far
    batch,    \* entries each goroutine has yet to process, the lowest first
    pc,       \* what it has done with that one
    handled,  \* jobs a handler completed
    failures, \* failed runs of each job's handler, counted up to MaxRetries + 1
    dead,     \* jobs in the dead-letter stream
    lost,     \* jobs of which an entry was lost for good
    faults

stream == <<place, info, next>>
vars == <<place, info, next, batch, pc, handled, failures, dead, lost, faults>>

Places == {"none", "waiting", "pending", "stale", "delayed", "gone"}
Unacked == {"pending", "stale"}

Init ==
    /\ place = [e \in Entries |-> "none"]
    /\ info = [e \in Entries |-> None]
    /\ next = 0
    /\ batch = [t \in Threads |-> {}]
    /\ pc = [t \in Threads |-> "ready"]
    /\ handled = {} /\ dead = {} /\ lost = {}
    /\ failures = [j \in Jobs |-> 0]
    /\ faults = 0

Enqueued == {info[e].job : e \in {f \in Entries : info[f] # None}}
Current(t) == CHOOSE e \in batch[t] : \A f \in batch[t] : e <= f
JobOf(t) == info[Current(t)].job

(* Variants: one attempt too few, one too many.                            *)
LastAttemptEarly(t) == info[Current(t)].attempt + 1 >= MaxRetries
LastAttemptLate(t) == info[Current(t)].attempt > MaxRetries

LastAttempt(t) == info[Current(t)].attempt >= MaxRetries

(* A new entry, in the stream or among the delayed ones.                   *)
Add(j, attempt, where) ==
    /\ next < MaxEntries
    /\ next' = next + 1
    /\ info' = [info EXCEPT ![next'] = [job |-> j, attempt |-> attempt]]
    /\ place' = [place EXCEPT ![next'] = where]

(* XACK: no error either when another consumer acknowledged it before.     *)
Acked(t) ==
    place' = [place EXCEPT ![Current(t)] = IF @ \in Unacked THEN "gone" ELSE @]

Fault == faults < MaxFaults /\ faults' = faults + 1

(* processOne returns.                                                     *)
Finish(t) ==
    /\ batch' = [batch EXCEPT ![t] = @ \ {Current(t)}]
    /\ pc' = [pc EXCEPT ![t] = "ready"]

-----------------------------------------------------------------------------
EnqueueJob(j) ==
    /\ j \notin Enqueued
    /\ Add(j, 0, "waiting")
    /\ UNCHANGED <<batch, pc, handled, failures, dead, lost, faults>>

Deliver(t, E) ==
    /\ batch' = [batch EXCEPT ![t] = E]
    /\ place' = [e \in Entries |-> IF e \in E THEN "pending" ELSE place[e]]
    /\ UNCHANGED <<info, next, pc, handled, failures, dead, lost, faults>>

(* XREADGROUP >                                                            *)
ReadJobs(t) ==
    /\ batch[t] = {}
    /\ \E E \in SUBSET {e \in Entries : place[e] = "waiting"} :
           E # {} /\ Cardinality(E) <= BatchSize /\ Deliver(t, E)

(* An unacknowledged entry is idle for reclaimIdle, in a batch or not.     *)
Age(e) ==
    /\ place[e] = "pending"
    /\ place' = [place EXCEPT ![e] = "stale"]
    /\ UNCHANGED <<info, next, batch, pc, handled, failures, dead, lost, faults>>

Stale == {e \in Entries : place[e] = "stale"}

(* Variant: a crashed consumer's entries stay with it.                     *)
ReclaimOwn(t) ==
    /\ batch[t] = {} /\ Stale \cap UNION {batch[u] : u \in Threads} # {}
    /\ Deliver(t, Stale \cap UNION {batch[u] : u \in Threads})

(* XAUTOCLAIM; it claims at most a hundred, which is never a limit here.   *)
ReclaimPending(t) ==
    /\ batch[t] = {} /\ Stale # {}
    /\ Deliver(t, Stale)

-----------------------------------------------------------------------------
(* processOne.                                                             *)

HandleSucceeds(t) ==
    /\ pc[t] = "ready" /\ batch[t] # {}
    /\ handled' = handled \cup {JobOf(t)}
    /\ pc' = [pc EXCEPT ![t] = "handled"]
    /\ UNCHANGED <<stream, batch, failures, dead, lost, faults>>

(* An error, a panic caught nowhere being a crash, or twenty seconds.      *)
HandleFails(t) ==
    /\ pc[t] = "ready" /\ batch[t] # {}
    /\ failures' = [failures EXCEPT ![JobOf(t)] = IF @ > MaxRetries THEN @ ELSE @ + 1]
    /\ pc' = [pc EXCEPT ![t] = "failed"]
    /\ UNCHANGED <<stream, batch, handled, dead, lost, faults>>

AckHandled(t) ==
    /\ pc[t] = "handled"
    /\ Acked(t)
    /\ Finish(t)
    /\ UNCHANGED <<info, next, handled, failures, dead, lost, faults>>

AckFailed(t) ==
    /\ pc[t] = "failed"
    /\ Acked(t)
    /\ pc' = [pc EXCEPT ![t] = IF LastAttempt(t) THEN "dead" ELSE "retry"]
    /\ UNCHANGED <<info, next, batch, handled, failures, dead, lost, faults>>

(* The XACK returned an error, though it may have run.  The worker goes on *)
(* only with a job to be dead-lettered.                                    *)
AckError(t) ==
    /\ pc[t] \in {"handled", "failed"}
    /\ Fault
    /\ Acked(t) \/ UNCHANGED place
    /\ IF pc[t] = "failed" /\ LastAttempt(t)
       THEN pc' = [pc EXCEPT ![t] = "dead"] /\ UNCHANGED <<batch, lost>>
       ELSE /\ Finish(t)
            /\ lost' = IF pc[t] = "failed" /\ place' # place THEN lost \cup {JobOf(t)} ELSE lost
    /\ UNCHANGED <<info, next, handled, failures, dead>>

RetryJob(t) ==
    /\ pc[t] = "retry"
    /\ Add(JobOf(t), info[Current(t)].attempt + 1, "delayed")
    /\ Finish(t)
    /\ UNCHANGED <<handled, failures, dead, lost, faults>>

DeadLetter(t) ==
    /\ pc[t] = "dead"
    /\ dead' = dead \cup {JobOf(t)}
    /\ Finish(t)
    /\ UNCHANGED <<stream, handled, failures, lost, faults>>

(* The ZADD of the retry or the XADD of the dead letter failed.            *)
WriteError(t) ==
    /\ pc[t] \in {"retry", "dead"}
    /\ Fault
    /\ lost' = lost \cup {JobOf(t)}
    /\ Finish(t)
    /\ UNCHANGED <<stream, handled, failures, dead>>

(* The goroutine's process dies and is started again.                      *)
Crash(t) ==
    /\ batch[t] # {}
    /\ Fault
    /\ lost' = IF pc[t] \in {"retry", "dead"} THEN lost \cup {JobOf(t)} ELSE lost
    /\ batch' = [batch EXCEPT ![t] = {}]
    /\ pc' = [pc EXCEPT ![t] = "ready"]
    /\ UNCHANGED <<stream, handled, failures, dead>>

-----------------------------------------------------------------------------
(* Variant: a retry that is due is removed from the delayed ones and not   *)
(* put into the stream.                                                    *)
PromoteNothing(e) ==
    /\ place[e] = "delayed"
    /\ place' = [place EXCEPT ![e] = "gone"]
    /\ UNCHANGED <<info, next, batch, pc, handled, failures, dead, lost, faults>>

(* promoteScript, for a retry that is due.                                 *)
PromoteDelayed(e) ==
    /\ place[e] = "delayed"
    /\ place' = [place EXCEPT ![e] = "waiting"]
    /\ UNCHANGED <<info, next, batch, pc, handled, failures, dead, lost, faults>>

(* MAXLEN dropped an entry nobody has acknowledged.                        *)
Trim(e) ==
    /\ place[e] \in {"waiting"} \cup Unacked
    /\ Fault
    /\ place' = [place EXCEPT ![e] = "gone"]
    /\ lost' = lost \cup {info[e].job}
    /\ UNCHANGED <<info, next, batch, pc, handled, failures, dead>>

(* What a goroutine does of itself; the handler decides how it ends.       *)
ThreadStep(t) ==
    \/ t \in Readers /\ ReadJobs(t)
    \/ t \in Reclaimers /\ ReclaimPending(t)
    \/ HandleSucceeds(t) \/ HandleFails(t) \/ AckHandled(t) \/ AckFailed(t)
    \/ RetryJob(t) \/ DeadLetter(t)

Next ==
    \/ \E j \in Jobs : EnqueueJob(j)
    \/ \E t \in Threads : ThreadStep(t) \/ AckError(t) \/ WriteError(t) \/ Crash(t)
    \/ \E e \in Entries : Age(e) \/ PromoteDelayed(e) \/ Trim(e)

Spec == Init /\ [][Next]_vars

(* The goroutines run, the promoter's ticker fires, and time passes.       *)
FairSpec ==
    /\ Spec
    /\ \A t \in Threads : WF_vars(ThreadStep(t))
    /\ \A e \in Entries : WF_vars(Age(e)) /\ WF_vars(PromoteDelayed(e))

-----------------------------------------------------------------------------
(* Type invariant; no attempt is counted beyond MaxRetries.                *)
TypeOK ==
    /\ place \in [Entries -> Places]
    /\ info \in [Entries -> [job : Jobs, attempt : 0..MaxRetries] \cup {None}]
    /\ next \in 0..MaxEntries
    /\ batch \in [Threads -> SUBSET Entries]
    /\ pc \in [Threads -> {"ready", "handled", "failed", "retry", "dead"}]
    /\ \A t \in Threads : batch[t] = {} => pc[t] = "ready"
    /\ handled \subseteq Jobs /\ dead \subseteq Jobs /\ lost \subseteq Jobs
    /\ failures \in [Jobs -> 0..(MaxRetries + 1)]
    /\ faults \in 0..MaxFaults
    /\ \A e \in Entries : place[e] = "none" <=> info[e] = None

InStream(j) ==
    \E e \in Entries : place[e] \in {"waiting", "delayed"} \cup Unacked /\ info[e].job = j

Carried(j) == \E t \in Threads : pc[t] \in {"retry", "dead"} /\ JobOf(t) = j

(* A job never disappears unnoticed: it was handled or dead-lettered, is   *)
(* still in Redis or with a worker, or one of the commands between an ACK  *)
(* and the write after it failed (interface.go:106; worker.go:140-171).    *)
NothingVanishes ==
    \A j \in Enqueued : InStream(j) \/ Carried(j) \/ j \in handled \cup dead \cup lost

(* A job is given up only after its handler failed MaxRetries + 1 times,   *)
(* whoever ran it, and however often it was reclaimed (worker.go:122-136). *)
DeadAfterRetries == \A j \in dead : failures[j] = MaxRetries + 1

(* Every job is settled in the end, also when the workers that held it     *)
(* crashed or could not acknowledge it (worker.go:195-220).                *)
JobsSettle == \A j \in Jobs : j \in Enqueued ~> j \in handled \cup dead \cup lost

(* At most one entry of a job is alive: a retry does not duplicate it      *)
(* (worker.go:158, "skipping retry to avoid duplicate").                   *)
OneCopy ==
    \A e, f \in Entries :
        /\ place[e] \in {"waiting", "delayed"} \cup Unacked
        /\ place[f] \in {"waiting", "delayed"} \cup Unacked
        /\ info[e].job = info[f].job
        => e = f
=============================================================================
