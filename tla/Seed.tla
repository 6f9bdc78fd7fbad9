--------------------------------- MODULE Seed ---------------------------------
(***************************************************************************)
(* The sample-data tool: apply, sync and reset of one dataset, seen through*)
(* one of its conversations and one member of it.  The rows live in MySQL  *)
(* and the counters in Redis; a row of the registry says how far a command *)
(* came, so that a later one can finish what a crash or an error left.  A  *)
(* command holds an advisory lock of its MySQL connection: when that is    *)
(* lost the lock is free, and the command goes on until it needs MySQL.    *)
(***************************************************************************)
EXTENDS Naturals

CONSTANTS Commands,    \* runs of cmd/seed at the same time
          MaxSeq,      \* bound on the sequence numbers the application draws
          MaxFaults,   \* bound on failures, crashes and lost connections
          None

VARIABLES
    state,     \* of the registry row, None without one
    stored,    \* MAX(seq) of the rows of the dataset, None without rows
    unseen,    \* messages of them the member has not read
    damaged,   \* the rows do not pass verifySQL, while jobs are pending
    related,   \* rows outside the dataset that reset protects
    seq,       \* seq:<conv> in Redis, None without a key
    unread,    \* unread:<conv>:<member>
    cached,    \* conv:members:v2:<conv> exists
    lock,      \* the command that holds the advisory lock
    cmd,       \* what each command is doing
    faults,    \* how many failures happened
    drawn,     \* history: highest sequence number drawn from the key there is
    touched,   \* history: the counters may differ since they were last verified
    overtaken  \* history: a command began while one without its lock went on

sqlVars == <<state, stored, unseen>>
appVars == <<damaged, related>>
redisVars == <<seq, unread, cached>>
vars == <<sqlVars, appVars, redisVars, lock, cmd, faults, drawn, touched, overtaken>>

Idle == [step |-> "idle", connected |-> FALSE, seq |-> None, unread |-> None]

Kinds == {"apply", "sync", "reset"}

Steps == {"idle"} \cup Kinds \cup
         {"insert", "mark", "count", "write", "drop_members", "verify", "ready",
          "delete", "delete_keys", "forget"}

(* The dataset has two messages, of which the member has read one.         *)
Init ==
    /\ state = None /\ stored = None /\ unseen = 0
    /\ damaged = FALSE /\ related = FALSE
    /\ seq = None /\ unread = None /\ cached = FALSE
    /\ lock = None
    /\ cmd = [p \in Commands |-> Idle]
    /\ faults = 0 /\ drawn = 0 /\ touched = FALSE /\ overtaken = FALSE

Goto(p, step) ==
    /\ cmd' = [cmd EXCEPT ![p].step = step]
    /\ UNCHANGED lock

(* Close: RELEASE_LOCK, and the end of the connection.                     *)
Close(p) ==
    /\ cmd' = [cmd EXCEPT ![p] = Idle]
    /\ lock' = IF lock = p THEN None ELSE lock

Fault == faults < MaxFaults /\ faults' = faults + 1

(* A statement of p runs and p goes on, or the command ends with an error: *)
(* the statement may have run when the connection broke.                   *)
SQL(p, Statement, Then) ==
    \/ /\ cmd[p].connected /\ Statement /\ Then
       /\ UNCHANGED faults
    \/ /\ cmd[p].connected /\ Fault /\ Close(p)
       /\ Statement \/ UNCHANGED sqlVars
    \/ /\ ~cmd[p].connected /\ Close(p)
       /\ UNCHANGED <<sqlVars, faults>>

-----------------------------------------------------------------------------
(* Open takes the lock or fails.  writers-stopped is taken at its word.    *)
Open(p, kind) ==
    /\ cmd[p] = Idle /\ lock = None
    /\ lock' = p
    /\ cmd' = [cmd EXCEPT ![p].step = kind, ![p].connected = TRUE]
    /\ overtaken' = (overtaken \/ \E q \in Commands : cmd[q] # Idle)
    /\ UNCHANGED <<sqlVars, appVars, redisVars, faults, drawn, touched>>

(* The rows are those of a dataset, with no job left to do for them.       *)
verifySQL == ~damaged

(* Reset finds nothing outside the dataset that its deletes would reach.   *)
Unrelated == ~related

(* Variant: a reset that got as far as Redis is not taken up again.        *)
AfterLoadRefusing(kind) ==
    IF kind = "apply" /\ state = None THEN "insert"
    ELSE IF kind = "sync" /\ state \in {"ready", "sql-ready"} /\ verifySQL THEN "mark"
    ELSE IF kind = "reset" /\ state \in {"ready", "sql-ready"} /\ Unrelated THEN "delete"
    ELSE "idle"

(* The state of the registry decides whether a command has something to do.*)
AfterLoad(kind) ==
    IF kind = "apply" /\ state = None THEN "insert"
    ELSE IF kind = "sync" /\ state \in {"ready", "sql-ready"} /\ verifySQL THEN "mark"
    ELSE IF kind = "reset" /\ state \in {"ready", "sql-ready"} /\ Unrelated THEN "delete"
    ELSE IF kind = "reset" /\ state = "reset-db-done" THEN "delete_keys"
    ELSE "idle"

Load(p) ==
    /\ cmd[p].step \in Kinds
    /\ LET next == AfterLoad(cmd[p].step)
       IN IF cmd[p].connected /\ next # "idle"
          THEN Goto(p, next)
          ELSE Close(p)
    /\ UNCHANGED <<sqlVars, appVars, redisVars, faults, drawn, touched, overtaken>>

(* Apply: one transaction for the rows and the registry, whose key refuses *)
(* a second row.                                                           *)
Insert(p) ==
    /\ cmd[p].step = "insert"
    /\ IF state = None
       THEN SQL(p, state' = "sql-ready" /\ stored' = 2 /\ unseen' = 1, Goto(p, "mark"))
       ELSE Close(p) /\ UNCHANGED <<sqlVars, faults>>
    /\ UNCHANGED <<appVars, redisVars, drawn, touched, overtaken>>

-----------------------------------------------------------------------------
(* syncDataset                                                             *)

SetState(new) ==
    /\ state' = IF state = None THEN None ELSE new
    /\ UNCHANGED <<stored, unseen>>

Mark(p) ==
    /\ cmd[p].step = "mark"
    /\ SQL(p, SetState("sql-ready"), Goto(p, "count"))
    /\ UNCHANGED <<appVars, redisVars, drawn, touched, overtaken>>

(* MAX(seq), and the unread messages of each member there is.              *)
Counters == [seq |-> IF stored = None THEN 0 ELSE stored,
             unread |-> IF stored = None THEN None ELSE unseen]

Count(p) ==
    /\ cmd[p].step = "count"
    /\ IF cmd[p].connected
       THEN /\ cmd' = [cmd EXCEPT ![p].step = "write", ![p].seq = Counters.seq,
                                  ![p].unread = Counters.unread]
            /\ UNCHANGED lock
       ELSE Close(p)
    /\ UNCHANGED <<sqlVars, appVars, redisVars, faults, drawn, touched, overtaken>>

(* Variant: the script sets what it is told.                               *)
syncSequenceToWanted(wanted) == seq' = wanted

(* The script that never lowers a sequence.                                *)
syncSequence(wanted) == seq' = IF seq = None \/ seq < wanted THEN wanted ELSE seq

SetUnread(value) == unread' = IF value = None THEN unread ELSE value

(* Batches of a pipeline; after an error some of the commands have run.    *)
Write(p) ==
    /\ cmd[p].step = "write"
    /\ \/ /\ syncSequence(cmd[p].seq) /\ SetUnread(cmd[p].unread)
          /\ Goto(p, "drop_members")
          /\ UNCHANGED faults
       \/ /\ Fault /\ Close(p)
          /\ syncSequence(cmd[p].seq) \/ UNCHANGED seq
          /\ SetUnread(cmd[p].unread) \/ UNCHANGED unread
    /\ UNCHANGED <<sqlVars, appVars, cached, drawn, touched, overtaken>>

DropMembers(p) ==
    /\ cmd[p].step = "drop_members"
    /\ \/ cached' = FALSE /\ Goto(p, "verify") /\ UNCHANGED faults
       \/ cached' \in {cached, FALSE} /\ Fault /\ Close(p)
    /\ UNCHANGED <<sqlVars, appVars, seq, unread, drawn, touched, overtaken>>

(* verifyCounters reads MySQL again, and then Redis.                       *)
Verified ==
    /\ seq # None /\ seq >= Counters.seq
    /\ Counters.unread # None => unread = Counters.unread

VerifyCounters(p) ==
    /\ cmd[p].step = "verify"
    /\ IF cmd[p].connected /\ Verified
       THEN Goto(p, "ready") /\ touched' = FALSE
       ELSE Close(p) /\ UNCHANGED touched
    /\ UNCHANGED <<sqlVars, appVars, redisVars, faults, drawn, overtaken>>

MarkReady(p) ==
    /\ cmd[p].step = "ready"
    /\ SQL(p, SetState("ready"), Close(p))
    /\ UNCHANGED <<appVars, redisVars, drawn, touched, overtaken>>

-----------------------------------------------------------------------------
(* Reset                                                                   *)

Delete(p) ==
    /\ cmd[p].step = "delete"
    /\ SQL(p, /\ state' = IF state = None THEN None ELSE "reset-db-done"
              /\ stored' = None /\ unseen' = 0, Goto(p, "delete_keys"))
    /\ UNCHANGED <<appVars, redisVars, drawn, touched, overtaken>>

(* DEL in batches; an error leaves the rest to another reset.              *)
DeleteKeys(p) ==
    /\ cmd[p].step = "delete_keys"
    /\ \/ /\ seq' = None /\ unread' = None /\ cached' = FALSE
          /\ Goto(p, "forget")
          /\ UNCHANGED faults
       \/ /\ seq' \in {seq, None} /\ unread' \in {unread, None} /\ cached' \in {cached, FALSE}
          /\ Fault /\ Close(p)
    /\ drawn' = IF seq' = None THEN 0 ELSE drawn
    /\ UNCHANGED <<sqlVars, appVars, touched, overtaken>>

(* The registry row goes last.                                             *)
Forget(p) ==
    /\ cmd[p].step = "forget"
    /\ SQL(p, state' = None /\ UNCHANGED <<stored, unseen>>, Close(p))
    /\ UNCHANGED <<appVars, redisVars, drawn, touched, overtaken>>

Step(p) ==
    \/ Load(p) \/ Insert(p)
    \/ Mark(p) \/ Count(p) \/ Write(p) \/ DropMembers(p) \/ VerifyCounters(p) \/ MarkReady(p)
    \/ Delete(p) \/ DeleteKeys(p) \/ Forget(p)

-----------------------------------------------------------------------------
(* The command's process dies, or its timeout ends it between two steps.   *)
Crash(p) ==
    /\ cmd[p] # Idle
    /\ Fault /\ Close(p)
    /\ UNCHANGED <<sqlVars, appVars, redisVars, drawn, touched, overtaken>>

(* MySQL closes the connection, and frees the lock with it.                *)
LoseConnection(p) ==
    /\ cmd[p].connected
    /\ Fault
    /\ cmd' = [cmd EXCEPT ![p].connected = FALSE]
    /\ lock' = None
    /\ UNCHANGED <<sqlVars, appVars, redisVars, drawn, touched, overtaken>>

(* Redis restarts without some keys.                                       *)
LoseKeys ==
    /\ Fault
    /\ seq' \in {seq, None} /\ unread' \in {unread, None} /\ cached' \in {cached, FALSE}
    /\ touched' = TRUE
    /\ drawn' = IF seq' = None THEN 0 ELSE drawn
    /\ UNCHANGED <<sqlVars, appVars, lock, cmd, overtaken>>

-----------------------------------------------------------------------------
(* The application: API and worker run while no command does.              *)

Running == stored # None /\ \A p \in Commands : cmd[p] = Idle

(* A message draws the next number; its insertion may fail, and the unread *)
(* count is left alone if the member views the conversation.               *)
Send ==
    /\ Running
    /\ LET n == (IF seq = None \/ seq < stored THEN stored ELSE seq) + 1
       IN /\ n <= MaxSeq
          /\ seq' = n /\ drawn' = n
          /\ \/ UNCHANGED <<stored, unseen, unread, damaged>>
             \/ /\ stored' = n /\ unseen' = unseen + 1
                /\ unread' \in {unread, IF unread = None THEN 1 ELSE unread + 1}
                /\ damaged' \in {damaged, TRUE}
    /\ cached' = TRUE /\ touched' = TRUE
    /\ UNCHANGED <<state, related, lock, cmd, faults, overtaken>>

(* MarkAsRead of the last message.                                         *)
Read ==
    /\ Running /\ unseen > 0
    /\ unseen' = 0 /\ unread' = 0 /\ touched' = TRUE
    /\ UNCHANGED <<state, stored, appVars, seq, cached, lock, cmd, faults, drawn, overtaken>>

(* The worker has done its jobs.                                           *)
Settle ==
    /\ Running /\ damaged
    /\ damaged' = FALSE
    /\ UNCHANGED <<sqlVars, related, redisVars, lock, cmd, faults, drawn, touched, overtaken>>

(* A synthetic user logs in, or gets a contact.                            *)
Relate ==
    /\ Running /\ ~related
    /\ related' = TRUE
    /\ UNCHANGED <<sqlVars, damaged, redisVars, lock, cmd, faults, drawn, touched, overtaken>>

Next ==
    \/ Send \/ Read \/ Settle \/ Relate \/ LoseKeys
    \/ \E p \in Commands :
          \/ \E kind \in Kinds : Open(p, kind)
          \/ Step(p) \/ Crash(p) \/ LoseConnection(p)

(* A command that runs goes on; whoever uses the tool follows its README   *)
(* and runs sync, or reset, again and again while the lock can be had.     *)
Fairness ==
    /\ \A p \in Commands : WF_vars(Step(p))
    /\ SF_vars(\E p \in Commands : Open(p, "sync"))
    /\ SF_vars(\E p \in Commands : Open(p, "reset"))

Spec == Init /\ [][Next]_vars /\ Fairness

-----------------------------------------------------------------------------
(* Type invariant.                                                         *)
TypeOK ==
    /\ state \in {None, "sql-ready", "ready", "reset-db-done"}
    /\ stored \in 2 .. MaxSeq \cup {None} /\ unseen \in Nat
    /\ damaged \in BOOLEAN /\ related \in BOOLEAN
    /\ seq \in 0 .. MaxSeq \cup {None} /\ unread \in Nat \cup {None} /\ cached \in BOOLEAN
    /\ lock \in Commands \cup {None}
    /\ cmd \in [Commands -> [step : Steps, connected : BOOLEAN,
                            seq : 0 .. MaxSeq \cup {None}, unread : Nat \cup {None}]]
    /\ faults \in 0 .. MaxFaults /\ drawn \in 0 .. MaxSeq
    /\ touched \in BOOLEAN /\ overtaken \in BOOLEAN

(* A dataset that is ready, and that nothing touched since, has the        *)
(* counters of its rows in Redis, and one that is gone has left nothing    *)
(* behind, whatever command failed or died where: unless a command without *)
(* its lock ran on beside another one.  No command lowers a sequence below *)
(* a number drawn from it.  lifecycle.go:36, lifecycle.go:138, store.go:98 *)
SeedSynced ==
    /\ state = "ready" /\ ~touched /\ ~overtaken =>
           seq # None /\ seq >= stored /\ unread = unseen
    /\ state = None /\ ~overtaken =>
           stored = None /\ seq = None /\ unread = None /\ ~cached
    /\ seq # None => seq >= drawn

Stuck == state \in {"sql-ready", "reset-db-done"}

(* A command that stopped half way does not leave the dataset stuck: the   *)
(* next step the README names ends it ready or gone, unless the            *)
(* application left both jobs that sync waits for and rows reset protects. *)
(* lifecycle.go:27, lifecycle.go:81, cmd/seed/README.md                    *)
SeedRecovers == Stuck ~> (~Stuck \/ (damaged /\ related))
=============================================================================
