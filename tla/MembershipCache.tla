--------------------------- MODULE MembershipCache ---------------------------
(***************************************************************************)
(* The membership of one conversation: the rows of conversation_members    *)
(* behind the Redis hash conv:members:v2:<id> (RoomCache), and the row     *)
(* lock on the conversation (WithMembershipLock) that cache fills and      *)
(* membership changes share.  The callers are requests of any number of    *)
(* API processes.  A caller may lose its database connection without       *)
(* noticing: the server rolls its transaction back and frees the row lock  *)
(* while the caller goes on until its next SQL statement.  A Redis command *)
(* that fails at the client may have run, may run later, or never.         *)
(***************************************************************************)
EXTENDS Naturals, FiniteSets

CONSTANTS Callers,   \* requests in progress at the same time
          Users,     \* users of the conversation
          Tokens,    \* names of cache fills (uuid.NewString)
          MaxLate,   \* bound: failed Redis commands still on their way
          None

VARIABLES
    db,         \* committed rows of conversation_members
    rowLock,    \* caller holding SELECT ... FOR UPDATE on the conversation
    cacheState, \* "absent", "loading" (_loading = token) or "ready" (_ready = 1)
    cacheToken, \* the _loading field
    cacheUsers, \* the member fields of a ready hash
    late,       \* Redis commands whose client saw an error and that may still run
    pc,         \* where each caller is in its call
    request,    \* what it was asked
    token,      \* the token of its fill, None when the fill will not publish
    ids,        \* the member IDs it read from the database for its fill
    answer,     \* what it will return
    outcome     \* how its last call ended

cache == <<cacheState, cacheToken, cacheUsers>>
vars == <<db, rowLock, cacheState, cacheToken, cacheUsers, late, pc, request,
          token, ids, answer, outcome>>

Register == INSTANCE MembershipRegister WITH members <- db

Requests == Register!Requests
Prepares == [op : {"prepare"}, token : Tokens]
Stores == [op : {"store"}, token : Tokens, users : SUBSET Users]
Steps == {"idle", "script", "database", "lock", "recheck", "prepare", "load",
          "store", "commit", "invalidate", "apply", "done"}

Answers == [found : SUBSET Users] \cup {Register!Applied}

ASSUME NoneAssumption ==
    None \notin Callers /\ None \notin Tokens /\ None \notin Requests /\ None \notin Answers

InsideLock == {"recheck", "prepare", "load", "store", "commit", "invalidate", "apply"}

Found(S, p) == [found |-> S \cap request[p].users]

Init ==
    /\ db \in SUBSET Users
    /\ rowLock = None
    /\ cacheState = "absent"
    /\ cacheToken = None
    /\ cacheUsers = {}
    /\ late = {}
    /\ pc = [p \in Callers |-> "idle"]
    /\ request = [p \in Callers |-> None]
    /\ token = [p \in Callers |-> None]
    /\ ids = [p \in Callers |-> {}]
    /\ answer = [p \in Callers |-> None]
    /\ outcome = [p \in Callers |-> "ok"]

-----------------------------------------------------------------------------
(* The cache key.                                                          *)

DelKey == cacheState' = "absent" /\ cacheToken' = None /\ cacheUsers' = {}

(* MULTI; DEL; HSET _loading token; EXPIRE; EXEC                           *)
RunPrepare(t) == cacheState' = "loading" /\ cacheToken' = t /\ cacheUsers' = {}

(* Variant: the script publishes without looking at _loading.              *)
RunStoreUnchecked(t, S) == cacheState' = "ready" /\ cacheToken' = None /\ cacheUsers' = S

(* storeMembersScript: publishes only under the token of its own fill.     *)
RunStore(t, S) ==
    IF cacheState = "loading" /\ cacheToken = t
    THEN cacheState' = "ready" /\ cacheToken' = None /\ cacheUsers' = S
    ELSE UNCHANGED cache

(* A command whose client sees an error: it may still be on its way.       *)
MayArriveLate(c) ==
    \/ UNCHANGED late
    \/ Cardinality(late) < MaxLate /\ late' = late \cup {c}

Goto(p, step) == pc' = [pc EXCEPT ![p] = step]

Answer(p, a) == answer' = [answer EXCEPT ![p] = a]

(* The caller is back with its result: the state a request leaves behind.  *)
Finish(p, how) ==
    /\ Goto(p, "idle")
    /\ request' = [request EXCEPT ![p] = None]
    /\ token' = [token EXCEPT ![p] = None]
    /\ ids' = [ids EXCEPT ![p] = {}]
    /\ answer' = [answer EXCEPT ![p] = None]
    /\ outcome' = [outcome EXCEPT ![p] = how]

(* Variant: an error path without its rollback.                            *)
ReleaseNothing(p) == UNCHANGED rowLock

(* tx.Rollback, deferred: a no-op once the connection or the lock is gone. *)
ReleaseLock(p) == rowLock' = IF rowLock = p THEN None ELSE rowLock

-----------------------------------------------------------------------------
(* Calls: GetMembers asks for all users, IsMember for one.                 *)

CallRead(p) ==
    /\ pc[p] = "idle"
    /\ \E U \in {Users} \cup {{u} : u \in Users} :
           request' = [request EXCEPT ![p] = [op |-> "read", users |-> U]]
    /\ Goto(p, "script")
    /\ UNCHANGED <<db, rowLock, cache, late, token, ids, answer, outcome>>

CallUpdate(p) ==
    /\ pc[p] = "idle"
    /\ \E o \in {"add", "remove"}, u \in Users :
           request' = [request EXCEPT ![p] = [op |-> o, users |-> {u}]]
    /\ Goto(p, "lock")
    /\ UNCHANGED <<db, rowLock, cache, late, token, ids, answer, outcome>>

(* readMembersScript and isMemberScript at the start of a call.            *)
RunScript(p) ==
    /\ pc[p] = "script"
    /\ \/ /\ cacheState = "ready"
          /\ Answer(p, Found(cacheUsers, p))
          /\ Goto(p, "done")
       \/ cacheState # "ready" /\ Goto(p, "lock") /\ UNCHANGED answer
       \/ Goto(p, "database") /\ UNCHANGED answer          \* Redis error
    /\ UNCHANGED <<db, rowLock, cache, late, request, token, ids, outcome>>

(* Redis is unavailable: answer from the database, outside any lock.       *)
ReadDatabase(p) ==
    /\ pc[p] = "database"
    /\ Answer(p, Found(db, p))
    /\ Goto(p, "done")
    /\ UNCHANGED <<db, rowLock, cache, late, request, token, ids, outcome>>

(* WithMembershipLock: BEGIN, then SELECT ... FOR UPDATE.                  *)
AcquireLock(p) ==
    /\ pc[p] = "lock"
    /\ rowLock = None
    /\ rowLock' = p
    /\ Goto(p, IF request[p].op = "read" THEN "recheck" ELSE "invalidate")
    /\ UNCHANGED <<db, cache, late, request, token, ids, answer, outcome>>

-----------------------------------------------------------------------------
(* loadMembers: a fill, inside the lock.                                   *)

Fresh(t) ==
    /\ t # cacheToken
    /\ \A c \in late : c.token # t
    /\ \A q \in Callers : token[q] # t

(* Another fill may have finished while this one waited for the lock.      *)
Recheck(p) ==
    /\ pc[p] = "recheck"
    /\ \/ /\ cacheState = "ready"
          /\ Answer(p, Found(cacheUsers, p))
          /\ Goto(p, "commit")
          /\ UNCHANGED token
       \/ /\ cacheState # "ready"
          /\ \E t \in Tokens : Fresh(t) /\ token' = [token EXCEPT ![p] = t]
          /\ Goto(p, "prepare")
          /\ UNCHANGED answer
       \/ Goto(p, "load") /\ UNCHANGED <<token, answer>>   \* Redis error
    /\ UNCHANGED <<db, rowLock, cache, late, request, ids, outcome>>

Prepare(p) ==
    /\ pc[p] = "prepare"
    /\ Goto(p, "load")
    /\ \/ RunPrepare(token[p]) /\ UNCHANGED <<late, token>>
       \/ /\ MayArriveLate([op |-> "prepare", token |-> token[p]])
          /\ token' = [token EXCEPT ![p] = None]
          /\ UNCHANGED cache
    /\ UNCHANGED <<db, rowLock, request, ids, answer, outcome>>

(* Variant: the fill publishes although it could not mark the key.         *)
LoadIgnoringCacheErrors(p) ==
    /\ pc[p] = "load"
    /\ rowLock = p
    /\ ids' = [ids EXCEPT ![p] = db]
    /\ Answer(p, Found(db, p))
    /\ Goto(p, "store")
    /\ UNCHANGED <<db, rowLock, cache, late, request, token, outcome>>

(* source.GetConversationMemberIDs, in the transaction: it fails when the  *)
(* connection, and with it the row lock, is gone.                          *)
Load(p) ==
    /\ pc[p] = "load"
    /\ rowLock = p
    /\ ids' = [ids EXCEPT ![p] = db]
    /\ Answer(p, Found(db, p))
    /\ Goto(p, IF token[p] # None THEN "store" ELSE "commit")
    /\ UNCHANGED <<db, rowLock, cache, late, request, token, outcome>>

Store(p) ==
    /\ pc[p] = "store"
    /\ \/ RunStore(token[p], ids[p]) /\ UNCHANGED late
       \/ /\ MayArriveLate([op |-> "store", token |-> token[p], users |-> ids[p]])
          /\ UNCHANGED cache
    /\ token' = [token EXCEPT ![p] = None]
    /\ ids' = [ids EXCEPT ![p] = {}]
    /\ Goto(p, "commit")
    /\ UNCHANGED <<db, rowLock, request, answer, outcome>>

CommitFill(p) ==
    /\ pc[p] = "commit"
    /\ rowLock = p
    /\ rowLock' = None
    /\ Goto(p, "done")
    /\ UNCHANGED <<db, cache, late, request, token, ids, answer, outcome>>

-----------------------------------------------------------------------------
(* Variant: a change goes on when Redis could not drop the key.            *)
InvalidateOrIgnore(p) ==
    /\ pc[p] = "invalidate"
    /\ DelKey \/ UNCHANGED cache
    /\ Goto(p, "apply")
    /\ UNCHANGED <<db, rowLock, late, request, token, ids, answer, outcome>>

(* UpdateMembership: drop the key first, then change the rows.             *)

Invalidate(p) ==
    /\ pc[p] = "invalidate"
    /\ DelKey
    /\ Goto(p, "apply")
    /\ UNCHANGED <<db, rowLock, late, request, token, ids, answer, outcome>>

(* apply and COMMIT: other sessions see the rows change at the commit.     *)
CommitUpdate(p) ==
    /\ pc[p] = "apply"
    /\ rowLock = p
    /\ db' = Register!Change(db, request[p])
    /\ rowLock' = None
    /\ Answer(p, Register!Applied)
    /\ Goto(p, "done")
    /\ UNCHANGED <<cache, late, request, token, ids, outcome>>

-----------------------------------------------------------------------------
(* A read or an update returns its result.                                 *)
Return(p) ==
    /\ pc[p] = "done"
    /\ Finish(p, "ok")
    /\ UNCHANGED <<db, rowLock, cache, late>>

(* The call ends with an error: a SQL error, a lost transaction, the five  *)
(* seconds of membershipOperationTimeout, a DEL that Redis refused, or a   *)
(* COMMIT whose answer was lost ("done" of an update).                     *)
Abort(p) ==
    /\ \/ pc[p] \in {"database", "lock", "load", "commit", "invalidate", "apply"}
       \/ pc[p] = "done" /\ request[p].op # "read"
    /\ ReleaseLock(p)
    /\ Finish(p, "error")
    /\ UNCHANGED <<db, cache, late>>

(* The server drops the connection that holds the row lock.                *)
LoseConnection(p) ==
    /\ rowLock = p
    /\ rowLock' = None
    /\ UNCHANGED <<db, cache, late, pc, request, token, ids, answer, outcome>>

(* EXPIRE, an eviction, or a DEL that runs after its client gave up.       *)
Expire ==
    /\ cacheState # "absent"
    /\ DelKey
    /\ UNCHANGED <<db, rowLock, late, pc, request, token, ids, answer, outcome>>

(* A failed command runs after all, or is lost for good.                   *)
Arrive(c) ==
    /\ late' = late \ {c}
    /\ \/ c.op = "prepare" /\ RunPrepare(c.token)
       \/ c.op = "store" /\ RunStore(c.token, c.users)
       \/ UNCHANGED cache
    /\ UNCHANGED <<db, rowLock, pc, request, token, ids, answer, outcome>>

Step(p) ==
    \/ RunScript(p) \/ ReadDatabase(p) \/ AcquireLock(p)
    \/ Recheck(p) \/ Prepare(p) \/ Load(p) \/ Store(p) \/ CommitFill(p)
    \/ Invalidate(p) \/ CommitUpdate(p) \/ Return(p) \/ Abort(p)

Next ==
    \/ \E p \in Callers : CallRead(p) \/ CallUpdate(p) \/ Step(p) \/ LoseConnection(p)
    \/ Expire
    \/ \E c \in late : Arrive(c)

Spec == Init /\ [][Next]_vars

-----------------------------------------------------------------------------
(* Type invariant.                                                         *)
TypeOK ==
    /\ db \in SUBSET Users
    /\ rowLock \in Callers \cup {None}
    /\ cacheState \in {"absent", "loading", "ready"}
    /\ cacheToken \in Tokens \cup {None}
    /\ cacheUsers \in SUBSET Users
    /\ late \in SUBSET (Prepares \cup Stores)
    /\ pc \in [Callers -> Steps]
    /\ request \in [Callers -> Requests \cup {None}]
    /\ token \in [Callers -> Tokens \cup {None}]
    /\ ids \in [Callers -> SUBSET Users]
    /\ answer \in [Callers -> Answers \cup {None}]
    /\ outcome \in [Callers -> {"ok", "error"}]

(* A ready hash lists exactly the committed members: no stale grant        *)
(* survives a removal and no member is locked out after joining, although  *)
(* fills outlive their lock and failed commands run late.                  *)
(* room_cache.go:98, room_cache.go:151                                     *)
CacheCoherent == cacheState = "ready" => cacheUsers = db

(* Every answer was the committed membership at some instant of its call,  *)
(* and a change reported done was done (room_cache.go:87,151,213).         *)
RegisterSpec == Register!Spec

(* The row lock belongs to a call still inside WithMembershipLock: every    *)
(* error path rolls back, so no abandoned lock blocks later fills and       *)
(* changes (room_repo.go:28-42).                                           *)
NoAbandonedLock == \A p \in Callers : rowLock = p => pc[p] \in InsideLock
=============================================================================
