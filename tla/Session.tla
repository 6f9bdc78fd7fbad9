------------------------------- MODULE Session -------------------------------
(***************************************************************************)
(* The login sessions of one user: the rows of user_tokens, one a device,  *)
(* and the Redis keys session:<jti> that make a token valid.  Logins and   *)
(* logouts run in any number of API processes, without a transaction that  *)
(* covers both stores: each step below is one SQL statement or one Redis   *)
(* command, the next step is a later statement, and a process may die or   *)
(* lose its store between two of them.                                     *)
(***************************************************************************)
EXTENDS Naturals, FiniteSets, Sequences, SequencesExt

CONSTANTS Callers,     \* requests in progress at the same time
          Devices,     \* device ids of the user
          Jtis,        \* token ids (crypto.NewUUIDv7Bytes), each issued once
          MaxDevices,  \* maxDevicesPerUser
          None

VARIABLES
    rows,       \* device -> jti of its row in user_tokens, None without a row
    recent,     \* the devices that have a row, by last_used_at, newest first
    live,       \* jtis whose key session:<jti> exists in Redis
    unsure,     \* jtis whose SET failed at the client and may still run
    call,       \* what each caller is doing
    issued,     \* jtis of all tokens made so far
    delivered,  \* jtis of tokens a login returned to its client
    closed,     \* history: jtis of logouts that were answered with success
    contended,  \* history: callers whose login overlapped another write
    raced       \* history: jtis touched by a contended login

stores == <<rows, recent, live, unsure>>
history == <<closed, contended, raced>>
vars == <<rows, recent, live, unsure, call, issued, delivered, closed, contended, raced>>

LoginSteps == {"lookup", "revoke_old", "upsert", "count", "oldest", "revoke",
               "revoke_failed", "delete", "set", "undo_session", "undo_row"}
LogoutSteps == {"logout_session", "logout_row"}
Calls == [step : {"idle"} \cup LoginSteps \cup LogoutSteps, device : Devices \cup {None},
          jti : Jtis \cup {None}, targets : SUBSET Jtis]

Idle == [step |-> "idle", device |-> None, jti |-> None, targets |-> {}]

Init ==
    /\ rows = [d \in Devices |-> None]
    /\ recent = <<>>
    /\ live = {}
    /\ unsure = {}
    /\ call = [p \in Callers |-> Idle]
    /\ issued = {}
    /\ delivered = {}
    /\ closed = {}
    /\ contended = {}
    /\ raced = {}

-----------------------------------------------------------------------------
(* The statements of userTokenRepo and SessionStore.                       *)

Listed(j) == \E d \in Devices : rows[d] = j

(* A device has one row at most.                                           *)
Without(s, d) ==
    LET at == {i \in DOMAIN s : s[i] = d}
    IN IF at = {} THEN s ELSE RemoveAt(s, CHOOSE i \in at : TRUE)

(* Variant: the limit leaves out the device that is logging in.            *)
WithinLimitPlusOne == IF Len(recent) <= MaxDevices + 1 THEN Len(recent) ELSE MaxDevices + 1

(* How many rows are among the MaxDevices last used ones: the LIMIT.       *)
WithinLimit == IF Len(recent) <= MaxDevices THEN Len(recent) ELSE MaxDevices

(* The other rows: OFFSET limit of GetOldestJTIByUserIDBeyondLimit and the *)
(* NOT IN of the DELETE.                                                   *)
BeyondLimit == {recent[i] : i \in (WithinLimit + 1) .. Len(recent)}

(* INSERT ... ON DUPLICATE KEY UPDATE on (user_id, device_id).  The time   *)
(* of the use is taken before, so overlapping logins come in any order.    *)
UpsertRow(p, j) ==
    LET d == call[p].device
        others == Without(recent, d)
        last == IF p \in contended THEN Len(others) + 1 ELSE 1
    IN /\ rows' = [rows EXCEPT ![d] = j]
       /\ \E k \in 1 .. last : recent' = InsertAt(others, k, d)

DeleteOldestBeyondLimit ==
    /\ rows' = [d \in Devices |-> IF d \in BeyondLimit THEN None ELSE rows[d]]
    /\ recent' = SubSeq(recent, 1, WithinLimit)

(* DELETE ... WHERE jti = ?, which is unique.                              *)
DeleteByJTI(j) ==
    \/ ~Listed(j) /\ UNCHANGED <<rows, recent>>
    \/ \E d \in Devices :
           /\ rows[d] = j
           /\ rows' = [rows EXCEPT ![d] = None]
           /\ recent' = Without(recent, d)

Goto(p, step) == call' = [call EXCEPT ![p].step = step]

Finish(p) == call' = [call EXCEPT ![p] = Idle]

LoggingIn(p) == call[p].step \in LoginSteps

(* The calls that a write by p overlaps, p included when there is one.     *)
Overlap(p) ==
    LET others == {q \in Callers \ {p} : LoggingIn(q)}
    IN IF others = {} THEN {} ELSE others \cup {p}

-----------------------------------------------------------------------------
(* createLoginSession, after VerifyOTP accepted the code.                  *)

StartLogin(p, d) ==
    /\ call[p] = Idle
    /\ call' = [call EXCEPT ![p].step = "lookup", ![p].device = d]
    /\ contended' = (contended \ {p}) \cup Overlap(p)
    /\ UNCHANGED <<stores, issued, delivered, closed, raced>>

GetJTIByUserAndDevice(p) ==
    /\ call[p].step = "lookup"
    /\ LET old == rows[call[p].device]
       IN call' = [call EXCEPT ![p].step = IF old = None THEN "upsert" ELSE "revoke_old",
                               ![p].targets = IF old = None THEN {} ELSE {old}]
    /\ UNCHANGED <<stores, issued, delivered, history>>

(* The token this device had is revoked before the new one exists.         *)
RevokeOld(p) ==
    /\ call[p].step = "revoke_old"
    /\ live' = live \ call[p].targets
    /\ call' = [call EXCEPT ![p].step = "upsert", ![p].targets = {}]
    /\ UNCHANGED <<rows, recent, unsure, issued, delivered, history>>

Upsert(p) ==
    /\ call[p].step = "upsert"
    /\ \E j \in Jtis \ issued :
           /\ issued' = issued \cup {j}
           /\ UpsertRow(p, j)
           /\ call' = [call EXCEPT ![p].step = "count", ![p].jti = j]
    /\ UNCHANGED <<live, unsure, delivered, history>>

(* enforceDeviceLimit                                                      *)

CountByUserID(p) ==
    /\ call[p].step = "count"
    /\ Goto(p, IF Len(recent) <= MaxDevices THEN "set" ELSE "oldest")
    /\ UNCHANGED <<stores, issued, delivered, history>>

GetOldest(p) ==
    /\ call[p].step = "oldest"
    /\ LET targets == {rows[d] : d \in BeyondLimit}
       IN call' = [call EXCEPT ![p].step = IF targets = {} THEN "delete" ELSE "revoke",
                               ![p].targets = targets]
    /\ UNCHANGED <<stores, issued, delivered, history>>

(* Variant: a session that could not be revoked does not stop the login.   *)
RevokeEvictedAnyway(p) ==
    /\ call[p].step \in {"revoke", "revoke_failed"}
    /\ \E j \in call[p].targets :
           /\ live' \in {live \ {j}, live}
           /\ call' = [call EXCEPT ![p].targets = @ \ {j},
                                   ![p].step = IF call[p].targets = {j} THEN "delete" ELSE @]
    /\ UNCHANGED <<rows, recent, unsure, issued, delivered, history>>

(* revokeSessions tries every jti; one failure fails the whole login.      *)
RevokeEvicted(p) ==
    /\ call[p].step \in {"revoke", "revoke_failed"}
    /\ \E j \in call[p].targets, ok \in BOOLEAN :
           /\ live' = IF ok THEN live \ {j} ELSE live
           /\ LET step == IF ok THEN call[p].step ELSE "revoke_failed"
              IN IF call[p].targets # {j}
                 THEN call' = [call EXCEPT ![p].step = step, ![p].targets = @ \ {j}]
                 ELSE IF step = "revoke"
                      THEN call' = [call EXCEPT ![p].step = "delete", ![p].targets = {}]
                      ELSE Finish(p)
    /\ UNCHANGED <<rows, recent, unsure, issued, delivered, history>>

(* A failed delete is only logged.                                         *)
DeleteOldest(p) ==
    /\ call[p].step = "delete"
    /\ Goto(p, "set")
    /\ \/ /\ DeleteOldestBeyondLimit
          /\ raced' = IF p \in contended
                      THEN raced \cup ({rows[d] : d \in BeyondLimit} \ {None}) ELSE raced
       \/ UNCHANGED <<rows, recent, raced>>
    /\ UNCHANGED <<live, unsure, issued, delivered, closed, contended>>

(* sessions.Set, and the response that hands the token to the client.      *)
SetSession(p) ==
    /\ call[p].step = "set"
    /\ live' = live \cup {call[p].jti}
    /\ delivered' = delivered \cup {call[p].jti}
    /\ raced' = IF p \in contended THEN raced \cup {call[p].jti} ELSE raced
    /\ Finish(p)
    /\ UNCHANGED <<rows, recent, unsure, issued, closed, contended>>

(* The SET failed at the client: it ran, may run later, or is lost.        *)
SetSessionFails(p) ==
    /\ call[p].step = "set"
    /\ \/ live' = live \cup {call[p].jti} /\ UNCHANGED unsure
       \/ unsure' = unsure \cup {call[p].jti} /\ UNCHANGED live
       \/ UNCHANGED <<live, unsure>>
    /\ Goto(p, "undo_session")
    /\ UNCHANGED <<rows, recent, issued, delivered, history>>

(* The clean-up of a login without a session: both parts best effort.      *)
UndoSession(p) ==
    /\ call[p].step = "undo_session"
    /\ live' \in {live, live \ {call[p].jti}}
    /\ Goto(p, "undo_row")
    /\ UNCHANGED <<rows, recent, unsure, issued, delivered, history>>

UndoRow(p) ==
    /\ call[p].step = "undo_row"
    /\ DeleteByJTI(call[p].jti) \/ UNCHANGED <<rows, recent>>
    /\ Finish(p)
    /\ UNCHANGED <<live, unsure, issued, delivered, history>>

-----------------------------------------------------------------------------
(* ValidateToken: the token of a login that ended well whose key is there. *)
Accepted(j) == j \in delivered /\ j \in live

(* POST /logout, behind AuthMiddleware.                                    *)
StartLogout(p, j) ==
    /\ call[p] = Idle
    /\ Accepted(j)
    /\ call' = [call EXCEPT ![p].step = "logout_session", ![p].jti = j]
    /\ contended' = contended \ {p}
    /\ UNCHANGED <<stores, issued, delivered, closed, raced>>

(* Variant: a logout that could not reach Redis goes on.                   *)
LogoutSessionAnyway(p) ==
    /\ call[p].step = "logout_session"
    /\ live' \in {live, live \ {call[p].jti}}
    /\ Goto(p, "logout_row")
    /\ UNCHANGED <<rows, recent, unsure, issued, delivered, history>>

LogoutSession(p) ==
    /\ call[p].step = "logout_session"
    /\ live' = live \ {call[p].jti}
    /\ Goto(p, "logout_row")
    /\ UNCHANGED <<rows, recent, unsure, issued, delivered, history>>

(* A failed delete is only logged; the logout is answered with success.    *)
LogoutRow(p) ==
    /\ call[p].step = "logout_row"
    /\ DeleteByJTI(call[p].jti) \/ UNCHANGED <<rows, recent>>
    /\ closed' = closed \cup {call[p].jti}
    /\ Finish(p)
    /\ UNCHANGED <<live, unsure, issued, delivered, contended, raced>>

(* recordTokenUsage and its job: UpdateLastUsed sets last_used_at to the   *)
(* time of a request, later than the row's and perhaps than other rows'.   *)
UpdateLastUsed(j) ==
    /\ j \in delivered
    /\ \E i, k \in DOMAIN recent :
           /\ rows[recent[i]] = j /\ k < i
           /\ recent' = InsertAt(RemoveAt(recent, i), k, recent[i])
    /\ contended' = contended \cup {p \in Callers : LoggingIn(p)}
    /\ UNCHANGED <<rows, live, unsure, call, issued, delivered, closed, raced>>

-----------------------------------------------------------------------------
(* A statement of a call fails and the call ends with an error, or its     *)
(* process dies.                                                           *)
Abort(p) ==
    /\ call[p].step # "idle"
    /\ Finish(p)
    /\ UNCHANGED <<stores, issued, delivered, history>>

(* The TTL of a session, an eviction, or a DEL whose client saw an error.  *)
ExpireSession(j) ==
    /\ j \in live
    /\ live' = live \ {j}
    /\ UNCHANGED <<rows, recent, unsure, call, issued, delivered, history>>

(* A SET that failed at its client runs after all, or is lost for good.    *)
LateSet(j) ==
    /\ j \in unsure
    /\ unsure' = unsure \ {j}
    /\ live' \in {live, live \cup {j}}
    /\ UNCHANGED <<rows, recent, call, issued, delivered, history>>

Login(p) ==
    \/ \E d \in Devices : StartLogin(p, d)
    \/ GetJTIByUserAndDevice(p) \/ RevokeOld(p) \/ Upsert(p)
    \/ CountByUserID(p) \/ GetOldest(p) \/ RevokeEvicted(p) \/ DeleteOldest(p)
    \/ SetSession(p) \/ SetSessionFails(p) \/ UndoSession(p) \/ UndoRow(p)

Logout(p) ==
    \/ \E j \in Jtis : StartLogout(p, j)
    \/ LogoutSession(p) \/ LogoutRow(p)

Next ==
    \/ \E p \in Callers : Login(p) \/ Logout(p) \/ Abort(p)
    \/ \E j \in Jtis : UpdateLastUsed(j) \/ ExpireSession(j) \/ LateSet(j)

Spec == Init /\ [][Next]_vars

-----------------------------------------------------------------------------
(* Type invariant.                                                         *)
TypeOK ==
    /\ rows \in [Devices -> Jtis \cup {None}]
    /\ IsInjective(recent) /\ ToSet(recent) = {d \in Devices : rows[d] # None}
    /\ live \in SUBSET issued /\ unsure \in SUBSET issued /\ issued \in SUBSET Jtis
    /\ call \in [Callers -> Calls]
    /\ delivered \in SUBSET issued /\ closed \in SUBSET delivered
    /\ contended \in SUBSET Callers /\ raced \in SUBSET issued

(* A session that lets its client in is listed by a row, where a later     *)
(* login of its device and the device limit find it to revoke it, whatever *)
(* statements failed and whatever process died.  Only a login that         *)
(* overlapped another login or a usage update can leave an unlisted one.   *)
(* auth_service.go:225, auth_service.go:261, auth_service.go:298           *)
UnlistedOnlyByRace == \A j \in live \cap delivered : Listed(j) \/ j \in raced

(* With no login in progress, at most MaxDevices sessions let their client *)
(* in, those of overlapping logins aside: evictions that failed half way,  *)
(* abandoned rows and usage updates do not open a further one.             *)
(* auth_service.go:284-306                                                 *)
DeviceLimit ==
    (\A p \in Callers : ~LoggingIn(p))
        => Cardinality((live \cap delivered) \ raced) <= MaxDevices

(* A token whose logout was answered with success is never accepted again, *)
(* although SETs and usage updates of its session may still be on the way. *)
(* auth_service.go:308-317                                                 *)
LogoutIsFinal == closed \cap live = {}
=============================================================================
