----------------------- MODULE MembershipCacheProofs -----------------------
(***************************************************************************)
(* CacheCoherent, NoAbandonedLock and the refinement of MembershipRegister *)
(* hold for every number of callers, users, tokens and late commands.      *)
(*                                                                         *)
(* The argument.  A fill that may still publish holds a snapshot that is   *)
(* the committed membership for as long as the key carries its token       *)
(* (Snapshots).  A change takes the token away before it commits, and no   *)
(* token that could publish comes back while it holds the lock             *)
(* (Invalidated).  That a token never comes back rests on each fill having *)
(* a token of its own and sending each command once (Tokens...).           *)
(***************************************************************************)
EXTENDS MembershipCache, TLAPS

CacheFields == cacheState = "loading" <=> cacheToken # None

TokensOwned ==
    /\ \A p, q \in Callers : p # q /\ token[p] # None => token[p] # token[q]
    /\ \A c \in late : \A p \in Callers : token[p] # c.token
    /\ \A c, d \in late : c.token = d.token => c = d

TokensAwait ==
    \A p \in Callers :
        /\ pc[p] \in {"prepare", "store"} => token[p] # None
        /\ pc[p] = "prepare" => token[p] # cacheToken

Snapshots ==
    /\ \A p \in Callers : pc[p] = "store" /\ token[p] = cacheToken => ids[p] = db
    /\ \A c \in late : c.op = "store" /\ c.token = cacheToken => c.users = db

Invalidated ==
    \A p \in Callers : rowLock = p /\ pc[p] = "apply" =>
        /\ cacheState # "ready"
        /\ \A q \in Callers : pc[q] = "store" => token[q] # cacheToken
        /\ \A c \in late : c.op = "store" => c.token # cacheToken

(* What a caller at each step was asked and has found so far.              *)
Progress ==
    \A p \in Callers :
        /\ pc[p] = "idle" <=> request[p] = None
        /\ pc[p] \in {"script", "database", "recheck", "prepare", "load", "store", "commit"}
               => request[p].op = "read"
        /\ pc[p] \in {"invalidate", "apply"} => request[p].op # "read"
        /\ answer[p] # None <=> pc[p] \in {"store", "commit", "done"}

Coherence ==
    /\ CacheFields /\ TokensOwned /\ TokensAwait
    /\ Snapshots /\ Invalidated /\ CacheCoherent

IInv == TypeOK /\ Coherence /\ NoAbandonedLock /\ Progress

-----------------------------------------------------------------------------

(* The variables keep their types.                                         *)
LEMMA TypePreserved ==
  TypeOK /\ TokensAwait /\ Progress /\ [Next]_vars => TypeOK'
<1> SUFFICES ASSUME TypeOK /\ TokensAwait /\ Progress, [Next]_vars PROVE TypeOK'
  OBVIOUS
<1> USE NoneAssumption DEF TypeOK, Steps
<1>1. ASSUME NEW p \in Callers, CallRead(p) PROVE TypeOK'
  BY <1>1 DEF CallRead, Goto, Requests, Register!Requests, cache
<1>2. ASSUME NEW p \in Callers, CallUpdate(p) PROVE TypeOK'
  BY <1>2 DEF CallUpdate, Goto, Requests, Register!Requests, cache
<1>3. ASSUME NEW p \in Callers, RunScript(p) PROVE TypeOK'
  BY <1>3 DEF RunScript, Goto, Answer, Found, Answers, cache
<1>4. ASSUME NEW p \in Callers, ReadDatabase(p) PROVE TypeOK'
  BY <1>4 DEF ReadDatabase, Goto, Answer, Found, Answers, cache
<1>5. ASSUME NEW p \in Callers, AcquireLock(p) PROVE TypeOK'
  BY <1>5 DEF AcquireLock, Goto, cache
<1>6. ASSUME NEW p \in Callers, Recheck(p) PROVE TypeOK'
  BY <1>6 DEF Recheck, Goto, Answer, Found, Fresh, Answers, cache
<1>7. ASSUME NEW p \in Callers, Prepare(p) PROVE TypeOK'
  BY <1>7 DEF Prepare, Goto, RunPrepare, MayArriveLate, Prepares, TokensAwait, cache
<1>8. ASSUME NEW p \in Callers, Load(p) PROVE TypeOK'
  BY <1>8 DEF Load, Goto, Answer, Found, Answers, cache
<1>9. ASSUME NEW p \in Callers, Store(p) PROVE TypeOK'
  BY <1>9 DEF Store, Goto, RunStore, MayArriveLate, Stores, TokensAwait, cache
<1>10. ASSUME NEW p \in Callers, CommitFill(p) PROVE TypeOK'
  BY <1>10 DEF CommitFill, Goto, cache
<1>11. ASSUME NEW p \in Callers, Invalidate(p) PROVE TypeOK'
  BY <1>11 DEF Invalidate, Goto, DelKey, cache
<1>12. ASSUME NEW p \in Callers, CommitUpdate(p) PROVE TypeOK'
  BY <1>12 DEF CommitUpdate, Goto, Answer, Progress, Answers, Register!Change, Requests, Register!Requests, cache
<1>13. ASSUME NEW p \in Callers, Return(p) PROVE TypeOK'
  BY <1>13 DEF Return, Finish, Goto, cache
<1>14. ASSUME NEW p \in Callers, Abort(p) PROVE TypeOK'
  BY <1>14 DEF Abort, Finish, Goto, ReleaseLock, cache
<1>15. ASSUME NEW p \in Callers, LoseConnection(p) PROVE TypeOK'
  BY <1>15 DEF LoseConnection, cache
<1>16. ASSUME Expire PROVE TypeOK'
  BY <1>16 DEF Expire, DelKey, cache
<1>17. ASSUME NEW c \in late, Arrive(c) PROVE TypeOK'
  BY <1>17 DEF Arrive, RunPrepare, RunStore, Prepares, Stores, cache
<1>18. CASE UNCHANGED vars
  BY <1>18 DEF vars, cache
<1>19. QED
  BY <1>1, <1>2, <1>3, <1>4, <1>5, <1>6, <1>7, <1>8, <1>9, <1>10, <1>11, <1>12, <1>13, <1>14, <1>15, <1>16, <1>17, <1>18 DEF Next, Step

(* A key that is loading is one that carries a token.                      *)
LEMMA FieldsPreserved ==
  TypeOK /\ TokensAwait /\ CacheFields /\ [Next]_vars => CacheFields'
<1> SUFFICES ASSUME TypeOK /\ TokensAwait /\ CacheFields, [Next]_vars PROVE CacheFields'
  OBVIOUS
<1> USE NoneAssumption DEF TypeOK, TokensAwait, CacheFields, Prepares, Stores
<1>1. ASSUME NEW p \in Callers, CallRead(p) PROVE CacheFields'
  BY <1>1 DEF CallRead, Goto, cache
<1>2. ASSUME NEW p \in Callers, CallUpdate(p) PROVE CacheFields'
  BY <1>2 DEF CallUpdate, Goto, cache
<1>3. ASSUME NEW p \in Callers, RunScript(p) PROVE CacheFields'
  BY <1>3 DEF RunScript, Goto, Answer, Found, cache
<1>4. ASSUME NEW p \in Callers, ReadDatabase(p) PROVE CacheFields'
  BY <1>4 DEF ReadDatabase, Goto, Answer, Found, cache
<1>5. ASSUME NEW p \in Callers, AcquireLock(p) PROVE CacheFields'
  BY <1>5 DEF AcquireLock, Goto, cache
<1>6. ASSUME NEW p \in Callers, Recheck(p) PROVE CacheFields'
  BY <1>6 DEF Recheck, Goto, Answer, Found, Fresh, cache
<1>7. ASSUME NEW p \in Callers, Prepare(p) PROVE CacheFields'
  BY <1>7 DEF Prepare, Goto, RunPrepare, MayArriveLate, cache
<1>8. ASSUME NEW p \in Callers, Load(p) PROVE CacheFields'
  BY <1>8 DEF Load, Goto, Answer, Found, cache
<1>9. ASSUME NEW p \in Callers, Store(p) PROVE CacheFields'
  BY <1>9 DEF Store, Goto, RunStore, MayArriveLate, cache
<1>10. ASSUME NEW p \in Callers, CommitFill(p) PROVE CacheFields'
  BY <1>10 DEF CommitFill, Goto, cache
<1>11. ASSUME NEW p \in Callers, Invalidate(p) PROVE CacheFields'
  BY <1>11 DEF Invalidate, Goto, DelKey, cache
<1>12. ASSUME NEW p \in Callers, CommitUpdate(p) PROVE CacheFields'
  BY <1>12 DEF CommitUpdate, Goto, Answer, cache
<1>13. ASSUME NEW p \in Callers, Return(p) PROVE CacheFields'
  BY <1>13 DEF Return, Finish, Goto, cache
<1>14. ASSUME NEW p \in Callers, Abort(p) PROVE CacheFields'
  BY <1>14 DEF Abort, Finish, Goto, ReleaseLock, cache
<1>15. ASSUME NEW p \in Callers, LoseConnection(p) PROVE CacheFields'
  BY <1>15 DEF LoseConnection, cache
<1>16. ASSUME Expire PROVE CacheFields'
  BY <1>16 DEF Expire, DelKey, cache
<1>17. ASSUME NEW c \in late, Arrive(c) PROVE CacheFields'
  BY <1>17 DEF Arrive, RunPrepare, RunStore, cache
<1>18. CASE UNCHANGED vars
  BY <1>18 DEF vars, cache
<1>19. QED
  BY <1>1, <1>2, <1>3, <1>4, <1>5, <1>6, <1>7, <1>8, <1>9, <1>10, <1>11, <1>12, <1>13, <1>14, <1>15, <1>16, <1>17, <1>18 DEF Next, Step

(* Every fill, in progress or late, has a token of its own.                *)
LEMMA OwnedPreserved ==
  TypeOK /\ TokensAwait /\ TokensOwned /\ [Next]_vars => TokensOwned'
<1> SUFFICES ASSUME TypeOK /\ TokensAwait /\ TokensOwned, [Next]_vars PROVE TokensOwned'
  OBVIOUS
<1> USE NoneAssumption DEF TypeOK, TokensAwait, TokensOwned, Prepares, Stores
<1>1. ASSUME NEW p \in Callers, CallRead(p) PROVE TokensOwned'
  BY <1>1 DEF CallRead, Goto, cache
<1>2. ASSUME NEW p \in Callers, CallUpdate(p) PROVE TokensOwned'
  BY <1>2 DEF CallUpdate, Goto, cache
<1>3. ASSUME NEW p \in Callers, RunScript(p) PROVE TokensOwned'
  BY <1>3 DEF RunScript, Goto, Answer, Found, cache
<1>4. ASSUME NEW p \in Callers, ReadDatabase(p) PROVE TokensOwned'
  BY <1>4 DEF ReadDatabase, Goto, Answer, Found, cache
<1>5. ASSUME NEW p \in Callers, AcquireLock(p) PROVE TokensOwned'
  BY <1>5 DEF AcquireLock, Goto, cache
<1>6. ASSUME NEW p \in Callers, Recheck(p) PROVE TokensOwned'
  BY <1>6 DEF Recheck, Goto, Answer, Found, Fresh, cache
<1>7. ASSUME NEW p \in Callers, Prepare(p) PROVE TokensOwned'
  BY <1>7 DEF Prepare, Goto, RunPrepare, MayArriveLate, cache
<1>8. ASSUME NEW p \in Callers, Load(p) PROVE TokensOwned'
  BY <1>8 DEF Load, Goto, Answer, Found, cache
<1>9. ASSUME NEW p \in Callers, Store(p) PROVE TokensOwned'
  BY <1>9 DEF Store, Goto, RunStore, MayArriveLate, cache
<1>10. ASSUME NEW p \in Callers, CommitFill(p) PROVE TokensOwned'
  BY <1>10 DEF CommitFill, Goto, cache
<1>11. ASSUME NEW p \in Callers, Invalidate(p) PROVE TokensOwned'
  BY <1>11 DEF Invalidate, Goto, DelKey, cache
<1>12. ASSUME NEW p \in Callers, CommitUpdate(p) PROVE TokensOwned'
  BY <1>12 DEF CommitUpdate, Goto, Answer, cache
<1>13. ASSUME NEW p \in Callers, Return(p) PROVE TokensOwned'
  BY <1>13 DEF Return, Finish, Goto, cache
<1>14. ASSUME NEW p \in Callers, Abort(p) PROVE TokensOwned'
  BY <1>14 DEF Abort, Finish, Goto, ReleaseLock, cache
<1>15. ASSUME NEW p \in Callers, LoseConnection(p) PROVE TokensOwned'
  BY <1>15 DEF LoseConnection, cache
<1>16. ASSUME Expire PROVE TokensOwned'
  BY <1>16 DEF Expire, DelKey, cache
<1>17. ASSUME NEW c \in late, Arrive(c) PROVE TokensOwned'
  BY <1>17 DEF Arrive, RunPrepare, RunStore, cache
<1>18. CASE UNCHANGED vars
  BY <1>18 DEF vars, cache
<1>19. QED
  BY <1>1, <1>2, <1>3, <1>4, <1>5, <1>6, <1>7, <1>8, <1>9, <1>10, <1>11, <1>12, <1>13, <1>14, <1>15, <1>16, <1>17, <1>18 DEF Next, Step

(* A fill about to mark the key has a token that is not on it yet.         *)
LEMMA AwaitPreserved ==
  TypeOK /\ TokensAwait /\ TokensOwned /\ [Next]_vars => TokensAwait'
<1> SUFFICES ASSUME TypeOK /\ TokensAwait /\ TokensOwned, [Next]_vars PROVE TokensAwait'
  OBVIOUS
<1> USE NoneAssumption DEF TypeOK, Steps, TokensAwait, TokensOwned, Prepares, Stores
<1>1. ASSUME NEW p \in Callers, CallRead(p) PROVE TokensAwait'
  BY <1>1 DEF CallRead, Goto, cache
<1>2. ASSUME NEW p \in Callers, CallUpdate(p) PROVE TokensAwait'
  BY <1>2 DEF CallUpdate, Goto, cache
<1>3. ASSUME NEW p \in Callers, RunScript(p) PROVE TokensAwait'
  BY <1>3 DEF RunScript, Goto, Answer, Found, cache
<1>4. ASSUME NEW p \in Callers, ReadDatabase(p) PROVE TokensAwait'
  BY <1>4 DEF ReadDatabase, Goto, Answer, Found, cache
<1>5. ASSUME NEW p \in Callers, AcquireLock(p) PROVE TokensAwait'
  BY <1>5 DEF AcquireLock, Goto, cache
<1>6. ASSUME NEW p \in Callers, Recheck(p) PROVE TokensAwait'
  BY <1>6 DEF Recheck, Goto, Answer, Found, Fresh, cache
<1>7. ASSUME NEW p \in Callers, Prepare(p) PROVE TokensAwait'
  BY <1>7 DEF Prepare, Goto, RunPrepare, MayArriveLate, cache
<1>8. ASSUME NEW p \in Callers, Load(p) PROVE TokensAwait'
  BY <1>8 DEF Load, Goto, Answer, Found, cache
<1>9. ASSUME NEW p \in Callers, Store(p) PROVE TokensAwait'
  BY <1>9 DEF Store, Goto, RunStore, MayArriveLate, cache
<1>10. ASSUME NEW p \in Callers, CommitFill(p) PROVE TokensAwait'
  BY <1>10 DEF CommitFill, Goto, cache
<1>11. ASSUME NEW p \in Callers, Invalidate(p) PROVE TokensAwait'
  BY <1>11 DEF Invalidate, Goto, DelKey, cache
<1>12. ASSUME NEW p \in Callers, CommitUpdate(p) PROVE TokensAwait'
  BY <1>12 DEF CommitUpdate, Goto, Answer, cache
<1>13. ASSUME NEW p \in Callers, Return(p) PROVE TokensAwait'
  BY <1>13 DEF Return, Finish, Goto, cache
<1>14. ASSUME NEW p \in Callers, Abort(p) PROVE TokensAwait'
  BY <1>14 DEF Abort, Finish, Goto, ReleaseLock, cache
<1>15. ASSUME NEW p \in Callers, LoseConnection(p) PROVE TokensAwait'
  BY <1>15 DEF LoseConnection, cache
<1>16. ASSUME Expire PROVE TokensAwait'
  BY <1>16 DEF Expire, DelKey, cache
<1>17. ASSUME NEW c \in late, Arrive(c) PROVE TokensAwait'
  BY <1>17 DEF Arrive, RunPrepare, RunStore, cache
<1>18. CASE UNCHANGED vars
  BY <1>18 DEF vars, cache
<1>19. QED
  BY <1>1, <1>2, <1>3, <1>4, <1>5, <1>6, <1>7, <1>8, <1>9, <1>10, <1>11, <1>12, <1>13, <1>14, <1>15, <1>16, <1>17, <1>18 DEF Next, Step

(* The snapshot a fill may publish is the committed membership.            *)
LEMMA SnapshotsPreserved ==
  TypeOK /\ TokensAwait /\ TokensOwned /\ Snapshots /\ Invalidated /\ [Next]_vars => Snapshots'
<1> SUFFICES ASSUME TypeOK /\ TokensAwait /\ TokensOwned /\ Snapshots /\ Invalidated, [Next]_vars PROVE Snapshots'
  OBVIOUS
<1> USE NoneAssumption DEF TypeOK, Steps, TokensAwait, TokensOwned, Snapshots, Prepares, Stores
<1>1. ASSUME NEW p \in Callers, CallRead(p) PROVE Snapshots'
  BY <1>1 DEF CallRead, Goto, cache
<1>2. ASSUME NEW p \in Callers, CallUpdate(p) PROVE Snapshots'
  BY <1>2 DEF CallUpdate, Goto, cache
<1>3. ASSUME NEW p \in Callers, RunScript(p) PROVE Snapshots'
  BY <1>3 DEF RunScript, Goto, Answer, Found, cache
<1>4. ASSUME NEW p \in Callers, ReadDatabase(p) PROVE Snapshots'
  BY <1>4 DEF ReadDatabase, Goto, Answer, Found, cache
<1>5. ASSUME NEW p \in Callers, AcquireLock(p) PROVE Snapshots'
  BY <1>5 DEF AcquireLock, Goto, cache
<1>6. ASSUME NEW p \in Callers, Recheck(p) PROVE Snapshots'
  BY <1>6 DEF Recheck, Goto, Answer, Found, Fresh, cache
<1>7. ASSUME NEW p \in Callers, Prepare(p) PROVE Snapshots'
  BY <1>7 DEF Prepare, Goto, RunPrepare, MayArriveLate, cache
<1>8. ASSUME NEW p \in Callers, Load(p) PROVE Snapshots'
  BY <1>8 DEF Load, Goto, Answer, Found, cache
<1>9. ASSUME NEW p \in Callers, Store(p) PROVE Snapshots'
  BY <1>9 DEF Store, Goto, RunStore, MayArriveLate, cache
<1>10. ASSUME NEW p \in Callers, CommitFill(p) PROVE Snapshots'
  BY <1>10 DEF CommitFill, Goto, cache
<1>11. ASSUME NEW p \in Callers, Invalidate(p) PROVE Snapshots'
  BY <1>11 DEF Invalidate, Goto, DelKey, cache
<1>12. ASSUME NEW p \in Callers, CommitUpdate(p) PROVE Snapshots'
  BY <1>12 DEF CommitUpdate, Goto, Answer, Invalidated, cache
<1>13. ASSUME NEW p \in Callers, Return(p) PROVE Snapshots'
  BY <1>13 DEF Return, Finish, Goto, cache
<1>14. ASSUME NEW p \in Callers, Abort(p) PROVE Snapshots'
  BY <1>14 DEF Abort, Finish, Goto, ReleaseLock, cache
<1>15. ASSUME NEW p \in Callers, LoseConnection(p) PROVE Snapshots'
  BY <1>15 DEF LoseConnection, cache
<1>16. ASSUME Expire PROVE Snapshots'
  BY <1>16 DEF Expire, DelKey, cache
<1>17. ASSUME NEW c \in late, Arrive(c) PROVE Snapshots'
  BY <1>17 DEF Arrive, RunPrepare, RunStore, cache
<1>18. CASE UNCHANGED vars
  BY <1>18 DEF vars, cache
<1>19. QED
  BY <1>1, <1>2, <1>3, <1>4, <1>5, <1>6, <1>7, <1>8, <1>9, <1>10, <1>11, <1>12, <1>13, <1>14, <1>15, <1>16, <1>17, <1>18 DEF Next, Step

(* Nothing publishes between the DEL of a change and its commit.           *)
LEMMA InvalidatedPreserved ==
  TypeOK /\ TokensAwait /\ TokensOwned /\ Invalidated /\ [Next]_vars => Invalidated'
<1> SUFFICES ASSUME TypeOK /\ TokensAwait /\ TokensOwned /\ Invalidated, [Next]_vars PROVE Invalidated'
  OBVIOUS
<1> USE NoneAssumption DEF TypeOK, Steps, TokensAwait, TokensOwned, Invalidated, Prepares, Stores
<1>1. ASSUME NEW p \in Callers, CallRead(p) PROVE Invalidated'
  BY <1>1 DEF CallRead, Goto, cache
<1>2. ASSUME NEW p \in Callers, CallUpdate(p) PROVE Invalidated'
  BY <1>2 DEF CallUpdate, Goto, cache
<1>3. ASSUME NEW p \in Callers, RunScript(p) PROVE Invalidated'
  BY <1>3 DEF RunScript, Goto, Answer, Found, cache
<1>4. ASSUME NEW p \in Callers, ReadDatabase(p) PROVE Invalidated'
  BY <1>4 DEF ReadDatabase, Goto, Answer, Found, cache
<1>5. ASSUME NEW p \in Callers, AcquireLock(p) PROVE Invalidated'
  BY <1>5 DEF AcquireLock, Goto, cache
<1>6. ASSUME NEW p \in Callers, Recheck(p) PROVE Invalidated'
  BY <1>6 DEF Recheck, Goto, Answer, Found, Fresh, cache
<1>7. ASSUME NEW p \in Callers, Prepare(p) PROVE Invalidated'
  BY <1>7 DEF Prepare, Goto, RunPrepare, MayArriveLate, cache
<1>8. ASSUME NEW p \in Callers, Load(p) PROVE Invalidated'
  BY <1>8 DEF Load, Goto, Answer, Found, cache
<1>9. ASSUME NEW p \in Callers, Store(p) PROVE Invalidated'
  BY <1>9 DEF Store, Goto, RunStore, MayArriveLate, cache
<1>10. ASSUME NEW p \in Callers, CommitFill(p) PROVE Invalidated'
  BY <1>10 DEF CommitFill, Goto, cache
<1>11. ASSUME NEW p \in Callers, Invalidate(p) PROVE Invalidated'
  BY <1>11 DEF Invalidate, Goto, DelKey, cache
<1>12. ASSUME NEW p \in Callers, CommitUpdate(p) PROVE Invalidated'
  BY <1>12 DEF CommitUpdate, Goto, Answer, cache
<1>13. ASSUME NEW p \in Callers, Return(p) PROVE Invalidated'
  BY <1>13 DEF Return, Finish, Goto, cache
<1>14. ASSUME NEW p \in Callers, Abort(p) PROVE Invalidated'
  BY <1>14 DEF Abort, Finish, Goto, ReleaseLock, cache
<1>15. ASSUME NEW p \in Callers, LoseConnection(p) PROVE Invalidated'
  BY <1>15 DEF LoseConnection, cache
<1>16. ASSUME Expire PROVE Invalidated'
  BY <1>16 DEF Expire, DelKey, cache
<1>17. ASSUME NEW c \in late, Arrive(c) PROVE Invalidated'
  BY <1>17 DEF Arrive, RunPrepare, RunStore, cache
<1>18. CASE UNCHANGED vars
  BY <1>18 DEF vars, cache
<1>19. QED
  BY <1>1, <1>2, <1>3, <1>4, <1>5, <1>6, <1>7, <1>8, <1>9, <1>10, <1>11, <1>12, <1>13, <1>14, <1>15, <1>16, <1>17, <1>18 DEF Next, Step

(* A ready hash stays the committed membership.                            *)
LEMMA CoherentPreserved ==
  TypeOK /\ TokensAwait /\ Snapshots /\ Invalidated /\ CacheCoherent /\ [Next]_vars => CacheCoherent'
<1> SUFFICES ASSUME TypeOK /\ TokensAwait /\ Snapshots /\ Invalidated /\ CacheCoherent, [Next]_vars PROVE CacheCoherent'
  OBVIOUS
<1> USE NoneAssumption DEF TypeOK, CacheCoherent
<1>1. ASSUME NEW p \in Callers, CallRead(p) PROVE CacheCoherent'
  BY <1>1 DEF CallRead, Goto, cache
<1>2. ASSUME NEW p \in Callers, CallUpdate(p) PROVE CacheCoherent'
  BY <1>2 DEF CallUpdate, Goto, cache
<1>3. ASSUME NEW p \in Callers, RunScript(p) PROVE CacheCoherent'
  BY <1>3 DEF RunScript, Goto, Answer, Found, cache
<1>4. ASSUME NEW p \in Callers, ReadDatabase(p) PROVE CacheCoherent'
  BY <1>4 DEF ReadDatabase, Goto, Answer, Found, cache
<1>5. ASSUME NEW p \in Callers, AcquireLock(p) PROVE CacheCoherent'
  BY <1>5 DEF AcquireLock, Goto, cache
<1>6. ASSUME NEW p \in Callers, Recheck(p) PROVE CacheCoherent'
  BY <1>6 DEF Recheck, Goto, Answer, Found, Fresh, cache
<1>7. ASSUME NEW p \in Callers, Prepare(p) PROVE CacheCoherent'
  BY <1>7 DEF Prepare, Goto, RunPrepare, MayArriveLate, cache
<1>8. ASSUME NEW p \in Callers, Load(p) PROVE CacheCoherent'
  BY <1>8 DEF Load, Goto, Answer, Found, cache
<1>9. ASSUME NEW p \in Callers, Store(p) PROVE CacheCoherent'
  BY <1>9 DEF Store, Goto, RunStore, MayArriveLate, Snapshots, TokensAwait, cache
<1>10. ASSUME NEW p \in Callers, CommitFill(p) PROVE CacheCoherent'
  BY <1>10 DEF CommitFill, Goto, cache
<1>11. ASSUME NEW p \in Callers, Invalidate(p) PROVE CacheCoherent'
  BY <1>11 DEF Invalidate, Goto, DelKey, cache
<1>12. ASSUME NEW p \in Callers, CommitUpdate(p) PROVE CacheCoherent'
  BY <1>12 DEF CommitUpdate, Goto, Answer, Invalidated, cache
<1>13. ASSUME NEW p \in Callers, Return(p) PROVE CacheCoherent'
  BY <1>13 DEF Return, Finish, Goto, cache
<1>14. ASSUME NEW p \in Callers, Abort(p) PROVE CacheCoherent'
  BY <1>14 DEF Abort, Finish, Goto, ReleaseLock, cache
<1>15. ASSUME NEW p \in Callers, LoseConnection(p) PROVE CacheCoherent'
  BY <1>15 DEF LoseConnection, cache
<1>16. ASSUME Expire PROVE CacheCoherent'
  BY <1>16 DEF Expire, DelKey, cache
<1>17. ASSUME NEW c \in late, Arrive(c) PROVE CacheCoherent'
  BY <1>17 DEF Arrive, RunPrepare, RunStore, Snapshots, Prepares, Stores, cache
<1>18. CASE UNCHANGED vars
  BY <1>18 DEF vars, cache
<1>19. QED
  BY <1>1, <1>2, <1>3, <1>4, <1>5, <1>6, <1>7, <1>8, <1>9, <1>10, <1>11, <1>12, <1>13, <1>14, <1>15, <1>16, <1>17, <1>18 DEF Next, Step

(* A call that ends leaves no row lock behind.                             *)
LEMMA LockPreserved ==
  TypeOK /\ NoAbandonedLock /\ [Next]_vars => NoAbandonedLock'
<1> SUFFICES ASSUME TypeOK /\ NoAbandonedLock, [Next]_vars PROVE NoAbandonedLock'
  OBVIOUS
<1> USE NoneAssumption DEF TypeOK, Steps, NoAbandonedLock, InsideLock
<1>1. ASSUME NEW p \in Callers, CallRead(p) PROVE NoAbandonedLock'
  BY <1>1 DEF CallRead, Goto, cache
<1>2. ASSUME NEW p \in Callers, CallUpdate(p) PROVE NoAbandonedLock'
  BY <1>2 DEF CallUpdate, Goto, cache
<1>3. ASSUME NEW p \in Callers, RunScript(p) PROVE NoAbandonedLock'
  BY <1>3 DEF RunScript, Goto, Answer, Found, cache
<1>4. ASSUME NEW p \in Callers, ReadDatabase(p) PROVE NoAbandonedLock'
  BY <1>4 DEF ReadDatabase, Goto, Answer, Found, cache
<1>5. ASSUME NEW p \in Callers, AcquireLock(p) PROVE NoAbandonedLock'
  BY <1>5 DEF AcquireLock, Goto, cache
<1>6. ASSUME NEW p \in Callers, Recheck(p) PROVE NoAbandonedLock'
  BY <1>6 DEF Recheck, Goto, Answer, Found, Fresh, cache
<1>7. ASSUME NEW p \in Callers, Prepare(p) PROVE NoAbandonedLock'
  BY <1>7 DEF Prepare, Goto, RunPrepare, MayArriveLate, cache
<1>8. ASSUME NEW p \in Callers, Load(p) PROVE NoAbandonedLock'
  BY <1>8 DEF Load, Goto, Answer, Found, cache
<1>9. ASSUME NEW p \in Callers, Store(p) PROVE NoAbandonedLock'
  BY <1>9 DEF Store, Goto, RunStore, MayArriveLate, cache
<1>10. ASSUME NEW p \in Callers, CommitFill(p) PROVE NoAbandonedLock'
  BY <1>10 DEF CommitFill, Goto, cache
<1>11. ASSUME NEW p \in Callers, Invalidate(p) PROVE NoAbandonedLock'
  BY <1>11 DEF Invalidate, Goto, DelKey, cache
<1>12. ASSUME NEW p \in Callers, CommitUpdate(p) PROVE NoAbandonedLock'
  BY <1>12 DEF CommitUpdate, Goto, Answer, cache
<1>13. ASSUME NEW p \in Callers, Return(p) PROVE NoAbandonedLock'
  BY <1>13 DEF Return, Finish, Goto, cache
<1>14. ASSUME NEW p \in Callers, Abort(p) PROVE NoAbandonedLock'
  BY <1>14 DEF Abort, Finish, Goto, ReleaseLock, cache
<1>15. ASSUME NEW p \in Callers, LoseConnection(p) PROVE NoAbandonedLock'
  BY <1>15 DEF LoseConnection, cache
<1>16. ASSUME Expire PROVE NoAbandonedLock'
  BY <1>16 DEF Expire, DelKey, cache
<1>17. ASSUME NEW c \in late, Arrive(c) PROVE NoAbandonedLock'
  BY <1>17 DEF Arrive, RunPrepare, RunStore, cache
<1>18. CASE UNCHANGED vars
  BY <1>18 DEF vars, cache
<1>19. QED
  BY <1>1, <1>2, <1>3, <1>4, <1>5, <1>6, <1>7, <1>8, <1>9, <1>10, <1>11, <1>12, <1>13, <1>14, <1>15, <1>16, <1>17, <1>18 DEF Next, Step

(* Each step of a call finds the request and the answer it needs.          *)
LEMMA ProgressPreserved ==
  TypeOK /\ Progress /\ [Next]_vars => Progress'
<1> SUFFICES ASSUME TypeOK /\ Progress, [Next]_vars PROVE Progress'
  OBVIOUS
<1> USE NoneAssumption DEF TypeOK, Steps, Progress, Answers
<1>1. ASSUME NEW p \in Callers, CallRead(p) PROVE Progress'
  BY <1>1 DEF CallRead, Goto, Requests, Register!Requests, cache
<1>2. ASSUME NEW p \in Callers, CallUpdate(p) PROVE Progress'
  BY <1>2 DEF CallUpdate, Goto, Requests, Register!Requests, cache
<1>3. ASSUME NEW p \in Callers, RunScript(p) PROVE Progress'
  BY <1>3 DEF RunScript, Goto, Answer, Found, cache
<1>4. ASSUME NEW p \in Callers, ReadDatabase(p) PROVE Progress'
  BY <1>4 DEF ReadDatabase, Goto, Answer, Found, cache
<1>5. ASSUME NEW p \in Callers, AcquireLock(p) PROVE Progress'
  BY <1>5 DEF AcquireLock, Goto, Requests, Register!Requests, cache
<1>6. ASSUME NEW p \in Callers, Recheck(p) PROVE Progress'
  BY <1>6 DEF Recheck, Goto, Answer, Found, Fresh, cache
<1>7. ASSUME NEW p \in Callers, Prepare(p) PROVE Progress'
  BY <1>7 DEF Prepare, Goto, RunPrepare, MayArriveLate, cache
<1>8. ASSUME NEW p \in Callers, Load(p) PROVE Progress'
  BY <1>8 DEF Load, Goto, Answer, Found, cache
<1>9. ASSUME NEW p \in Callers, Store(p) PROVE Progress'
  BY <1>9 DEF Store, Goto, RunStore, MayArriveLate, cache
<1>10. ASSUME NEW p \in Callers, CommitFill(p) PROVE Progress'
  BY <1>10 DEF CommitFill, Goto, cache
<1>11. ASSUME NEW p \in Callers, Invalidate(p) PROVE Progress'
  BY <1>11 DEF Invalidate, Goto, DelKey, cache
<1>12. ASSUME NEW p \in Callers, CommitUpdate(p) PROVE Progress'
  BY <1>12 DEF CommitUpdate, Goto, Answer, cache
<1>13. ASSUME NEW p \in Callers, Return(p) PROVE Progress'
  BY <1>13 DEF Return, Finish, Goto, cache
<1>14. ASSUME NEW p \in Callers, Abort(p) PROVE Progress'
  BY <1>14 DEF Abort, Finish, Goto, ReleaseLock, cache
<1>15. ASSUME NEW p \in Callers, LoseConnection(p) PROVE Progress'
  BY <1>15 DEF LoseConnection, cache
<1>16. ASSUME Expire PROVE Progress'
  BY <1>16 DEF Expire, DelKey, cache
<1>17. ASSUME NEW c \in late, Arrive(c) PROVE Progress'
  BY <1>17 DEF Arrive, RunPrepare, RunStore, cache
<1>18. CASE UNCHANGED vars
  BY <1>18 DEF vars, cache
<1>19. QED
  BY <1>1, <1>2, <1>3, <1>4, <1>5, <1>6, <1>7, <1>8, <1>9, <1>10, <1>11, <1>12, <1>13, <1>14, <1>15, <1>16, <1>17, <1>18 DEF Next, Step

-----------------------------------------------------------------------------
LEMMA InitIInv == Init => IInv
  BY NoneAssumption
  DEF Init, IInv, TypeOK, Coherence, CacheFields, TokensOwned, TokensAwait, Snapshots,
      Invalidated, CacheCoherent, NoAbandonedLock, Progress, Steps, Answers, InsideLock

LEMMA NextIInv == IInv /\ [Next]_vars => IInv'
<1> SUFFICES ASSUME IInv, [Next]_vars PROVE IInv'
  OBVIOUS
<1> USE DEF IInv, Coherence
<1>1. TypeOK'
  BY TypePreserved
<1>2. CacheFields'
  BY FieldsPreserved
<1>3. TokensOwned' /\ TokensAwait'
  BY OwnedPreserved, AwaitPreserved
<1>4. Snapshots' /\ Invalidated'
  BY SnapshotsPreserved, InvalidatedPreserved
<1>5. CacheCoherent'
  BY CoherentPreserved
<1>6. NoAbandonedLock' /\ Progress'
  BY LockPreserved, ProgressPreserved
<1>7. QED
  BY <1>1, <1>2, <1>3, <1>4, <1>5, <1>6

THEOREM Invariance == Spec => []IInv
  BY InitIInv, NextIInv, PTL DEF Spec

(* The variables keep their types, whatever the constants.                 *)
THEOREM Types == Spec => []TypeOK
  BY Invariance, PTL DEF IInv

(* A ready hash lists exactly the committed members, for any number of     *)
(* concurrent fills, changes, lost connections and late commands           *)
(* (room_cache.go:98-162).                                                 *)
THEOREM Coherent == Spec => []CacheCoherent
  BY Invariance, PTL DEF IInv, Coherence

(* The row lock is never held by a call that has ended (room_repo.go:28).  *)
THEOREM LockNotAbandoned == Spec => []NoAbandonedLock
  BY Invariance, PTL DEF IInv

-----------------------------------------------------------------------------
(* Every step of the cache is a step of the register or leaves it alone.   *)
LEMMA StepSimulation == IInv /\ [Next]_vars => [Register!Next]_(Register!vars)
<1> SUFFICES ASSUME IInv, [Next]_vars PROVE [Register!Next]_(Register!vars)
  OBVIOUS
<1> USE NoneAssumption DEF IInv, TypeOK, Progress, Register!vars
<1>1. ASSUME NEW p \in Callers, CallRead(p) \/ CallUpdate(p) PROVE Register!Call(p)
  <2>1. request[p] = None /\ request' = [request EXCEPT ![p] = request'[p]]
    BY <1>1 DEF CallRead, CallUpdate
  <2>2. request'[p] \in Requests
    BY <1>1 DEF CallRead, CallUpdate, Requests, Register!Requests
  <2>3. QED
    BY <1>1, <2>1, <2>2 DEF CallRead, CallUpdate, Register!Call, Requests
<1>2. ASSUME NEW p \in Callers, RunScript(p) PROVE Register!Observe(p) \/ UNCHANGED Register!vars
  BY <1>2 DEF RunScript, Answer, Found, Register!Observe, Coherence, CacheCoherent
<1>3. ASSUME NEW p \in Callers, ReadDatabase(p) PROVE Register!Observe(p)
  BY <1>3 DEF ReadDatabase, Answer, Found, Register!Observe
<1>4. ASSUME NEW p \in Callers, Recheck(p) PROVE Register!Observe(p) \/ UNCHANGED Register!vars
  BY <1>4 DEF Recheck, Answer, Found, Register!Observe, Coherence, CacheCoherent
<1>5. ASSUME NEW p \in Callers, Load(p) PROVE Register!Observe(p)
  BY <1>5 DEF Load, Answer, Found, Register!Observe
<1>6. ASSUME NEW p \in Callers, CommitUpdate(p) PROVE Register!TakeEffect(p)
  BY <1>6 DEF CommitUpdate, Answer, Register!TakeEffect
<1>7. ASSUME NEW p \in Callers, Return(p) PROVE Register!Return(p)
  BY <1>7 DEF Return, Finish, Register!Return, Register!Finish
<1>8. ASSUME NEW p \in Callers, Abort(p) PROVE Register!Fail(p)
  BY <1>8 DEF Abort, Finish, Register!Fail, Register!Finish
<1>9. ASSUME NEW p \in Callers,
             AcquireLock(p) \/ Prepare(p) \/ Store(p) \/ CommitFill(p) \/ Invalidate(p)
                 \/ LoseConnection(p)
      PROVE  UNCHANGED Register!vars
  BY <1>9 DEF AcquireLock, Prepare, Store, CommitFill, Invalidate, LoseConnection
<1>10. ASSUME Expire \/ (\E c \in late : Arrive(c)) PROVE UNCHANGED Register!vars
  BY <1>10 DEF Expire, Arrive
<1>11. CASE UNCHANGED vars
  BY <1>11 DEF vars
<1>12. QED
  BY <1>1, <1>2, <1>3, <1>4, <1>5, <1>6, <1>7, <1>8, <1>9, <1>10, <1>11
  DEF Next, Step, Register!Next

(* Answers come from the committed membership of an instant of their call, *)
(* and a change reported done took effect: the cache in front of the       *)
(* database is invisible (room_cache.go:87-162, 213-233).                  *)
THEOREM Refinement == Spec => RegisterSpec
<1>1. Init => Register!Init
  BY DEF Init, Register!Init
<1>2. QED
  BY <1>1, Invariance, StepSimulation, PTL DEF Spec, RegisterSpec, Register!Spec
=============================================================================
