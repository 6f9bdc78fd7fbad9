# Formal models of the Stello chat API

TLA+ specifications of the concurrent and failure-prone parts of this repository, TLC
configurations that check them on small instances, and TLAPS proofs of the results that
must hold for every size. Paths are relative to the repository root
(`src/internal/...` is written `internal/...`). The repository has no tests
(README.md:18), so the code is the only reference.

## 1. The system

An API process serves HTTP (Gin) and WebSocket connections; a worker process runs
background jobs. Both may run more than once. They share MySQL and Redis: Redis holds
caches, sessions, presence, one-time passwords, message counters, Pub/Sub channels and the
job streams.

```
 client --HTTP--> handler -> service --SQL--> MySQL
                               |  |--XADD--> stream --XREADGROUP--> worker --SQL--> MySQL
                               |--PUBLISH--> Redis Pub/Sub --> Hub --send chan--> writePump --WS--> client
```

| Component | State | Operations | What is hard |
| --- | --- | --- | --- |
| Membership cache (`redis/cache/room_cache.go`, `mysql/repo/room_repo.go`) | `conversation_members`, hash `conv:members:v2:<id>`, row lock | GetMembers, IsMember, UpdateMembership, fill with a token | fills that outlive their lock, failed and late commands, expiry |
| WebSocket hub (`websocket/hub.go`, `client.go`, `handler.go`) | clients, channels, convs per client, send buffers, Redis subscriptions | Register, Unregister, dispatch, sys commands, shutdown | locks released between steps, failed SUBSCRIBE, missed and reordered events, closed channels |
| Message numbers (`redis/sequence.go`) | `seq:<id>`, `look:seq_init:<id>` | Next | cold start, expiring lock without owner, lost key |
| One-time passwords (`redis/otp.go`, `service/auth_service.go`) | four keys per address with lifetimes | Issue, Verify, ClearSendState, SendOTP | expiry, late clean-up, guessing across issues |
| Messages and preview (`service/message_service.go`, `room_service.go`, `queue/handler/conversation.go`, SQL) | messages, `last_message_id`, `last_message_text` | Send, Edit, Delete, system messages, update jobs and their fallbacks | jobs repeated, reordered, lost; an edit against a deletion |
| Job streams (`redis/stream.go`, `queue/worker`) | stream, pending list, delayed set, dead letters, batches in goroutines | EnqueueJob, ReadJobs, AckJob, RetryJob, PromoteDelayedJobs, DeadLetter, ReclaimPending | crash between ACK and retry, reclaim of a running job, trimming |
| Read state (`message_service.go`, `room_service.go`, `room_cache.go`) | `last_read_at`, `last_read_seq`, `unread:<user>:<conv>` | MarkAsRead, ListConversations, increments in afterSend | count and SET against increments, order of receipts |
| Sessions (`auth_service.go`, `session.go`, `user_token_repo.go`) | rows of `user_tokens`, keys `session:<jti>` | login, device limit, Logout, ValidateToken, last-used job | concurrent logins, one of two stores failing, late SETs |
| Rooms (`room_service.go`) | `conversations`, roles | CreateDM, CreateGroup, AddMember, RemoveMember | concurrent creation, role checked before the lock |
| Presence (`presence.go`, `hub.go`, `handler.go`) | `presence:sessions:<user>`, events | SetSessionOnline, HeartbeatSession, SetSessionOffline, publishPresence | heartbeat against offline, events published after the fact, expiry |
| Room manager (`room_manager.go`, `client.go`) | viewing map of a process, keys `viewing:...` | SetViewing, ClearViewing, HeartbeatSession, ClearSession, ClearAll | reader against hub, failed clearing, other sessions of the user |
| Contacts (`user_service.go`, `user_repo.go`) | rows of `user_contacts` | SendContactRequest, AcceptContactRequest | mutual requests |
| Listings (`message_service.go`, `room_service.go`, `user_service.go`, SQL) | cursors of clients | ListMessages, ListConversations, listings of users | rows that come, go and move between two pages, equal times |
| Seed tool (`internal/seed`, `cmd/seed`) | registry row, advisory lock, counters | Apply, Sync, Reset | partial failure, lost lock, a command beside another |

Handlers, DTOs, presenters, routers, configuration, wiring, logging and mail
keep no protocol state and are not modelled. What makes each component correct is
what its properties in section 3 say. `PROJECT.json` lists the hazards line by line with the
property that covers each one, and the definition-by-definition map to the code.

### How the components interact

- `Hub.Authorize` calls GetMembers. In the hub's model the
  answer is the committed members, as `MembershipCache` is proved to give (`RegisterSpec`), or an error.
- A membership change of `MembershipCache` is `ChangeMember` of `Hub`; it leaves an event
  (`member.added`, `member.removed`) and a command (`conv.subscribe`, `conv.unsubscribe`).
- `Conversation` names messages by their number, which is unique when `Sequence` says so.
- The jobs of `Conversation` travel through `JobStream`. Conversation assumes of it only that
  a job is delivered any number of times, in any order, or lost.
- The last-used job of `Session` is such a job too: `UpdateLastUsed` may happen at any time.
- `Rooms` decides who may change the members; the change is `MembershipCache`'s, and `AddReader` and
  `RemoveReader` are what it does to the read position of one member in `ReadState`.
- A member that `Viewing` shows with the conversation open is skipped by afterSend: `SkipUnread` of `ReadState`.
- The hub of `Hub` calls `Presence` (SetSessionOnline before Register, SetSessionOffline in Unregister) and `Viewing`
  (ClearSession and ClearAll in Unregister). Those two modules each keep the steps of ServeWS, readPump
  and Unregister that matter to their own keys.
- `Seed` raises the counters of `Sequence` and of `ReadState` while the application is stopped.

## 2. Modules

| Module | Models |
| --- | --- |
| `MembershipRegister` | abstract: membership of one conversation as an atomic register |
| `MembershipCache` | RoomCache and WithMembershipLock, step by step; implements the register |
| `Hub` | one API process's hub, its connections and Redis Pub/Sub |
| `Sequence` | SequenceStore.Next and the insert that uses the number |
| `OTP` | the Lua scripts over the keys of one address, and SendOTP |
| `Conversation` | one conversation's messages, preview and update jobs |
| `JobStream` | one stream, its consumer group and the workers' goroutines |
| `Session` | the logins, logouts and device limit of one user |
| `Contacts` | contact requests between users |
| `Rooms` | direct conversations, groups and the roles in them |
| `ReadState` | one member's watermark, unread counter and receipts |
| `Listing` | a client that pages through one of the listings |
| `Presence` | the online sessions of one user and the events about them |
| `Viewing` | who has a conversation open, in a process and in Redis |
| `Seed` | the commands of the seed tool on one dataset |
| `MCServices`, `MCRecovery` | four of these each, side by side, with the constants they share |
| `MC...` | symmetry sets and the owners of sessions for TLC |
| `MembershipCacheProofs`, `HubProofs`, `SequenceProofs`, `OTPProofs`, `ConversationProofs`, `JobStreamProofs`, `ServicesProofs`, `RecoveryProofs` | theorems about the module they are named for, with their proofs (section 4) |

Some definitions come in a second form marked "Variant" (`RunStoreUnchecked` beside `RunStore`).
Nothing uses them; they are plausible mistakes, each of which breaks a property
(`mutants` in `PROJECT.json`), so no property holds by the shape of the model.

**MembershipCache.** `pc` follows a call through `cachedMembers` (`RunScript`), the direct
read used when Redis fails (`ReadDatabase`), the row lock (`AcquireLock`), the second look at
the cache under it (`Recheck`), the fill (`Prepare` writes the token, `Load` reads the rows, `Store` is the
Lua script that publishes only under its token, `CommitFill`), and the change
(`Invalidate`, `CommitUpdate`). `Abort` is every error path. `LoseConnection` frees the lock of
a caller that does not know. `late` holds Redis commands whose client saw an error and
that may still run (`Arrive`). `Expire` also stands for an invalidation that runs late.

**Hub.** A connection's goroutine runs ServeWS: `Connect` reads the conversation
ids, `Register` and `SubscribeNew` or `RollbackRegistration` add the session, `ReadPumpEnds`
unregisters it. The loop takes messages in order (`TakeEvent`, `TakeCommand`), asks for the members
(`Authorize`), collects targets under the locks (`Collect`) and sends after releasing them
(`Send`). `SubscribeLocal...`, `Evict` and `UnsubscribeLocal` are the commands. `mu` is
subscriptionsMu; a critical section that calls nothing that can fail is one step. A `send` to a
closed channel sets `crashed` and nothing follows.

**Sequence.** One action per Redis or SQL command of Next. `Stop` is any error, with or without
the deferred DEL taking effect; `ExpireLock` is the five seconds; `LoseCounter` the key's loss. The ten
polls are one action that goes on whether or not the key is there.

**OTP.** One action per script; time is counted in ticks and keys vanish at the end
of their lifetime (`Tick`). `Enqueued`, `EnqueueFails`, `Clear` and `GiveUp` are the rest of
SendOTP; an enqueue reported as failed leads to clean-up, which can be late or fail.

**Conversation.** `Promote`, `Refresh`, `UpdateContent` and `SoftDelete` are the SQL statements
with their conditions; requests and handlers run them in the order of the code, with failures
between. Order in the history is creation time, then number.

**JobStream.** An entry is a delivery of a job with its attempt: waiting, pending, stale
(idle for reclaimIdle), delayed or gone. A goroutine has a batch and works on its lowest
entry. `AckError`, `WriteError`, `Crash` and `Trim` are the faults.

**Session.** One action per SQL statement or Redis command of createLoginSession (`GetJTIByUserAndDevice`
... `SetSession`) and of Logout. `recent` is the order of `last_used_at`. `SetSessionFails`, `UndoSession`
and `UndoRow` are the clean-up, `Abort` every other error and every death of a process, `LateSet` a SET that runs
after its client gave up. A token is `Accepted` when its key is there; what the row is for
is that somebody can find and revoke it. `contended` and `raced` record logins that overlapped.

**Contacts, Rooms.** A call reads in one action and writes in the next; nothing joins them. Queries are
operators (`GetContactPair`, `FriendRows`, `GetDMConversation`). No code path makes an owner, changes a role,
or blocks or deletes a contact, so the models have none of these.

**ReadState.** `CountUnread` and `SetUnread` of a MarkAsRead or a listing are two steps, with
`InsertMessage`, `IncrUnread`, `DeleteMessage` and changes of the membership between them. `drift` says whether the counter
was written or missed in a way nothing has repaired; it stands for the reasons, not for the difference.

**Listing.** The three queries differ in their WHERE clause (`MessageAfter`, `ConversationAfter`, `UserAfter`) and their
ORDER BY clause (`NewestFirst`, `ByName`). A page is the first rows, in the order `Before`, of those `Found` after the cursor, and
`HasMore` is the one row read beyond the limit. `steady` are the rows that were there with one key ever since the first page.

**Presence.** One unit of time is 30 s (`presenceTTL` 150 s, `pongWait` 60 s). `serve` and `close` are the steps of
the connection's goroutine and of Unregister, which either of two goroutines starts. `announced` is the last
event; `excused` collects what no event tells of.

**Viewing.** One user, one conversation, one process with its map, and the two kinds of keys in Redis. `reader` and `closer` again
are the two goroutines; the pipelines fail having run, in part or not at all.

**Seed.** One conversation and one member of the dataset. A command that has lost its MySQL connection has
lost the lock too and ends at its next statement, after whatever it still does to Redis.

## 3. Runs

Passing runs:

| Run | Checks | Instance |
| --- | --- | --- |
| `membership_cache` | `CacheCoherent` a readable cache is the database; `NoAbandonedLock`; `RegisterSpec` every answer is the membership at some moment of its call, and a change reported done took place | 2 callers, 2 users, 3 tokens, 1 late command; 0.7 M states |
| `hub` | `SubscriptionsMatch` Redis subscriptions are exactly the channels with listeners; `ChannelsHaveSessions`; `OnlyMembersReceive` chat reaches only users that were members since the hub took the event | 2 users, 3 sessions, buffer 1, 1 change, 1 message; 5.1 M states |
| `hub_shutdown` | `ShutdownCompletes` | 2 users, 1 session each; 0.5 M states |
| `sequence` | `WarmSeqsUnique` no duplicate without a disturbed cold start; `NumberedInOrder` | 3 callers, 4 calls, 2 losses; 0.5 M states |
| `otp` | `GuessesBounded`, `UsedOnce`, `SentCodeStands` | lifetimes 5, 15, 15, 1 and 5 attempts as in the code, 2 senders, 2 codes, 3 issues; 0.2 M states |
| `conversation` | `StaleIsPending` a stale preview has an update coming; `LatestIsShown`; `NeverOlder`; `DeletedForGood` | 2 callers, 2 messages, 1 edit, clock 0..1; 0.6 M states |
| `job_stream` | `NothingVanishes`; `DeadAfterRetries`; `JobsSettle` | 1 job, 2 readers, 1 reclaimer, 1 retry, 3 entries, 3 faults; 0.1 M states |
| `services`: `Session` | `UnlistedOnlyByRace` a session that lets its client in has a row by which it can be revoked, overlapping logins aside; `DeviceLimit`; `LogoutIsFinal` | 2 requests, 2 devices, 3 tokens, limit 1 |
| `services`: `Contacts` | `ContactsAreMutual` contacts both agreed; two that both asked are listed once, unless both found no row | 2 requests, 3 users |
| `services`: `Rooms` | `DMStaysPrivate` nobody gets into a direct conversation of two others; `OneDMPerPair` except by calls that overlap | 2 requests, 3 users, 2 conversations |
| `services`: `ReadState` | `CounterTrusted` the counter is the count when nothing is under way and nothing known spoilt it; `ReceiptsInOrder` except for calls that overlap | 2 calls, 2 messages; the four together 1.0 M states |
| `recovery`: `Listing` | `EachListedOnce` | 3 rows, clock 0..2, pages of 1 and 2 |
| `recovery`: `Presence` | `PresenceTracks` an open session is online, a user gone is offline after the TTL; `AnnouncedIsTrue` the last event tells the truth, its listed excuses aside | 2 sessions |
| `recovery`: `Viewing` | `ViewingTracks` a conversation that is open is seen open by every process, and no other, races and failed commands aside | 2 sessions |
| `recovery`: `Seed` | `SeedSynced` ready means synchronised and gone means clean; `SeedRecovers` no dataset stays half done | 2 commands, numbers to 3, 2 faults; the four together 1.4 M states |

`services` and `recovery` put four components side by side: they share no variable, a variable `part`
says which one a behaviour belongs to, and the states add up instead of multiplying. Nothing is claimed about interactions
among the four. Every passing run but `hub_shutdown` and `recovery` also checks `TypeOK` of its modules (`services` that of its
four in one invariant; that of the four of `recovery` is stated in each module and proved). Every action fires in some passing run.

What these two runs say by their exceptions is as much a result as what they check. Each exception is a behaviour of the code:

- Two logins that overlap, or a login and a last-used job, can leave a valid session without a row
  (auth_service.go:225-282); only its expiry ends it.
- Two users that ask each other at once both stay pending, and when both accept each is listed twice to the other
  (user_service.go:108, user_repo.go:449). Two CreateDM calls at once leave two direct conversations (room_service.go:114).
- Two MarkAsRead calls of one member can publish their receipts against their order, although message_service.go:447 means to keep
  the read position from moving back; an old cursor and a retry do not. The increment of a missing counter makes it 1
  (room_cache.go, BatchIncrUnread), whatever the count, until the next MarkAsRead.
- A registration that fails discards its presence transition (handler.go:120-135), an expiry and a heartbeat that brings a user
  back publish nothing, and two transitions published past each other leave the wrong one last.
- A reader that handles `viewing` while the hub ends its session writes entries after they were cleared (client.go:323): they
  count as viewing until they expire, in the map of the process until the user's last session there ends.

No property speaks of this, but the model shows it too: nothing gives a group a new admin, and the last one can leave (room_service.go:440).

Runs that show the code disagreeing with what the repository says of it (`findings`):

| Run | Shows |
| --- | --- |
| `hub_send_closed` | `dispatchToClients` collects clients under the locks and sends after releasing them (hub.go:347-364); a session that ends in between closes its channel (hub.go:241) and the send panics |
| `sequence_collision` | a caller that waits for the cold start gives up after ten polls and increments the missing key (sequence.go:52-65), then the initialiser resets it: two messages get one number, which the seed verification counts as an error (seed/verify.go:54) |
| `job_copies` | a job reclaimed while its handler runs is retried by both goroutines, since XACK of an acknowledged entry is not an error (worker.go:158, stream.go:114) |

### Bounds and why they suffice

- Two callers for the cache: every hazard involves one fill and one change, or a fill
  and a late command. Three tokens let an old fill, a new fill and a late one differ. The proofs remove these bounds.
- Three sessions of two users give the interesting hub cases: a second session of a
  user, the last one, another user on the same channel. A buffer of 1 makes "full" reachable with
  one message, so disconnection of slow clients happens. `MaxQueue` bounds delivered messages;
  one that does not fit is lost, as any message may be, and publishers still reorder in `outbox`.
- Three callers and two losses let a second cold start begin while numbers of the first are unused.
- In OTP ticks have no length; what matters is the order of the lifetimes, and the real ratios are used.
- Two requests in each service: every hazard there is one call between the read and the write of another. Three
  users let a third one come near a pair. With a device limit of 1 (the code's is 5) the second login
  already evicts, and three tokens let it replace, evict and be evicted. Three names also bound the logins: a fourth would repeat
  one of these.
- Two messages and two read calls make a receipt old and a count stale; the counter can be anything between.
- Three rows in pages of one or two make pages that end between equal times, full ones and a last one.
- Two sessions of a user are the first, the last and another; times are those of the code, in units of 30 s.
- `MaxSeq` 3 is one number above the two of the dataset and `MaxFaults` 2 lets a recovery fail too.
- The clock of Conversation takes two values: equal times are ordered by number, different ones by time.
- `MaxEntries` is enough for `MaxRetries` 1 with the copies the finding shows; a first entry can be retried by its reader and by the
  reclaimer, which makes three. An entry too few would block a goroutine and break `JobsSettle`. The code's MaxRetries is 3; the model's retry path is the same at every attempt.

`CHECK_DEADLOCK FALSE` stands where the bounds let the system stop (no more messages, losses or entries),
and for the hub, which stops after a shutdown.
`Symmetry` of `services` exchanges requests, users or tokens, and devices or conversations; none of the four tells them apart.
`ReceiptsInOrder` is a property of steps, for which this is sound. `recovery` checks liveness and has no symmetry.

### Fairness

- `Hub!FairSpec`: a goroutine that can run does (weak fairness of each connection's steps and of the
  loop). `Shutdown` has strong fairness: the loop's select chooses at random among ready cases
  (hub.go:76-102), so a cancelled context is taken in the end. No fairness for clients, Redis or membership changes.
- `JobStream!FairSpec`: each goroutine runs and is started again after a crash, in the same consumer group; entries grow
  stale with time and the promoter's ticker fires. Which way a handler ends is
  free: `JobsSettle` holds if it fails every time. Faults are bounded, never forced.
- `Seed!Fairness`: a command that runs goes on, and whoever uses the tool does what the recovery table of `cmd/seed/README.md` says: runs sync or reset again
  (strong fairness of `Open`, since the lock is not always free). Faults are bounded. Without that user nothing recovers: no process retries by itself.

## 4. Proofs

TLAPS checks the following for every value of the constants that meets the assumptions. A Proofs module has an inductive
invariant `IInv` for each component, one lemma per part of it with a step per action, and a lemma or theorem that it holds in
every behaviour, from which the properties follow. `Types` is the type invariant of the module. The other theorems state a
property of section 3 under the name `PROJECT.json` gives for it.

| Module | Theorems | The invariant |
| --- | --- | --- |
| `MembershipCacheProofs` | `Types`, `Coherent`, `LockNotAbandoned`, `Refinement` | `CacheCoherent` is not inductive: a fill that still matches the key's token must hold the committed members too. The invariant says that each token belongs to one caller or one late command (`TokensOwned`, `TokensAwait`), that a fill or a late store whose token is on the key carries the database's members (`Snapshots`), and that when a change is about to commit nothing can publish any more (`Invalidated`). `Progress` ties a call's step to its request and answer; the refinement needs it. Both use that only the holder of the row lock commits. |
| `SequenceProofs` | `Types`, `WarmUnique`, `InOrder` | until a cold start is disturbed the counter is at least every number in the table or on its way (`CounterAbove`), and the initialiser is alone with the largest (`ReadIsMax`) |
| `OTPProofs` | `Types`, `Bounded`, `OneLogin`, `SentCodes` | wrong guesses at the stored code are counted by a counter that cannot expire first, and a lock set by the last one outlives the code (`Counted`); an issuance in clean-up never reported success (`Owned`) |
| `HubProofs` | `Types`, `Subscribed`, `SessionsListen`, `MembersOnly`, `Silent` | the properties speak of states outside critical sections. Inside one, the tables and the wanted subscriptions agree all the same (`Match`, `Sessions`), and whoever holds `subscriptionsMu` knows which channels it put its user on and on which of them the user is alone, which is what its roll-back undoes (`Added`, `Registering`, `Subscribing`). `Recipients` bounds who may receive the event the loop works on, from the authorization to the send. A connection is open before its session is registered (`Locked`), so a stopped hub stays silent because `Register` refuses once the context is done (`StoppedSilent`, the safety half of `ShutdownCompletes`, stated in this module and inductive with `Parts`; no run checks it). |
| `ConversationProofs` | `Types`, `StalePending`, `LatestShown`, `OnlyNewer`, `DeletedStays` | "an update is still to come" is not inductive, since a request that falls back may find its work done. `Owed` counts only jobs and requests whose work nobody else does; a message belongs to one request or system job until it is stored (`Calls`, `Inserts`, `SystemJobs`) |
| `JobStreamProofs` | `Types`, `NothingLost`, `DeadIsTired` | an entry's attempt is at most the failures of its job (`Attempted`), and what a goroutine learned before XACK is still true after it, whatever another goroutine with the same entry does (`AllHold`) |
| `ServicesProofs`: rooms | `DirectPrivate`, `OneDirect` | a direct conversation lists only those it was made for and no admin, and whoever removes a member from one removes itself (`RoomsHeld`, `RoomsDirect`); unless an overlap is on record, a pair has one call that makes its conversation or one conversation that lists both, not two (`RoomsOneMaker`, `RoomsNoneYet`, `RoomsOneListed`) |
| contacts | `MutualContacts` | a row is there because its user asked, an accepted one because the other agreed too (`ContactsAgreed`); both rows of two users mean that both found none (`ContactsCrossed`) |
| sessions | `Unlisted`, `LogoutFinal`, `DeviceBound` | which tokens each login and logout holds and that no two hold one (`SessionTokens`), where the row of each is (`SessionRows`, `SessionLookup`, `SessionOwn`), that the order of use is a permutation of the devices with rows (`SessionOrder`), that a login revokes the sessions beyond the limit before it deletes their rows (`SessionEvict`), and how many sessions let their client in before and after it sets its own (`SessionLimit`) |
| read state | `CounterTrue`, `ReceiptsForward` | targets, read position and receipt are in order unless calls crossed (`ReadOrdered`); a count that nothing disturbed is the number of unread messages, and one that something disturbed is marked (`ReadClean`, `ReadCounted`) |
| all four | `Types`, `ServicesSafe` | a behaviour of `MCServices` is one of each component |
| `RecoveryProofs`: listings | `ListedOnce` | of the rows that stayed, exactly those before the cursor were listed (`ListingSteady`); no message that was listed is after it (`ListingOnce`). It rests on WHERE and ORDER BY being one order (`ListingOrder`) |
| room manager | `ViewingTrue` | which half of an update is still to come for each of the two keys: an entry belongs to an open client, to a clearing that is under way, or to a race on record (`ViewingLocal`, `ViewingRedis`) |
| presence | `PresenceTrue`, `Announced` | an entry outlives the pong that is due, also after one lost refresh (`PresenceKept`), the key outlives its entries (`PresenceLives`), and without an excuse one transition at most waits to be announced, the last (`PresenceTold`) |
| seed tool | `Synced` | the row of the registry tells whether the rows exist and how far the command is (`SeedRows`), a command is alone unless overtaken (`SeedAlone`), keys are gone before the registry row goes (`SeedClean`), verified counters stay those of the rows until the application touches them (`SeedVerified`) |
| all four | `Types`, `RecoverySafe` | a behaviour of `MCRecovery` is one of each component |

TLC checked every one of these invariants on the instance of its run before it was proved. Trying the proofs changed the models in a few places: the type invariant of
`Seed` bounded the unread counter by `MaxSeq`, which fails for larger bounds (a stale counter written back after messages that were read); page
and order of `Listing`, once a sorted sequence, became sets and relations, about which the provers can reason; constants that had been
fixed in `MCServices` and `MCRecovery` became parameters with assumptions.

Assumptions, each checked by TLC in every run of its module:

- `NoneAssumption`, `ValuesAssumption`: the "no value" constants are no value.
- `NamesAssumption` (Hub): every session has a user, and the names of users, the conversation and the loop differ.
- `TimesAssumption` (OTP): lifetimes and the attempt limit are positive and the code does not outlive the
  counter or the lock, true of the code's 5 and 15 minutes (otp.go:12-27).
- `BoundsAssumption`: bounds are naturals; the device and page limits are not 0 (both are constants of the code), and `MaxSeq` covers the
  two messages of the dataset.
- `ItemsAssumption` (Listing): rows are numbers, whose order is that of their ids or sequence numbers.

The lifetimes of presence are those of the code, not parameters: `presenceTTL` is two and a half `pongWait`. `NatMin` in `JobStreamProofs` (a set of naturals has a
least element) is derived from the well-foundedness of the strict subset order on finite sets, since the induction theorems of the library cannot be used.

Only model-checked: `ShutdownCompletes`, `JobsSettle` and `SeedRecovers`, which are liveness under fairness and beyond the prover, and the runs that find a
violation. Every invariant and every action property of a passing run is a theorem.

## 5. Simplifications

- A Redis command that fails ran or did not; only the membership cache also has commands that
  run later. MySQL transactions are serial where the code takes the row lock.
- `Sequence` counts in unbounded naturals (numbers are far from 2^63; sequence.go:70 rejects
  negative ones) and leaves out the seed tool (`Seed`), which raises counters while the system is stopped.
- `Hub` has one conversation. Presence and viewing state have modules of their own; typing, which is published
  and kept nowhere, and the contact commands are left out. Redis Pub/Sub may lose an event, or reorder two of different publishers.
- `Conversation` keeps equal jobs as one: handling a job twice is modelled by the job remaining.
- `JobStream` leaves out entries that cannot be parsed (the producers write none), job types without handlers, and the
  length of the backoff.
- `Session` has one user and no time: a session may expire whenever. The cached status of the user (ten minutes,
  although auth_service.go:367 says that a suspension takes effect at once) is left out, since nothing in the program suspends a user.
- `Presence` has one clock for all processes, and a handshake shorter than a unit of time. `Viewing` has one process;
  the ClearViewing that a removal from a conversation causes is left out.
- `Rooms` takes a message of a creation for nothing (they are `Conversation`'s), and user checks for passed.
- `Listing` compares names and times as numbers; a cursor is the pair it encodes. A user's listing is any set that comes and goes.
- `Seed` has one conversation whose rows are inserted in one transaction, and takes `writers-stopped` at its word: the application
  runs only while no command does. A command beside another that lost its lock is an exception of `SeedSynced`.

## 6. Not modelled, and why

Handlers, presenters, routing, middleware: no state. Generated SQL code: the
queries that carry rules are modelled; reactions and attachments carry none (an insert, a delete, a lookup).
The supervisor starts and waits for the workers; the e-mail and last-seen handlers are one write each. OAuth has a table and no code. Mail, logging, JWT, password hashing, hex ids: libraries or pure
functions. Start-up and configuration: I/O, except the order of the API shutdown.

## 7. Plan

Done, in this order: membership cache with its abstraction and proofs; hub; sequence with
proofs; one-time passwords with proofs; conversation preview; job streams; sessions, read state, rooms, contacts; presence,
room manager; listings; seed tool.

Then the proofs: hub, conversation, job streams, the four services, and listings, room manager, presence and seed tool.

Left: an abstract specification of the services that `Session` and `Rooms` implement (a set of valid tokens; a set of pairs), with the refinement
proved, and a hub whose abstract form is "an event reaches members".

## 8. Running

```
tlc -workers 2 -config membership_cache.cfg MCMembershipCache
tlc -workers 2 -config job_stream.cfg JobStream
tlc -workers 2 -config services.cfg MCServices
tlc -workers 2 -config recovery.cfg MCRecovery
tlapm MembershipCacheProofs.tla
tlapm RecoveryProofs.tla
```

The module of every run is in `PROJECT.json`. To check an inductive invariant with TLC, extend its Proofs module and name the invariant in
a copy of the run's configuration. The longest run (`recovery`, for its liveness property) takes under three minutes, the longest proof (`ServicesProofs`) a few.
