--------------------------------- MODULE Hub ---------------------------------
(***************************************************************************)
(* The WebSocket hub of one API process (internal/websocket): sessions,    *)
(* the Redis channels they listen to, and the goroutines that touch them:  *)
(* one per connection (ServeWS, readPump), writePump, and the hub's own    *)
(* loop (Run), which dispatches what Redis delivers.  There is one         *)
(* conversation, channel Conv, and one sys:<user> channel per user, named  *)
(* by the user.  Presence and viewing calls go to other stores and touch   *)
(* none of this state.                                                     *)
(*                                                                         *)
(* Register and subscribeLocalClient roll back when their Subscribe fails: *)
(* they are two steps, with subscriptionsMu held between them.  Any other  *)
(* critical section is one step.                                           *)
(***************************************************************************)
EXTENDS Naturals, Sequences, FiniteSets

CONSTANTS Users, Clients, Owner(_), Conv, Loop, None,
          BufferSize,   \* sendBufferSize
          MaxQueue,     \* bound: messages waiting in the PubSub channel
          MaxChanges,   \* bound: membership changes
          MaxSends      \* bound: chat messages sent to the conversation

Channels == {Conv} \cup Users

VARIABLES
    member,    \* committed members of the conversation (MembershipCache)
    outbox,    \* events whose PUBLISH is still on its way to Redis
    queue,     \* messages Redis delivered to the hub, oldest first
    changes, sends,
    clients,   \* h.clients: the registered sessions
    channels,  \* h.channels: users listening to each channel
    wanted,    \* channels the PubSub connection is subscribed to
    mu,        \* holder of subscriptionsMu, and its local variables:
    added,     \* addedChannels: channels it put its user on
    fresh,     \* newChannels: channels it has to subscribe
    cancelled, \* the application context is done
    serve,     \* what each connection's goroutine is doing
    conn,      \* connections still open
    convs,     \* clients whose convs holds the conversation
    buffer,    \* messages waiting in each client's send channel
    closed,    \* clients whose send channel is closed
    loop,      \* what the hub loop is doing, and its local variables:
    msg, targets, current, active, allowed,
    since,     \* members at some instant since the loop took its message
    crashed    \* a send on a closed channel: the process panics

redisVars == <<member, outbox, queue, changes, sends>>
hubVars == <<clients, channels, wanted, mu, added, fresh>>
clientVars == <<serve, conn, convs, buffer, closed>>
loopVars == <<loop, msg, targets, current, active, allowed>>
vars == <<redisVars, hubVars, cancelled, clientVars, loopVars, since, crashed>>

Changed == [kind : {"member"}, user : Users, op : {"subscribe", "unsubscribe"}]
Commands == [kind : {"sys"}, user : Users, op : {"subscribe", "unsubscribe"}, payload : BOOLEAN]
Chat == [kind |-> "chat"]
Messages == Changed \cup Commands \cup {Chat}

ASSUME NamesAssumption ==
    /\ \A c \in Clients : Owner(c) \in Users
    /\ Conv \notin Users /\ None \notin Clients \cup Messages
    /\ Loop \notin Clients \cup {None}
ASSUME BoundsAssumption == BufferSize \in Nat /\ MaxQueue \in Nat

OwnersOf(C) == {Owner(c) : c \in C}
SessionsOf(u) == {c \in clients : Owner(c) = u}

Init ==
    /\ member \in SUBSET Users
    /\ outbox = {} /\ queue = <<>> /\ changes = 0 /\ sends = 0
    /\ clients = {}
    /\ channels = [ch \in Channels |-> {}]
    /\ wanted = {}
    /\ mu = None /\ added = {} /\ fresh = {}
    /\ cancelled = FALSE
    /\ serve = [c \in Clients |-> "new"]
    /\ conn = {} /\ convs = {} /\ closed = {}
    /\ buffer = [c \in Clients |-> 0]
    /\ loop = "idle" /\ msg = None /\ targets = {} /\ active = {} /\ allowed = {} /\ current = None
    /\ since = {}
    /\ crashed = FALSE

-----------------------------------------------------------------------------
(* Redis and the services that publish.                                    *)

(* PUBLISH: delivered at most once, to the hubs that are subscribed.       *)
Deliver(ch, m) ==
    \/ /\ ch \in wanted /\ Len(queue) < MaxQueue
       /\ queue' = Append(queue, m)
    \/ UNCHANGED queue

(* RoomService.AddMember and RemoveMember commit, then publish.            *)
ChangeMember(u) ==
    /\ changes < MaxChanges
    /\ changes' = changes + 1
    /\ \/ /\ u \notin member
          /\ member' = member \cup {u}
          /\ outbox' = outbox \cup {[kind |-> "member", user |-> u, op |-> "subscribe"]}
       \/ /\ u \in member
          /\ member' = member \ {u}
          /\ outbox' = outbox \cup {[kind |-> "member", user |-> u, op |-> "unsubscribe"]}
    /\ since' = IF loop = "idle" THEN {} ELSE since \cup member'
    /\ UNCHANGED <<queue, sends, hubVars, cancelled, clientVars, loopVars, crashed>>

(* events.Publish of member.added or member.removed; then a goroutine      *)
(* publishes the sys command, with the payload for the client.             *)
PublishChange(e) ==
    /\ e \in outbox /\ e.kind = "member"
    /\ outbox' = (outbox \ {e}) \cup
           {[kind |-> "sys", user |-> e.user, op |-> e.op, payload |-> TRUE]}
    /\ Deliver(Conv, e)
    /\ UNCHANGED <<member, changes, sends, hubVars, cancelled, clientVars, loopVars, since, crashed>>

PublishCommand(e) ==
    /\ e \in outbox /\ e.kind = "sys"
    /\ outbox' = outbox \ {e}
    /\ Deliver(e.user, e)
    /\ UNCHANGED <<member, changes, sends, hubVars, cancelled, clientVars, loopVars, since, crashed>>

PublishChat ==
    /\ sends < MaxSends
    /\ sends' = sends + 1
    /\ Deliver(Conv, Chat)
    /\ UNCHANGED <<member, outbox, changes, hubVars, cancelled, clientVars, loopVars, since, crashed>>

-----------------------------------------------------------------------------
(* A connection.                                                           *)

Serving(c, step) == serve' = [serve EXCEPT ![c] = step]

(* ServeWS reads the user's conversations, upgrades and builds the client. *)
Connect(c) ==
    /\ serve[c] = "new"
    /\ Serving(c, "register")
    /\ conn' = conn \cup {c}
    /\ convs' = IF Owner(c) \in member THEN convs \cup {c} ELSE convs
    /\ UNCHANGED <<redisVars, hubVars, cancelled, buffer, closed, loopVars, since, crashed>>

Listens(c) == {Owner(c)} \cup (IF c \in convs THEN {Conv} ELSE {})

(* Put the user of c on the channels C, and Subscribe those nobody was on. *)
Join(c, C) ==
    /\ channels' = [ch \in Channels |->
           IF ch \in C THEN channels[ch] \cup {Owner(c)} ELSE channels[ch]]
    /\ added' = {ch \in C : Owner(c) \notin channels[ch]}
    /\ fresh' = {ch \in C : channels[ch] = {}}
    /\ wanted' = wanted \cup fresh'

(* Take the user of c off the channels C again, and Unsubscribe F.         *)
Leave(c, C, F) ==
    /\ channels' = [ch \in Channels |->
           IF ch \in C THEN channels[ch] \ {Owner(c)} ELSE channels[ch]]
    /\ wanted' = wanted \ F

Unlock == mu' = None /\ added' = {} /\ fresh' = {}

(* Variant: nobody looks whether the hub is stopping.                      *)
NeverStopping == FALSE

(* The check of h.stopping and h.ctx and the entry in h.clients are one    *)
(* critical section of clientsMu, which shutdown reads later.              *)
Stopping == cancelled

(* Register, up to its Subscribe.                                          *)
Register(c) ==
    /\ serve[c] = "register"
    /\ mu = None
    /\ ~Stopping
    /\ clients' = clients \cup {c}
    /\ Join(c, Listens(c))
    /\ mu' = c
    /\ Serving(c, "subscribe")
    /\ UNCHANGED <<redisVars, cancelled, conn, convs, buffer, closed, loopVars, since, crashed>>

(* Refused: ServeWS closes the connection.                                 *)
RefuseRegister(c) ==
    /\ serve[c] = "register"
    /\ mu = None
    /\ Stopping
    /\ Serving(c, "gone")
    /\ conn' = conn \ {c}
    /\ UNCHANGED <<redisVars, hubVars, cancelled, convs, buffer, closed, loopVars, since, crashed>>

(* The Subscribe succeeded, or there was none.                             *)
SubscribeNew(c) ==
    /\ serve[c] = "subscribe"
    /\ Unlock
    /\ Serving(c, "open")
    /\ UNCHANGED <<redisVars, clients, channels, wanted, cancelled, conn, convs, buffer, closed,
                   loopVars, since, crashed>>

(* Variant: a failed registration leaves its user on the channels.         *)
ForgetRegistration(c) ==
    /\ serve[c] = "subscribe"
    /\ fresh # {}
    /\ clients' = clients \ {c}
    /\ Leave(c, {}, fresh)
    /\ Unlock
    /\ Serving(c, "gone")
    /\ conn' = conn \ {c}
    /\ UNCHANGED <<redisVars, cancelled, convs, buffer, closed, loopVars, since, crashed>>

(* Subscribe failed: rollbackRegistrationLocked, then ServeWS closes.      *)
RollbackRegistration(c) ==
    /\ serve[c] = "subscribe"
    /\ fresh # {}
    /\ clients' = clients \ {c}
    /\ Leave(c, added, fresh)
    /\ Unlock
    /\ Serving(c, "gone")
    /\ conn' = conn \ {c}
    /\ UNCHANGED <<redisVars, cancelled, convs, buffer, closed, loopVars, since, crashed>>

(* Variant: the last session of a user is taken for the last on a channel. *)
UnregisterAllChannels(c) ==
    /\ mu = None
    /\ IF c \in clients
       THEN /\ clients' = clients \ {c}
            /\ closed' = closed \cup {c}
            /\ IF SessionsOf(Owner(c)) = {c} /\ ~Stopping
               THEN Leave(c, Channels, {ch \in Channels : Owner(c) \in channels[ch]})
               ELSE UNCHANGED <<channels, wanted>>
       ELSE UNCHANGED <<clients, channels, wanted, closed>>
    /\ UNCHANGED <<mu, added, fresh>>

(* Unregister: unregisterLocalClient, and closeSend for the one caller     *)
(* that removed the session.                                               *)
Unregister(c) ==
    /\ mu = None
    /\ IF c \in clients
       THEN /\ clients' = clients \ {c}
            /\ closed' = closed \cup {c}
            /\ IF SessionsOf(Owner(c)) = {c} /\ ~Stopping
               THEN Leave(c, Channels, {ch \in Channels : channels[ch] = {Owner(c)}})
               ELSE UNCHANGED <<channels, wanted>>
       ELSE UNCHANGED <<clients, channels, wanted, closed>>
    /\ UNCHANGED <<mu, added, fresh>>

(* The peer leaves, misses its pong, or a write to it fails.               *)
Disconnect(c) ==
    /\ serve[c] = "open" /\ c \in conn
    /\ conn' = conn \ {c}
    /\ UNCHANGED <<redisVars, hubVars, cancelled, serve, convs, buffer, closed, loopVars,
                   since, crashed>>

(* readPump returns: its deferred Unregister.                              *)
ReadPumpEnds(c) ==
    /\ serve[c] = "open" /\ c \notin conn
    /\ Unregister(c)
    /\ Serving(c, "gone")
    /\ UNCHANGED <<redisVars, cancelled, conn, convs, buffer, loopVars, since, crashed>>

(* writePump sends what is waiting.                                        *)
WriteMessages(c) ==
    /\ serve[c] = "open" /\ c \in conn
    /\ buffer[c] > 0
    /\ buffer' = [buffer EXCEPT ![c] = 0]
    /\ UNCHANGED <<redisVars, hubVars, cancelled, serve, conn, convs, closed, loopVars,
                   since, crashed>>

(* The hub closed the send channel, or the application stops: writePump    *)
(* returns and closes the connection.                                      *)
WritePumpEnds(c) ==
    /\ serve[c] = "open" /\ c \in conn
    /\ cancelled \/ (c \in closed /\ buffer[c] = 0)
    /\ conn' = conn \ {c}
    /\ UNCHANGED <<redisVars, hubVars, cancelled, serve, convs, buffer, closed, loopVars,
                   since, crashed>>

-----------------------------------------------------------------------------
(* The hub loop.                                                           *)

LoopIdle ==
    /\ loop' = "idle" /\ msg' = None /\ current' = None
    /\ targets' = {} /\ active' = {} /\ allowed' = {}

(* One message of Run's select.  A membership event makes every hub that   *)
(* hears it publish the sys command again (interceptMembership); then the  *)
(* event goes to the conversation's subscribers, if there are any.         *)
TakeEvent ==
    /\ loop = "idle" /\ queue # <<>>
    /\ Head(queue).kind \in {"chat", "member"}
    /\ queue' = Tail(queue)
    /\ outbox' = IF Head(queue).kind = "member"
                 THEN outbox \cup {[kind |-> "sys", user |-> Head(queue).user,
                                    op |-> Head(queue).op, payload |-> FALSE]}
                 ELSE outbox
    /\ IF channels[Conv] = {} THEN UNCHANGED <<loop, msg, since>>
       ELSE loop' = "authorize" /\ msg' = Head(queue) /\ since' = member
    /\ UNCHANGED <<member, changes, sends, hubVars, cancelled, clientVars, targets, current,
                   active, allowed, crashed>>

(* handleSysEvent: the user's sessions, and isMember for a subscribe.      *)
TakeCommand ==
    /\ loop = "idle" /\ queue # <<>>
    /\ Head(queue).kind = "sys"
    /\ queue' = Tail(queue)
    /\ LET cmd == Head(queue)
           sessions == SessionsOf(cmd.user)
       IN \/ /\ sessions # {}
             /\ cmd.op = "subscribe" => cmd.user \in member
             /\ loop' = cmd.op
             /\ msg' = cmd
             /\ targets' = sessions
             /\ active' = IF cmd.op = "subscribe" THEN {} ELSE sessions
             /\ since' = member
          \/ /\ sessions = {} \/ cmd.op = "subscribe"     \* no session, no member, or an error
             /\ UNCHANGED <<loop, msg, targets, active, since>>
    /\ UNCHANGED <<member, outbox, changes, sends, hubVars, cancelled, clientVars, current,
                   allowed, crashed>>

(* authorizedMembers: on an error nobody is allowed.                       *)
Authorize ==
    /\ loop = "authorize"
    /\ \/ /\ member # {}
          /\ loop' = "collect" /\ allowed' = member
          /\ UNCHANGED <<msg, targets, current, active>>
       \/ LoopIdle
    /\ UNCHANGED <<redisVars, hubVars, cancelled, clientVars, since, crashed>>

(* Variant: every local subscriber is a target.                            *)
CollectSubscribers ==
    /\ loop = "collect"
    /\ targets' = {c \in clients : Owner(c) \in channels[Conv]}
    /\ loop' = "send"
    /\ UNCHANGED <<redisVars, hubVars, cancelled, clientVars, msg, current, active,
                   allowed, since, crashed>>

(* The sessions to send to: subscribed, allowed, and not those of the user *)
(* the event is about (skipUIDForPayload).                                 *)
Collect ==
    /\ loop = "collect"
    /\ targets' = {c \in clients : /\ Owner(c) \in channels[Conv] \cap allowed
                                   /\ msg.kind = "member" => Owner(c) # msg.user}
    /\ loop' = "send"
    /\ UNCHANGED <<redisVars, hubVars, cancelled, clientVars, msg, current, active,
                   allowed, since, crashed>>

(* Variant: the hub does not look whether there is room.                   *)
SendRegardless(c) ==
    /\ loop = "send" /\ c \in targets
    /\ targets' = targets \ {c}
    /\ buffer' = [buffer EXCEPT ![c] = @ + 1]
    /\ UNCHANGED <<redisVars, hubVars, cancelled, serve, conn, convs, closed, loop, msg, current,
                   active, allowed, since, crashed>>

(* One client of dispatchToClients or sendToTargets.  A full buffer ends   *)
(* the session; a closed channel panics.                                   *)
Send(c) ==
    /\ loop = "send" /\ c \in targets
    /\ targets' = targets \ {c}
    /\ \/ /\ c \in closed
          /\ crashed' = TRUE
          /\ UNCHANGED <<hubVars, clientVars>>
       \/ /\ c \notin closed /\ buffer[c] < BufferSize
          /\ buffer' = [buffer EXCEPT ![c] = @ + 1]
          /\ UNCHANGED <<hubVars, serve, conn, convs, closed, crashed>>
       \/ /\ c \notin closed /\ buffer[c] = BufferSize
          /\ Unregister(c)
          /\ UNCHANGED <<serve, conn, convs, buffer, crashed>>
    /\ UNCHANGED <<redisVars, cancelled, loop, msg, current, active, allowed, since>>

SendDone ==
    /\ loop = "send" /\ targets = {}
    /\ LoopIdle
    /\ UNCHANGED <<redisVars, hubVars, cancelled, clientVars, since, crashed>>

(* subscribeLocalClient, up to its Subscribe.                              *)
SubscribeLocal(c) ==
    /\ loop = "subscribe" /\ c \in targets
    /\ mu = None
    /\ targets' = targets \ {c}
    /\ current' = c
    /\ IF ~Stopping /\ c \in clients
       THEN Join(c, {Conv}) /\ mu' = Loop /\ loop' = "subscribing" /\ UNCHANGED clients
       ELSE loop' = "evict" /\ UNCHANGED hubVars
    /\ UNCHANGED <<redisVars, cancelled, clientVars, msg, active, allowed, since, crashed>>

SubscribeLocalDone ==
    /\ loop = "subscribing"
    /\ convs' = convs \cup {current}
    /\ active' = active \cup {current}
    /\ Unlock
    /\ loop' = "subscribe"
    /\ UNCHANGED <<redisVars, clients, channels, wanted, cancelled, serve, conn, buffer, closed,
                   msg, targets, current, allowed, since, crashed>>

(* Subscribe failed: the user leaves the channel again.                    *)
SubscribeLocalFails ==
    /\ loop = "subscribing" /\ fresh # {}
    /\ Leave(current, added, fresh)
    /\ Unlock
    /\ loop' = "evict"
    /\ UNCHANGED <<redisVars, clients, cancelled, clientVars, msg, targets, current, active,
                   allowed, since, crashed>>

(* handleSysEvent ends a session that could not subscribe.                 *)
Evict ==
    /\ loop = "evict"
    /\ Unregister(current)
    /\ loop' = "subscribe"
    /\ UNCHANGED <<redisVars, cancelled, serve, conn, convs, buffer, msg, targets, current,
                   active, allowed, since, crashed>>

UnsubscribeLocal(c) ==
    /\ loop = "unsubscribe" /\ c \in targets
    /\ mu = None
    /\ targets' = targets \ {c}
    /\ IF c \in clients
       THEN /\ convs' = convs \ {c}
            /\ Leave(c, {Conv}, IF channels[Conv] = {Owner(c)} THEN {Conv} ELSE {})
       ELSE UNCHANGED <<convs, channels, wanted>>
    /\ UNCHANGED <<redisVars, clients, mu, added, fresh, cancelled, serve, conn, buffer, closed,
                   loop, msg, current, active, allowed, since, crashed>>

(* The command's payload, if any, goes to the sessions it was applied to.  *)
Reply ==
    /\ loop \in {"subscribe", "unsubscribe"} /\ targets = {}
    /\ IF msg.payload
       THEN loop' = "send" /\ targets' = active /\ UNCHANGED <<msg, current, active, allowed>>
       ELSE LoopIdle
    /\ UNCHANGED <<redisVars, hubVars, cancelled, clientVars, since, crashed>>

-----------------------------------------------------------------------------
(* Shutdown: APIApplication.Run cancels the context.                       *)
Cancel ==
    /\ ~cancelled
    /\ cancelled' = TRUE
    /\ UNCHANGED <<redisVars, hubVars, clientVars, loopVars, since, crashed>>

(* Run's select sees the cancelled context: h.shutdown.                    *)
Shutdown ==
    /\ loop = "idle" /\ cancelled
    /\ loop' = "stopped"
    /\ conn' = conn \ clients
    /\ wanted' = {}
    /\ UNCHANGED <<redisVars, clients, channels, mu, added, fresh, cancelled, serve, convs,
                   buffer, closed, msg, targets, current, active, allowed, since, crashed>>

ClientStep(c) ==
    \/ Register(c) \/ RefuseRegister(c) \/ SubscribeNew(c) \/ RollbackRegistration(c)
    \/ ReadPumpEnds(c)

LoopStep ==
    \/ TakeEvent \/ TakeCommand \/ Authorize \/ Collect
    \/ \E c \in Clients : Send(c) \/ SubscribeLocal(c) \/ UnsubscribeLocal(c)
    \/ SendDone \/ SubscribeLocalDone \/ SubscribeLocalFails \/ Evict \/ Reply

Next ==
    /\ ~crashed
    /\ \/ \E u \in Users : ChangeMember(u)
       \/ \E e \in outbox : PublishChange(e) \/ PublishCommand(e)
       \/ PublishChat
       \/ \E c \in Clients : Connect(c) \/ ClientStep(c) \/ Disconnect(c)
                             \/ WriteMessages(c) \/ WritePumpEnds(c)
       \/ LoopStep
       \/ Cancel
       \/ Shutdown

Spec == Init /\ [][Next]_vars

(* Goroutines that can run do; the loop's select takes the cancelled       *)
(* context sooner or later, whatever else is ready.                        *)
FairSpec ==
    /\ Spec
    /\ \A c \in Clients : WF_vars(~crashed /\ ClientStep(c))
    /\ WF_vars(~crashed /\ LoopStep)
    /\ SF_vars(~crashed /\ Shutdown)

-----------------------------------------------------------------------------
(* Type invariant.                                                         *)
TypeOK ==
    /\ member \subseteq Users /\ outbox \subseteq Changed \cup Commands
    /\ Len(queue) <= MaxQueue /\ \A i \in 1..Len(queue) : queue[i] \in Messages
    /\ clients \subseteq Clients /\ conn \subseteq Clients
    /\ convs \subseteq Clients /\ closed \subseteq Clients
    /\ channels \in [Channels -> SUBSET Users] /\ wanted \subseteq Channels
    /\ mu \in Clients \cup {Loop, None} /\ added \subseteq Channels /\ fresh \subseteq added
    /\ serve \in [Clients -> {"new", "register", "subscribe", "open", "gone"}]
    /\ buffer \in [Clients -> 0..BufferSize]
    /\ loop \in {"idle", "authorize", "collect", "send", "subscribe", "subscribing", "evict",
                 "unsubscribe", "stopped"}
    /\ msg \in Messages \cup {None} /\ current \in Clients \cup {None}
    /\ targets \subseteq Clients /\ active \subseteq Clients
    /\ allowed \subseteq Users /\ since \subseteq Users
    /\ cancelled \in BOOLEAN /\ crashed \in BOOLEAN

(* Outside critical sections the hub is subscribed in Redis to exactly the *)
(* channels its sessions listen to: no channel goes silent because another *)
(* session left or failed, and none leaks (hub.go:35, "Keep membership     *)
(* changes and their Redis subscriptions in the same order").              *)
SubscriptionsMatch ==
    mu = None /\ ~cancelled => wanted = {ch \in Channels : channels[ch] # {}}

(* A user is on a channel only while it has a session here, and every      *)
(* session's user listens to its sys channel, however registrations, their *)
(* roll-backs and evictions interleave (hub.go:140-313).                   *)
ChannelsHaveSessions ==
    mu = None /\ ~cancelled =>
        /\ \A ch \in Channels : channels[ch] \subseteq OwnersOf(clients)
        /\ \A c \in clients : channels[Owner(c)] = {Owner(c)}

(* A conversation event goes only to users who were members at some        *)
(* instant since the hub took it up, although local subscriptions outlive  *)
(* missed and reordered removals (hub.go:372).                             *)
OnlyMembersReceive ==
    loop = "send" /\ msg.kind # "sys" => OwnersOf(targets) \subseteq since

(* Shutdown ends every session, those registering meanwhile included, and  *)
(* the loop (hub.go:113-137, 147; api.go Run waits for it).                *)
ShutdownCompletes ==
    cancelled ~> (loop = "stopped" /\ clients = {}) \/ crashed

(* Unregister removes the client from the hub (hub.go:231), which sends it *)
(* nothing more: its channel is closed.                                    *)
NeverSendsOnClosed == ~crashed
=============================================================================
