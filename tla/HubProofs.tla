------------------------------- MODULE HubProofs -------------------------------
(***************************************************************************)
(* SubscriptionsMatch, ChannelsHaveSessions, OnlyMembersReceive and        *)
(* StoppedSilent hold for any users, sessions, queue and buffer sizes.     *)
(*                                                                         *)
(* The argument.  Sessions, channels and subscriptions only change under   *)
(* subscriptionsMu, and agree also while a registration or a local         *)
(* subscription holds it (Match, Sessions): its roll-back knows which      *)
(* channels it put its user on, and that nobody else was on those it       *)
(* subscribed (Added, Registering).  Whom an event may go to is known      *)
(* from the moment the hub takes it up (Recipients).  A connection is open *)
(* before its session is registered, so a stopped hub stays silent only    *)
(* because it refuses to register one.                                     *)
(***************************************************************************)
EXTENDS Hub, TLAPS

QueueTyped == queue \in Seq(Messages)

(* Who holds subscriptionsMu is where it is held, and a session is only    *)
(* known to the hub once it has registered.                                *)
Locked ==
    /\ \A c \in Clients : serve[c] = "subscribe" <=> mu = c
    /\ loop = "subscribing" <=> mu = Loop
    /\ \A c \in Clients : serve[c] \in {"new", "register"} => c \notin clients
    /\ loop \in {"subscribing", "evict"} => current \in Clients

(* Only u listens to sys:<u>.                                              *)
OwnChannels == \A u \in Users : channels[u] \subseteq {u}

Match == ~cancelled => wanted = {ch \in Channels : channels[ch] # {}}

Sessions ==
    ~cancelled =>
        /\ \A ch \in Channels : channels[ch] \subseteq OwnersOf(clients)
        /\ \A c \in clients : Owner(c) \in channels[Owner(c)]

(* The user u was put on the channels added, and is alone on fresh ones.   *)
Added(u) ==
    /\ \A ch \in added : u \in channels[ch]
    /\ \A ch \in added : ch \in fresh <=> channels[ch] = {u}

(* A registration knows all channels of its user, or its user had sessions *)
(* already, and listened to its sys channel.                               *)
Registering ==
    \A c \in Clients : serve[c] = "subscribe" =>
        /\ c \in clients
        /\ Added(Owner(c))
        /\ \A ch \in Channels : Owner(c) \in channels[ch] /\ ch \notin added =>
               \E d \in clients : d # c /\ Owner(d) = Owner(c)
        /\ \A d \in clients : d # c /\ Owner(d) = Owner(c) => Owner(c) \notin added

Subscribing == loop = "subscribing" => added \subseteq {Conv} /\ Added(Owner(current))

(* Those who may receive the event the hub is working on.                  *)
Recipients ==
    /\ loop \in {"authorize", "collect"} => msg # None /\ msg.kind # "sys"
    /\ loop \in {"subscribe", "subscribing", "evict", "unsubscribe"} =>
           msg # None /\ msg.kind = "sys"
    /\ loop = "authorize" => member \subseteq since
    /\ loop = "collect" => allowed \subseteq since
    /\ loop = "send" /\ msg.kind # "sys" => OwnersOf(targets) \subseteq since

(* Once the loop has stopped nobody closes sessions any more: none the hub *)
(* knows is left with its connection open, and none is added, although     *)
(* connections arrive and register while it stops (hub.go:113-150).        *)
StoppedSilent == loop = "stopped" => cancelled /\ clients \cap conn = {}

Parts == TypeOK /\ QueueTyped /\ Locked

IInv ==
    /\ Parts /\ OwnChannels /\ Match /\ Sessions /\ Registering /\ Subscribing
    /\ Recipients /\ StoppedSilent

-----------------------------------------------------------------------------
(* Types.                                                                  *)

(* The channels of a session.                                              *)
LEMMA OwnerTyped ==
  /\ \A c \in Clients : Owner(c) \in Users /\ Owner(c) \in Channels /\ Owner(c) # Conv
  /\ Conv \in Channels /\ Users \subseteq Channels
BY NamesAssumption DEF Channels

(* Joining keeps the types.                                                *)
LEMMA JoinTyped ==
  ASSUME TypeOK, NEW c \in Clients, NEW D \in SUBSET Channels, Join(c, D)
  PROVE  /\ channels' \in [Channels -> SUBSET Users] /\ wanted' \subseteq Channels
         /\ added' \subseteq Channels /\ fresh' \subseteq added'
<1>1. Owner(c) \in Users
  BY OwnerTyped
<1>2. added' \subseteq Channels /\ fresh' \subseteq added' /\ wanted' \subseteq Channels
  BY DEF Join, TypeOK
<1>3. channels' \in [Channels -> SUBSET Users]
  BY <1>1 DEF Join, TypeOK
<1>4. QED
  BY <1>2, <1>3

(* Leaving keeps the types.                                                *)
LEMMA LeaveTyped ==
  ASSUME TypeOK, NEW c \in Clients, NEW D, NEW F, Leave(c, D, F)
  PROVE  channels' \in [Channels -> SUBSET Users] /\ wanted' \subseteq Channels
BY DEF Leave, TypeOK

(* Unregistering keeps the types.                                          *)
LEMMA UnregisterTyped ==
  ASSUME TypeOK, NEW c \in Clients, Unregister(c)
  PROVE  /\ clients' \subseteq clients /\ closed' \subseteq Clients
         /\ channels' \in [Channels -> SUBSET Users] /\ wanted' \subseteq Channels
         /\ mu' = mu /\ added' = added /\ fresh' = fresh
<1>1. CASE \E D, F : Leave(c, D, F)
  BY <1>1, LeaveTyped DEF Unregister, TypeOK
<1>2. CASE UNCHANGED <<channels, wanted>>
  BY <1>2 DEF Unregister, TypeOK
<1>3. QED
  BY <1>1, <1>2 DEF Unregister

(* The hub's messages.                                                     *)
LEMMA HeadTyped ==
  ASSUME QueueTyped, queue # <<>>
  PROVE  Head(queue) \in Messages /\ Tail(queue) \in Seq(Messages)
BY DEF QueueTyped

(* What is delivered comes behind what is there.                           *)
LEMMA DeliverTyped ==
  ASSUME TypeOK, QueueTyped, NEW ch, NEW m \in Messages, Deliver(ch, m)
  PROVE  queue' \in Seq(Messages) /\ Len(queue') <= MaxQueue
<1>1. queue \in Seq(Messages) /\ Len(queue) <= MaxQueue
  BY DEF TypeOK, QueueTyped
<1>2. QED
  BY <1>1, BoundsAssumption DEF Deliver

(* TypeOK speaks of the queue's elements only.                             *)
LEMMA QueueElements ==
  ASSUME QueueTyped
  PROVE  \A i \in 1..Len(queue) : queue[i] \in Messages
BY DEF QueueTyped

(* The rest of TypeOK.                                                     *)
RestTyped ==
    /\ queue \in Seq(Messages) /\ Len(queue) <= MaxQueue
    /\ member \subseteq Users /\ outbox \subseteq Changed \cup Commands
    /\ clients \subseteq Clients /\ conn \subseteq Clients
    /\ convs \subseteq Clients /\ closed \subseteq Clients
    /\ channels \in [Channels -> SUBSET Users] /\ wanted \subseteq Channels
    /\ mu \in Clients \cup {Loop, None} /\ added \subseteq Channels /\ fresh \subseteq added
    /\ serve \in [Clients -> {"new", "register", "subscribe", "open", "gone"}]
    /\ buffer \in [Clients -> 0..BufferSize]
    /\ loop \in {"idle", "authorize", "collect", "send", "subscribe", "subscribing", "evict",
                 "unsubscribe", "stopped"}
    /\ msg \in Messages \cup {None} /\ current \in Clients \cup {None}
    /\ targets \subseteq Clients /\ active \subseteq Clients
    /\ allowed \subseteq Users /\ since \subseteq Users
    /\ cancelled \in BOOLEAN /\ crashed \in BOOLEAN

(* The variables keep their types.                                         *)
LEMMA RestPreserved ==
  Parts /\ [Next]_vars => RestTyped'
<1> SUFFICES ASSUME Parts, [Next]_vars PROVE RestTyped'
  OBVIOUS
<1>0. RestTyped
  BY DEF Parts, TypeOK, QueueTyped, RestTyped
<1>1. ASSUME NEW u \in Users, ChangeMember(u) PROVE RestTyped'
  <2>1. /\ [kind |-> "member", user |-> u, op |-> "subscribe"] \in Changed
        /\ [kind |-> "member", user |-> u, op |-> "unsubscribe"] \in Changed
    BY DEF Changed
  <2>2. outbox' \subseteq Changed \cup Commands /\ member' \subseteq Users
    BY <1>1, <1>0, <2>1 DEF ChangeMember, RestTyped
  <2>3. since' \subseteq Users
    BY <1>1, <1>0, <2>2 DEF ChangeMember, RestTyped
  <2>4. QED
    BY <1>1, <1>0, <2>2, <2>3 DEF ChangeMember, hubVars, clientVars, loopVars, RestTyped
<1>2. ASSUME NEW e \in outbox, PublishChange(e) PROVE RestTyped'
  <2>1. e \in Changed
    BY <1>2, <1>0 DEF PublishChange, RestTyped, Changed, Commands
  <2>2. e \in Messages /\ e.user \in Users /\ e.op \in {"subscribe", "unsubscribe"}
    BY <2>1 DEF Changed, Messages
  <2>3. [kind |-> "sys", user |-> e.user, op |-> e.op, payload |-> TRUE] \in Commands
    BY <2>2 DEF Commands
  <2>4. queue' \in Seq(Messages) /\ Len(queue') <= MaxQueue
    BY <1>2, <2>2, DeliverTyped DEF PublishChange, Parts
  <2>5. outbox' \subseteq Changed \cup Commands
    BY <1>2, <1>0, <2>3 DEF PublishChange, RestTyped
  <2>6. QED
    BY <1>2, <1>0, <2>4, <2>5 DEF PublishChange, hubVars, clientVars, loopVars, RestTyped
<1>3. ASSUME NEW e \in outbox, PublishCommand(e) PROVE RestTyped'
  <2>1. e \in Messages
    BY <1>3, <1>0 DEF RestTyped, Messages
  <2>2. queue' \in Seq(Messages) /\ Len(queue') <= MaxQueue
    BY <1>3, <2>1, DeliverTyped DEF PublishCommand, Parts
  <2>3. QED
    BY <1>3, <1>0, <2>2 DEF PublishCommand, hubVars, clientVars, loopVars, RestTyped
<1>4. ASSUME PublishChat PROVE RestTyped'
  <2>1. Chat \in Messages
    BY DEF Messages
  <2>2. queue' \in Seq(Messages) /\ Len(queue') <= MaxQueue
    BY <1>4, <2>1, DeliverTyped DEF PublishChat, Parts
  <2>3. QED
    BY <1>4, <1>0, <2>2 DEF PublishChat, hubVars, clientVars, loopVars, RestTyped
<1>5. ASSUME NEW c \in Clients, Connect(c) \/ RefuseRegister(c) \/ Disconnect(c) \/
             WriteMessages(c) \/ WritePumpEnds(c)
      PROVE RestTyped'
  BY <1>5, <1>0, BoundsAssumption DEF Connect, RefuseRegister, Disconnect, WriteMessages,
     WritePumpEnds, Serving, redisVars, hubVars, clientVars, loopVars, RestTyped
<1>6. ASSUME NEW c \in Clients, Register(c) PROVE RestTyped'
  <2>1. Listens(c) \in SUBSET Channels
    BY OwnerTyped DEF Listens
  <2>2. /\ channels' \in [Channels -> SUBSET Users] /\ wanted' \subseteq Channels
        /\ added' \subseteq Channels /\ fresh' \subseteq added'
    BY <1>6, <2>1, JoinTyped DEF Register, Parts
  <2>3. QED
    BY <1>6, <1>0, <2>2 DEF Register, Serving, redisVars, loopVars, RestTyped
<1>7. ASSUME NEW c \in Clients, SubscribeNew(c) PROVE RestTyped'
  BY <1>7, <1>0 DEF SubscribeNew, Serving, Unlock, redisVars, hubVars, clientVars, loopVars,
     RestTyped
<1>8. ASSUME NEW c \in Clients, RollbackRegistration(c) PROVE RestTyped'
  <2>1. channels' \in [Channels -> SUBSET Users] /\ wanted' \subseteq Channels
    BY <1>8, LeaveTyped DEF RollbackRegistration, Parts
  <2>2. QED
    BY <1>8, <1>0, <2>1 DEF RollbackRegistration, Serving, Unlock, redisVars, loopVars, RestTyped
<1>9. ASSUME NEW c \in Clients, ReadPumpEnds(c) PROVE RestTyped'
  <2>1. /\ clients' \subseteq clients /\ closed' \subseteq Clients
        /\ channels' \in [Channels -> SUBSET Users] /\ wanted' \subseteq Channels
        /\ mu' = mu /\ added' = added /\ fresh' = fresh
    BY <1>9, UnregisterTyped DEF ReadPumpEnds, Parts
  <2>2. QED
    BY <1>9, <1>0, <2>1 DEF ReadPumpEnds, Serving, redisVars, loopVars, RestTyped
<1>10. ASSUME TakeEvent PROVE RestTyped'
  <2>1. Head(queue) \in Messages /\ Tail(queue) \in Seq(Messages) /\ Len(Tail(queue)) <= MaxQueue
    BY <1>10, HeadTyped, <1>0, BoundsAssumption DEF TakeEvent, Parts, RestTyped
  <2>2. Head(queue).kind = "member" =>
          [kind |-> "sys", user |-> Head(queue).user, op |-> Head(queue).op, payload |-> FALSE]
            \in Commands
    BY <2>1 DEF Messages, Changed, Commands, Chat
  <2>3. QED
    BY <1>10, <1>0, <2>1, <2>2 DEF TakeEvent, hubVars, clientVars, RestTyped
<1>11. ASSUME TakeCommand PROVE RestTyped'
  <2>1. Head(queue) \in Messages /\ Tail(queue) \in Seq(Messages) /\ Len(Tail(queue)) <= MaxQueue
    BY <1>11, HeadTyped, <1>0, BoundsAssumption DEF TakeCommand, Parts, RestTyped
  <2>2. Head(queue).op \in {"subscribe", "unsubscribe"}
    BY <1>11, <2>1 DEF TakeCommand, Messages, Changed, Commands, Chat
  <2>3. SessionsOf(Head(queue).user) \subseteq Clients
    BY <1>0 DEF SessionsOf, RestTyped
  <2>4. QED
    BY <1>11, <1>0, <2>1, <2>2, <2>3 DEF TakeCommand, hubVars, clientVars, RestTyped
<1>12. ASSUME Authorize \/ Collect \/ SendDone \/ Reply PROVE RestTyped'
  BY <1>12, <1>0 DEF Authorize, Collect, SendDone, Reply, LoopIdle, redisVars, hubVars,
     clientVars, loopVars, RestTyped
<1>13. ASSUME NEW c \in Clients, Send(c) PROVE RestTyped'
  <2>1. ASSUME Unregister(c)
        PROVE  /\ clients' \subseteq clients /\ closed' \subseteq Clients
               /\ channels' \in [Channels -> SUBSET Users] /\ wanted' \subseteq Channels
               /\ mu' = mu /\ added' = added /\ fresh' = fresh
    BY <2>1, UnregisterTyped DEF Parts
  <2>2. ASSUME c \in closed, crashed' = TRUE, UNCHANGED <<hubVars, clientVars>> PROVE RestTyped'
    BY <1>13, <1>0, <2>2 DEF Send, redisVars, hubVars, clientVars, RestTyped
  <2>3. ASSUME buffer[c] < BufferSize, buffer' = [buffer EXCEPT ![c] = buffer[c] + 1],
               UNCHANGED <<hubVars, serve, conn, convs, closed, crashed>>
        PROVE  RestTyped'
    <3>1. buffer' \in [Clients -> 0..BufferSize]
      BY <2>3, <1>0, BoundsAssumption DEF RestTyped
    <3>2. QED
      BY <1>13, <1>0, <2>3, <3>1 DEF Send, redisVars, hubVars, RestTyped
  <2>4. ASSUME Unregister(c), UNCHANGED <<serve, conn, convs, buffer, crashed>> PROVE RestTyped'
    BY <1>13, <1>0, <2>1, <2>4 DEF Send, redisVars, RestTyped
  <2>5. QED
    BY <1>13, <2>2, <2>3, <2>4 DEF Send
<1>14. ASSUME NEW c \in Clients, SubscribeLocal(c) PROVE RestTyped'
  <2>1. CASE UNCHANGED hubVars
    BY <1>14, <1>0, <2>1 DEF SubscribeLocal, redisVars, hubVars, clientVars, RestTyped
  <2>2. CASE Join(c, {Conv})
    <3>1. {Conv} \in SUBSET Channels
      BY OwnerTyped
    <3>2. /\ channels' \in [Channels -> SUBSET Users] /\ wanted' \subseteq Channels
          /\ added' \subseteq Channels /\ fresh' \subseteq added'
      BY <2>2, <3>1, JoinTyped DEF Parts
    <3>3. /\ clients' = clients /\ mu' \in {mu, Loop}
      BY <1>14 DEF SubscribeLocal, hubVars
    <3>4. QED
      BY <1>14, <1>0, <3>2, <3>3 DEF SubscribeLocal, redisVars, clientVars, RestTyped
  <2>3. QED
    BY <1>14, <2>1, <2>2 DEF SubscribeLocal
<1>15. ASSUME NEW c \in Clients, UnsubscribeLocal(c) PROVE RestTyped'
  <2>1. channels' \in [Channels -> SUBSET Users] /\ wanted' \subseteq Channels
    <3>1. CASE UNCHANGED <<convs, channels, wanted>>
      BY <3>1, <1>0 DEF RestTyped
    <3>2. CASE \E D, F : Leave(c, D, F)
      BY <3>2, LeaveTyped DEF Parts
    <3>3. QED
      BY <1>15, <3>1, <3>2 DEF UnsubscribeLocal
  <2>2. QED
    BY <1>15, <1>0, <2>1 DEF UnsubscribeLocal, redisVars, RestTyped
<1>16. ASSUME SubscribeLocalDone PROVE RestTyped'
  <2>1. current \in Clients
    BY <1>16 DEF SubscribeLocalDone, Parts, Locked
  <2>2. QED
    BY <1>16, <1>0, <2>1 DEF SubscribeLocalDone, Unlock, redisVars, RestTyped
<1>17. ASSUME SubscribeLocalFails PROVE RestTyped'
  <2>1. PICK c \in Clients : c = current
    BY <1>17 DEF SubscribeLocalFails, Parts, Locked
  <2>2. channels' \in [Channels -> SUBSET Users] /\ wanted' \subseteq Channels
    BY <1>17, <2>1, LeaveTyped DEF SubscribeLocalFails, Parts
  <2>3. QED
    BY <1>17, <1>0, <2>2 DEF SubscribeLocalFails, Unlock, redisVars, clientVars, RestTyped
<1>18. ASSUME Evict PROVE RestTyped'
  <2>1. PICK c \in Clients : c = current
    BY <1>18 DEF Evict, Parts, Locked
  <2>2. /\ clients' \subseteq clients /\ closed' \subseteq Clients
        /\ channels' \in [Channels -> SUBSET Users] /\ wanted' \subseteq Channels
        /\ mu' = mu /\ added' = added /\ fresh' = fresh
    BY <1>18, <2>1, UnregisterTyped DEF Evict, Parts
  <2>3. QED
    BY <1>18, <1>0, <2>2 DEF Evict, redisVars, RestTyped
<1>19. ASSUME Cancel \/ Shutdown PROVE RestTyped'
  BY <1>19, <1>0 DEF Cancel, Shutdown, redisVars, hubVars, clientVars, loopVars, RestTyped
<1>20. CASE UNCHANGED vars
  BY <1>20, <1>0 DEF vars, redisVars, hubVars, clientVars, loopVars, RestTyped
<1>21. QED
  BY <1>1, <1>2, <1>3, <1>4, <1>5, <1>6, <1>7, <1>8, <1>9, <1>10, <1>11, <1>12, <1>13, <1>14,
     <1>15, <1>16, <1>17, <1>18, <1>19, <1>20 DEF Next, ClientStep, LoopStep

(* TypeOK and QueueTyped together.                                         *)
LEMMA TypePreserved ==
  Parts /\ [Next]_vars => TypeOK' /\ QueueTyped'
<1> SUFFICES ASSUME Parts, [Next]_vars PROVE TypeOK' /\ QueueTyped'
  OBVIOUS
<1>1. RestTyped'
  BY RestPreserved
<1>2. QueueTyped'
  BY <1>1 DEF RestTyped, QueueTyped
<1>3. \A i \in 1..Len(queue') : queue'[i] \in Messages
  BY <1>2 DEF QueueTyped
<1>4. QED
  BY <1>1, <1>2, <1>3 DEF RestTyped, TypeOK

-----------------------------------------------------------------------------
(* The lock.                                                               *)

(* Each step takes, keeps or releases subscriptionsMu where it says so.    *)
LEMMA LockedPreserved ==
  Parts /\ [Next]_vars => Locked'
<1> SUFFICES ASSUME Parts, [Next]_vars PROVE Locked'
  OBVIOUS
<1>l. Locked
  BY DEF Parts
<1>t. serve \in [Clients -> {"new", "register", "subscribe", "open", "gone"}]
  BY DEF Parts, TypeOK
<1>1. ASSUME NEW u \in Users, ChangeMember(u) PROVE Locked'
  BY <1>1, <1>l DEF ChangeMember, redisVars, hubVars, clientVars, loopVars, Locked
<1>2. ASSUME NEW e \in outbox, PublishChange(e) \/ PublishCommand(e) PROVE Locked'
  BY <1>2, <1>l DEF PublishChange, PublishCommand, redisVars, hubVars, clientVars, loopVars,
     Locked
<1>3. ASSUME PublishChat PROVE Locked'
  BY <1>3, <1>l DEF PublishChat, redisVars, hubVars, clientVars, loopVars, Locked
<1>4. ASSUME NEW c \in Clients, Connect(c) \/ RefuseRegister(c) \/ Disconnect(c) \/
             WriteMessages(c) \/ WritePumpEnds(c)
      PROVE Locked'
  BY <1>4, <1>l, <1>t DEF Connect, RefuseRegister, Disconnect, WriteMessages, WritePumpEnds,
     Serving, redisVars, hubVars, clientVars, loopVars, Locked
<1>5. ASSUME NEW c \in Clients, Register(c) PROVE Locked'
  <2>1. /\ mu = None /\ mu' = c /\ serve' = [serve EXCEPT ![c] = "subscribe"]
        /\ clients' = clients \cup {c} /\ loop' = loop /\ current' = current
        /\ serve[c] = "register"
    BY <1>5 DEF Register, Serving, loopVars
  <2>2. \A d \in Clients : serve'[d] = "subscribe" <=> mu' = d
    BY <2>1, <1>l, <1>t, NamesAssumption DEF Locked
  <2>3. \A d \in Clients : serve'[d] \in {"new", "register"} => d \notin clients'
    BY <2>1, <1>l, <1>t DEF Locked
  <2>4. QED
    BY <2>1, <2>2, <2>3, <1>l, NamesAssumption DEF Locked
<1>6. ASSUME NEW c \in Clients, SubscribeNew(c) \/ RollbackRegistration(c) PROVE Locked'
  <2>1. /\ mu = c /\ mu' = None /\ serve'[c] \notin {"subscribe", "new", "register"}
        /\ \A d \in Clients : d # c => serve'[d] = serve[d]
        /\ clients' \subseteq clients /\ loop' = loop /\ current' = current
    BY <1>6, <1>l, <1>t DEF SubscribeNew, RollbackRegistration, Serving, Unlock, loopVars, Locked
  <2>2. \A d \in Clients : serve'[d] = "subscribe" <=> mu' = d
    BY <2>1, <1>l, NamesAssumption DEF Locked
  <2>3. QED
    BY <2>1, <2>2, <1>l, NamesAssumption DEF Locked
<1>7. ASSUME NEW c \in Clients, ReadPumpEnds(c) PROVE Locked'
  <2>1. /\ mu = None /\ mu' = None /\ clients' \subseteq clients
        /\ serve' = [serve EXCEPT ![c] = "gone"] /\ loop' = loop /\ current' = current
    BY <1>7, UnregisterTyped DEF ReadPumpEnds, Unregister, Serving, loopVars, Parts
  <2>2. QED
    BY <2>1, <1>l, <1>t, NamesAssumption DEF Locked
<1>8. ASSUME TakeEvent \/ Authorize \/ Collect \/ SendDone \/ Reply PROVE Locked'
  BY <1>8, <1>l DEF TakeEvent, Authorize, Collect, SendDone, Reply, LoopIdle, redisVars,
     hubVars, clientVars, loopVars, Locked
<1>9. ASSUME TakeCommand PROVE Locked'
  <2>1. Head(queue) \in Messages
    BY <1>9, HeadTyped DEF TakeCommand, Parts
  <2>2. Head(queue).op \in {"subscribe", "unsubscribe"}
    BY <1>9, <2>1 DEF TakeCommand, Messages, Changed, Commands, Chat
  <2>3. QED
    BY <1>9, <2>2, <1>l DEF TakeCommand, hubVars, clientVars, Locked
<1>10. ASSUME NEW c \in Clients, Send(c) PROVE Locked'
  <2>1. /\ mu' = mu /\ clients' \subseteq clients /\ serve' = serve
        /\ loop' = loop /\ current' = current
    BY <1>10, UnregisterTyped DEF Send, hubVars, clientVars, Parts
  <2>2. QED
    BY <2>1, <1>l DEF Locked
<1>11. ASSUME NEW c \in Clients, SubscribeLocal(c) PROVE Locked'
  <2>1. /\ mu = None /\ clients' = clients /\ serve' = serve /\ current' = c
        /\ (mu' = Loop /\ loop' = "subscribing") \/ (mu' = None /\ loop' = "evict")
    BY <1>11 DEF SubscribeLocal, hubVars, clientVars
  <2>2. QED
    BY <2>1, <1>l, NamesAssumption DEF Locked
<1>12. ASSUME SubscribeLocalDone \/ SubscribeLocalFails PROVE Locked'
  <2>1. /\ mu = Loop /\ mu' = None /\ clients' = clients /\ serve' = serve
        /\ current' = current /\ loop' # "subscribing"
    BY <1>12, <1>l DEF SubscribeLocalDone, SubscribeLocalFails, Unlock, clientVars, Locked
  <2>2. QED
    BY <1>12, <2>1, <1>l, NamesAssumption DEF SubscribeLocalDone, SubscribeLocalFails, Locked
<1>13. ASSUME Evict PROVE Locked'
  <2>1. /\ mu = None /\ mu' = None /\ clients' \subseteq clients /\ serve' = serve
        /\ loop' = "subscribe"
    BY <1>13, UnregisterTyped DEF Evict, Unregister, Parts, Locked
  <2>2. QED
    BY <2>1, <1>l, NamesAssumption DEF Locked
<1>14. ASSUME NEW c \in Clients, UnsubscribeLocal(c) PROVE Locked'
  BY <1>14, <1>l, NamesAssumption DEF UnsubscribeLocal, redisVars, hubVars, clientVars,
     loopVars, Locked
<1>15. ASSUME Cancel \/ Shutdown PROVE Locked'
  BY <1>15, <1>l DEF Cancel, Shutdown, redisVars, hubVars, clientVars, loopVars, Locked
<1>16. CASE UNCHANGED vars
  BY <1>16, <1>l DEF vars, hubVars, clientVars, loopVars, Locked
<1>17. QED
  BY <1>1, <1>2, <1>3, <1>4, <1>5, <1>6, <1>7, <1>8, <1>9, <1>10, <1>11, <1>12, <1>13, <1>14,
     <1>15, <1>16 DEF Next, ClientStep, LoopStep

(* Parts is inductive.                                                     *)
LEMMA PartsPreserved ==
  Parts /\ [Next]_vars => Parts'
BY TypePreserved, LockedPreserved DEF Parts

-----------------------------------------------------------------------------
(* Sessions, channels and subscriptions.                                   *)

Agree == OwnChannels /\ Match /\ Sessions

Core == Agree /\ Registering /\ Subscribing

(* Nobody is between the two halves of a registration or subscription.     *)
Free == (\A c \in Clients : serve[c] # "subscribe") /\ loop # "subscribing"

(* Then there is nothing to roll back.                                     *)
LEMMA FreeCore == Agree /\ Free => Core
BY DEF Core, Free, Registering, Subscribing

(* Joining: a channel nobody was on is subscribed.                         *)
LEMMA JoinAgrees ==
  ASSUME TypeOK, OwnChannels, Match, NEW c \in Clients,
         NEW D \in SUBSET {Owner(c), Conv}, Join(c, D), cancelled' = cancelled
  PROVE  /\ OwnChannels' /\ Match'
         /\ \A ch \in added' : Owner(c) \in channels'[ch]
         /\ \A ch \in added' : ch \in fresh' <=> channels'[ch] = {Owner(c)}
<1> DEFINE u == Owner(c)
<1>0. u \in Users /\ D \subseteq Channels /\ Users \subseteq Channels /\ Conv \notin Users
  BY OwnerTyped, NamesAssumption
<1> HIDE DEF u
<1>1. /\ \A ch \in Channels :
            channels'[ch] = IF ch \in D THEN channels[ch] \cup {u} ELSE channels[ch]
      /\ added' = {ch \in D : u \notin channels[ch]}
      /\ fresh' = {ch \in D : channels[ch] = {}} /\ wanted' = wanted \cup fresh'
  BY DEF Join, u
<1>2. \A v \in Users : channels'[v] \subseteq {v}
  <2>1. \A v \in Users : v \in D => v = u
    BY <1>0 DEF u
  <2>2. QED
    BY <1>0, <1>1, <2>1 DEF OwnChannels
<1>3. ~cancelled => wanted' = {ch \in Channels : channels'[ch] # {}}
  BY <1>0, <1>1 DEF Match
<1>4. \A ch \in added' : u \in channels'[ch]
  BY <1>0, <1>1
<1>5. \A ch \in added' : ch \in fresh' <=> channels'[ch] = {u}
  BY <1>0, <1>1
<1>6. QED
  BY <1>2, <1>3, <1>4, <1>5 DEF OwnChannels, Match, u

(* Leaving: the channels nobody is on any more are unsubscribed.           *)
LEMMA LeaveAgrees ==
  ASSUME TypeOK, OwnChannels, Match, NEW c \in Clients, NEW D \in SUBSET Channels, NEW F,
         Leave(c, D, F), cancelled' = cancelled,
         \A ch \in Channels : ch \in F <=> ch \in D /\ channels[ch] = {Owner(c)}
  PROVE  OwnChannels' /\ Match'
<1> DEFINE u == Owner(c)
<1>0. Users \subseteq Channels
  BY OwnerTyped
<1> HIDE DEF u
<1>1. /\ \A ch \in Channels :
            channels'[ch] = IF ch \in D THEN channels[ch] \ {u} ELSE channels[ch]
      /\ wanted' = wanted \ F
  BY DEF Leave, u
<1>2. \A v \in Users : channels'[v] \subseteq {v}
  BY <1>0, <1>1 DEF OwnChannels
<1>3. ~cancelled => wanted' = {ch \in Channels : channels'[ch] # {}}
  <2>1. \A ch \in Channels :
          channels'[ch] # {} <=> channels[ch] # {} /\ ~(ch \in D /\ channels[ch] = {u})
    BY <1>1
  <2>2. QED
    BY <1>1, <2>1 DEF Match, u
<1>4. QED
  BY <1>2, <1>3 DEF OwnChannels, Match

(* A registration.                                                         *)
LEMMA RegisterCore ==
  ASSUME Parts, Core, NEW c \in Clients, Register(c)
  PROVE  Core'
<1> DEFINE u == Owner(c)
<1>0. /\ u \in Users /\ Users \subseteq Channels /\ Conv \in Channels
      /\ Listens(c) \in SUBSET {u, Conv} /\ u \in Listens(c)
  BY OwnerTyped DEF Listens
<1>1. /\ serve[c] = "register" /\ mu = None /\ ~cancelled /\ cancelled' = cancelled
      /\ clients' = clients \cup {c} /\ Join(c, Listens(c))
      /\ serve' = [serve EXCEPT ![c] = "subscribe"] /\ loop' = loop
  BY DEF Register, Stopping, Serving, loopVars
<1>2. c \notin clients /\ loop # "subscribing" /\ \A d \in Clients : serve[d] # "subscribe"
  BY <1>1, NamesAssumption DEF Parts, Locked
<1>3. /\ OwnChannels' /\ Match'
      /\ \A ch \in added' : u \in channels'[ch]
      /\ \A ch \in added' : ch \in fresh' <=> channels'[ch] = {u}
  BY <1>0, <1>1, JoinAgrees DEF Parts, Core, Agree
<1>4. /\ \A ch \in Channels : channels'[ch] =
             IF ch \in Listens(c) THEN channels[ch] \cup {u} ELSE channels[ch]
      /\ added' = {ch \in Listens(c) : u \notin channels[ch]}
  BY <1>1 DEF Join
<1>5. Sessions
  BY DEF Core, Agree
<1>6. Sessions'
  <2>1. ASSUME NEW ch \in Channels PROVE channels'[ch] \subseteq {Owner(d) : d \in clients'}
    BY <1>1, <1>4, <1>5 DEF Sessions, OwnersOf
  <2>2. ASSUME NEW d \in clients' PROVE Owner(d) \in channels'[Owner(d)]
    <3>1. Owner(d) \in Channels
      BY <1>0, <1>1, <2>2, OwnerTyped DEF Parts, TypeOK
    <3>2. CASE d = c
      BY <1>0, <1>4, <3>1, <3>2
    <3>3. CASE d \in clients
      BY <1>1, <1>4, <1>5, <3>1, <3>3 DEF Sessions
    <3>4. QED
      BY <1>1, <3>2, <3>3
  <2>3. QED
    BY <2>1, <2>2 DEF Sessions, OwnersOf
<1>7. Registering'
  <2>1. \A d \in Clients : serve'[d] = "subscribe" => d = c
    BY <1>1, <1>2 DEF Parts, TypeOK
  <2>2. ASSUME NEW ch \in Channels, u \in channels'[ch], ch \notin added'
        PROVE  \E d \in clients' : d # c /\ Owner(d) = u
    <3>1. u \in channels[ch]
      BY <1>4, <2>2
    <3>2. PICK d \in clients : Owner(d) = u
      BY <1>1, <1>5, <3>1 DEF Sessions, OwnersOf
    <3>3. QED
      BY <1>1, <1>2, <3>2
  <2>3. ASSUME NEW d \in clients', d # c, Owner(d) = u PROVE u \notin added'
    BY <1>1, <1>4, <1>5, <2>3 DEF Sessions
  <2>4. Added(u)'
    BY <1>3 DEF Added
  <2>5. QED
    BY <1>1, <2>1, <2>2, <2>3, <2>4 DEF Registering
<1>8. Subscribing'
  BY <1>1, <1>2 DEF Subscribing
<1>9. QED
  BY <1>3, <1>6, <1>7, <1>8 DEF Core, Agree

(* The roll-back of a registration leaves no trace of it.                  *)
LEMMA RollbackAgrees ==
  ASSUME Parts, Core, NEW c \in Clients, RollbackRegistration(c)
  PROVE  Agree'
<1> DEFINE u == Owner(c)
<1>0. u \in Users /\ u \in Channels
  BY OwnerTyped
<1>1. /\ serve[c] = "subscribe" /\ clients' = clients \ {c} /\ Leave(c, added, fresh)
      /\ cancelled' = cancelled
  BY DEF RollbackRegistration
<1>2. /\ c \in clients /\ Added(u)
      /\ \A ch \in Channels : u \in channels[ch] /\ ch \notin added =>
             \E d \in clients : d # c /\ Owner(d) = u
      /\ \A d \in clients : d # c /\ Owner(d) = u => u \notin added
  BY <1>1 DEF Core, Registering
<1>3. added \in SUBSET Channels /\ fresh \subseteq added /\ clients \subseteq Clients
  BY DEF Parts, TypeOK
<1>4. OwnChannels' /\ Match'
  <2>1. \A ch \in Channels : ch \in fresh <=> ch \in added /\ channels[ch] = {u}
    BY <1>2, <1>3 DEF Added
  <2>2. QED
    BY <1>1, <1>3, <2>1, LeaveAgrees DEF Parts, Core, Agree
<1>5. Sessions'
  <2>1. \A ch \in Channels :
          channels'[ch] = IF ch \in added THEN channels[ch] \ {u} ELSE channels[ch]
    BY <1>1 DEF Leave
  <2> HIDE DEF u
  <2>2. ASSUME ~cancelled, NEW ch \in Channels, NEW v \in channels'[ch]
        PROVE  \E d \in clients' : Owner(d) = v
    <3>1. v \in channels[ch] /\ (v = u => ch \notin added)
      BY <2>1, <2>2
    <3>2. PICK d \in clients : Owner(d) = v
      BY <2>2, <3>1 DEF Core, Agree, Sessions, OwnersOf
    <3>3. CASE d # c
      BY <1>1, <3>2, <3>3
    <3>4. CASE d = c
      <4>1. v = u
        BY <3>2, <3>4 DEF u
      <4>2. QED
        BY <1>1, <1>2, <3>1, <4>1
    <3>5. QED
      BY <3>3, <3>4
  <2>3. ASSUME ~cancelled, NEW d \in clients' PROVE Owner(d) \in channels'[Owner(d)]
    <3>1. d \in clients /\ d # c /\ Owner(d) \in Channels
      BY <1>1, <1>3, <2>3, OwnerTyped
    <3>2. Owner(d) \in channels[Owner(d)]
      BY <2>3, <3>1 DEF Core, Agree, Sessions
    <3>3. QED
      BY <1>2, <2>1, <3>1, <3>2
  <2>4. QED
    BY <1>1, <2>2, <2>3 DEF Sessions, OwnersOf
<1>6. QED
  BY <1>4, <1>5 DEF Agree

(* The end of a session: its user leaves with the last one.                *)
LEMMA UnregisterAgrees ==
  ASSUME Parts, Core, NEW c \in Clients, Unregister(c), cancelled' = cancelled
  PROVE  Agree'
<1> DEFINE u == Owner(c)
<1>0. clients \subseteq Clients /\ u \in Users
  BY OwnerTyped DEF Parts, TypeOK
<1>1. CASE UNCHANGED <<clients, channels, wanted>>
  BY <1>1 DEF Core, Agree, OwnChannels, Match, Sessions, OwnersOf
<1>2. CASE c \in clients /\ SessionsOf(u) = {c} /\ ~cancelled
  <2>1. /\ clients' = clients \ {c}
        /\ Leave(c, Channels, {ch \in Channels : channels[ch] = {u}})
    BY <1>2 DEF Unregister, Stopping
  <2>2. OwnChannels' /\ Match'
    BY <2>1, LeaveAgrees DEF Parts, Core, Agree
  <2>3. \A ch \in Channels : channels'[ch] = channels[ch] \ {u}
    BY <2>1 DEF Leave
  <2>4. \A d \in clients' : Owner(d) # u
    BY <1>2, <2>1 DEF SessionsOf
  <2> HIDE DEF u
  <2>5. ASSUME NEW ch \in Channels, NEW v \in channels'[ch]
        PROVE  \E d \in clients' : Owner(d) = v
    <3>1. v \in channels[ch] /\ v # u
      BY <2>3, <2>5
    <3>2. PICK d \in clients : Owner(d) = v
      BY <1>2, <3>1 DEF Core, Agree, Sessions, OwnersOf
    <3>3. QED
      BY <2>1, <3>1, <3>2 DEF u
  <2>6. ASSUME NEW d \in clients' PROVE Owner(d) \in channels'[Owner(d)]
    BY <1>0, <1>2, <2>1, <2>3, <2>4, <2>6, OwnerTyped DEF Core, Agree, Sessions
  <2>7. Sessions'
    BY <2>5, <2>6 DEF Sessions, OwnersOf
  <2>8. QED
    BY <2>2, <2>7 DEF Agree
<1>3. CASE c \in clients /\ ~(SessionsOf(u) = {c} /\ ~cancelled)
  <2>1. clients' = clients \ {c} /\ channels' = channels /\ wanted' = wanted
    BY <1>3 DEF Unregister, Stopping
  <2>2. OwnChannels' /\ Match'
    BY <2>1 DEF Core, Agree, OwnChannels, Match
  <2>3. Sessions'
    <3>1. CASE cancelled
      BY <3>1 DEF Sessions
    <3>2. CASE ~cancelled
      <4>1. PICK e \in clients : e # c /\ Owner(e) = u
        BY <1>3, <3>2 DEF SessionsOf
      <4>2. OwnersOf(clients') = OwnersOf(clients)
        BY <2>1, <4>1 DEF OwnersOf
      <4>3. QED
        BY <2>1, <3>2, <4>2 DEF Core, Agree, Sessions
    <3>3. QED
      BY <3>1, <3>2
  <2>4. QED
    BY <2>2, <2>3 DEF Agree
<1>4. QED
  BY <1>1, <1>2, <1>3 DEF Unregister

(* A local subscription of a session the hub knows.                        *)
LEMMA SubscribeCore ==
  ASSUME Parts, Core, NEW c \in Clients, c \in clients, mu = None, Join(c, {Conv}),
         clients' = clients, serve' = serve, current' = c, cancelled' = cancelled
  PROVE  Core'
<1> DEFINE u == Owner(c)
<1>1. {Conv} \in SUBSET {u, Conv} /\ Conv \in Channels
  BY OwnerTyped
<1>2. /\ OwnChannels' /\ Match'
      /\ \A ch \in added' : u \in channels'[ch]
      /\ \A ch \in added' : ch \in fresh' <=> channels'[ch] = {u}
  BY <1>1, JoinAgrees DEF Parts, Core, Agree
<1>3. /\ \A ch \in Channels :
            channels'[ch] = IF ch \in {Conv} THEN channels[ch] \cup {u} ELSE channels[ch]
      /\ added' \subseteq {Conv}
  BY DEF Join
<1>4. Sessions'
  <2>1. ASSUME ~cancelled, NEW ch \in Channels PROVE channels'[ch] \subseteq OwnersOf(clients)
    BY <1>3, <2>1 DEF Core, Agree, Sessions, OwnersOf
  <2>2. ASSUME ~cancelled, NEW d \in clients PROVE Owner(d) \in channels'[Owner(d)]
    <3>1. Owner(d) \in Channels
      BY OwnerTyped DEF Parts, TypeOK
    <3>2. QED
      BY <1>3, <2>2, <3>1 DEF Core, Agree, Sessions
  <2>3. QED
    BY <2>1, <2>2 DEF Sessions, OwnersOf
<1>5. Registering'
  BY NamesAssumption DEF Registering, Parts, Locked
<1>6. Subscribing'
  BY <1>2, <1>3 DEF Subscribing, Added
<1>7. QED
  BY <1>2, <1>4, <1>5, <1>6 DEF Core, Agree

(* Leaving the conversation's channel: sessions keep their own.            *)
LEMMA LeaveConvAgrees ==
  ASSUME Parts, Core, NEW c \in Clients, NEW D \in SUBSET {Conv}, NEW F,
         Leave(c, D, F), clients' = clients, cancelled' = cancelled,
         \A ch \in Channels : ch \in F <=> ch \in D /\ channels[ch] = {Owner(c)}
  PROVE  Agree'
<1>1. D \in SUBSET Channels
  BY OwnerTyped
<1>2. OwnChannels' /\ Match'
  BY <1>1, LeaveAgrees DEF Parts, Core, Agree
<1>3. \A ch \in Channels : /\ channels'[ch] \subseteq channels[ch]
                           /\ ch # Conv => channels'[ch] = channels[ch]
  BY DEF Leave
<1>4. \A d \in clients : Owner(d) \in Channels /\ Owner(d) # Conv
  BY OwnerTyped DEF Parts, TypeOK
<1>5. Sessions'
  BY <1>3, <1>4 DEF Core, Agree, Sessions, OwnersOf
<1>6. QED
  BY <1>2, <1>5 DEF Agree

(* Steps elsewhere leave all this alone; the shutdown ends the promise.    *)
LEMMA StillCore ==
  ASSUME Core, clients' = clients, channels' = channels, wanted' = wanted \/ cancelled',
         cancelled => cancelled', added' = added, fresh' = fresh,
         \A c \in Clients : serve'[c] = "subscribe" => serve[c] = "subscribe",
         loop' = "subscribing" => loop = "subscribing" /\ current' = current
  PROVE  Core'
<1>1. Agree'
  BY DEF Core, Agree, OwnChannels, Match, Sessions, OwnersOf
<1>2. Registering'
  BY DEF Core, Registering, Added
<1>3. Subscribing'
  BY DEF Core, Subscribing, Added
<1>4. QED
  BY <1>1, <1>2, <1>3 DEF Core

(* The end of a registration or subscription leaves them too.              *)
LEMMA StillFree ==
  ASSUME Core, clients' = clients, channels' = channels, wanted' = wanted,
         cancelled' = cancelled, Free'
  PROVE  Core'
<1>1. Agree'
  BY DEF Core, Agree, OwnChannels, Match, Sessions, OwnersOf
<1>2. QED
  BY <1>1, FreeCore, PTL

(* Sessions, channels and subscriptions agree, whatever interleaves.       *)
LEMMA CorePreserved ==
  Parts /\ Core /\ [Next]_vars => Core'
<1> SUFFICES ASSUME Parts /\ Core, [Next]_vars PROVE Core'
  OBVIOUS
<1>t. /\ cancelled \in BOOLEAN
      /\ serve \in [Clients -> {"new", "register", "subscribe", "open", "gone"}]
  BY DEF Parts, TypeOK
<1>s. ASSUME clients' = clients, channels' = channels, wanted' = wanted \/ cancelled',
             cancelled => cancelled', added' = added, fresh' = fresh,
             \A c \in Clients : serve'[c] = "subscribe" => serve[c] = "subscribe",
             loop' = "subscribing" => loop = "subscribing" /\ current' = current
      PROVE  Core'
  BY <1>s, StillCore
<1>k. ASSUME clients' = clients, channels' = channels, wanted' = wanted,
             cancelled' = cancelled, Free'
      PROVE  Core'
  BY <1>k, StillFree
<1>a. ASSUME Agree', Free' PROVE Core'
  BY <1>a, FreeCore, PTL
<1>n. mu = None => Free
  BY NamesAssumption DEF Parts, Locked, Free
<1>f. /\ Locked
      /\ \A c \in Clients : serve[c] = "subscribe" =>
             loop # "subscribing" /\ \A d \in Clients : d # c => serve[d] # "subscribe"
      /\ loop = "subscribing" => \A c \in Clients : serve[c] # "subscribe"
  BY NamesAssumption DEF Parts, Locked
<1>1. ASSUME NEW u \in Users, ChangeMember(u) PROVE Core'
  BY <1>1, <1>s, <1>t DEF ChangeMember, redisVars, hubVars, clientVars, loopVars
<1>2. ASSUME NEW e \in outbox, PublishChange(e) \/ PublishCommand(e) PROVE Core'
  BY <1>2, <1>s, <1>t DEF PublishChange, PublishCommand, redisVars, hubVars, clientVars,
     loopVars
<1>3. ASSUME PublishChat PROVE Core'
  BY <1>3, <1>s, <1>t DEF PublishChat, redisVars, hubVars, clientVars, loopVars
<1>4. ASSUME NEW c \in Clients, Connect(c) \/ RefuseRegister(c) \/ Disconnect(c) \/
             WriteMessages(c) \/ WritePumpEnds(c)
      PROVE Core'
  BY <1>4, <1>s, <1>t DEF Connect, RefuseRegister, Disconnect, WriteMessages, WritePumpEnds,
     Serving, redisVars, hubVars, clientVars, loopVars
<1>5. ASSUME NEW c \in Clients, Register(c) PROVE Core'
  BY <1>5, RegisterCore
<1>6. ASSUME NEW c \in Clients, SubscribeNew(c) PROVE Core'
  <2>1. Free'
    BY <1>6, <1>f DEF SubscribeNew, Serving, loopVars, Free, Parts, TypeOK, Locked
  <2>2. QED
    BY <1>6, <2>1, <1>k DEF SubscribeNew
<1>7. ASSUME NEW c \in Clients, RollbackRegistration(c) PROVE Core'
  <2>1. Free'
    BY <1>7, <1>f DEF RollbackRegistration, Serving, loopVars, Free, Parts, TypeOK, Locked
  <2>2. QED
    BY <1>7, <2>1, <1>a, RollbackAgrees
<1>8. ASSUME NEW c \in Clients, ReadPumpEnds(c) PROVE Core'
  <2>1. mu = None /\ Unregister(c) /\ cancelled' = cancelled
    BY <1>8 DEF ReadPumpEnds, Unregister
  <2>2. Free'
    BY <1>8, <2>1, <1>n DEF ReadPumpEnds, Serving, loopVars, Free, Parts, TypeOK
  <2>3. QED
    BY <2>1, <2>2, <1>a, UnregisterAgrees
<1>9. ASSUME TakeEvent \/ Authorize \/ Collect \/ SendDone \/ Reply PROVE Core'
  BY <1>9, <1>s, <1>t DEF TakeEvent, Authorize, Collect, SendDone, Reply, LoopIdle, redisVars,
     hubVars, clientVars, loopVars
<1>10. ASSUME TakeCommand PROVE Core'
  <2>1. Head(queue) \in Messages
    BY <1>10, HeadTyped DEF TakeCommand, Parts
  <2>2. Head(queue).op \in {"subscribe", "unsubscribe"}
    BY <1>10, <2>1 DEF TakeCommand, Messages, Changed, Commands, Chat
  <2>3. QED
    BY <1>10, <2>2, <1>s DEF TakeCommand, hubVars, clientVars
<1>11. ASSUME NEW c \in Clients, Send(c) PROVE Core'
  <2>1. serve' = serve /\ loop' = loop /\ current' = current /\ cancelled' = cancelled
    BY <1>11 DEF Send, clientVars
  <2>2. CASE UNCHANGED hubVars
    BY <2>1, <2>2, <1>s DEF hubVars
  <2>3. CASE Unregister(c)
    <3>1. Free'
      BY <2>1, <2>3, <1>n DEF Unregister, Free
    <3>2. QED
      BY <2>1, <2>3, <3>1, <1>a, UnregisterAgrees
  <2>4. QED
    BY <1>11, <2>2, <2>3 DEF Send
<1>12. ASSUME NEW c \in Clients, SubscribeLocal(c) PROVE Core'
  <2>1. CASE UNCHANGED hubVars /\ loop' = "evict"
    BY <1>12, <2>1, <1>s DEF SubscribeLocal, hubVars, clientVars
  <2>2. CASE c \in clients /\ Join(c, {Conv}) /\ clients' = clients
    BY <1>12, <2>2, SubscribeCore DEF SubscribeLocal, clientVars
  <2>3. QED
    BY <1>12, <2>1, <2>2 DEF SubscribeLocal
<1>13. ASSUME SubscribeLocalDone PROVE Core'
  <2>1. Free'
    BY <1>13, <1>f DEF SubscribeLocalDone, Free, Locked
  <2>2. QED
    BY <1>13, <2>1, <1>k DEF SubscribeLocalDone
<1>14. ASSUME SubscribeLocalFails PROVE Core'
  <2>1. Free'
    BY <1>14, <1>f DEF SubscribeLocalFails, clientVars, Free, Locked
  <2>2. PICK c \in Clients : c = current
    BY <1>14 DEF SubscribeLocalFails, Parts, Locked
  <2>3. /\ Leave(c, added, fresh) /\ clients' = clients /\ cancelled' = cancelled
        /\ added \in SUBSET {Conv} /\ Added(Owner(c))
    BY <1>14, <2>2 DEF SubscribeLocalFails, Core, Subscribing
  <2>4. \A ch \in Channels : ch \in fresh <=> ch \in added /\ channels[ch] = {Owner(c)}
    BY <2>3 DEF Added, Parts, TypeOK
  <2>5. Agree'
    BY <2>3, <2>4, LeaveConvAgrees
  <2>6. QED
    BY <2>1, <2>5, <1>a
<1>15. ASSUME Evict PROVE Core'
  <2>1. PICK c \in Clients : c = current
    BY <1>15 DEF Evict, Parts, Locked
  <2>2. mu = None /\ Unregister(c) /\ cancelled' = cancelled
    BY <1>15, <2>1 DEF Evict, Unregister
  <2>3. Free'
    BY <1>15, <2>2, <1>n DEF Evict, Free
  <2>4. QED
    BY <2>2, <2>3, <1>a, UnregisterAgrees
<1>16. ASSUME NEW c \in Clients, UnsubscribeLocal(c) PROVE Core'
  <2>1. mu = None /\ clients' = clients /\ cancelled' = cancelled
    BY <1>16 DEF UnsubscribeLocal
  <2>2. Free'
    BY <1>16, <2>1, <1>n DEF UnsubscribeLocal, Free
  <2>3. CASE UNCHANGED <<convs, channels, wanted>>
    BY <2>1, <2>2, <2>3, <1>k
  <2>4. CASE Leave(c, {Conv}, IF channels[Conv] = {Owner(c)} THEN {Conv} ELSE {})
    <3>1. \A ch \in Channels : ch \in (IF channels[Conv] = {Owner(c)} THEN {Conv} ELSE {}) <=>
            ch \in {Conv} /\ channels[ch] = {Owner(c)}
      OBVIOUS
    <3>2. Agree'
      BY <2>1, <2>4, <3>1, LeaveConvAgrees
    <3>3. QED
      BY <2>2, <3>2, <1>a
  <2>5. QED
    BY <1>16, <2>3, <2>4 DEF UnsubscribeLocal
<1>17. ASSUME Cancel \/ Shutdown PROVE Core'
  BY <1>17, <1>s, <1>t DEF Cancel, Shutdown, redisVars, hubVars, clientVars, loopVars
<1>18. CASE UNCHANGED vars
  BY <1>18, <1>s DEF vars, hubVars, clientVars, loopVars
<1>19. QED
  BY <1>1, <1>2, <1>3, <1>4, <1>5, <1>6, <1>7, <1>8, <1>9, <1>10, <1>11, <1>12, <1>13, <1>14,
     <1>15, <1>16, <1>17, <1>18 DEF Next, ClientStep, LoopStep

(* The recipients of an event are among those who were members since it    *)
(* was taken up.                                                           *)
LEMMA RecipientsPreserved ==
  Parts /\ Recipients /\ [Next]_vars => Recipients'
<1> SUFFICES ASSUME Parts /\ Recipients, [Next]_vars PROVE Recipients'
  OBVIOUS
<1>r. Recipients
  OBVIOUS
<1>1. ASSUME NEW u \in Users, ChangeMember(u) PROVE Recipients'
  BY <1>1, <1>r DEF ChangeMember, redisVars, hubVars, clientVars, loopVars, Recipients
<1>2. ASSUME NEW e \in outbox, PublishChange(e) \/ PublishCommand(e) PROVE Recipients'
  BY <1>2, <1>r DEF PublishChange, PublishCommand, redisVars, hubVars, clientVars, loopVars,
     Recipients
<1>3. ASSUME PublishChat PROVE Recipients'
  BY <1>3, <1>r DEF PublishChat, redisVars, hubVars, clientVars, loopVars, Recipients
<1>4. ASSUME NEW c \in Clients, Connect(c) \/ RefuseRegister(c) \/ Disconnect(c) \/
             WriteMessages(c) \/ WritePumpEnds(c) \/ Register(c) \/ SubscribeNew(c) \/
             RollbackRegistration(c) \/ ReadPumpEnds(c)
      PROVE Recipients'
  BY <1>4, <1>r DEF Connect, RefuseRegister, Disconnect, WriteMessages, WritePumpEnds, Register,
     SubscribeNew, RollbackRegistration, ReadPumpEnds, redisVars, hubVars, clientVars, loopVars,
     Recipients
<1>5. ASSUME TakeEvent PROVE Recipients'
  <2>1. Head(queue) \in Messages
    BY <1>5, HeadTyped DEF TakeEvent, Parts
  <2>2. Head(queue) # None
    BY <2>1, NamesAssumption
  <2>3. QED
    BY <1>5, <2>2, <1>r DEF TakeEvent, Recipients
<1>6. ASSUME TakeCommand PROVE Recipients'
  <2>1. Head(queue) \in Messages
    BY <1>6, HeadTyped DEF TakeCommand, Parts
  <2>2. Head(queue) # None /\ Head(queue).op \in {"subscribe", "unsubscribe"}
    BY <1>6, <2>1, NamesAssumption DEF TakeCommand, Messages, Changed, Commands, Chat
  <2>3. QED
    BY <1>6, <2>2, <1>r DEF TakeCommand, Recipients
<1>7. ASSUME Authorize \/ SendDone \/ Reply PROVE Recipients'
  BY <1>7, <1>r DEF Authorize, SendDone, Reply, LoopIdle, redisVars, hubVars, clientVars,
     loopVars, Recipients
<1>8. ASSUME Collect PROVE Recipients'
  BY <1>8, <1>r DEF Collect, redisVars, Recipients, OwnersOf
<1>9. ASSUME NEW c \in Clients, Send(c) PROVE Recipients'
  BY <1>9, <1>r DEF Send, redisVars, Recipients, OwnersOf
<1>10. ASSUME NEW c \in Clients, SubscribeLocal(c) \/ UnsubscribeLocal(c) PROVE Recipients'
  BY <1>10, <1>r DEF SubscribeLocal, UnsubscribeLocal, redisVars, Recipients
<1>11. ASSUME SubscribeLocalDone \/ SubscribeLocalFails \/ Evict PROVE Recipients'
  BY <1>11, <1>r DEF SubscribeLocalDone, SubscribeLocalFails, Evict, redisVars, Recipients
<1>12. ASSUME Cancel \/ Shutdown PROVE Recipients'
  BY <1>12, <1>r DEF Cancel, Shutdown, redisVars, hubVars, clientVars, loopVars, Recipients
<1>13. CASE UNCHANGED vars
  BY <1>13, <1>r DEF vars, redisVars, loopVars, Recipients
<1>14. QED
  BY <1>1, <1>2, <1>3, <1>4, <1>5, <1>6, <1>7, <1>8, <1>9, <1>10, <1>11, <1>12, <1>13 DEF Next,
     ClientStep, LoopStep

(* Only an open connection that is not registered yet is new to a stopped  *)
(* hub, and it refuses to register it.                                     *)
LEMMA SilencePreserved ==
  Parts /\ StoppedSilent /\ [Next]_vars => StoppedSilent'
<1> SUFFICES ASSUME Parts, StoppedSilent, [Next]_vars PROVE StoppedSilent'
  OBVIOUS
<1>s. ASSUME loop' = "stopped" => loop = "stopped", cancelled => cancelled',
             clients' \subseteq clients, conn' \subseteq conn
      PROVE  StoppedSilent'
  BY <1>s DEF StoppedSilent
<1>u. ASSUME NEW c, Unregister(c) PROVE clients' \subseteq clients
  BY <1>u DEF Unregister
<1>1. ASSUME NEW u \in Users, ChangeMember(u) PROVE StoppedSilent'
  BY <1>1, <1>s DEF ChangeMember, hubVars, clientVars, loopVars
<1>2. ASSUME NEW e \in outbox, PublishChange(e) \/ PublishCommand(e) PROVE StoppedSilent'
  BY <1>2, <1>s DEF PublishChange, PublishCommand, hubVars, clientVars, loopVars
<1>3. ASSUME PublishChat PROVE StoppedSilent'
  BY <1>3, <1>s DEF PublishChat, hubVars, clientVars, loopVars
<1>4. ASSUME NEW c \in Clients, Connect(c) PROVE StoppedSilent'
  <2>1. c \notin clients
    BY <1>4 DEF Connect, Parts, Locked
  <2>2. QED
    BY <1>4, <2>1 DEF Connect, hubVars, loopVars, StoppedSilent
<1>5. ASSUME NEW c \in Clients, Register(c) PROVE StoppedSilent'
  BY <1>5 DEF Register, Stopping, loopVars, StoppedSilent
<1>6. ASSUME NEW c \in Clients, RefuseRegister(c) \/ Disconnect(c) \/ WriteMessages(c) \/
             WritePumpEnds(c) \/ SubscribeNew(c) \/ RollbackRegistration(c)
      PROVE StoppedSilent'
  BY <1>6, <1>s DEF RefuseRegister, Disconnect, WriteMessages, WritePumpEnds, SubscribeNew,
     RollbackRegistration, hubVars, loopVars
<1>7. ASSUME NEW c \in Clients, ReadPumpEnds(c) PROVE StoppedSilent'
  BY <1>7, <1>u, <1>s DEF ReadPumpEnds, loopVars
<1>8. ASSUME TakeEvent \/ Authorize \/ Collect \/ SendDone \/ Reply PROVE StoppedSilent'
  BY <1>8, <1>s DEF TakeEvent, Authorize, Collect, SendDone, Reply, LoopIdle, hubVars, clientVars
<1>9. ASSUME TakeCommand PROVE StoppedSilent'
  <2>1. Head(queue) \in Messages
    BY <1>9, HeadTyped DEF TakeCommand, Parts
  <2>2. Head(queue).op \in {"subscribe", "unsubscribe"}
    BY <1>9, <2>1 DEF TakeCommand, Messages, Changed, Commands, Chat
  <2>3. QED
    BY <1>9, <2>2, <1>s DEF TakeCommand, hubVars, clientVars
<1>10. ASSUME NEW c \in Clients, Send(c) PROVE StoppedSilent'
  BY <1>10, <1>u, <1>s DEF Send, hubVars, clientVars
<1>11. ASSUME NEW c \in Clients, SubscribeLocal(c) \/ UnsubscribeLocal(c) PROVE StoppedSilent'
  BY <1>11, <1>s DEF SubscribeLocal, UnsubscribeLocal, hubVars, clientVars
<1>12. ASSUME SubscribeLocalDone \/ SubscribeLocalFails PROVE StoppedSilent'
  BY <1>12, <1>s DEF SubscribeLocalDone, SubscribeLocalFails, clientVars
<1>13. ASSUME Evict PROVE StoppedSilent'
  BY <1>13, <1>u, <1>s DEF Evict
<1>14. ASSUME Cancel PROVE StoppedSilent'
  BY <1>14, <1>s DEF Cancel, hubVars, clientVars, loopVars
<1>15. ASSUME Shutdown PROVE StoppedSilent'
  BY <1>15 DEF Shutdown, StoppedSilent
<1>16. CASE UNCHANGED vars
  BY <1>16, <1>s DEF vars, hubVars, clientVars, loopVars
<1>17. QED
  BY <1>1, <1>2, <1>3, <1>4, <1>5, <1>6, <1>7, <1>8, <1>9, <1>10, <1>11, <1>12, <1>13, <1>14,
     <1>15, <1>16 DEF Next, ClientStep, LoopStep

-----------------------------------------------------------------------------
(* Nobody is connected: the invariant holds at the start.                  *)
LEMMA InitInvariant == Init => IInv
<1> SUFFICES ASSUME Init PROVE IInv
  OBVIOUS
<1>1. QueueTyped /\ TypeOK
  <2>1. queue = <<>> /\ <<>> \in Seq(Messages) /\ Len(<<>>) = 0
    BY DEF Init
  <2>2. buffer \in [Clients -> 0..BufferSize] /\ Len(queue) <= MaxQueue
    BY <2>1, BoundsAssumption DEF Init
  <2>3. \A i \in 1..Len(queue) : queue[i] \in Messages
    BY <2>1
  <2>4. channels \in [Channels -> SUBSET Users]
    BY DEF Init
  <2>5. QED
    BY <2>1, <2>2, <2>3, <2>4 DEF Init, QueueTyped, TypeOK
<1>2. Locked
  BY NamesAssumption DEF Init, Locked
<1>3. OwnChannels
  BY OwnerTyped DEF Init, OwnChannels
<1>4. Match /\ Sessions
  BY DEF Init, Match, Sessions
<1>5. Registering /\ Subscribing /\ Recipients /\ StoppedSilent
  BY DEF Init, Registering, Subscribing, Recipients, StoppedSilent
<1>6. QED
  BY <1>1, <1>2, <1>3, <1>4, <1>5 DEF IInv, Parts

(* IInv is inductive: its parts together.                                  *)
LEMMA NextInvariant == IInv /\ [Next]_vars => IInv'
BY PartsPreserved, CorePreserved, RecipientsPreserved, SilencePreserved DEF IInv, Core, Agree

(* IInv holds of every behaviour.                                          *)
LEMMA Invariance == Spec => []IInv
<1>1. QED
  BY InitInvariant, NextInvariant, PTL DEF Spec

(* Every variable of the hub keeps its type; the queue and the buffers     *)
(* stay within their bounds.                                               *)
THEOREM Types == Spec => []TypeOK
<1>1. IInv => TypeOK
  BY DEF IInv, Parts
<1>2. QED
  BY <1>1, Invariance, PTL

(* The hub's Redis subscription is to exactly the channels its sessions    *)
(* listen to, for any users and sessions and whatever fails (hub.go:35).   *)
THEOREM Subscribed == Spec => []SubscriptionsMatch
<1>1. IInv => SubscriptionsMatch
  BY DEF IInv, Match, SubscriptionsMatch
<1>2. QED
  BY <1>1, Invariance, PTL

(* Users are on channels only while they have sessions, and every session  *)
(* alone listens to its user's sys channel (hub.go:140-313).               *)
THEOREM SessionsListen == Spec => []ChannelsHaveSessions
<1>1. IInv => ChannelsHaveSessions
  <2>1. ASSUME IInv, NEW c \in clients, ~cancelled PROVE channels[Owner(c)] = {Owner(c)}
    <3>1. Owner(c) \in Users
      BY <2>1, OwnerTyped DEF IInv, Parts, TypeOK
    <3>2. QED
      BY <2>1, <3>1 DEF IInv, OwnChannels, Sessions
  <2>2. QED
    BY <2>1 DEF IInv, Sessions, ChannelsHaveSessions
<1>2. QED
  BY <1>1, Invariance, PTL

(* An event of the conversation goes only to users who were members at     *)
(* some instant since the hub took it up (hub.go:372).                     *)
THEOREM MembersOnly == Spec => []OnlyMembersReceive
<1>1. IInv => OnlyMembersReceive
  BY DEF IInv, Recipients, OnlyMembersReceive
<1>2. QED
  BY <1>1, Invariance, PTL

(* Once the hub has stopped, no session it knows has an open connection,   *)
(* however many connect and register while it stops (hub.go:113-150).      *)
THEOREM Silent == Spec => []StoppedSilent
<1>1. IInv => StoppedSilent
  BY DEF IInv
<1>2. QED
  BY <1>1, Invariance, PTL
=============================================================================
