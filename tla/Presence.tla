------------------------------- MODULE Presence -------------------------------
(***************************************************************************)
(* Who is online: the sorted set presence:sessions:<user> of one user,     *)
(* with an entry for each WebSocket session that lives presenceTTL after   *)
(* the last pong, and the events published when the user's first session   *)
(* comes or the last one goes.  A session is served by the goroutine of    *)
(* its connection (serve) and ended by that one or by the hub (close).     *)
(***************************************************************************)
EXTENDS Naturals, FiniteSets

CONSTANTS Sessions    \* connections of the user, in any API processes

(* Time in units of 30 s: three ping periods of 50 s, and 60 s.            *)

(* Variant: two ping periods.                                              *)
presenceTTLOfTwoPings == 3

presenceTTL == 5
pongWait == 2

VARIABLES
    zset,       \* members of the sorted set
    life,       \* session -> time until the score of its entry
    keyLife,    \* time until the key expires
    serve,      \* session -> step of ServeWS and readPump
    close,      \* session -> step of its Unregister
    became,     \* sessions whose SetSessionOnline reported a transition
    idle,       \* session -> time since its read deadline was set
    missed,     \* session -> failed presence commands in a row, up to 2
    announced,  \* the last event published on the presence channel
    alone,      \* history: time since a session of the user was last served
    excused     \* history: something happened that no event can tell of

redis == <<zset, life, keyLife>>
vars == <<redis, serve, close, became, idle, missed, announced, alone, excused>>

ServeSteps == {"none", "register", "rollback", "announce", "read", "done"}
CloseSteps == {"no", "offline", "announce", "closed"}

Init ==
    /\ zset = {} /\ life = [s \in Sessions |-> 0] /\ keyLife = 0
    /\ serve = [s \in Sessions |-> "none"]
    /\ close = [s \in Sessions |-> "no"]
    /\ became = {}
    /\ idle = [s \in Sessions |-> 0]
    /\ missed = [s \in Sessions |-> 0]
    /\ announced = FALSE
    /\ alone = presenceTTL
    /\ excused = FALSE

-----------------------------------------------------------------------------
(* The scripts of PresenceStore, each atomic.                              *)

(* ZREMRANGEBYSCORE -inf now, on a key that may have expired.              *)
Active == {s \in zset : life[s] > 0 /\ keyLife > 0}

IsOnline == Active # {}

(* ZADD and EXPIRE, of setPresenceSessionOnlineScript and of the heartbeat,*)
(* which adds a session whether or not it is there.                        *)
AddSession(s) ==
    /\ zset' = Active \cup {s}
    /\ life' = [life EXCEPT ![s] = presenceTTL]
    /\ keyLife' = presenceTTL

(* Variant: the process that closes its last session announces the end.    *)
LastLeftOfOne(s) == s \in Active

(* The session that leaves an empty set ends the user's presence.          *)
LastLeft(s) == Active # {} /\ Active \ {s} = {}

RemoveSession(s) ==
    /\ zset' = Active \ {s}
    /\ life' = [life EXCEPT ![s] = 0]
    /\ keyLife' = IF zset' = {} THEN 0 ELSE presenceTTL

-----------------------------------------------------------------------------
(* An event of a transition has been decided on and is not published yet.  *)
Announcing(s) ==
    \/ serve[s] \in {"register", "rollback", "announce"} /\ s \in became
    \/ close[s] = "announce"

Quiet == \A s \in Sessions : ~Announcing(s)

(* A transition is told by its event, unless it overtakes another one.     *)
Transition(happened) == excused' = IF happened THEN ~Quiet ELSE excused

(* SetSessionOnline and its error: the command ran or did not.             *)
SetSessionOnline(s) ==
    /\ serve[s] = "none"
    /\ serve' = [serve EXCEPT ![s] = "register"]
    /\ \/ /\ AddSession(s)
          /\ became' = IF IsOnline THEN became ELSE became \cup {s}
          /\ Transition(~IsOnline)
          /\ missed' = [missed EXCEPT ![s] = 0]
       \/ /\ AddSession(s) \/ UNCHANGED redis
          /\ excused' = TRUE
          /\ missed' = [missed EXCEPT ![s] = 2]
          /\ UNCHANGED became
    /\ alone' = 0
    /\ UNCHANGED <<close, idle, announced>>

Register(s) ==
    /\ serve[s] = "register"
    /\ \/ serve' = [serve EXCEPT ![s] = IF s \in became THEN "announce" ELSE "read"]
       \/ serve' = [serve EXCEPT ![s] = "rollback"]
    /\ UNCHANGED <<redis, close, became, idle, missed, announced, alone, excused>>

(* The transitions of a registration that failed are told to nobody.       *)
Rollback(s) ==
    /\ serve[s] = "rollback"
    /\ \/ RemoveSession(s) /\ excused' = (excused \/ s \in became \/ LastLeft(s))
       \/ (RemoveSession(s) \/ UNCHANGED redis) /\ excused' = TRUE
    /\ serve' = [serve EXCEPT ![s] = "done"]
    /\ close' = [close EXCEPT ![s] = "closed"]
    /\ became' = became \ {s}
    /\ UNCHANGED <<idle, missed, announced, alone>>

(* publishPresence; after an error the other processes hear nothing.       *)
publishPresence(online) ==
    \/ announced' = online /\ UNCHANGED excused
    \/ excused' = TRUE /\ UNCHANGED announced

AnnounceOnline(s) ==
    /\ serve[s] = "announce"
    /\ publishPresence(TRUE)
    /\ serve' = [serve EXCEPT ![s] = "read"]
    /\ became' = became \ {s}
    /\ UNCHANGED <<redis, close, idle, missed, alone>>

(* The pong handler of readPump.  The hub may have ended the session; the  *)
(* reader goes on until the connection is closed.  A heartbeat that brings *)
(* the user back publishes nothing.                                        *)
HeartbeatSession(s) ==
    /\ serve[s] = "read"
    /\ \/ AddSession(s) /\ missed' = [missed EXCEPT ![s] = 0]
       \/ /\ AddSession(s) \/ UNCHANGED redis
          /\ missed' = [missed EXCEPT ![s] = IF @ = 2 THEN 2 ELSE @ + 1]
    /\ idle' = [idle EXCEPT ![s] = 0]
    /\ excused' = (excused \/ ~IsOnline \/ close[s] \in {"announce", "closed"})
    /\ UNCHANGED <<serve, close, became, announced, alone>>

-----------------------------------------------------------------------------
(* Hub.Unregister, called by the reader when it ends, or by the hub.       *)

StartUnregister(s) ==
    close' = [close EXCEPT ![s] = IF @ = "no" THEN "offline" ELSE @]

ReaderEnds(s) ==
    /\ serve[s] = "read"
    /\ serve' = [serve EXCEPT ![s] = "done"]
    /\ StartUnregister(s)
    /\ UNCHANGED <<redis, became, idle, missed, announced, alone, excused>>

HubUnregisters(s) ==
    /\ serve[s] \in {"announce", "read"} /\ close[s] = "no"
    /\ StartUnregister(s)
    /\ UNCHANGED <<redis, serve, became, idle, missed, announced, alone, excused>>

(* A hub that is stopping leaves the entry to its expiry.                  *)
SetSessionOffline(s) ==
    /\ close[s] = "offline"
    /\ \/ /\ RemoveSession(s)
          /\ close' = [close EXCEPT ![s] = IF LastLeft(s) THEN "announce" ELSE "closed"]
          /\ Transition(LastLeft(s))
       \/ /\ RemoveSession(s) \/ UNCHANGED redis
          /\ close' = [close EXCEPT ![s] = "closed"]
          /\ excused' = TRUE
    /\ UNCHANGED <<serve, became, idle, missed, announced, alone>>

AnnounceOffline(s) ==
    /\ close[s] = "announce"
    /\ publishPresence(FALSE)
    /\ close' = [close EXCEPT ![s] = "closed"]
    /\ UNCHANGED <<redis, serve, became, idle, missed, alone>>

-----------------------------------------------------------------------------
Serving(s) == serve[s] \notin {"none", "done"} \/ close[s] \in {"offline", "announce"}

(* The process of the session dies.                                        *)
Crash(s) ==
    /\ Serving(s)
    /\ serve' = [serve EXCEPT ![s] = "done"]
    /\ close' = [close EXCEPT ![s] = "closed"]
    /\ became' = became \ {s}
    /\ excused' = TRUE
    /\ UNCHANGED <<redis, idle, missed, announced, alone>>

(* A new connection, under a new id: the old one has left the set.         *)
Reconnect(s) ==
    /\ serve[s] = "done" /\ close[s] = "closed" /\ s \notin zset
    /\ serve' = [serve EXCEPT ![s] = "none"]
    /\ close' = [close EXCEPT ![s] = "no"]
    /\ missed' = [missed EXCEPT ![s] = 0]
    /\ idle' = [idle EXCEPT ![s] = 0]
    /\ UNCHANGED <<redis, became, announced, alone, excused>>

Less(n) == IF n = 0 THEN 0 ELSE n - 1

(* A handshake takes a few seconds (redisOperationTimeout); a reader       *)
(* without a pong within pongWait ends.  No event tells of an expiry.      *)
Tick ==
    /\ \A s \in Sessions : \/ serve[s] \in {"none", "done"}
                           \/ serve[s] = "read" /\ idle[s] < pongWait
    /\ life' = [s \in Sessions |-> Less(life[s])]
    /\ keyLife' = Less(keyLife)
    /\ idle' = [s \in Sessions |-> IF serve[s] = "read" THEN idle[s] + 1 ELSE idle[s]]
    /\ alone' = IF (\E s \in Sessions : Serving(s)) \/ alone = presenceTTL
                THEN alone ELSE alone + 1
    /\ excused' = (excused \/ \E s \in zset : life[s] = 1)
    /\ UNCHANGED <<zset, serve, close, became, missed, announced>>

Next == Tick \/ \E s \in Sessions :
    \/ SetSessionOnline(s) \/ Register(s) \/ Rollback(s) \/ AnnounceOnline(s)
    \/ HeartbeatSession(s) \/ ReaderEnds(s) \/ HubUnregisters(s)
    \/ SetSessionOffline(s) \/ AnnounceOffline(s) \/ Crash(s) \/ Reconnect(s)

Spec == Init /\ [][Next]_vars

-----------------------------------------------------------------------------
(* Type invariant.                                                         *)
TypeOK ==
    /\ zset \in SUBSET Sessions
    /\ life \in [Sessions -> 0 .. presenceTTL] /\ keyLife \in 0 .. presenceTTL
    /\ serve \in [Sessions -> ServeSteps] /\ close \in [Sessions -> CloseSteps]
    /\ became \in SUBSET Sessions
    /\ idle \in [Sessions -> 0 .. pongWait] /\ missed \in [Sessions -> 0 .. 2]
    /\ announced \in BOOLEAN /\ excused \in BOOLEAN /\ alone \in 0 .. presenceTTL

(* A user with an open session is online although a presence command of it *)
(* may just have failed, whatever the user's other sessions do; and a user *)
(* whose sessions are all gone, by whatever crash, late heartbeat or       *)
(* failed command, is offline presenceTTL later.                           *)
(* presence.go:14, presence.go:160                                         *)
PresenceTracks ==
    /\ \A s \in Sessions :
           serve[s] = "read" /\ close[s] = "no" /\ missed[s] <= 1 => IsOnline
    /\ alone = presenceTTL => ~IsOnline

(* With no event outstanding, the last one published tells whether the     *)
(* user is online, unless since the last transition a process crashed, an  *)
(* entry expired, a command, a publication or a registration failed, a     *)
(* heartbeat came late or brought the user back, or two events were        *)
(* published past each other.                                              *)
(* hub.go:252-263, handler.go:137                                          *)
AnnouncedIsTrue == Quiet /\ ~excused => announced = IsOnline
=============================================================================
