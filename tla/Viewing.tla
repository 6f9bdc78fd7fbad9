------------------------------- MODULE Viewing -------------------------------
(***************************************************************************)
(* Which conversation is open on the screen: RoomManager keeps, for each   *)
(* process, the sessions that view a conversation in memory, and for all   *)
(* processes a sorted set and a set of each session in Redis, with a TTL   *)
(* that pongs renew.  A member that views a conversation gets no unread    *)
(* count (afterSend), so an entry that stays behind loses counts.  One     *)
(* user and one conversation; a session is used by its reader and by the   *)
(* loop of its hub.                                                        *)
(***************************************************************************)
EXTENDS Naturals, FiniteSets

CONSTANTS Sessions   \* connections of the user to one API process

VARIABLES
    local,    \* sessions in the viewing map of the process
    viewing,  \* sessions in the sorted set viewing:<user>:<conv>
    listed,   \* sessions whose set viewing:session:<user>:<conn> has the conversation
    reader,   \* session -> step of the goroutine that reads its connection
    closer,   \* session -> step of its Unregister
    last,     \* sessions whose Unregister found no other session of the user
    missed,   \* sessions whose last write of their entries failed
    wants,    \* history: sessions whose client has the conversation open
    behind    \* history: sessions with an entry that a race or failure left behind

redis == <<viewing, listed>>
control == <<reader, closer, last>>
vars == <<local, redis, control, missed, wants, behind>>

Init ==
    /\ local = {}
    /\ viewing = {} /\ listed = {}
    /\ reader = [s \in Sessions |-> "none"]
    /\ closer = [s \in Sessions |-> "no"]
    /\ last = {}
    /\ missed = {}
    /\ wants = {} /\ behind = {}

Registered(s) == reader[s] # "none" /\ closer[s] = "no"

isViewingLocal == local # {}

(* What every process sees; this one looks at its map first.               *)
isViewingRedis == viewing # {}

Connect(s) ==
    /\ reader[s] = "none"
    /\ reader' = [reader EXCEPT ![s] = "idle"]
    /\ UNCHANGED <<local, redis, closer, last, missed, wants, behind>>

-----------------------------------------------------------------------------
(* The maps of RoomManager, each under its lock.                           *)
setLocal(s) == local' = local \cup {s}

clearLocal(s) == local' = local \ {s}

(* The pipelines: each runs, or fails and ran, in part or not at all.      *)
setViewingRedis(s) ==
    /\ viewing' = viewing \cup {s}
    /\ listed' = listed \cup {s}

setViewingInPart(s) ==
    /\ viewing' = viewing \cup {s}
    /\ UNCHANGED listed

clearViewingRedis(s) ==
    /\ viewing' = viewing \ {s}
    /\ listed' = listed \ {s}

clearInPart(s) ==
    /\ viewing' \in {viewing, viewing \ {s}}
    /\ UNCHANGED listed

(* ZADD whatever is there by now; EXPIRE of a deleted set does nothing.    *)
heartbeatRedis(s) ==
    /\ viewing' = viewing \cup {s}
    /\ UNCHANGED listed

Step(s, step) == reader' = [reader EXCEPT ![s] = step]

(* The reader writes an entry that the hub has cleared, or is clearing.    *)
LeftBehind(s) == behind' = IF closer[s] = "no" THEN behind ELSE behind \cup {s}

-----------------------------------------------------------------------------
(* The reader: onViewing has checked hasConv and isMember.                 *)
onViewing(s) ==
    /\ reader[s] = "idle"
    /\ Step(s, "set")
    /\ wants' = IF closer[s] = "no" THEN wants \cup {s} ELSE wants
    /\ UNCHANGED <<local, redis, closer, last, missed, behind>>

SetViewing(s) ==
    /\ reader[s] = "set"
    /\ setLocal(s)
    /\ Step(s, "set_redis")
    /\ LeftBehind(s)
    /\ UNCHANGED <<redis, closer, last, missed, wants>>

SetViewingRedis(s) ==
    /\ reader[s] = "set_redis"
    /\ \/ setViewingRedis(s) /\ missed' = missed \ {s} /\ LeftBehind(s)
       \/ /\ setViewingRedis(s) \/ UNCHANGED redis
          /\ missed' = missed \cup {s} /\ LeftBehind(s)
       \/ setViewingInPart(s) /\ missed' = missed \cup {s} /\ behind' = behind \cup {s}
    /\ Step(s, "idle")
    /\ UNCHANGED <<local, closer, last, wants>>

onLeft(s) ==
    /\ reader[s] = "idle"
    /\ clearLocal(s)
    /\ Step(s, "clear_redis")
    /\ wants' = wants \ {s}
    /\ UNCHANGED <<redis, closer, last, missed, behind>>

(* A failed clearing is ignored, and heartbeats renew what is left.        *)
ClearViewingRedis(s) ==
    /\ reader[s] = "clear_redis"
    /\ \/ clearViewingRedis(s) /\ missed' = missed \ {s} /\ UNCHANGED behind
       \/ clearInPart(s) /\ UNCHANGED missed /\ behind' = behind \cup {s}
    /\ Step(s, "idle")
    /\ UNCHANGED <<local, closer, last, wants>>

(* The pong handler: SMEMBERS, and a pipeline if the session views at all. *)
HeartbeatSession(s) ==
    /\ reader[s] = "idle"
    /\ \/ /\ Step(s, IF s \in listed THEN "beat" ELSE "idle")
          /\ UNCHANGED missed
       \/ /\ missed' = IF s \in listed THEN missed \cup {s} ELSE missed
          /\ UNCHANGED reader
    /\ UNCHANGED <<local, redis, closer, last, wants, behind>>

(* A set that expired since is not renewed, and no later pong finds it.    *)
HeartbeatRedis(s) ==
    /\ reader[s] = "beat"
    /\ \/ /\ heartbeatRedis(s)
          /\ missed' = IF s \in listed THEN missed \ {s} ELSE missed \cup {s}
       \/ /\ heartbeatRedis(s) \/ UNCHANGED redis
          /\ missed' = missed \cup {s}
    /\ Step(s, "idle")
    /\ behind' = IF closer[s] = "no" /\ s \in listed THEN behind ELSE behind \cup {s}
    /\ UNCHANGED <<local, closer, last, wants>>

-----------------------------------------------------------------------------
(* Hub.Unregister, by the reader or the hub.                               *)
Unregister(s) ==
    LET others == {t \in Sessions \ {s} : Registered(t)}
    IN /\ closer' = [closer EXCEPT ![s] = "clear"]
       /\ last' = IF others = {} THEN last \cup {s} ELSE last
       /\ wants' = wants \ {s}

ReaderEnds(s) ==
    /\ reader[s] = "idle"
    /\ Step(s, "done")
    /\ IF closer[s] = "no" THEN Unregister(s) ELSE UNCHANGED <<closer, last, wants>>
    /\ missed' = missed \ {s}
    /\ UNCHANGED <<local, redis, behind>>

HubUnregisters(s) ==
    /\ Registered(s)
    /\ Unregister(s)
    /\ UNCHANGED <<local, redis, reader, missed, behind>>

Close(s, step) == closer' = [closer EXCEPT ![s] = step]

(* The conversations of the user in this process are hints for Redis.      *)
ClearSession(s) ==
    /\ closer[s] = "clear"
    /\ clearLocal(s)
    /\ Close(s, IF local = {} THEN "members" ELSE "members_or_hint")
    /\ UNCHANGED <<redis, reader, last, missed, wants, behind>>

(* Variant: what the process knows of the session is all there is to clear.*)
SMembersOfHints(s) ==
    /\ closer[s] \in {"members", "members_or_hint"}
    /\ Close(s, IF closer[s] = "members" THEN "clear_all" ELSE "pipe")
    /\ UNCHANGED <<local, redis, reader, last, missed, wants, behind>>

(* SMEMBERS: without an answer and without a hint nothing is cleared.      *)
SMembers(s) ==
    /\ closer[s] \in {"members", "members_or_hint"}
    /\ \/ Close(s, IF closer[s] = "members_or_hint" \/ s \in listed
                   THEN "pipe" ELSE "pipe_set") /\ UNCHANGED behind
       \/ IF closer[s] = "members_or_hint" THEN Close(s, "pipe") /\ UNCHANGED behind
          ELSE Close(s, "clear_all") /\ behind' = behind \cup {s}
    /\ UNCHANGED <<local, redis, reader, last, missed, wants>>

(* ZREM of the conversations found, and DEL of the session's set.          *)
ClearSessionRedis(s) ==
    /\ closer[s] \in {"pipe", "pipe_set"}
    /\ \/ /\ viewing' = IF closer[s] = "pipe" THEN viewing \ {s} ELSE viewing
          /\ listed' = listed \ {s}
          /\ UNCHANGED behind
       \/ clearInPart(s) /\ behind' = behind \cup {s}
    /\ Close(s, "clear_all")
    /\ UNCHANGED <<local, reader, last, missed, wants>>

(* The map of the user goes, with what a session that came since put there.*)
ClearAll(s) ==
    /\ closer[s] = "clear_all"
    /\ local' = IF s \in last THEN {} ELSE local
    /\ Close(s, "closed")
    /\ last' = last \ {s}
    /\ UNCHANGED <<redis, reader, missed, wants, behind>>

-----------------------------------------------------------------------------
Serving(s) == reader[s] \notin {"none", "done"} \/ closer[s] \notin {"no", "closed"}

(* The process dies with its map and sessions.                             *)
Crash ==
    /\ \E s \in Sessions : Serving(s)
    /\ local' = {} /\ last' = {} /\ wants' = {}
    /\ reader' = [s \in Sessions |-> IF reader[s] = "none" THEN "none" ELSE "done"]
    /\ closer' = [s \in Sessions |-> IF reader[s] = "none" THEN "no" ELSE "closed"]
    /\ behind' = behind \cup {s \in Sessions : reader[s] # "none"}
    /\ UNCHANGED <<redis, missed>>

(* The entries of a session in Redis expire when its pongs ended, or some  *)
(* of them did not reach Redis (Presence counts how many).                 *)
Expire(s) ==
    /\ s \in viewing \cup listed
    /\ reader[s] \in {"none", "done"} \/ s \in missed
    /\ viewing' = viewing \ {s}
    /\ listed' = listed \ {s}
    /\ UNCHANGED <<local, control, missed, wants, behind>>

Next ==
    \/ Crash
    \/ \E s \in Sessions :
        \/ Connect(s) \/ onViewing(s) \/ SetViewing(s) \/ SetViewingRedis(s)
        \/ onLeft(s) \/ ClearViewingRedis(s) \/ HeartbeatSession(s) \/ HeartbeatRedis(s)
        \/ ReaderEnds(s) \/ HubUnregisters(s)
        \/ ClearSession(s) \/ SMembers(s) \/ ClearSessionRedis(s) \/ ClearAll(s)
        \/ Expire(s)

Spec == Init /\ [][Next]_vars

-----------------------------------------------------------------------------
(* Type invariant.                                                         *)
TypeOK ==
    /\ {local, viewing, listed, last, missed, wants, behind} \subseteq SUBSET Sessions
    /\ reader \in [Sessions -> {"none", "idle", "set", "set_redis", "clear_redis", "beat", "done"}]
    /\ closer \in [Sessions -> {"no", "clear", "members", "members_or_hint", "pipe",
                                "pipe_set", "clear_all", "closed"}]

(* No step of a reader or an Unregister is under way.                      *)
Settled(s) == reader[s] \in {"none", "idle", "done"} /\ closer[s] \in {"no", "closed"}

(* A user whose client has the conversation open, and whose last write to  *)
(* Redis went well, is seen viewing it by every process, although another  *)
(* session of the user ended and wiped the map of the process.  Nobody is  *)
(* seen viewing it who does not, unless a reader wrote after the hub had   *)
(* cleared, or a command failed.                                           *)
(* room_manager.go:62, hub.go:242-245, client.go:323                       *)
ViewingTracks ==
    /\ \A s \in wants : Settled(s) /\ s \notin missed => isViewingRedis
    /\ (\A s \in Sessions : Settled(s)) =>
           viewing \cup local \subseteq wants \cup behind
=============================================================================
