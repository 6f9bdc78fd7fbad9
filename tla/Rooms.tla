-------------------------------- MODULE Rooms --------------------------------
(***************************************************************************)
(* Conversations and the roles of their members: direct conversations of   *)
(* two users and groups that admins extend and shrink.  A service call     *)
(* reads what it decides by in one statement, where it begins here, and    *)
(* writes in a later one; only the membership write itself is serial       *)
(* (MembershipCache).  No operation changes a role or makes an owner.      *)
(***************************************************************************)
EXTENDS Naturals, FiniteSets

CONSTANTS Callers,   \* requests in progress at the same time
          Users,
          Ids        \* conversation ids, each given out once

VARIABLES
    type,        \* id -> type of its row in conversations, "none" without one
    role,        \* id -> user -> role in conversation_members, "none" without a row
    call,        \* what each caller is doing
    madeFor,     \* history: id -> the two users a direct conversation was made for
    overlapped   \* history: pairs of users whose CreateDM calls overlapped

vars == <<type, role, call, madeFor, overlapped>>

Roles == {"none", "member", "admin"}

Idle == [step |-> "idle"]

Calls == {Idle}
    \cup [step : {"create_dm"}, actor : Users, target : Users]
    \cup [step : {"dm_members"}, actor : Users, target : Users, id : Ids]
    \cup [step : {"create_group"}, actor : Users, members : SUBSET Users]
    \cup [step : {"group_members"}, actor : Users, members : SUBSET Users, id : Ids]
    \cup [step : {"insert", "delete"}, actor : Users, target : Users, id : Ids]

Init ==
    /\ type = [c \in Ids |-> "none"]
    /\ role = [c \in Ids |-> [u \in Users |-> "none"]]
    /\ call = [p \in Callers |-> Idle]
    /\ madeFor = [c \in Ids |-> {}]
    /\ overlapped = {}

Begin(p, c) == call[p] = Idle /\ call' = [call EXCEPT ![p] = c]

Finish(p) == call' = [call EXCEPT ![p] = Idle]

Lists(c, U) == \A u \in U : role[c][u] # "none"

-----------------------------------------------------------------------------
(* CreateDM                                                                *)

(* The two users whose direct conversation a call is about to make.        *)
MakingFor(p) ==
    IF call[p].step \in {"create_dm", "dm_members"}
    THEN {call[p].actor, call[p].target} ELSE {}

(* Variant: the wrong type of conversation is looked for.                  *)
GetDMAmongGroups(u, v) == {c \in Ids : type[c] = "group" /\ Lists(c, {u, v})}

(* Both are members of one conversation of type 1.                         *)
GetDMConversation(u, v) == {c \in Ids : type[c] = "direct" /\ Lists(c, {u, v})}

(* A conversation that exists is returned and nothing changes.             *)
FindDM(p, u, v) ==
    /\ u # v
    /\ GetDMConversation(u, v) = {}
    /\ Begin(p, [step |-> "create_dm", actor |-> u, target |-> v])
    /\ overlapped' = IF \E q \in Callers : MakingFor(q) = {u, v}
                     THEN overlapped \cup {{u, v}} ELSE overlapped
    /\ UNCHANGED <<type, role, madeFor>>

CreateDMRow(p) ==
    /\ call[p].step = "create_dm"
    /\ \E c \in Ids :
           /\ type[c] = "none"
           /\ type' = [type EXCEPT ![c] = "direct"]
           /\ madeFor' = [madeFor EXCEPT ![c] = {call[p].actor, call[p].target}]
           /\ call' = [call EXCEPT ![p] = [step |-> "dm_members", actor |-> @.actor,
                                           target |-> @.target, id |-> c]]
    /\ UNCHANGED <<role, overlapped>>

(* Variant: whoever opens a direct conversation administers it.            *)
InsertDMMembersWithAdmin(p) ==
    /\ call[p].step = "dm_members"
    /\ role' = [role EXCEPT ![call[p].id][call[p].actor] = "admin",
                            ![call[p].id][call[p].target] = "member"]
    /\ Finish(p)
    /\ UNCHANGED <<type, madeFor, overlapped>>

InsertDMMembers(p) ==
    /\ call[p].step = "dm_members"
    /\ role' = [role EXCEPT ![call[p].id][call[p].actor] = "member",
                            ![call[p].id][call[p].target] = "member"]
    /\ Finish(p)
    /\ UNCHANGED <<type, madeFor, overlapped>>

-----------------------------------------------------------------------------
(* CreateGroup: at least one member besides the creator, none twice.       *)

validateGroupMembers(u, M) == M # {} /\ u \notin M

StartGroup(p, u, M) ==
    /\ validateGroupMembers(u, M)
    /\ Begin(p, [step |-> "create_group", actor |-> u, members |-> M])
    /\ UNCHANGED <<type, role, madeFor, overlapped>>

CreateGroupRow(p) ==
    /\ call[p].step = "create_group"
    /\ \E c \in Ids :
           /\ type[c] = "none"
           /\ type' = [type EXCEPT ![c] = "group"]
           /\ call' = [call EXCEPT ![p] = [step |-> "group_members", actor |-> @.actor,
                                           members |-> @.members, id |-> c]]
    /\ UNCHANGED <<role, madeFor, overlapped>>

(* Variant: whoever makes a group owns it.                                 *)
buildGroupMembershipsWithOwner(u, M) ==
    [v \in Users |-> IF v = u THEN "owner" ELSE IF v \in M THEN "member" ELSE "none"]

buildGroupMemberships(u, M) ==
    [v \in Users |-> IF v = u THEN "admin" ELSE IF v \in M THEN "member" ELSE "none"]

InsertGroupMembers(p) ==
    /\ call[p].step = "group_members"
    /\ role' = [role EXCEPT ![call[p].id] = buildGroupMemberships(call[p].actor, call[p].members)]
    /\ Finish(p)
    /\ UNCHANGED <<type, madeFor, overlapped>>

-----------------------------------------------------------------------------
(* AddMember and RemoveMember: the role is read, then the row is written.  *)

CheckAddRole(p, c, u, v) ==
    /\ u # v
    /\ role[c][u] = "admin"
    /\ Begin(p, [step |-> "insert", actor |-> u, target |-> v, id |-> c])
    /\ UNCHANGED <<type, role, madeFor, overlapped>>

(* INSERT IGNORE: a member keeps its row and its role.                     *)
InsertMember(p) ==
    /\ call[p].step = "insert"
    /\ role' = [role EXCEPT ![call[p].id][call[p].target] = IF @ = "none" THEN "member" ELSE @]
    /\ Finish(p)
    /\ UNCHANGED <<type, madeFor, overlapped>>

(* A member may remove itself; others need not be members to be removed.   *)
CheckRemoveRole(p, c, u, v) ==
    /\ role[c][u] = "admin" \/ (role[c][u] = "member" /\ u = v)
    /\ Begin(p, [step |-> "delete", actor |-> u, target |-> v, id |-> c])
    /\ UNCHANGED <<type, role, madeFor, overlapped>>

DeleteMember(p) ==
    /\ call[p].step = "delete"
    /\ role' = [role EXCEPT ![call[p].id][call[p].target] = "none"]
    /\ Finish(p)
    /\ UNCHANGED <<type, madeFor, overlapped>>

-----------------------------------------------------------------------------
(* A statement fails or the process dies: a conversation may stay without  *)
(* members.                                                                *)
Abort(p) ==
    /\ call[p] # Idle
    /\ Finish(p)
    /\ UNCHANGED <<type, role, madeFor, overlapped>>

Next == \E p \in Callers :
    \/ \E u, v \in Users : FindDM(p, u, v)
    \/ \E u \in Users, M \in SUBSET Users : StartGroup(p, u, M)
    \/ \E c \in Ids, u, v \in Users : CheckAddRole(p, c, u, v) \/ CheckRemoveRole(p, c, u, v)
    \/ CreateDMRow(p) \/ InsertDMMembers(p)
    \/ CreateGroupRow(p) \/ InsertGroupMembers(p)
    \/ InsertMember(p) \/ DeleteMember(p)
    \/ Abort(p)

Spec == Init /\ [][Next]_vars

-----------------------------------------------------------------------------
(* Type invariant.                                                         *)
TypeOK ==
    /\ type \in [Ids -> {"none", "direct", "group"}]
    /\ role \in [Ids -> [Users -> Roles]]
    /\ call \in [Callers -> Calls]
    /\ madeFor \in [Ids -> SUBSET Users]
    /\ overlapped \in SUBSET SUBSET Users

(* A direct conversation never lists anyone but the two users it was made  *)
(* for, however their calls interleave and one of them leaves: it has no   *)
(* admin who could add a third.  room_service.go:147-159, :386             *)
DMStaysPrivate ==
    \A c \in Ids : type[c] = "direct" =>
        /\ {u \in Users : role[c][u] # "none"} \subseteq madeFor[c]
        /\ \A p \in Callers : call[p].step \in {"insert", "delete"} /\ call[p].id = c
               => call[p].target = call[p].actor

(* Two users share one direct conversation: only CreateDM calls of the two *)
(* that overlap can leave a second one, however they left and came back.   *)
(* room_service.go:114                                                     *)
OneDMPerPair ==
    \A c, d \in Ids :
        /\ c # d /\ type[c] = "direct" /\ type[d] = "direct"
        /\ \E u, v \in Users : u # v /\ Lists(c, {u, v}) /\ Lists(d, {u, v})
        => madeFor[c] \in overlapped
=============================================================================
