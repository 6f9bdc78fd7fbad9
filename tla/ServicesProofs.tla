--------------------------- MODULE ServicesProofs ---------------------------
(***************************************************************************)
(* Proofs about the four services, for every number of callers, users,     *)
(* devices, tokens, conversations and messages and for every limit.  Each  *)
(* section strengthens what its service promises to an inductive           *)
(* invariant: rooms relate every direct conversation to the pair it was    *)
(* made for, contacts relate rows to agreements, sessions add what each    *)
(* login and logout in progress holds and where its row is, and the read   *)
(* state what each count in progress is worth.  The last section puts the  *)
(* four side by side.                                                      *)
(***************************************************************************)
EXTENDS MCServices, Sequences, FiniteSetTheorems, TLAPS

-----------------------------------------------------------------------------
(* Rooms.                                                                  *)

(* A conversation that does not exist has no members and nobody makes it.  *)
RoomsUnused ==
    \A c \in Pair : type[c] = "none" =>
        /\ \A u \in Names : role[c][u] = "none"
        /\ madeFor[c] = {}

(* What a call at each step holds: the type of a conversation is final.    *)
RoomsHeld ==
    \A p \in Callers :
        /\ roomCall[p].step = "create_dm" => roomCall[p].actor # roomCall[p].target
        /\ roomCall[p].step = "dm_members" =>
               /\ roomCall[p].actor # roomCall[p].target
               /\ type[roomCall[p].id] = "direct"
               /\ madeFor[roomCall[p].id] = {roomCall[p].actor, roomCall[p].target}
        /\ roomCall[p].step \in {"group_members", "insert"} => type[roomCall[p].id] = "group"
        /\ roomCall[p].step = "delete" =>
               \/ type[roomCall[p].id] = "group"
               \/ type[roomCall[p].id] = "direct" /\ roomCall[p].target = roomCall[p].actor

(* A direct conversation lists no admin and nobody it was not made for.    *)
RoomsDirect ==
    \A c \in Pair : type[c] = "direct" =>
        /\ \A u \in Names : role[c][u] # "admin"
        /\ \A u \in Names : role[c][u] # "none" => u \in madeFor[c]

(* A direct conversation is made for two users.                            *)
RoomsPairs ==
    \A c \in Pair : type[c] = "direct" =>
        \E u, v \in Names : u # v /\ madeFor[c] = {u, v}

(* Two users whose CreateDM calls never overlapped have one call that is   *)
(* about to make their conversation, or one that lists them both, not two. *)
RoomsOneMaker ==
    \A p, q \in Callers :
        p # q /\ Room!MakingFor(p) # {} /\ Room!MakingFor(p) = Room!MakingFor(q)
            => Room!MakingFor(p) \in overlapped

RoomsNoneYet ==
    \A p \in Callers, c \in Pair :
        type[c] = "direct" /\ Room!MakingFor(p) # {} /\ Room!Lists(c, Room!MakingFor(p))
            => Room!MakingFor(p) \in overlapped

RoomsOneListed ==
    \A c, d \in Pair :
        /\ c # d /\ type[c] = "direct" /\ type[d] = "direct"
        /\ madeFor[c] = madeFor[d]
        /\ Room!Lists(c, madeFor[c]) /\ Room!Lists(d, madeFor[d])
        => madeFor[c] \in overlapped

RoomsIInv ==
    /\ Room!TypeOK /\ RoomsUnused /\ RoomsHeld /\ RoomsDirect
    /\ RoomsPairs /\ RoomsOneMaker /\ RoomsNoneYet /\ RoomsOneListed

(* The rooms keep their types.                                             *)
LEMMA RoomsTypes ==
  Room!TypeOK /\ [Room!Next]_roomVars => Room!TypeOK'
<1> SUFFICES ASSUME Room!TypeOK, [Room!Next]_roomVars PROVE Room!TypeOK'
  OBVIOUS
<1> USE DEF Room!TypeOK, Room!Calls, Room!Idle, Room!Roles, Room!Begin, Room!Finish
<1>1. ASSUME NEW p \in Callers, NEW u \in Names, NEW v \in Names, Room!FindDM(p, u, v)
      PROVE Room!TypeOK'
  BY <1>1 DEF Room!FindDM
<1>2. ASSUME NEW p \in Callers, NEW u \in Names, NEW M \in SUBSET Names, Room!StartGroup(p, u,
             M)
      PROVE Room!TypeOK'
  BY <1>2 DEF Room!StartGroup
<1>3. ASSUME NEW p \in Callers, NEW c \in Pair, NEW u \in Names, NEW v \in Names,
             Room!CheckAddRole(p, c, u, v) \/ Room!CheckRemoveRole(p, c, u, v)
      PROVE Room!TypeOK'
  BY <1>3 DEF Room!CheckAddRole, Room!CheckRemoveRole
<1>4. ASSUME NEW p \in Callers, Room!CreateDMRow(p) PROVE Room!TypeOK'
  BY <1>4 DEF Room!CreateDMRow
<1>5. ASSUME NEW p \in Callers, Room!InsertDMMembers(p) PROVE Room!TypeOK'
  BY <1>5 DEF Room!InsertDMMembers
<1>6. ASSUME NEW p \in Callers, Room!CreateGroupRow(p) PROVE Room!TypeOK'
  BY <1>6 DEF Room!CreateGroupRow
<1>7. ASSUME NEW p \in Callers, Room!InsertGroupMembers(p) PROVE Room!TypeOK'
  BY <1>7 DEF Room!InsertGroupMembers, Room!buildGroupMemberships
<1>8. ASSUME NEW p \in Callers, Room!InsertMember(p) PROVE Room!TypeOK'
  BY <1>8 DEF Room!InsertMember
<1>9. ASSUME NEW p \in Callers, Room!DeleteMember(p) PROVE Room!TypeOK'
  BY <1>9 DEF Room!DeleteMember
<1>10. ASSUME NEW p \in Callers, Room!Abort(p) PROVE Room!TypeOK'
  BY <1>10 DEF Room!Abort
<1>11. CASE UNCHANGED roomVars
  BY <1>11 DEF roomVars
<1>12. QED
  BY <1>1, <1>2, <1>3, <1>4, <1>5, <1>6, <1>7, <1>8, <1>9, <1>10, <1>11 DEF Room!Next

(* What does not exist stays unused.                                       *)
LEMMA RoomsUnusedPreserved ==
  Room!TypeOK /\ RoomsUnused /\ RoomsHeld /\ [Room!Next]_roomVars => RoomsUnused'
<1> SUFFICES ASSUME Room!TypeOK /\ RoomsUnused /\ RoomsHeld, [Room!Next]_roomVars
             PROVE  RoomsUnused'
  OBVIOUS
<1> USE DEF Room!TypeOK, Room!Calls, Room!Idle, Room!Roles, Room!Begin, Room!Finish,
         RoomsUnused, RoomsHeld
<1>1. ASSUME NEW p \in Callers, NEW u \in Names, NEW v \in Names, Room!FindDM(p, u, v)
      PROVE RoomsUnused'
  BY <1>1 DEF Room!FindDM
<1>2. ASSUME NEW p \in Callers, NEW u \in Names, NEW M \in SUBSET Names, Room!StartGroup(p, u,
             M)
      PROVE RoomsUnused'
  BY <1>2 DEF Room!StartGroup
<1>3. ASSUME NEW p \in Callers, NEW c \in Pair, NEW u \in Names, NEW v \in Names,
             Room!CheckAddRole(p, c, u, v) \/ Room!CheckRemoveRole(p, c, u, v)
      PROVE RoomsUnused'
  BY <1>3 DEF Room!CheckAddRole, Room!CheckRemoveRole
<1>4. ASSUME NEW p \in Callers, Room!CreateDMRow(p) PROVE RoomsUnused'
  BY <1>4 DEF Room!CreateDMRow
<1>5. ASSUME NEW p \in Callers, Room!InsertDMMembers(p) PROVE RoomsUnused'
  BY <1>5 DEF Room!InsertDMMembers
<1>6. ASSUME NEW p \in Callers, Room!CreateGroupRow(p) PROVE RoomsUnused'
  BY <1>6 DEF Room!CreateGroupRow
<1>7. ASSUME NEW p \in Callers, Room!InsertGroupMembers(p) PROVE RoomsUnused'
  BY <1>7 DEF Room!InsertGroupMembers, Room!buildGroupMemberships
<1>8. ASSUME NEW p \in Callers, Room!InsertMember(p) PROVE RoomsUnused'
  BY <1>8 DEF Room!InsertMember
<1>9. ASSUME NEW p \in Callers, Room!DeleteMember(p) PROVE RoomsUnused'
  BY <1>9 DEF Room!DeleteMember
<1>10. ASSUME NEW p \in Callers, Room!Abort(p) PROVE RoomsUnused'
  BY <1>10 DEF Room!Abort
<1>11. CASE UNCHANGED roomVars
  BY <1>11 DEF roomVars
<1>12. QED
  BY <1>1, <1>2, <1>3, <1>4, <1>5, <1>6, <1>7, <1>8, <1>9, <1>10, <1>11 DEF Room!Next

(* Each call keeps to the type of its conversation.                        *)
LEMMA RoomsHeldPreserved ==
  Room!TypeOK /\ RoomsUnused /\ RoomsHeld /\ RoomsDirect /\ [Room!Next]_roomVars => RoomsHeld'
<1> SUFFICES ASSUME Room!TypeOK /\ RoomsUnused /\ RoomsHeld /\ RoomsDirect, [Room!Next]_roomVars
             PROVE  RoomsHeld'
  OBVIOUS
<1> USE DEF Room!TypeOK, Room!Calls, Room!Idle, Room!Roles, Room!Begin, Room!Finish,
         RoomsUnused, RoomsHeld, RoomsDirect
<1>1. ASSUME NEW p \in Callers, NEW u \in Names, NEW v \in Names, Room!FindDM(p, u, v)
      PROVE RoomsHeld'
  BY <1>1 DEF Room!FindDM
<1>2. ASSUME NEW p \in Callers, NEW u \in Names, NEW M \in SUBSET Names, Room!StartGroup(p, u,
             M)
      PROVE RoomsHeld'
  BY <1>2 DEF Room!StartGroup
<1>3. ASSUME NEW p \in Callers, NEW c \in Pair, NEW u \in Names, NEW v \in Names,
             Room!CheckAddRole(p, c, u, v) \/ Room!CheckRemoveRole(p, c, u, v)
      PROVE RoomsHeld'
  BY <1>3 DEF Room!CheckAddRole, Room!CheckRemoveRole
<1>4. ASSUME NEW p \in Callers, Room!CreateDMRow(p) PROVE RoomsHeld'
  BY <1>4 DEF Room!CreateDMRow
<1>5. ASSUME NEW p \in Callers, Room!InsertDMMembers(p) PROVE RoomsHeld'
  BY <1>5 DEF Room!InsertDMMembers
<1>6. ASSUME NEW p \in Callers, Room!CreateGroupRow(p) PROVE RoomsHeld'
  BY <1>6 DEF Room!CreateGroupRow
<1>7. ASSUME NEW p \in Callers, Room!InsertGroupMembers(p) PROVE RoomsHeld'
  BY <1>7 DEF Room!InsertGroupMembers, Room!buildGroupMemberships
<1>8. ASSUME NEW p \in Callers, Room!InsertMember(p) PROVE RoomsHeld'
  BY <1>8 DEF Room!InsertMember
<1>9. ASSUME NEW p \in Callers, Room!DeleteMember(p) PROVE RoomsHeld'
  BY <1>9 DEF Room!DeleteMember
<1>10. ASSUME NEW p \in Callers, Room!Abort(p) PROVE RoomsHeld'
  BY <1>10 DEF Room!Abort
<1>11. CASE UNCHANGED roomVars
  BY <1>11 DEF roomVars
<1>12. QED
  BY <1>1, <1>2, <1>3, <1>4, <1>5, <1>6, <1>7, <1>8, <1>9, <1>10, <1>11 DEF Room!Next

(* A direct conversation gets neither an admin nor a third user.           *)
LEMMA RoomsDirectPreserved ==
  Room!TypeOK /\ RoomsUnused /\ RoomsHeld /\ RoomsDirect /\ [Room!Next]_roomVars => RoomsDirect'
<1> SUFFICES ASSUME Room!TypeOK /\ RoomsUnused /\ RoomsHeld /\ RoomsDirect, [Room!Next]_roomVars
             PROVE  RoomsDirect'
  OBVIOUS
<1> USE DEF Room!TypeOK, Room!Calls, Room!Idle, Room!Roles, Room!Begin, Room!Finish,
         RoomsUnused, RoomsHeld, RoomsDirect
<1>1. ASSUME NEW p \in Callers, NEW u \in Names, NEW v \in Names, Room!FindDM(p, u, v)
      PROVE RoomsDirect'
  BY <1>1 DEF Room!FindDM
<1>2. ASSUME NEW p \in Callers, NEW u \in Names, NEW M \in SUBSET Names, Room!StartGroup(p, u,
             M)
      PROVE RoomsDirect'
  BY <1>2 DEF Room!StartGroup
<1>3. ASSUME NEW p \in Callers, NEW c \in Pair, NEW u \in Names, NEW v \in Names,
             Room!CheckAddRole(p, c, u, v) \/ Room!CheckRemoveRole(p, c, u, v)
      PROVE RoomsDirect'
  BY <1>3 DEF Room!CheckAddRole, Room!CheckRemoveRole
<1>4. ASSUME NEW p \in Callers, Room!CreateDMRow(p) PROVE RoomsDirect'
  BY <1>4 DEF Room!CreateDMRow
<1>5. ASSUME NEW p \in Callers, Room!InsertDMMembers(p) PROVE RoomsDirect'
  BY <1>5 DEF Room!InsertDMMembers
<1>6. ASSUME NEW p \in Callers, Room!CreateGroupRow(p) PROVE RoomsDirect'
  BY <1>6 DEF Room!CreateGroupRow
<1>7. ASSUME NEW p \in Callers, Room!InsertGroupMembers(p) PROVE RoomsDirect'
  BY <1>7 DEF Room!InsertGroupMembers, Room!buildGroupMemberships
<1>8. ASSUME NEW p \in Callers, Room!InsertMember(p) PROVE RoomsDirect'
  BY <1>8 DEF Room!InsertMember
<1>9. ASSUME NEW p \in Callers, Room!DeleteMember(p) PROVE RoomsDirect'
  BY <1>9 DEF Room!DeleteMember
<1>10. ASSUME NEW p \in Callers, Room!Abort(p) PROVE RoomsDirect'
  BY <1>10 DEF Room!Abort
<1>11. CASE UNCHANGED roomVars
  BY <1>11 DEF roomVars
<1>12. QED
  BY <1>1, <1>2, <1>3, <1>4, <1>5, <1>6, <1>7, <1>8, <1>9, <1>10, <1>11 DEF Room!Next

(* A step starts one call of CreateDM, or the users the calls are making a *)
(* conversation for only become fewer.                                     *)
LEMMA RoomsMaking ==
  ASSUME RoomsIInv, Room!Next
  PROVE  \/ \E p \in Callers, u, v \in Names :
                /\ Room!FindDM(p, u, v)
                /\ Room!MakingFor(p)' = {u, v}
                /\ \A q \in Callers \ {p} : Room!MakingFor(q)' = Room!MakingFor(q)
         \/ /\ overlapped' = overlapped
            /\ \A q \in Callers : Room!MakingFor(q)' \in {Room!MakingFor(q), {}}
<1> USE DEF RoomsIInv, Room!TypeOK, Room!MakingFor, Room!Begin, Room!Finish, Room!Idle
<1>1. ASSUME NEW p \in Callers, NEW u \in Names, NEW v \in Names, Room!FindDM(p, u, v)
      PROVE  /\ Room!MakingFor(p)' = {u, v}
             /\ \A q \in Callers \ {p} : Room!MakingFor(q)' = Room!MakingFor(q)
  BY <1>1 DEF Room!FindDM
<1> DEFINE Fewer == /\ overlapped' = overlapped
                    /\ \A q \in Callers : Room!MakingFor(q)' \in {Room!MakingFor(q), {}}
<1>2. ASSUME NEW p \in Callers, NEW u \in Names, NEW M \in SUBSET Names, Room!StartGroup(p, u, M)
      PROVE  Fewer
  BY <1>2 DEF Room!StartGroup
<1>3. ASSUME NEW p \in Callers, NEW c \in Pair, NEW u \in Names, NEW v \in Names,
             Room!CheckAddRole(p, c, u, v) \/ Room!CheckRemoveRole(p, c, u, v)
      PROVE  Fewer
  BY <1>3 DEF Room!CheckAddRole, Room!CheckRemoveRole
<1>4. ASSUME NEW p \in Callers, Room!CreateDMRow(p) PROVE Fewer
  BY <1>4 DEF Room!CreateDMRow
<1>5. ASSUME NEW p \in Callers, Room!InsertDMMembers(p) PROVE Fewer
  BY <1>5 DEF Room!InsertDMMembers
<1>6. ASSUME NEW p \in Callers, Room!CreateGroupRow(p) PROVE Fewer
  BY <1>6 DEF Room!CreateGroupRow
<1>7. ASSUME NEW p \in Callers, Room!InsertGroupMembers(p) PROVE Fewer
  BY <1>7 DEF Room!InsertGroupMembers
<1>8. ASSUME NEW p \in Callers, Room!InsertMember(p) PROVE Fewer
  BY <1>8 DEF Room!InsertMember
<1>9. ASSUME NEW p \in Callers, Room!DeleteMember(p) PROVE Fewer
  BY <1>9 DEF Room!DeleteMember
<1>10. ASSUME NEW p \in Callers, Room!Abort(p) PROVE Fewer
  BY <1>10 DEF Room!Abort
<1> HIDE DEF Fewer
<1>11. (\E p \in Callers, u, v \in Names : Room!FindDM(p, u, v)) \/ Fewer
  BY <1>2, <1>3, <1>4, <1>5, <1>6, <1>7, <1>8, <1>9, <1>10 DEF Room!Next
<1>12. CASE Fewer
  BY <1>12 DEF Fewer
<1>13. CASE \E p \in Callers, u, v \in Names : Room!FindDM(p, u, v)
  BY <1>1, <1>13
<1>14. QED
  BY <1>11, <1>12, <1>13

(* A direct conversation comes to list users only when its two members are *)
(* inserted, once.                                                         *)
LEMMA RoomsListing ==
  ASSUME RoomsIInv, Room!Next, NEW c \in Pair, type'[c] = "direct",
         NEW P \in SUBSET Names, P # {}, \A u \in P : role'[c][u] # "none"
  PROVE  \/ /\ type[c] = "direct" /\ madeFor'[c] = madeFor[c]
            /\ \A u \in P : role[c][u] # "none"
         \/ \E p \in Callers : Room!InsertDMMembers(p) /\ roomCall[p].id = c
<1> DEFINE Was == /\ type[c] = "direct" /\ madeFor'[c] = madeFor[c]
                  /\ \A u \in P : role[c][u] # "none"
<1> USE DEF RoomsIInv, RoomsUnused, RoomsHeld, Room!TypeOK, Room!Finish
<1>1. ASSUME NEW p \in Callers, NEW u \in Names, NEW v \in Names, Room!FindDM(p, u, v) PROVE Was
  BY <1>1 DEF Room!FindDM
<1>2. ASSUME NEW p \in Callers, NEW u \in Names, NEW M \in SUBSET Names, Room!StartGroup(p, u, M)
      PROVE  Was
  BY <1>2 DEF Room!StartGroup
<1>3. ASSUME NEW p \in Callers, NEW d \in Pair, NEW u \in Names, NEW v \in Names,
             Room!CheckAddRole(p, d, u, v) \/ Room!CheckRemoveRole(p, d, u, v)
      PROVE  Was
  BY <1>3 DEF Room!CheckAddRole, Room!CheckRemoveRole
<1>4. ASSUME NEW p \in Callers, Room!CreateDMRow(p) PROVE Was
  BY <1>4 DEF Room!CreateDMRow
<1>5. ASSUME NEW p \in Callers, Room!InsertDMMembers(p), roomCall[p].id # c PROVE Was
  BY <1>5 DEF Room!InsertDMMembers
<1>6. ASSUME NEW p \in Callers, Room!CreateGroupRow(p) PROVE Was
  BY <1>6 DEF Room!CreateGroupRow
<1>7. ASSUME NEW p \in Callers, Room!InsertGroupMembers(p) PROVE Was
  BY <1>7 DEF Room!InsertGroupMembers
<1>8. ASSUME NEW p \in Callers, Room!InsertMember(p) PROVE Was
  BY <1>8 DEF Room!InsertMember
<1>9. ASSUME NEW p \in Callers, Room!DeleteMember(p) PROVE Was
  BY <1>9 DEF Room!DeleteMember
<1>10. ASSUME NEW p \in Callers, Room!Abort(p) PROVE Was
  BY <1>10 DEF Room!Abort
<1> HIDE DEF Was
<1>11. Was \/ \E p \in Callers : Room!InsertDMMembers(p) /\ roomCall[p].id = c
  BY <1>1, <1>2, <1>3, <1>4, <1>5, <1>6, <1>7, <1>8, <1>9, <1>10 DEF Room!Next
<1>12. QED
  BY <1>11 DEF Was

(* A direct conversation is made for two users.                            *)
LEMMA RoomsPairsPreserved ==
  RoomsIInv /\ [Room!Next]_roomVars => RoomsPairs'
<1> SUFFICES ASSUME RoomsIInv, [Room!Next]_roomVars PROVE RoomsPairs'
  OBVIOUS
<1> USE DEF Room!TypeOK, Room!Calls, Room!Idle, Room!Roles, Room!Begin, Room!Finish, RoomsIInv,
         RoomsHeld, RoomsPairs
<1>1. ASSUME NEW p \in Callers, NEW u \in Names, NEW v \in Names, Room!FindDM(p, u, v)
      PROVE RoomsPairs'
  BY <1>1 DEF Room!FindDM
<1>2. ASSUME NEW p \in Callers, NEW u \in Names, NEW M \in SUBSET Names, Room!StartGroup(p, u,
             M)
      PROVE RoomsPairs'
  BY <1>2 DEF Room!StartGroup
<1>3. ASSUME NEW p \in Callers, NEW c \in Pair, NEW u \in Names, NEW v \in Names,
             Room!CheckAddRole(p, c, u, v) \/ Room!CheckRemoveRole(p, c, u, v)
      PROVE RoomsPairs'
  BY <1>3 DEF Room!CheckAddRole, Room!CheckRemoveRole
<1>4. ASSUME NEW p \in Callers, Room!CreateDMRow(p) PROVE RoomsPairs'
  <2>1. /\ roomCall[p].actor \in Names /\ roomCall[p].target \in Names
        /\ roomCall[p].actor # roomCall[p].target
    BY <1>4 DEF Room!CreateDMRow
  <2>2. PICK c \in Pair :
            /\ type' = [type EXCEPT ![c] = "direct"]
            /\ madeFor' = [madeFor EXCEPT ![c] = {roomCall[p].actor, roomCall[p].target}]
    BY <1>4 DEF Room!CreateDMRow
  <2>3. \A d \in Pair \ {c} : type'[d] = type[d] /\ madeFor'[d] = madeFor[d]
    BY <2>2
  <2>4. madeFor'[c] = {roomCall[p].actor, roomCall[p].target}
    BY <2>2
  <2>5. QED
    BY <2>1, <2>3, <2>4
<1>5. ASSUME NEW p \in Callers, Room!InsertDMMembers(p) PROVE RoomsPairs'
  BY <1>5 DEF Room!InsertDMMembers
<1>6. ASSUME NEW p \in Callers, Room!CreateGroupRow(p) PROVE RoomsPairs'
  BY <1>6 DEF Room!CreateGroupRow
<1>7. ASSUME NEW p \in Callers, Room!InsertGroupMembers(p) PROVE RoomsPairs'
  BY <1>7 DEF Room!InsertGroupMembers, Room!buildGroupMemberships
<1>8. ASSUME NEW p \in Callers, Room!InsertMember(p) PROVE RoomsPairs'
  BY <1>8 DEF Room!InsertMember
<1>9. ASSUME NEW p \in Callers, Room!DeleteMember(p) PROVE RoomsPairs'
  BY <1>9 DEF Room!DeleteMember
<1>10. ASSUME NEW p \in Callers, Room!Abort(p) PROVE RoomsPairs'
  BY <1>10 DEF Room!Abort
<1>11. CASE UNCHANGED roomVars
  BY <1>11 DEF roomVars
<1>12. QED
  BY <1>1, <1>2, <1>3, <1>4, <1>5, <1>6, <1>7, <1>8, <1>9, <1>10, <1>11 DEF Room!Next

(* The users a call makes a conversation for are two, and those listed     *)
(* after their insertion are no others.                                    *)
LEMMA RoomsTwo ==
  ASSUME RoomsIInv, NEW p \in Callers, Room!MakingFor(p) # {}
  PROVE  \E u, v \in Names : u # v /\ Room!MakingFor(p) = {u, v}
<1>1. /\ Room!MakingFor(p) = {roomCall[p].actor, roomCall[p].target}
      /\ roomCall[p].actor \in Names /\ roomCall[p].target \in Names
      /\ roomCall[p].actor # roomCall[p].target
  BY DEF RoomsIInv, Room!TypeOK, Room!Calls, Room!Idle, RoomsHeld, Room!MakingFor
<1>2. QED
  BY <1>1

(* InsertDMMembers lists only users the conversation was made for.         *)
LEMMA RoomsInserted ==
  ASSUME RoomsIInv, NEW p \in Callers, Room!InsertDMMembers(p)
  PROVE  /\ Room!MakingFor(p) # {} /\ Room!MakingFor(p)' = {}
         /\ roomCall[p].id \in Pair /\ type[roomCall[p].id] = "direct"
         /\ madeFor[roomCall[p].id] = Room!MakingFor(p)
         /\ UNCHANGED <<type, madeFor, overlapped>>
         /\ \A u \in Names : role'[roomCall[p].id][u] # "none" => u \in Room!MakingFor(p)
BY DEF RoomsIInv, Room!TypeOK, Room!Calls, Room!Idle, RoomsHeld, RoomsDirect, Room!MakingFor,
       Room!InsertDMMembers, Room!Finish

(* Only overlapping calls make a conversation for the same two users.      *)
LEMMA RoomsOneMakerPreserved == RoomsIInv /\ [Room!Next]_roomVars => RoomsOneMaker'
<1> SUFFICES ASSUME RoomsIInv, [Room!Next]_roomVars PROVE RoomsOneMaker'
  OBVIOUS
<1>1. CASE UNCHANGED roomVars
  BY <1>1 DEF roomVars, RoomsIInv, RoomsOneMaker, Room!MakingFor
<1>2. ASSUME NEW r \in Callers, NEW u \in Names, NEW v \in Names, Room!FindDM(r, u, v),
             Room!MakingFor(r)' = {u, v},
             \A q \in Callers \ {r} : Room!MakingFor(q)' = Room!MakingFor(q)
      PROVE  RoomsOneMaker'
  <2>1. /\ overlapped \subseteq overlapped'
        /\ \A q \in Callers : Room!MakingFor(q) = {u, v} => {u, v} \in overlapped'
    BY <1>2 DEF Room!FindDM
  <2>2. QED
    BY <1>2, <2>1 DEF RoomsIInv, RoomsOneMaker
<1>3. ASSUME overlapped' = overlapped,
             \A q \in Callers : Room!MakingFor(q)' \in {Room!MakingFor(q), {}}
      PROVE  RoomsOneMaker'
  BY <1>3 DEF RoomsIInv, RoomsOneMaker
<1>4. QED
  BY <1>1, <1>2, <1>3, RoomsMaking

(* A call makes a conversation for two users only when there is none, or   *)
(* calls of the two overlapped.                                            *)
LEMMA RoomsNoneYetPreserved == RoomsIInv /\ [Room!Next]_roomVars => RoomsNoneYet'
<1> SUFFICES ASSUME RoomsIInv, [Room!Next]_roomVars PROVE RoomsNoneYet'
  OBVIOUS
<1>1. CASE UNCHANGED roomVars
  BY <1>1 DEF roomVars, RoomsIInv, RoomsNoneYet, Room!MakingFor, Room!Lists
<1>2. ASSUME NEW r \in Callers, NEW u \in Names, NEW v \in Names, Room!FindDM(r, u, v),
             Room!MakingFor(r)' = {u, v},
             \A q \in Callers \ {r} : Room!MakingFor(q)' = Room!MakingFor(q)
      PROVE  RoomsNoneYet'
  <2>1. /\ overlapped \subseteq overlapped' /\ UNCHANGED <<type, role>>
        /\ \A c \in Pair : type[c] = "direct" => ~ Room!Lists(c, {u, v})
    BY <1>2 DEF Room!FindDM, Room!GetDMConversation
  <2>2. QED
    BY <1>2, <2>1 DEF RoomsIInv, RoomsNoneYet, Room!Lists
<1>3. ASSUME Room!Next, overlapped' = overlapped,
             \A q \in Callers : Room!MakingFor(q)' \in {Room!MakingFor(q), {}}
      PROVE  RoomsNoneYet'
  <2> SUFFICES ASSUME NEW p \in Callers, NEW c \in Pair, type'[c] = "direct",
                      Room!MakingFor(p)' # {}, Room!Lists(c, Room!MakingFor(p))'
               PROVE  Room!MakingFor(p)' \in overlapped'
    BY DEF RoomsNoneYet
  <2>1. Room!MakingFor(p)' = Room!MakingFor(p) /\ Room!MakingFor(p) # {}
    BY <1>3
  <2>2. PICK P \in SUBSET Names : P = Room!MakingFor(p)
    BY <2>1, RoomsTwo
  <2>3. P # {} /\ \A u \in P : role'[c][u] # "none"
    BY <2>1, <2>2 DEF Room!Lists
  <2>4. CASE type[c] = "direct" /\ \A u \in P : role[c][u] # "none"
    BY <1>3, <2>1, <2>2, <2>4 DEF RoomsIInv, RoomsNoneYet, Room!Lists
  <2>5. CASE \E q \in Callers : Room!InsertDMMembers(q) /\ roomCall[q].id = c
    <3>1. PICK q \in Callers : Room!InsertDMMembers(q) /\ roomCall[q].id = c
      BY <2>5
    <3>2. q # p /\ Room!MakingFor(q) # {}
      BY <2>1, <3>1, RoomsInserted
    <3>3. P \subseteq Room!MakingFor(q)
      BY <2>3, <3>1, RoomsInserted
    <3>4. P = Room!MakingFor(q)
      BY <2>1, <2>2, <3>2, <3>3, RoomsTwo
    <3>5. QED
      BY <1>3, <2>1, <2>2, <3>2, <3>4 DEF RoomsIInv, RoomsOneMaker
  <2>6. QED
    BY <1>3, <2>3, <2>4, <2>5, RoomsListing
<1>4. QED
  BY <1>1, <1>2, <1>3, RoomsMaking

(* Two conversations list the same two users only after an overlap.        *)
LEMMA RoomsOneListedPreserved == RoomsIInv /\ [Room!Next]_roomVars => RoomsOneListed'
<1> SUFFICES ASSUME RoomsIInv, [Room!Next]_roomVars PROVE RoomsOneListed'
  OBVIOUS
<1>1. CASE UNCHANGED roomVars
  BY <1>1 DEF roomVars, RoomsIInv, RoomsOneListed, Room!Lists
<1>2. CASE Room!Next
  <2> SUFFICES ASSUME NEW c \in Pair, NEW d \in Pair, c # d,
                      type'[c] = "direct", type'[d] = "direct",
                      madeFor'[c] = madeFor'[d],
                      Room!Lists(c, madeFor[c])', Room!Lists(d, madeFor[d])'
               PROVE  madeFor'[c] \in overlapped'
    BY DEF RoomsOneListed
  <2>1. PICK P \in SUBSET Names :
            /\ P = madeFor'[c] /\ P = madeFor'[d] /\ P # {}
            /\ \A u \in P : role'[c][u] # "none" /\ role'[d][u] # "none"
    <3>1. RoomsPairs'
      BY RoomsPairsPreserved
    <3>2. PICK u \in Names, v \in Names : madeFor'[c] = {u, v}
      BY <3>1 DEF RoomsPairs
    <3>3. QED
      BY <3>2 DEF Room!Lists
  <2>2. overlapped \subseteq overlapped'
    BY <1>2, RoomsMaking DEF Room!FindDM
  <2>3. ASSUME NEW a \in Pair, NEW b \in Pair, NEW p \in Callers, a # b,
               Room!InsertDMMembers(p), roomCall[p].id = a, madeFor'[a] = P,
               type[b] = "direct", \A u \in P : role[b][u] # "none"
        PROVE  P \in overlapped'
    <3>1. Room!MakingFor(p) = P /\ Room!MakingFor(p) # {}
      BY <2>3, RoomsInserted
    <3>2. P \in overlapped
      BY <2>3, <3>1 DEF RoomsIInv, RoomsNoneYet, Room!Lists
    <3>3. QED
      BY <2>2, <3>2
  <2>4. \/ /\ type[c] = "direct" /\ madeFor'[c] = madeFor[c]
           /\ \A u \in P : role[c][u] # "none"
        \/ \E p \in Callers : Room!InsertDMMembers(p) /\ roomCall[p].id = c
    BY <1>2, <2>1, RoomsListing
  <2>5. \/ /\ type[d] = "direct" /\ madeFor'[d] = madeFor[d]
           /\ \A u \in P : role[d][u] # "none"
        \/ \E p \in Callers : Room!InsertDMMembers(p) /\ roomCall[p].id = d
    BY <1>2, <2>1, RoomsListing
  <2>6. ASSUME NEW p \in Callers, NEW q \in Callers, Room!InsertDMMembers(p), roomCall[p].id = c,
               Room!InsertDMMembers(q), roomCall[q].id = d
        PROVE  FALSE
    BY <2>6 DEF Room!InsertDMMembers, Room!Finish, Room!Idle, RoomsIInv, Room!TypeOK
  <2>7. CASE /\ type[c] = "direct" /\ madeFor'[c] = madeFor[c]
             /\ type[d] = "direct" /\ madeFor'[d] = madeFor[d]
             /\ \A u \in P : role[c][u] # "none" /\ role[d][u] # "none"
    BY <2>1, <2>2, <2>7 DEF RoomsIInv, RoomsOneListed, Room!Lists
  <2>8. QED
    BY <2>1, <2>3, <2>4, <2>5, <2>6, <2>7
<1>3. QED
  BY <1>1, <1>2

(* RoomsIInv is inductive.                                                 *)
LEMMA RoomsInvariance == Room!Spec => []RoomsIInv
<1>1. Room!Init => RoomsIInv
  BY DEF Room!Init, RoomsIInv, Room!TypeOK, Room!Calls, Room!Idle, Room!Roles, Room!MakingFor,
         RoomsUnused, RoomsHeld, RoomsDirect, RoomsPairs, RoomsOneMaker,
         RoomsNoneYet, RoomsOneListed
<1>2. RoomsIInv /\ [Room!Next]_roomVars => RoomsIInv'
  <2> SUFFICES ASSUME RoomsIInv, [Room!Next]_roomVars PROVE RoomsIInv'
    OBVIOUS
  <2>1. Room!TypeOK /\ RoomsUnused /\ RoomsHeld /\ RoomsDirect
    BY DEF RoomsIInv
  <2>2. Room!TypeOK' /\ RoomsUnused' /\ RoomsHeld' /\ RoomsDirect'
    BY <2>1, RoomsTypes, RoomsUnusedPreserved, RoomsHeldPreserved, RoomsDirectPreserved
  <2>3. RoomsPairs' /\ RoomsOneMaker' /\ RoomsNoneYet' /\ RoomsOneListed'
    BY RoomsPairsPreserved, RoomsOneMakerPreserved, RoomsNoneYetPreserved,
       RoomsOneListedPreserved
  <2>4. QED
    BY <2>2, <2>3 DEF RoomsIInv
<1>3. QED
  BY <1>1, <1>2, PTL DEF Room!Spec, Room!vars, roomVars

(* A direct conversation never lists a third user (DMStaysPrivate), for    *)
(* every set of users, conversations and callers.  Rooms.InsertMember      *)
THEOREM DirectPrivate == Room!Spec => []DMStaysPrivate
<1>1. RoomsIInv => DMStaysPrivate
  BY DEF RoomsIInv, Room!TypeOK, RoomsHeld, RoomsDirect, DMStaysPrivate, Room!DMStaysPrivate
<1>2. QED
  BY <1>1, RoomsInvariance, PTL

(* Only CreateDM calls of two users that overlap can leave the two with a  *)
(* second direct conversation (OneDMPerPair).  room_service.go:114         *)
THEOREM OneDirect == Room!Spec => []OneDMPerPair
<1>1. RoomsIInv => OneDMPerPair
  <2> SUFFICES ASSUME RoomsIInv, NEW c \in Pair, NEW d \in Pair, c # d,
                      type[c] = "direct", type[d] = "direct",
                      NEW u \in Names, NEW v \in Names, u # v,
                      Room!Lists(c, {u, v}), Room!Lists(d, {u, v})
               PROVE  madeFor[c] \in overlapped
    BY DEF OneDMPerPair, Room!OneDMPerPair
  <2>1. {u, v} \subseteq madeFor[c] /\ {u, v} \subseteq madeFor[d]
    BY DEF RoomsIInv, RoomsDirect, Room!Lists
  <2>2. madeFor[c] = {u, v} /\ madeFor[d] = {u, v}
    BY <2>1 DEF RoomsIInv, RoomsPairs
  <2>3. QED
    BY <2>2 DEF RoomsIInv, RoomsOneListed
<1>2. QED
  BY <1>1, RoomsInvariance, PTL

-----------------------------------------------------------------------------
(* Contacts.                                                               *)

(* A row is there because its user asked, accepted because the contact     *)
(* agreed too, and whoever agreed is in a row that says so.                *)
ContactsAgreed ==
    /\ \A r \in Contact!Pairs :
           /\ status[r] # "none" => r \in agreed
           /\ status[r] = "accepted" => Contact!Mirror(r) \in agreed
    /\ \A r \in agreed : status[r] # "none" \/ status[Contact!Mirror(r)] = "accepted"
    /\ \A p \in Callers :
           contactCall[p].step \in {"auto_accept", "accept"} => status[contactCall[p].row] # "none"

(* Both rows of two users are there only when both found none.             *)
ContactsCrossed ==
    /\ \A r \in Contact!Pairs :
           /\ r \in crossed => Contact!Mirror(r) \in crossed
           /\ status[r] # "none" /\ status[Contact!Mirror(r)] # "none" => r \in crossed
    /\ \A p \in Callers :
           contactCall[p].step = "create" /\ status[Contact!Mirror(contactCall[p].row)] # "none"
               => contactCall[p].row \in crossed

ContactsIInv == Contact!TypeOK /\ ContactsAgreed /\ ContactsCrossed

(* The mirror of a pair is the other pair of the two.                      *)
LEMMA Mirrors ==
  \A r \in Contact!Pairs :
      /\ Contact!Mirror(r) \in Contact!Pairs /\ Contact!Mirror(r) # r
      /\ Contact!Mirror(Contact!Mirror(r)) = r
BY DEF Contact!Pairs, Contact!Mirror

(* The contacts keep their types.                                          *)
LEMMA ContactsTypes ==
  Contact!TypeOK /\ [Contact!Next]_contactVars => Contact!TypeOK'
<1> SUFFICES ASSUME Contact!TypeOK, [Contact!Next]_contactVars PROVE Contact!TypeOK'
  OBVIOUS
<1> USE Mirrors DEF Contact!TypeOK, Contact!Calls, Contact!Idle, Contact!Goto, Contact!Finish
<1>1. ASSUME NEW p \in Callers, NEW r \in Contact!Pairs, Contact!StartSend(p, r) \/
             Contact!StartAccept(p, r)
      PROVE Contact!TypeOK'
  BY <1>1 DEF Contact!StartSend, Contact!StartAccept
<1>2. ASSUME NEW p \in Callers, Contact!GetContactPair(p) PROVE Contact!TypeOK'
  BY <1>2 DEF Contact!GetContactPair
<1>3. ASSUME NEW p \in Callers, Contact!CreateContactRequest(p) PROVE Contact!TypeOK'
  BY <1>3 DEF Contact!CreateContactRequest
<1>4. ASSUME NEW p \in Callers, Contact!GetContactRecord(p) PROVE Contact!TypeOK'
  BY <1>4 DEF Contact!GetContactRecord
<1>5. ASSUME NEW p \in Callers, Contact!UpdateContactStatus(p) PROVE Contact!TypeOK'
  BY <1>5 DEF Contact!UpdateContactStatus
<1>6. ASSUME NEW p \in Callers, Contact!Abort(p) PROVE Contact!TypeOK'
  BY <1>6 DEF Contact!Abort
<1>7. CASE UNCHANGED contactVars
  BY <1>7 DEF contactVars
<1>8. QED
  BY <1>1, <1>2, <1>3, <1>4, <1>5, <1>6, <1>7 DEF Contact!Next

(* Rows and agreements match.                                              *)
LEMMA ContactsAgreedPreserved ==
  Contact!TypeOK /\ ContactsAgreed /\ [Contact!Next]_contactVars => ContactsAgreed'
<1> SUFFICES ASSUME Contact!TypeOK /\ ContactsAgreed, [Contact!Next]_contactVars
             PROVE  ContactsAgreed'
  OBVIOUS
<1> USE Mirrors DEF Contact!TypeOK, Contact!Calls, Contact!Idle, Contact!Goto, Contact!Finish,
         ContactsAgreed
<1>1. ASSUME NEW p \in Callers, NEW r \in Contact!Pairs, Contact!StartSend(p, r) \/
             Contact!StartAccept(p, r)
      PROVE ContactsAgreed'
  BY <1>1 DEF Contact!StartSend, Contact!StartAccept
<1>2. ASSUME NEW p \in Callers, Contact!GetContactPair(p) PROVE ContactsAgreed'
  BY <1>2 DEF Contact!GetContactPair
<1>3. ASSUME NEW p \in Callers, Contact!CreateContactRequest(p) PROVE ContactsAgreed'
  BY <1>3 DEF Contact!CreateContactRequest
<1>4. ASSUME NEW p \in Callers, Contact!GetContactRecord(p) PROVE ContactsAgreed'
  BY <1>4 DEF Contact!GetContactRecord
<1>5. ASSUME NEW p \in Callers, Contact!UpdateContactStatus(p) PROVE ContactsAgreed'
  BY <1>5 DEF Contact!UpdateContactStatus
<1>6. ASSUME NEW p \in Callers, Contact!Abort(p) PROVE ContactsAgreed'
  BY <1>6 DEF Contact!Abort
<1>7. CASE UNCHANGED contactVars
  BY <1>7 DEF contactVars
<1>8. QED
  BY <1>1, <1>2, <1>3, <1>4, <1>5, <1>6, <1>7 DEF Contact!Next

(* A second row of two users comes from crossed requests.                  *)
LEMMA ContactsCrossedPreserved ==
  Contact!TypeOK /\ ContactsAgreed /\ ContactsCrossed /\ [Contact!Next]_contactVars
      => ContactsCrossed'
<1> SUFFICES ASSUME Contact!TypeOK /\ ContactsAgreed /\ ContactsCrossed,
                    [Contact!Next]_contactVars
             PROVE  ContactsCrossed'
  OBVIOUS
<1> USE Mirrors DEF Contact!TypeOK, Contact!Calls, Contact!Idle, Contact!Goto, Contact!Finish,
         ContactsAgreed, ContactsCrossed
<1>1. ASSUME NEW p \in Callers, NEW r \in Contact!Pairs, Contact!StartSend(p, r) \/
             Contact!StartAccept(p, r)
      PROVE ContactsCrossed'
  BY <1>1 DEF Contact!StartSend, Contact!StartAccept
<1>2. ASSUME NEW p \in Callers, Contact!GetContactPair(p) PROVE ContactsCrossed'
  BY <1>2 DEF Contact!GetContactPair
<1>3. ASSUME NEW p \in Callers, Contact!CreateContactRequest(p) PROVE ContactsCrossed'
  BY <1>3 DEF Contact!CreateContactRequest
<1>4. ASSUME NEW p \in Callers, Contact!GetContactRecord(p) PROVE ContactsCrossed'
  BY <1>4 DEF Contact!GetContactRecord
<1>5. ASSUME NEW p \in Callers, Contact!UpdateContactStatus(p) PROVE ContactsCrossed'
  BY <1>5 DEF Contact!UpdateContactStatus
<1>6. ASSUME NEW p \in Callers, Contact!Abort(p) PROVE ContactsCrossed'
  BY <1>6 DEF Contact!Abort
<1>7. CASE UNCHANGED contactVars
  BY <1>7 DEF contactVars
<1>8. QED
  BY <1>1, <1>2, <1>3, <1>4, <1>5, <1>6, <1>7 DEF Contact!Next

(* The cardinality Contacts takes is the one the theorems are about.       *)
LEMMA ContactsCardinality == \A S : Contact!Cardinality(S) = Cardinality(S)
BY DEF Contact!Cardinality, Cardinality

(* ContactsIInv is inductive.                                              *)
LEMMA ContactsInvariance == Contact!Spec => []ContactsIInv
<1>1. Contact!Init => ContactsIInv
  BY Mirrors DEF Contact!Init, Contact!TypeOK, Contact!Calls, Contact!Idle, ContactsIInv,
     ContactsAgreed, ContactsCrossed
<1>2. ContactsIInv /\ [Contact!Next]_contactVars => ContactsIInv'
  BY ContactsTypes, ContactsAgreedPreserved, ContactsCrossedPreserved DEF ContactsIInv
<1>3. QED
  BY <1>1, <1>2, PTL DEF Contact!Spec, Contact!vars, contactVars

(* Users are contacts only when both wanted it, and shown as such once, if *)
(* their requests did not cross (ContactsAreMutual), for every number of   *)
(* users and callers.                                 user_service.go:108  *)
THEOREM MutualContacts == Contact!Spec => []ContactsAreMutual
<1>1. ASSUME ContactsIInv PROVE ContactsAreMutual
  <2> SUFFICES ASSUME NEW r \in Contact!Pairs
               PROVE  LET u == r[1] v == r[2]
                      IN /\ Contact!Befriended(u, v) => {r, Contact!Mirror(r)} \subseteq agreed
                         /\ {r, Contact!Mirror(r)} \subseteq agreed /\ r \notin crossed =>
                                /\ Contact!Cardinality(
                                       {q \in Contact!FriendRows(u) : v \in {q[1], q[2]}}) = 1
                                /\ v \notin Contact!Incoming(u)
                                /\ "accepted" \in {Contact!SearchResult(u, v).outgoing,
                                                   Contact!SearchResult(u, v).incoming}
    BY Zenon DEF ContactsAreMutual, Contact!ContactsAreMutual
  <2> DEFINE m == Contact!Mirror(r)
             shared == {q \in Contact!FriendRows(r[1]) : r[2] \in {q[1], q[2]}}
  <2>1. /\ m \in Contact!Pairs /\ m # r /\ Contact!Mirror(m) = r
        /\ r = <<r[1], r[2]>> /\ m = <<r[2], r[1]>>
    BY Mirrors DEF Contact!Pairs, Contact!Mirror
  <2>2. \A q \in Contact!Pairs : r[1] \in {q[1], q[2]} /\ r[2] \in {q[1], q[2]} => q \in {r, m}
    BY DEF Contact!Pairs, Contact!Mirror
  <2>3. shared = {q \in {r, m} : status[q] = "accepted"}
    BY <2>1, <2>2 DEF Contact!FriendRows
  <2> HIDE DEF m
  <2>4. Contact!Befriended(r[1], r[2]) => {r, m} \subseteq agreed
    <3>1. Contact!Befriended(r[1], r[2]) => shared # {}
      BY DEF Contact!Befriended
    <3>2. QED
      BY <1>1, <2>1, <2>3, <3>1 DEF ContactsIInv, ContactsAgreed, m
  <2>5. ASSUME {r, m} \subseteq agreed, r \notin crossed
        PROVE  /\ Contact!Cardinality(shared) = 1
               /\ r[2] \notin Contact!Incoming(r[1])
               /\ "accepted" \in {Contact!SearchResult(r[1], r[2]).outgoing,
                                  Contact!SearchResult(r[1], r[2]).incoming}
    <3>1. \/ status[r] = "accepted" /\ status[m] = "none"
          \/ status[m] = "accepted" /\ status[r] = "none"
      BY <1>1, <2>1, <2>5 DEF ContactsIInv, ContactsAgreed, ContactsCrossed, Contact!TypeOK, m
    <3>2. shared = {r} \/ shared = {m}
      BY <2>1, <2>3, <3>1
    <3>3. Contact!Cardinality(shared) = 1
      BY <3>2, FS_Singleton, ContactsCardinality
    <3>4. r[2] \notin Contact!Incoming(r[1])
      BY <2>1, <3>1 DEF Contact!Incoming
    <3>5. QED
      BY <2>1, <3>1, <3>3, <3>4 DEF Contact!SearchResult
  <2>6. QED
    BY <2>4, <2>5 DEF m
<1>2. QED
  BY <1>1, ContactsInvariance, PTL

-----------------------------------------------------------------------------
(* Sessions.                                                               *)

TokenSteps == {"count", "oldest", "revoke", "revoke_failed", "delete", "set"}
UndoSteps == {"undo_session", "undo_row"}

(* A token belongs to one login until it is delivered; a token that may    *)
(* still be set is never delivered; a logout takes a delivered one away.   *)
SessionTokens ==
    /\ unsure \cap delivered = {}
    /\ \A p \in Callers :
           /\ loginCall[p].step \in TokenSteps \cup UndoSteps =>
                  loginCall[p].jti \in issued \ delivered
           /\ loginCall[p].step \in TokenSteps => loginCall[p].jti \notin unsure
           /\ loginCall[p].step \in Login!LogoutSteps => loginCall[p].jti \in delivered
           /\ loginCall[p].step = "logout_row" => loginCall[p].jti \notin live
    /\ \A p, q \in Callers :
           /\ p # q
           /\ loginCall[p].step \in TokenSteps \cup UndoSteps
           /\ loginCall[q].step \in TokenSteps \cup UndoSteps
           => loginCall[p].jti # loginCall[q].jti

(* Of two logins in progress each is marked, and each has its device.      *)
SessionOverlap ==
    \A p \in Callers : Login!LoggingIn(p) =>
        /\ loginCall[p].device \in Pair
        /\ \A q \in Callers \ {p} : Login!LoggingIn(q) => p \in contended

(* No two rows carry one token.                                            *)
SessionRows ==
    /\ \A d \in Pair : rows[d] \in issued \cup {None}
    /\ \A d, e \in Pair : d # e /\ rows[d] = rows[e] => rows[d] = None

(* A sequence that has each of the devices D once.                         *)
Ordered(s, D) == s \in Seq(Pair) /\ Login!IsInjective(s) /\ Login!ToSet(s) = D

SessionOrder == Ordered(recent, {d \in Pair : rows[d] # None})

(* A token that lets its client in, but not by a race.                     *)
Accepting(j) == j \in live /\ j \in delivered /\ j \notin raced

(* The row a login is about to overwrite lets nobody in, or is about to be *)
(* revoked.                                                                *)
SessionLookup ==
    \A p \in Callers :
        /\ loginCall[p].step = "revoke_old" /\ Accepting(rows[loginCall[p].device])
               => rows[loginCall[p].device] \in loginCall[p].targets
        /\ loginCall[p].step = "upsert" => ~ Accepting(rows[loginCall[p].device])

(* A login that nothing overlapped finds its row where it put it, in front *)
(* of all others, and the rows it deletes let nobody in.                   *)
SessionOwn ==
    \A p \in Callers \ contended : loginCall[p].step \in TokenSteps =>
        /\ rows[loginCall[p].device] = loginCall[p].jti
        /\ Len(recent) >= 1 /\ recent[1] = loginCall[p].device

SessionEvict ==
    \A p \in Callers \ contended, d \in Login!BeyondLimit : Accepting(rows[d]) =>
        /\ loginCall[p].step = "revoke" => rows[d] \in loginCall[p].targets
        /\ loginCall[p].step # "delete"

(* The devices whose token lets its client in are at most MaxDevices, and  *)
(* one fewer, its own device aside, when such a login sets its session.    *)
Good == {d \in Pair : Accepting(rows[d])}

SessionLimit ==
    /\ Cardinality(Good) <= MaxDevices
    /\ \A p \in Callers \ contended : loginCall[p].step = "set" =>
           Cardinality(Good \cup {loginCall[p].device}) <= MaxDevices

SessionIInv ==
    /\ Login!TypeOK /\ SessionTokens /\ LogoutIsFinal /\ SessionOverlap
    /\ SessionRows /\ SessionOrder /\ SessionLookup /\ SessionOwn /\ SessionEvict
    /\ UnlistedOnlyByRace /\ SessionLimit

(* Removing a device from the order keeps the others, nearer to the front. *)
LEMMA Removed ==
  ASSUME NEW s \in Seq(Pair), NEW n \in 1 .. Len(s)
  PROVE  LET t == Login!RemoveAt(s, n)
         IN /\ t \in Seq(Pair) /\ Len(t) = Len(s) - 1
            /\ \A i \in 1 .. (Len(s) - 1) : t[i] = IF i < n THEN s[i] ELSE s[i + 1]
<1> DEFINE a == SubSeq(s, 1, n - 1)
           b == SubSeq(s, n + 1, Len(s))
<1>1. /\ a \in Seq(Pair) /\ Len(a) = n - 1
      /\ \A i \in 1 .. (n - 1) : a[i] = s[i]
  OBVIOUS
<1>2. /\ b \in Seq(Pair) /\ Len(b) = Len(s) - n
      /\ \A i \in 1 .. (Len(s) - n) : b[i] = s[n + i]
  OBVIOUS
<1>3. Login!RemoveAt(s, n) = a \o b
  BY DEF Login!RemoveAt
<1> HIDE DEF a, b
<1>4. /\ a \o b \in Seq(Pair) /\ Len(a \o b) = Len(s) - 1
      /\ \A i \in 1 .. (Len(s) - 1) :
             (a \o b)[i] = IF i <= n - 1 THEN a[i] ELSE b[i - (n - 1)]
  <2>1. a \o b \in Seq(Pair) /\ Len(a \o b) = Len(a) + Len(b)
    <3>1. \A x, y \in Seq(Pair) : x \o y \in Seq(Pair) /\ Len(x \o y) = Len(x) + Len(y)
      OBVIOUS
    <3>2. QED
      BY <1>1, <1>2, <3>1
  <2>2. \A i \in 1 .. (Len(a) + Len(b)) : (a \o b)[i] = IF i <= Len(a) THEN a[i] ELSE b[i - Len(a)]
    BY <1>1, <1>2
  <2>3. Len(a) + Len(b) = Len(s) - 1
    BY <1>1, <1>2
  <2>4. QED
    BY <1>1, <2>1, <2>2, <2>3
<1>5. \A i \in 1 .. (Len(s) - 1) : i >= n => b[i - (n - 1)] = s[i + 1]
  <2> SUFFICES ASSUME NEW i \in 1 .. (Len(s) - 1), i >= n PROVE b[i - (n - 1)] = s[i + 1]
    OBVIOUS
  <2>1. i - (n - 1) \in 1 .. (Len(s) - n) /\ n + (i - (n - 1)) = i + 1
    OBVIOUS
  <2>2. QED
    BY <1>2, <2>1
<1>6. \A i \in 1 .. (Len(s) - 1) : i < n => i <= n - 1 /\ i \in 1 .. (n - 1)
  OBVIOUS
<1>7. QED
  BY <1>1, <1>3, <1>4, <1>5, <1>6

(* Putting a device into the order moves those behind it back by one.      *)
LEMMA Inserted ==
  ASSUME NEW s \in Seq(Pair), NEW n \in 1 .. (Len(s) + 1), NEW d \in Pair
  PROVE  LET t == Login!InsertAt(s, n, d)
         IN /\ t \in Seq(Pair) /\ Len(t) = Len(s) + 1
            /\ \A i \in 1 .. (Len(s) + 1) :
                   t[i] = IF i < n THEN s[i] ELSE IF i = n THEN d ELSE s[i - 1]
<1> DEFINE a == SubSeq(s, 1, n - 1)
           b == SubSeq(s, n, Len(s))
<1>1. /\ a \in Seq(Pair) /\ Len(a) = n - 1
      /\ \A i \in 1 .. (n - 1) : a[i] = s[i]
  OBVIOUS
<1>2. /\ b \in Seq(Pair) /\ Len(b) = Len(s) - n + 1
      /\ \A i \in 1 .. (Len(s) - n + 1) : b[i] = s[n + i - 1]
  OBVIOUS
<1>3. Login!InsertAt(s, n, d) = a \o <<d>> \o b
  BY DEF Login!InsertAt
<1> HIDE DEF a, b
<1>4. /\ a \o <<d>> \in Seq(Pair) /\ Len(a \o <<d>>) = n
      /\ \A i \in 1 .. n : (a \o <<d>>)[i] = IF i < n THEN a[i] ELSE d
  BY <1>1
<1>5. /\ a \o <<d>> \o b \in Seq(Pair) /\ Len(a \o <<d>> \o b) = Len(s) + 1
      /\ \A i \in 1 .. (Len(s) + 1) :
             (a \o <<d>> \o b)[i] = IF i <= n THEN (a \o <<d>>)[i] ELSE b[i - n]
  BY <1>2, <1>4
<1>6. QED
  BY <1>1, <1>2, <1>3, <1>4, <1>5

(* Removing a device leaves the others, each once.                         *)
LEMMA RemovedOrdered ==
  ASSUME NEW s, NEW D, Ordered(s, D), NEW n \in 1 .. Len(s)
  PROVE  Ordered(Login!RemoveAt(s, n), D \ {s[n]})
<1> DEFINE t == Login!RemoveAt(s, n)
<1>1. /\ t \in Seq(Pair) /\ Len(t) = Len(s) - 1
      /\ \A i \in 1 .. (Len(s) - 1) : t[i] = IF i < n THEN s[i] ELSE s[i + 1]
  BY Removed DEF Ordered
<1>2. s \in Seq(Pair) /\ DOMAIN s = 1 .. Len(s) /\ DOMAIN t = 1 .. (Len(s) - 1)
  BY <1>1 DEF Ordered
<1>3. /\ \A i, k \in 1 .. Len(s) : s[i] = s[k] => i = k
      /\ D = {s[i] : i \in 1 .. Len(s)}
  BY <1>2 DEF Ordered, Login!IsInjective, Login!ToSet
<1> HIDE DEF t
<1>4. Login!IsInjective(t)
  <2>1. ASSUME NEW i \in 1 .. (Len(s) - 1), NEW k \in 1 .. (Len(s) - 1), t[i] = t[k] PROVE i = k
    BY <1>1, <1>2, <1>3, <2>1
  <2>2. QED
    BY <1>2, <2>1 DEF Login!IsInjective
<1>5. Login!ToSet(t) = D \ {s[n]}
  <2>1. ASSUME NEW i \in 1 .. (Len(s) - 1) PROVE t[i] \in D \ {s[n]}
    BY <1>1, <1>2, <1>3
  <2>2. ASSUME NEW d \in D \ {s[n]} PROVE \E i \in 1 .. (Len(s) - 1) : t[i] = d
    <3>1. PICK i \in 1 .. Len(s) : s[i] = d /\ i # n
      BY <1>3
    <3>2. CASE i < n
      BY <1>1, <1>2, <3>1, <3>2
    <3>3. CASE i > n
      <4>1. i - 1 \in 1 .. (Len(s) - 1) /\ ~ (i - 1 < n) /\ (i - 1) + 1 = i
        BY <1>2, <3>3
      <4>2. QED
        BY <1>1, <3>1, <4>1
    <3>4. QED
      BY <1>2, <3>1, <3>2, <3>3
  <2>3. QED
    BY <1>2, <2>1, <2>2 DEF Login!ToSet
<1>6. QED
  BY <1>1, <1>4, <1>5 DEF Ordered, t

(* Without removes the only place of a device, if it has one.              *)
LEMMA WithoutOne ==
  ASSUME NEW s, NEW D, Ordered(s, D), NEW d
  PROVE  \/ d \notin D /\ Login!Without(s, d) = s
         \/ \E n \in 1 .. Len(s) : s[n] = d /\ Login!Without(s, d) = Login!RemoveAt(s, n)
<1> DEFINE at == {i \in DOMAIN s : s[i] = d}
<1>1. DOMAIN s = 1 .. Len(s) /\ D = {s[i] : i \in 1 .. Len(s)}
  BY DEF Ordered, Login!ToSet
<1>2. Login!Without(s, d) = IF at = {} THEN s ELSE Login!RemoveAt(s, CHOOSE i \in at : TRUE)
  BY DEF Login!Without
<1>3. at # {} => (CHOOSE i \in at : TRUE) \in at
  OBVIOUS
<1>4. QED
  BY <1>1, <1>2, <1>3

(* Taking a device out leaves the others, each once.                       *)
LEMMA WithoutOrdered ==
  ASSUME NEW s, NEW D, Ordered(s, D), NEW d
  PROVE  Ordered(Login!Without(s, d), D \ {d})
<1>1. CASE d \notin D /\ Login!Without(s, d) = s
  <2>1. D \ {d} = D
    BY <1>1
  <2>2. QED
    BY <1>1, <2>1
<1>2. CASE \E n \in 1 .. Len(s) : s[n] = d /\ Login!Without(s, d) = Login!RemoveAt(s, n)
  BY <1>2, RemovedOrdered
<1>3. QED
  BY <1>1, <1>2, WithoutOne

(* A device that is not in the order may be put anywhere in it.            *)
LEMMA InsertedOrdered ==
  ASSUME NEW s, NEW D, Ordered(s, D), NEW n \in 1 .. (Len(s) + 1), NEW d \in Pair \ D
  PROVE  Ordered(Login!InsertAt(s, n, d), D \cup {d})
<1> DEFINE t == Login!InsertAt(s, n, d)
<1>1. /\ t \in Seq(Pair) /\ Len(t) = Len(s) + 1
      /\ \A i \in 1 .. (Len(s) + 1) :
             t[i] = IF i < n THEN s[i] ELSE IF i = n THEN d ELSE s[i - 1]
  BY Inserted DEF Ordered
<1>2. s \in Seq(Pair) /\ DOMAIN s = 1 .. Len(s) /\ DOMAIN t = 1 .. (Len(s) + 1)
  BY <1>1 DEF Ordered
<1>3. /\ \A i, k \in 1 .. Len(s) : s[i] = s[k] => i = k
      /\ D = {s[i] : i \in 1 .. Len(s)}
  BY <1>2 DEF Ordered, Login!IsInjective, Login!ToSet
<1> HIDE DEF t
<1>4. \A i \in 1 .. (Len(s) + 1) :
          /\ i < n => i \in 1 .. Len(s) /\ t[i] = s[i] /\ s[i] \in D
          /\ i > n => i - 1 \in 1 .. Len(s) /\ t[i] = s[i - 1] /\ s[i - 1] \in D
          /\ i = n => t[i] = d
  BY <1>1, <1>2, <1>3
<1>5. Login!IsInjective(t)
  <2>1. ASSUME NEW i \in 1 .. (Len(s) + 1), NEW k \in 1 .. (Len(s) + 1), t[i] = t[k] PROVE i = k
    BY <1>2, <1>3, <1>4, <2>1
  <2>2. QED
    BY <1>2, <2>1 DEF Login!IsInjective
<1>6. Login!ToSet(t) = D \cup {d}
  <2>1. ASSUME NEW i \in 1 .. (Len(s) + 1) PROVE t[i] \in D \cup {d}
    BY <1>2, <1>4
  <2>2. ASSUME NEW e \in D PROVE \E i \in 1 .. (Len(s) + 1) : t[i] = e
    <3>1. PICK i \in 1 .. Len(s) : s[i] = e
      BY <1>3
    <3>2. CASE i < n
      BY <1>2, <1>4, <3>1, <3>2
    <3>3. CASE i >= n
      <4>1. i + 1 \in 1 .. (Len(s) + 1) /\ i + 1 > n /\ (i + 1) - 1 = i
        BY <1>2, <3>3
      <4>2. QED
        BY <1>4, <3>1, <4>1
    <3>4. QED
      BY <1>2, <3>2, <3>3
  <2>3. t[n] = d /\ n \in 1 .. (Len(s) + 1)
    BY <1>4
  <2>4. QED
    BY <1>2, <2>1, <2>2, <2>3 DEF Login!ToSet
<1>7. QED
  BY <1>1, <1>5, <1>6 DEF Ordered, t

(* The first devices of an order.                                          *)
LEMMA PrefixOrdered ==
  ASSUME NEW s, NEW D, Ordered(s, D), NEW n \in 0 .. Len(s)
  PROVE  Ordered(SubSeq(s, 1, n), D \ {s[i] : i \in (n + 1) .. Len(s)})
<1> DEFINE t == SubSeq(s, 1, n)
<1>1. s \in Seq(Pair) /\ DOMAIN s = 1 .. Len(s) /\ Len(s) \in Nat
  BY DEF Ordered
<1>2. t \in Seq(Pair) /\ Len(t) = n /\ DOMAIN t = 1 .. n /\ \A i \in 1 .. n : t[i] = s[i]
  BY <1>1
<1>3. /\ \A i, k \in 1 .. Len(s) : s[i] = s[k] => i = k
      /\ D = {s[i] : i \in 1 .. Len(s)}
  BY <1>1 DEF Ordered, Login!IsInjective, Login!ToSet
<1> HIDE DEF t
<1>4. Login!IsInjective(t)
  BY <1>1, <1>2, <1>3 DEF Login!IsInjective
<1>5. Login!ToSet(t) = {s[i] : i \in 1 .. n}
  BY <1>2 DEF Login!ToSet
<1>6. {s[i] : i \in 1 .. n} = D \ {s[i] : i \in (n + 1) .. Len(s)}
  BY <1>1, <1>3
<1>7. QED
  BY <1>2, <1>4, <1>5, <1>6 DEF Ordered, t

(* Taking a device out moves the others forward, and the first stays first *)
(* unless it is taken out itself.                                          *)
LEMMA WithoutMoves ==
  ASSUME NEW s, NEW D, Ordered(s, D), NEW d
  PROVE  LET t == Login!Without(s, d)
         IN /\ Len(t) \in Nat /\ Len(t) <= Len(s)
            /\ \A i \in 1 .. Len(t) : \E k \in i .. Len(s) : t[i] = s[k]
            /\ Len(s) >= 1 /\ s[1] # d => Len(t) >= 1 /\ t[1] = s[1]
<1>1. CASE Login!Without(s, d) = s
  BY <1>1 DEF Ordered
<1>2. ASSUME NEW n \in 1 .. Len(s), s[n] = d, Login!Without(s, d) = Login!RemoveAt(s, n)
      PROVE  LET t == Login!Without(s, d)
             IN /\ Len(t) \in Nat /\ Len(t) <= Len(s)
                /\ \A i \in 1 .. Len(t) : \E k \in i .. Len(s) : t[i] = s[k]
                /\ Len(s) >= 1 /\ s[1] # d => Len(t) >= 1 /\ t[1] = s[1]
  <2> DEFINE t == Login!RemoveAt(s, n)
  <2>1. /\ Len(s) \in Nat /\ Len(t) = Len(s) - 1
        /\ \A i \in 1 .. (Len(s) - 1) : t[i] = IF i < n THEN s[i] ELSE s[i + 1]
    BY Removed DEF Ordered
  <2> HIDE DEF t
  <2>2. ASSUME NEW i \in 1 .. Len(t) PROVE \E k \in i .. Len(s) : t[i] = s[k]
    BY <2>1
  <2>3. s[1] # d => Len(t) >= 1 /\ t[1] = s[1]
    BY <1>2, <2>1
  <2>4. QED
    BY <1>2, <2>1, <2>2, <2>3 DEF t
<1>3. QED
  BY <1>1, <1>2, WithoutOne

(* The types but that of the order.                                        *)
SessionFields ==
    /\ rows \in [Pair -> Names \cup {None}]
    /\ live \in SUBSET issued /\ unsure \in SUBSET issued /\ issued \in SUBSET Names
    /\ loginCall \in [Callers -> Login!Calls]
    /\ delivered \in SUBSET issued /\ closed \in SUBSET delivered
    /\ contended \in SUBSET Callers /\ raced \in SUBSET issued

(* The rows beyond the limit are rows.                                     *)
LEMMA Beyond ==
  ASSUME SessionFields, SessionOrder
  PROVE  /\ Login!WithinLimit \in 0 .. Len(recent) /\ Len(recent) \in Nat
         /\ Login!BeyondLimit \subseteq {d \in Pair : rows[d] # None}
         /\ \A d \in Login!BeyondLimit : rows[d] \in Names
<1>1. /\ Login!WithinLimit \in 0 .. Len(recent) /\ Len(recent) \in Nat
      /\ \A i \in 1 .. Len(recent) : recent[i] \in {d \in Pair : rows[d] # None}
  BY BoundsAssumption DEF Login!WithinLimit, SessionOrder, Ordered, Login!ToSet
<1>2. Login!BeyondLimit \subseteq {d \in Pair : rows[d] # None}
  BY <1>1 DEF Login!BeyondLimit
<1>3. QED
  BY <1>1, <1>2 DEF SessionFields

(* The rows a statement deletes leave the order too.                       *)
LEMMA DeleteByJTIOrdered ==
  ASSUME Login!TypeOK, SessionOrder, NEW j, Login!DeleteByJTI(j)
  PROVE  SessionOrder'
<1> DEFINE D == {d \in Pair : rows[d] # None}
<1>1. CASE UNCHANGED <<rows, recent>>
  BY <1>1 DEF SessionOrder
<1>2. ASSUME NEW d \in Pair, rows' = [rows EXCEPT ![d] = None], recent' = Login!Without(recent, d)
      PROVE  SessionOrder'
  <2>1. Ordered(recent', D \ {d})
    BY <1>2, WithoutOrdered DEF SessionOrder
  <2>2. {e \in Pair : rows'[e] # None} = D \ {d}
    BY <1>2 DEF Login!TypeOK
  <2> HIDE DEF D
  <2>3. QED
    BY <2>1, <2>2 DEF SessionOrder
<1>3. QED
  BY <1>1, <1>2 DEF Login!DeleteByJTI

(* The order lists the devices that have a row, each once.                 *)
LEMMA SessionOrderPreserved ==
  Login!TypeOK /\ SessionOverlap /\ SessionOrder /\ [Login!Next]_sessionVars => SessionOrder'
<1> SUFFICES ASSUME Login!TypeOK /\ SessionOverlap /\ SessionOrder, [Login!Next]_sessionVars
             PROVE  SessionOrder'
  OBVIOUS
<1>1. ASSUME NEW p \in Callers, NEW d \in Pair, Login!StartLogin(p, d) PROVE SessionOrder'
  BY <1>1 DEF Login!StartLogin, Login!stores, Login!history, SessionOrder
<1>2. ASSUME NEW p \in Callers, Login!GetJTIByUserAndDevice(p) \/ Login!RevokeOld(p) \/
             Login!CountByUserID(p) \/ Login!GetOldest(p) \/ Login!RevokeEvicted(p) \/
             Login!SetSession(p) \/ Login!SetSessionFails(p) \/ Login!UndoSession(p) \/
             Login!LogoutSession(p) \/ Login!Abort(p)
      PROVE SessionOrder'
  BY <1>2 DEF Login!GetJTIByUserAndDevice, Login!RevokeOld, Login!CountByUserID,
     Login!GetOldest, Login!RevokeEvicted, Login!SetSession, Login!SetSessionFails,
     Login!UndoSession, Login!LogoutSession, Login!Abort, Login!stores, Login!history,
     SessionOrder
<1>3. ASSUME NEW p \in Callers, Login!Upsert(p) PROVE SessionOrder'
  <2> DEFINE d == loginCall[p].device
             D == {e \in Pair : rows[e] # None}
             others == Login!Without(recent, d)
  <2>1. d \in Pair
    BY <1>3 DEF Login!Upsert, SessionOverlap, Login!LoggingIn, Login!LoginSteps
  <2>2. Ordered(others, D \ {d}) /\ Len(others) \in Nat
    BY WithoutOrdered DEF SessionOrder, Ordered
  <2>3. PICK j \in Names, k \in 1 .. (Len(others) + 1) :
            rows' = [rows EXCEPT ![d] = j] /\ recent' = Login!InsertAt(others, k, d)
    <3>1. PICK j \in Names : Login!UpsertRow(p, j)
      BY <1>3 DEF Login!Upsert
    <3>2. /\ rows' = [rows EXCEPT ![d] = j]
          /\ \E k \in 1 .. (IF p \in contended THEN Len(others) + 1 ELSE 1) :
                 recent' = Login!InsertAt(others, k, d)
      BY <3>1 DEF Login!UpsertRow
    <3>3. 1 .. (IF p \in contended THEN Len(others) + 1 ELSE 1) \subseteq 1 .. (Len(others) + 1)
      BY <2>2
    <3> HIDE DEF d, others
    <3>4. QED
      BY <3>2, <3>3
  <2> HIDE DEF others
  <2>4. Ordered(recent', (D \ {d}) \cup {d})
    BY <2>1, <2>2, <2>3, InsertedOrdered
  <2>5. {e \in Pair : rows'[e] # None} = (D \ {d}) \cup {d}
    BY <2>1, <2>3, NoneAssumption DEF Login!TypeOK
  <2> HIDE DEF D
  <2>6. QED
    BY <2>4, <2>5 DEF SessionOrder
<1>4. ASSUME NEW p \in Callers, Login!DeleteOldest(p) PROVE SessionOrder'
  <2>1. CASE UNCHANGED <<rows, recent>>
    BY <2>1 DEF SessionOrder
  <2>2. CASE Login!DeleteOldestBeyondLimit
    <3> DEFINE D == {e \in Pair : rows[e] # None}
               n == Login!WithinLimit
    <3>1. n \in 0 .. Len(recent) /\ recent' = SubSeq(recent, 1, n)
      BY <2>2, BoundsAssumption DEF Login!DeleteOldestBeyondLimit, Login!WithinLimit,
         SessionOrder, Ordered
    <3>2. Ordered(recent', D \ {recent[i] : i \in (n + 1) .. Len(recent)})
      BY <3>1, PrefixOrdered DEF SessionOrder
    <3>3. {e \in Pair : rows'[e] # None} = D \ {recent[i] : i \in (n + 1) .. Len(recent)}
      BY <2>2 DEF Login!DeleteOldestBeyondLimit, Login!BeyondLimit
    <3> HIDE DEF D, n
    <3>4. QED
      BY <3>2, <3>3 DEF SessionOrder
  <2>3. QED
    BY <1>4, <2>1, <2>2 DEF Login!DeleteOldest
<1>5. ASSUME NEW p \in Callers, Login!UndoRow(p) \/ Login!LogoutRow(p) PROVE SessionOrder'
  BY <1>5, DeleteByJTIOrdered DEF Login!UndoRow, Login!LogoutRow, SessionOrder
<1>6. ASSUME NEW p \in Callers, NEW j \in Names, Login!StartLogout(p, j) PROVE SessionOrder'
  BY <1>6 DEF Login!StartLogout, Login!stores, Login!history, SessionOrder
<1>7. ASSUME NEW j \in Names, Login!UpdateLastUsed(j) PROVE SessionOrder'
  <2> DEFINE D == {e \in Pair : rows[e] # None}
  <2>1. PICK i \in 1 .. Len(recent), k \in 1 .. Len(recent) :
            /\ k < i /\ recent' = Login!InsertAt(Login!RemoveAt(recent, i), k, recent[i])
            /\ rows' = rows
    BY <1>7 DEF Login!UpdateLastUsed, SessionOrder, Ordered
  <2> DEFINE others == Login!RemoveAt(recent, i)
  <2>2. Ordered(others, D \ {recent[i]}) /\ Len(others) = Len(recent) - 1 /\ Len(recent) \in Nat
    <3>1. Ordered(others, D \ {recent[i]})
      BY RemovedOrdered DEF SessionOrder
    <3>2. recent \in Seq(Pair)
      BY DEF SessionOrder, Ordered
    <3>3. QED
      BY <3>1, <3>2, Removed
  <2>3. recent[i] \in D /\ recent[i] \in Pair
    BY DEF SessionOrder, Ordered, Login!ToSet
  <2> HIDE DEF others
  <2>4. k \in 1 .. (Len(others) + 1)
    BY <2>1, <2>2
  <2>5. Ordered(recent', (D \ {recent[i]}) \cup {recent[i]})
    BY <2>1, <2>2, <2>3, <2>4, InsertedOrdered DEF others
  <2>6. D = (D \ {recent[i]}) \cup {recent[i]} /\ {e \in Pair : rows'[e] # None} = D
    BY <2>1, <2>3
  <2> HIDE DEF D
  <2>7. QED
    BY <2>5, <2>6 DEF SessionOrder
<1>8. ASSUME NEW j \in Names, Login!ExpireSession(j) \/ Login!LateSet(j) PROVE SessionOrder'
  BY <1>8 DEF Login!ExpireSession, Login!LateSet, Login!stores, Login!history, SessionOrder
<1>9. CASE UNCHANGED sessionVars
  BY <1>9 DEF sessionVars, SessionOrder
<1>10. QED
  BY <1>1, <1>2, <1>3, <1>4, <1>5, <1>6, <1>7, <1>8, <1>9 DEF Login!Next, Login!Login,
     Login!Logout

(* The sessions keep their types.                                          *)
LEMMA SessionFieldsPreserved ==
  SessionFields /\ SessionTokens /\ SessionRows /\ SessionOrder /\ [Login!Next]_sessionVars
      => SessionFields'
<1> SUFFICES ASSUME SessionFields /\ SessionTokens /\ SessionRows /\ SessionOrder,
                    [Login!Next]_sessionVars
             PROVE  SessionFields'
  OBVIOUS
<1> USE NoneAssumption DEF SessionFields, Login!Calls, Login!LoginSteps, Login!LogoutSteps,
         Login!Idle, Login!Goto, Login!Finish
<1>1. ASSUME NEW p \in Callers, NEW d \in Pair, Login!StartLogin(p, d) PROVE SessionFields'
  BY <1>1 DEF Login!StartLogin, Login!stores, Login!history, Login!Overlap, Login!LoggingIn
<1>2. ASSUME NEW p \in Callers, Login!GetJTIByUserAndDevice(p) \/ Login!RevokeOld(p) \/
             Login!CountByUserID(p)
      PROVE SessionFields'
  BY <1>2 DEF Login!GetJTIByUserAndDevice, Login!RevokeOld, Login!CountByUserID, Login!stores,
     Login!history
<1>3. ASSUME NEW p \in Callers, Login!RevokeEvicted(p) PROVE SessionFields'
  BY <1>3 DEF Login!RevokeEvicted, Login!stores, Login!history
<1>4. ASSUME NEW p \in Callers, Login!Upsert(p) PROVE SessionFields'
  <2>1. PICK j \in Names \ issued :
            /\ issued' = issued \cup {j} /\ rows' = [rows EXCEPT ![loginCall[p].device] = j]
            /\ loginCall' = [loginCall EXCEPT ![p].step = "count", ![p].jti = j]
    BY <1>4 DEF Login!Upsert, Login!UpsertRow
  <2> DEFINE r == [loginCall[p] EXCEPT !.step = "count", !.jti = j]
  <2>2. r \in Login!Calls
    BY <2>1
  <2>3. loginCall' = [loginCall EXCEPT ![p] = r]
    BY <2>1
  <2> HIDE DEF r
  <2>4. loginCall' \in [Callers -> Login!Calls]
    BY <2>2, <2>3
  <2>5. rows' \in [Pair -> Names \cup {None}]
    BY <2>1
  <2>6. QED
    BY <1>4, <2>1, <2>4, <2>5 DEF Login!Upsert, Login!history
<1>5. ASSUME NEW p \in Callers, Login!GetOldest(p) PROVE SessionFields'
  <2> DEFINE T == {rows[d] : d \in Login!BeyondLimit}
             s == IF T = {} THEN "delete" ELSE "revoke"
             r == [loginCall[p] EXCEPT !.step = s, !.targets = T]
  <2>1. T \in SUBSET Names
    BY Beyond
  <2>2. loginCall' = [loginCall EXCEPT ![p] = r]
    BY <1>5 DEF Login!GetOldest
  <2>3. s \in Login!LoginSteps
    BY DEF Login!LoginSteps
  <2> HIDE DEF T, s
  <2>4. r \in Login!Calls
    BY <2>1, <2>3
  <2> HIDE DEF r
  <2>5. loginCall' \in [Callers -> Login!Calls]
    BY <2>2, <2>4
  <2>6. QED
    BY <1>5, <2>5 DEF Login!GetOldest, Login!stores, Login!history
<1>6. ASSUME NEW p \in Callers, Login!DeleteOldest(p) PROVE SessionFields'
  <2>1. \A d \in Login!BeyondLimit : d \in Pair /\ rows[d] \in issued \cup {None}
    BY Beyond DEF SessionRows
  <2>2. QED
    BY <1>6, <2>1 DEF Login!DeleteOldest, Login!DeleteOldestBeyondLimit, Login!stores,
       Login!history
<1>7. ASSUME NEW p \in Callers, Login!SetSession(p) PROVE SessionFields'
  BY <1>7 DEF Login!SetSession, Login!stores, Login!history, SessionTokens, TokenSteps
<1>8. ASSUME NEW p \in Callers, Login!SetSessionFails(p) PROVE SessionFields'
  BY <1>8 DEF Login!SetSessionFails, Login!stores, Login!history, SessionTokens, TokenSteps,
     UndoSteps
<1>9. ASSUME NEW p \in Callers, Login!UndoSession(p) PROVE SessionFields'
  BY <1>9 DEF Login!UndoSession, Login!stores, Login!history
<1>10. ASSUME NEW p \in Callers, Login!UndoRow(p) \/ Login!LogoutRow(p) PROVE SessionFields'
  BY <1>10 DEF Login!UndoRow, Login!LogoutRow, Login!stores, Login!history, Login!DeleteByJTI,
     SessionTokens
<1>11. ASSUME NEW p \in Callers, Login!LogoutSession(p) \/ Login!Abort(p) PROVE SessionFields'
  BY <1>11 DEF Login!LogoutSession, Login!Abort, Login!stores, Login!history
<1>12. ASSUME NEW p \in Callers, NEW j \in Names, Login!StartLogout(p, j) PROVE SessionFields'
  BY <1>12 DEF Login!StartLogout, Login!stores, Login!history
<1>13. ASSUME NEW j \in Names, Login!UpdateLastUsed(j) PROVE SessionFields'
  BY <1>13 DEF Login!UpdateLastUsed, Login!stores, Login!history
<1>14. ASSUME NEW j \in Names, Login!ExpireSession(j) \/ Login!LateSet(j) PROVE SessionFields'
  BY <1>14 DEF Login!ExpireSession, Login!LateSet, Login!stores, Login!history
<1>15. CASE UNCHANGED sessionVars
  BY <1>15 DEF sessionVars
<1>16. QED
  BY <1>1, <1>2, <1>3, <1>4, <1>5, <1>6, <1>7, <1>8, <1>9, <1>10, <1>11, <1>12, <1>13, <1>14,
     <1>15 DEF Login!Next, Login!Login, Login!Logout

(* A token keeps its owner.                                                *)
LEMMA SessionTokensPreserved ==
  SessionFields /\ SessionTokens /\ [Login!Next]_sessionVars => SessionTokens'
<1> SUFFICES ASSUME SessionFields /\ SessionTokens, [Login!Next]_sessionVars
             PROVE  SessionTokens'
  OBVIOUS
<1> USE NoneAssumption DEF SessionFields, Login!Calls, Login!Goto, Login!Finish, Login!Idle,
         TokenSteps, UndoSteps, Login!LogoutSteps
<1>1. ASSUME NEW p \in Callers, NEW d \in Pair, Login!StartLogin(p, d) PROVE SessionTokens'
  BY <1>1 DEF Login!StartLogin, Login!stores, Login!history, SessionTokens
<1>2. ASSUME NEW p \in Callers, Login!GetJTIByUserAndDevice(p) \/ Login!RevokeOld(p)
      PROVE SessionTokens'
  BY <1>2 DEF Login!GetJTIByUserAndDevice, Login!RevokeOld, Login!stores, Login!history,
     SessionTokens
<1>3. ASSUME NEW p \in Callers, Login!CountByUserID(p) PROVE SessionTokens'
  BY <1>3 DEF Login!CountByUserID, Login!stores, Login!history, SessionTokens
<1>4. ASSUME NEW p \in Callers, Login!GetOldest(p) PROVE SessionTokens'
  <2>1. \E s \in {"delete", "revoke"} : \E T :
            loginCall' = [loginCall EXCEPT ![p].step = s, ![p].targets = T]
    BY <1>4 DEF Login!GetOldest
  <2>2. QED
    BY <1>4, <2>1 DEF Login!GetOldest, Login!stores, Login!history, SessionTokens
<1>5. ASSUME NEW p \in Callers, Login!RevokeEvicted(p) PROVE SessionTokens'
  BY <1>5 DEF Login!RevokeEvicted, Login!stores, Login!history, SessionTokens
<1>6. ASSUME NEW p \in Callers, Login!Upsert(p) PROVE SessionTokens'
  BY <1>6 DEF Login!Upsert, Login!stores, Login!history, SessionTokens
<1>7. ASSUME NEW p \in Callers, Login!DeleteOldest(p) PROVE SessionTokens'
  BY <1>7 DEF Login!DeleteOldest, Login!stores, Login!history, SessionTokens
<1>8. ASSUME NEW p \in Callers, Login!SetSession(p) PROVE SessionTokens'
  BY <1>8 DEF Login!SetSession, Login!stores, Login!history, SessionTokens
<1>9. ASSUME NEW p \in Callers, Login!SetSessionFails(p) PROVE SessionTokens'
  BY <1>9 DEF Login!SetSessionFails, Login!stores, Login!history, SessionTokens
<1>10. ASSUME NEW p \in Callers, Login!UndoSession(p) PROVE SessionTokens'
  BY <1>10 DEF Login!UndoSession, Login!stores, Login!history, SessionTokens
<1>11. ASSUME NEW p \in Callers, Login!UndoRow(p) \/ Login!LogoutRow(p) PROVE SessionTokens'
  BY <1>11 DEF Login!UndoRow, Login!LogoutRow, Login!stores, Login!history, SessionTokens
<1>12. ASSUME NEW p \in Callers, Login!LogoutSession(p) \/ Login!Abort(p) PROVE SessionTokens'
  BY <1>12 DEF Login!LogoutSession, Login!Abort, Login!stores, Login!history, SessionTokens
<1>13. ASSUME NEW p \in Callers, NEW j \in Names, Login!StartLogout(p, j) PROVE SessionTokens'
  BY <1>13 DEF Login!StartLogout, Login!stores, Login!history, SessionTokens, Login!Accepted
<1>14. ASSUME NEW j \in Names, Login!UpdateLastUsed(j) PROVE SessionTokens'
  BY <1>14 DEF Login!UpdateLastUsed, Login!stores, Login!history, SessionTokens
<1>15. ASSUME NEW j \in Names, Login!ExpireSession(j) \/ Login!LateSet(j) PROVE SessionTokens'
  BY <1>15 DEF Login!ExpireSession, Login!LateSet, Login!stores, Login!history, SessionTokens
<1>16. CASE UNCHANGED sessionVars
  BY <1>16 DEF sessionVars, SessionTokens
<1>17. QED
  BY <1>1, <1>2, <1>3, <1>4, <1>5, <1>6, <1>7, <1>8, <1>9, <1>10, <1>11, <1>12, <1>13, <1>14,
     <1>15, <1>16 DEF Login!Next, Login!Login, Login!Logout

(* A token that may still be set was never delivered, and a login in       *)
(* progress has one of these.                                              *)
LEMMA LogoutPreserved ==
  SessionFields /\ SessionTokens /\ LogoutIsFinal /\ [Login!Next]_sessionVars => LogoutIsFinal'
<1> SUFFICES ASSUME SessionFields /\ SessionTokens /\ LogoutIsFinal, [Login!Next]_sessionVars
             PROVE  LogoutIsFinal'
  OBVIOUS
<1>1. ASSUME NEW p \in Callers, NEW d \in Pair, Login!StartLogin(p, d) PROVE LogoutIsFinal'
  BY <1>1 DEF Login!StartLogin, Login!stores, Login!history, LogoutIsFinal, Login!LogoutIsFinal
<1>2. ASSUME NEW p \in Callers, Login!GetJTIByUserAndDevice(p) \/ Login!RevokeOld(p) \/
             Login!CountByUserID(p) \/ Login!GetOldest(p) \/ Login!RevokeEvicted(p) \/
             Login!Upsert(p) \/ Login!DeleteOldest(p) \/ Login!UndoSession(p) \/
             Login!UndoRow(p) \/ Login!LogoutSession(p) \/ Login!Abort(p)
      PROVE LogoutIsFinal'
  BY <1>2 DEF Login!GetJTIByUserAndDevice, Login!RevokeOld, Login!CountByUserID,
     Login!GetOldest, Login!RevokeEvicted, Login!Upsert, Login!DeleteOldest, Login!UndoSession,
     Login!UndoRow, Login!LogoutSession, Login!Abort, Login!stores, Login!history,
     LogoutIsFinal, Login!LogoutIsFinal
<1>3. ASSUME NEW p \in Callers, Login!SetSession(p) \/ Login!SetSessionFails(p)
      PROVE LogoutIsFinal'
  BY <1>3 DEF Login!SetSession, Login!SetSessionFails, Login!stores, Login!history,
     LogoutIsFinal, Login!LogoutIsFinal, SessionTokens, TokenSteps, SessionFields
<1>4. ASSUME NEW p \in Callers, Login!LogoutRow(p) PROVE LogoutIsFinal'
  BY <1>4 DEF Login!LogoutRow, Login!stores, Login!history, LogoutIsFinal, Login!LogoutIsFinal,
     SessionTokens, Login!LogoutSteps
<1>5. ASSUME NEW p \in Callers, NEW j \in Names, Login!StartLogout(p, j) PROVE LogoutIsFinal'
  BY <1>5 DEF Login!StartLogout, Login!stores, Login!history, LogoutIsFinal, Login!LogoutIsFinal
<1>6. ASSUME NEW j \in Names, Login!UpdateLastUsed(j) PROVE LogoutIsFinal'
  BY <1>6 DEF Login!UpdateLastUsed, Login!stores, Login!history, LogoutIsFinal,
     Login!LogoutIsFinal
<1>7. ASSUME NEW j \in Names, Login!ExpireSession(j) \/ Login!LateSet(j) PROVE LogoutIsFinal'
  BY <1>7 DEF Login!ExpireSession, Login!LateSet, Login!stores, Login!history, LogoutIsFinal,
     Login!LogoutIsFinal, SessionTokens, SessionFields
<1>8. CASE UNCHANGED sessionVars
  BY <1>8 DEF sessionVars, LogoutIsFinal, Login!LogoutIsFinal
<1>9. QED
  BY <1>1, <1>2, <1>3, <1>4, <1>5, <1>6, <1>7, <1>8 DEF Login!Next, Login!Login, Login!Logout

(* A login that starts during another marks both.                          *)
LEMMA SessionOverlapPreserved ==
  SessionFields /\ SessionOverlap /\ [Login!Next]_sessionVars => SessionOverlap'
<1> SUFFICES ASSUME SessionFields /\ SessionOverlap, [Login!Next]_sessionVars
             PROVE  SessionOverlap'
  OBVIOUS
<1> USE NoneAssumption DEF SessionFields, Login!Calls, Login!Goto, Login!Finish, Login!Idle,
         Login!LoginSteps, Login!LogoutSteps, Login!LoggingIn, SessionOverlap
<1>1. ASSUME NEW p \in Callers, NEW d \in Pair, Login!StartLogin(p, d) PROVE SessionOverlap'
  BY <1>1 DEF Login!StartLogin, Login!stores, Login!history, Login!Overlap
<1>2. ASSUME NEW p \in Callers, Login!GetJTIByUserAndDevice(p) \/ Login!RevokeOld(p)
      PROVE SessionOverlap'
  BY <1>2 DEF Login!GetJTIByUserAndDevice, Login!RevokeOld, Login!stores, Login!history
<1>3. ASSUME NEW p \in Callers, Login!CountByUserID(p) \/ Login!GetOldest(p)
      PROVE SessionOverlap'
  BY <1>3 DEF Login!CountByUserID, Login!GetOldest, Login!stores, Login!history
<1>4. ASSUME NEW p \in Callers, Login!RevokeEvicted(p) PROVE SessionOverlap'
  BY <1>4 DEF Login!RevokeEvicted, Login!stores, Login!history
<1>5. ASSUME NEW p \in Callers, Login!Upsert(p) PROVE SessionOverlap'
  BY <1>5 DEF Login!Upsert, Login!stores, Login!history
<1>6. ASSUME NEW p \in Callers, Login!DeleteOldest(p) \/ Login!SetSession(p) \/
             Login!SetSessionFails(p)
      PROVE SessionOverlap'
  BY <1>6 DEF Login!DeleteOldest, Login!SetSession, Login!SetSessionFails, Login!stores,
     Login!history
<1>7. ASSUME NEW p \in Callers, Login!UndoSession(p) \/ Login!UndoRow(p) \/ Login!LogoutRow(p)
             \/ Login!LogoutSession(p) \/ Login!Abort(p)
      PROVE SessionOverlap'
  BY <1>7 DEF Login!UndoSession, Login!UndoRow, Login!LogoutRow, Login!LogoutSession,
     Login!Abort, Login!stores, Login!history
<1>8. ASSUME NEW p \in Callers, NEW j \in Names, Login!StartLogout(p, j) PROVE SessionOverlap'
  BY <1>8 DEF Login!StartLogout, Login!stores, Login!history
<1>9. ASSUME NEW j \in Names, Login!UpdateLastUsed(j) PROVE SessionOverlap'
  BY <1>9 DEF Login!UpdateLastUsed, Login!stores, Login!history
<1>10. ASSUME NEW j \in Names, Login!ExpireSession(j) \/ Login!LateSet(j) PROVE SessionOverlap'
  BY <1>10 DEF Login!ExpireSession, Login!LateSet, Login!stores, Login!history
<1>11. CASE UNCHANGED sessionVars
  BY <1>11 DEF sessionVars
<1>12. QED
  BY <1>1, <1>2, <1>3, <1>4, <1>5, <1>6, <1>7, <1>8, <1>9, <1>10, <1>11 DEF Login!Next,
     Login!Login, Login!Logout

(* A row takes a token that is new.                                        *)
LEMMA SessionRowsPreserved ==
  SessionFields /\ SessionOverlap /\ SessionRows /\ [Login!Next]_sessionVars => SessionRows'
<1> SUFFICES ASSUME SessionFields /\ SessionOverlap /\ SessionRows, [Login!Next]_sessionVars
             PROVE  SessionRows'
  OBVIOUS
<1>1. ASSUME NEW p \in Callers, NEW d \in Pair, Login!StartLogin(p, d) PROVE SessionRows'
  BY <1>1 DEF Login!StartLogin, Login!stores, Login!history, SessionRows
<1>2. ASSUME NEW p \in Callers, Login!GetJTIByUserAndDevice(p) \/ Login!RevokeOld(p) \/
             Login!CountByUserID(p) \/ Login!GetOldest(p) \/ Login!RevokeEvicted(p) \/
             Login!SetSession(p) \/ Login!SetSessionFails(p) \/ Login!UndoSession(p) \/
             Login!LogoutSession(p) \/ Login!Abort(p)
      PROVE SessionRows'
  BY <1>2 DEF Login!GetJTIByUserAndDevice, Login!RevokeOld, Login!CountByUserID,
     Login!GetOldest, Login!RevokeEvicted, Login!SetSession, Login!SetSessionFails,
     Login!UndoSession, Login!LogoutSession, Login!Abort, Login!stores, Login!history,
     SessionRows
<1>3. ASSUME NEW p \in Callers, Login!Upsert(p) PROVE SessionRows'
  BY <1>3, NoneAssumption DEF Login!Upsert, Login!stores, Login!history, SessionRows,
     Login!UpsertRow, SessionOverlap, SessionFields, Login!LoggingIn, Login!LoginSteps
<1>4. ASSUME NEW p \in Callers, Login!DeleteOldest(p) PROVE SessionRows'
  BY <1>4 DEF Login!DeleteOldest, Login!stores, Login!history, SessionRows,
     Login!DeleteOldestBeyondLimit
<1>5. ASSUME NEW p \in Callers, Login!UndoRow(p) \/ Login!LogoutRow(p) PROVE SessionRows'
  BY <1>5 DEF Login!UndoRow, Login!LogoutRow, Login!stores, Login!history, SessionRows,
     Login!DeleteByJTI, SessionFields
<1>6. ASSUME NEW p \in Callers, NEW j \in Names, Login!StartLogout(p, j) PROVE SessionRows'
  BY <1>6 DEF Login!StartLogout, Login!stores, Login!history, SessionRows
<1>7. ASSUME NEW j \in Names, Login!UpdateLastUsed(j) PROVE SessionRows'
  BY <1>7 DEF Login!UpdateLastUsed, Login!stores, Login!history, SessionRows
<1>8. ASSUME NEW j \in Names, Login!ExpireSession(j) \/ Login!LateSet(j) PROVE SessionRows'
  BY <1>8 DEF Login!ExpireSession, Login!LateSet, Login!stores, Login!history, SessionRows
<1>9. CASE UNCHANGED sessionVars
  BY <1>9 DEF sessionVars, SessionRows
<1>10. QED
  BY <1>1, <1>2, <1>3, <1>4, <1>5, <1>6, <1>7, <1>8, <1>9 DEF Login!Next, Login!Login,
     Login!Logout

(* The parts that hold of the calls, the tokens and the rows by themselves. *)
SessionBase == SessionFields /\ SessionTokens /\ SessionOverlap /\ SessionRows /\ SessionOrder

(* A call changes by its own steps only.                                   *)
LEMMA OwnSteps ==
  ASSUME SessionBase, [Login!Next]_sessionVars, NEW r \in Callers
  PROVE  loginCall'[r] = loginCall[r] \/ Login!Login(r) \/ Login!Logout(r) \/ Login!Abort(r)
<1> USE DEF SessionBase, SessionFields
<1>1. ASSUME NEW p \in Callers, p # r, Login!Logout(p) \/ Login!Abort(p)
      PROVE  loginCall'[r] = loginCall[r]
  BY <1>1 DEF Login!Logout, Login!StartLogout, Login!LogoutSession, Login!LogoutRow,
     Login!Abort,
     Login!Goto, Login!Finish
<1>2. ASSUME NEW p \in Callers, p # r, Login!RevokeEvicted(p) PROVE loginCall'[r] = loginCall[r]
  BY <1>2 DEF Login!RevokeEvicted, Login!Finish
<1>3. ASSUME NEW p \in Callers, p # r, Login!Login(p), ~ Login!RevokeEvicted(p)
      PROVE  loginCall'[r] = loginCall[r]
  BY <1>3 DEF Login!Login, Login!StartLogin, Login!GetJTIByUserAndDevice, Login!RevokeOld,
     Login!Upsert, Login!CountByUserID, Login!GetOldest, Login!DeleteOldest, Login!SetSession,
     Login!SetSessionFails, Login!UndoSession, Login!UndoRow, Login!Goto, Login!Finish
<1>4. ASSUME NEW j \in Names, Login!UpdateLastUsed(j) \/ Login!ExpireSession(j) \/ Login!LateSet(j)
      PROVE  loginCall'[r] = loginCall[r]
  BY <1>4 DEF Login!UpdateLastUsed, Login!ExpireSession, Login!LateSet
<1>5. CASE UNCHANGED sessionVars
  BY <1>5 DEF sessionVars
<1>6. QED
  BY <1>1, <1>2, <1>3, <1>4, <1>5 DEF Login!Next

(* The steps of a login behind its first one, and those that leave it.     *)
Underway == Login!LoginSteps \ {"lookup"}

Progress(r) ==
    \/ Login!GetJTIByUserAndDevice(r) \/ Login!RevokeOld(r) \/ Login!Upsert(r)
    \/ Login!CountByUserID(r) \/ Login!GetOldest(r) \/ Login!RevokeEvicted(r)
    \/ Login!DeleteOldest(r) \/ Login!SetSessionFails(r) \/ Login!UndoSession(r)

(* A login under way was a login before, and came on by one of these       *)
(* steps.                                                                  *)
LEMMA LoginProceeds ==
  ASSUME SessionBase, [Login!Next]_sessionVars, NEW r \in Callers, loginCall'[r].step \in Underway
  PROVE  /\ Login!LoggingIn(r) /\ (loginCall'[r] = loginCall[r] \/ Progress(r))
         /\ Login!Login(r) \/ Login!Logout(r) \/ Login!Abort(r) => Progress(r)
<1> USE DEF SessionBase, SessionFields, Login!Calls
<1>1. ASSUME loginCall'[r] = loginCall[r] PROVE Login!LoggingIn(r)
  BY <1>1 DEF Underway, Login!LoggingIn
<1>2. ~ Login!Logout(r) /\ ~ Login!Abort(r)
  BY DEF Login!Logout, Login!StartLogout, Login!LogoutSession, Login!LogoutRow, Login!Abort,
     Login!Goto, Login!Finish, Login!Idle, Underway, Login!LoginSteps
<1>3. /\ ~ (\E d \in Pair : Login!StartLogin(r, d)) /\ ~ Login!SetSession(r) /\ ~ Login!UndoRow(r)
  BY DEF Login!StartLogin, Login!SetSession, Login!UndoRow, Login!Finish, Login!Idle, Underway,
     Login!LoginSteps
<1>4. ASSUME Progress(r) PROVE Login!LoggingIn(r)
  BY <1>4 DEF Progress, Login!GetJTIByUserAndDevice, Login!RevokeOld, Login!Upsert,
     Login!CountByUserID, Login!GetOldest, Login!RevokeEvicted, Login!DeleteOldest,
     Login!SetSessionFails, Login!UndoSession, Login!LoggingIn, Login!LoginSteps
<1>5. Login!Login(r) => Progress(r)
  BY <1>3 DEF Login!Login, Progress
<1>6. QED
  BY <1>1, <1>2, <1>4, <1>5, OwnSteps

(* A token comes to let its client in, and not by a race, only when a      *)
(* login that nothing overlapped sets its session.                         *)
LEMMA NewlyAccepted ==
  SessionBase /\ [Login!Next]_sessionVars =>
      \A j : Accepting(j)' =>
          \/ Accepting(j)
          \/ \E p \in Callers \ contended : Login!SetSession(p) /\ j = loginCall[p].jti
<1> SUFFICES ASSUME SessionBase, [Login!Next]_sessionVars, NEW j, Accepting(j)'
      PROVE  \/ Accepting(j)
             \/ \E p \in Callers \ contended : Login!SetSession(p) /\ j = loginCall[p].jti
  OBVIOUS
<1>1. ASSUME NEW p \in Callers, NEW d \in Pair, Login!StartLogin(p, d)
      PROVE  Accepting(j)
  BY <1>1 DEF Login!StartLogin, Login!stores, Login!history, Accepting
<1>2. ASSUME NEW p \in Callers, Login!GetJTIByUserAndDevice(p) \/ Login!RevokeOld(p) \/
             Login!CountByUserID(p) \/ Login!GetOldest(p) \/ Login!RevokeEvicted(p) \/
             Login!Upsert(p) \/ Login!DeleteOldest(p) \/ Login!UndoSession(p) \/
             Login!UndoRow(p) \/ Login!LogoutSession(p) \/ Login!LogoutRow(p) \/ Login!Abort(p)
      PROVE  Accepting(j)
  BY <1>2 DEF Login!GetJTIByUserAndDevice, Login!RevokeOld, Login!CountByUserID,
     Login!GetOldest, Login!RevokeEvicted, Login!Upsert, Login!DeleteOldest, Login!UndoSession,
     Login!UndoRow, Login!LogoutSession, Login!LogoutRow, Login!Abort, Login!stores,
     Login!history, Accepting
<1>3. ASSUME NEW p \in Callers, Login!SetSession(p)
      PROVE  Accepting(j) \/ (p \in Callers \ contended /\ j = loginCall[p].jti)
  <2>1. /\ live' = live \cup {loginCall[p].jti} /\ delivered' = delivered \cup {loginCall[p].jti}
        /\ raced' = IF p \in contended THEN raced \cup {loginCall[p].jti} ELSE raced
    BY <1>3 DEF Login!SetSession
  <2>2. j \in live' /\ j \in delivered' /\ j \notin raced'
    BY DEF Accepting
  <2>3. QED
    BY <2>1, <2>2 DEF Accepting
<1>4. ASSUME NEW p \in Callers, Login!SetSessionFails(p)
      PROVE  Accepting(j)
  BY <1>4 DEF Login!SetSessionFails, Login!stores, Login!history, Accepting, SessionBase,
     SessionFields, SessionTokens, TokenSteps
<1>5. ASSUME NEW p \in Callers, NEW l \in Names, Login!StartLogout(p, l)
      PROVE  Accepting(j)
  BY <1>5 DEF Login!StartLogout, Login!stores, Login!history, Accepting
<1>6. ASSUME NEW l \in Names, Login!UpdateLastUsed(l)
      PROVE  Accepting(j)
  BY <1>6 DEF Login!UpdateLastUsed, Login!stores, Login!history, Accepting
<1>7. ASSUME NEW l \in Names, Login!ExpireSession(l) \/ Login!LateSet(l)
      PROVE  Accepting(j)
  BY <1>7 DEF Login!ExpireSession, Login!LateSet, Login!stores, Login!history, Accepting,
     SessionBase, SessionFields, SessionTokens
<1>8. CASE UNCHANGED sessionVars
  BY <1>8 DEF sessionVars, Accepting
<1>9. QED
  BY <1>1, <1>2, <1>3, <1>4, <1>5, <1>6, <1>7, <1>8 DEF Login!Next, Login!Login, Login!Logout

(* A row is kept, deleted, or overwritten with a token that is new.        *)
LEMMA RowChange ==
  SessionBase /\ [Login!Next]_sessionVars =>
      \A d \in Pair :
          \/ rows'[d] \in {rows[d], None}
          \/ \E p \in Callers : /\ Login!Upsert(p) /\ d = loginCall[p].device
                                /\ rows'[d] \in Names \ issued
<1> SUFFICES ASSUME SessionBase, [Login!Next]_sessionVars, NEW d \in Pair
      PROVE  \/ rows'[d] \in {rows[d], None}
             \/ \E p \in Callers : /\ Login!Upsert(p) /\ d = loginCall[p].device
                                   /\ rows'[d] \in Names \ issued
  OBVIOUS
<1>1. ASSUME NEW p \in Callers, NEW e \in Pair, Login!StartLogin(p, e)
      PROVE  rows'[d] = rows[d]
  BY <1>1 DEF Login!StartLogin, Login!stores, Login!history
<1>2. ASSUME NEW p \in Callers, Login!GetJTIByUserAndDevice(p) \/ Login!RevokeOld(p) \/
             Login!CountByUserID(p) \/ Login!GetOldest(p) \/ Login!RevokeEvicted(p) \/
             Login!SetSession(p) \/ Login!SetSessionFails(p) \/ Login!UndoSession(p) \/
             Login!LogoutSession(p) \/ Login!Abort(p)
      PROVE rows'[d] = rows[d]
  BY <1>2 DEF Login!GetJTIByUserAndDevice, Login!RevokeOld, Login!CountByUserID,
     Login!GetOldest, Login!RevokeEvicted, Login!SetSession, Login!SetSessionFails,
     Login!UndoSession, Login!LogoutSession, Login!Abort, Login!stores, Login!history
<1>3. ASSUME NEW p \in Callers, Login!Upsert(p)
      PROVE  rows'[d] = rows[d] \/ (d = loginCall[p].device /\ rows'[d] \in Names \ issued)
  <2>1. PICK j \in Names \ issued : rows' = [rows EXCEPT ![loginCall[p].device] = j]
    BY <1>3 DEF Login!Upsert, Login!UpsertRow
  <2>2. QED
    BY <2>1 DEF SessionBase, SessionFields
<1>4. ASSUME NEW p \in Callers, Login!DeleteOldest(p) PROVE rows'[d] \in {rows[d], None}
  BY <1>4 DEF Login!DeleteOldest, Login!stores, Login!history, Login!DeleteOldestBeyondLimit
<1>5. ASSUME NEW p \in Callers, Login!UndoRow(p) \/ Login!LogoutRow(p)
      PROVE  rows'[d] \in {rows[d], None}
  BY <1>5 DEF Login!UndoRow, Login!LogoutRow, Login!stores, Login!history, SessionBase,
     SessionFields, Login!DeleteByJTI
<1>6. ASSUME NEW p \in Callers, NEW j \in Names, Login!StartLogout(p, j)
      PROVE  rows'[d] = rows[d]
  BY <1>6 DEF Login!StartLogout, Login!stores, Login!history
<1>7. ASSUME NEW j \in Names, Login!UpdateLastUsed(j) PROVE rows'[d] = rows[d]
  BY <1>7 DEF Login!UpdateLastUsed, Login!stores, Login!history
<1>8. ASSUME NEW j \in Names, Login!ExpireSession(j) \/ Login!LateSet(j)
      PROVE  rows'[d] = rows[d]
  BY <1>8 DEF Login!ExpireSession, Login!LateSet, Login!stores, Login!history
<1>9. CASE UNCHANGED sessionVars
  BY <1>9 DEF sessionVars
<1>10. QED
  BY <1>1, <1>2, <1>3, <1>4, <1>5, <1>6, <1>7, <1>8, <1>9 DEF Login!Next, Login!Login,
     Login!Logout

(* While a login is under way, no other one is free of overlaps: no token  *)
(* comes to let its client in, and the row of one that does is as it was.  *)
LEMMA NoneNewlyAccepted ==
  ASSUME SessionBase, [Login!Next]_sessionVars, NEW r \in Callers, loginCall'[r].step \in Underway
  PROVE  \A j : Accepting(j)' =>
             Accepting(j) /\ \A d \in Pair : rows'[d] = j => rows[d] = j
<1> SUFFICES ASSUME NEW j, Accepting(j)'
             PROVE  Accepting(j) /\ \A d \in Pair : rows'[d] = j => rows[d] = j
  OBVIOUS
<1>1. Accepting(j)
  <2>1. CASE Accepting(j)
    BY <2>1
  <2>2. ASSUME NEW p \in Callers \ contended, Login!SetSession(p) PROVE FALSE
    <3>1. p # r
      BY <2>2 DEF Login!SetSession, Login!Finish, Login!Idle, Underway, Login!LoginSteps,
         SessionBase, SessionFields
    <3>2. Login!LoggingIn(p) /\ Login!LoggingIn(r)
      BY <2>2, LoginProceeds DEF Login!SetSession, Login!LoggingIn, Login!LoginSteps
    <3>3. QED
      BY <3>1, <3>2 DEF SessionBase, SessionOverlap
  <2>3. QED
    BY <2>1, <2>2, NewlyAccepted
<1>2. j \in issued /\ None \notin issued
  BY <1>1, NoneAssumption DEF Accepting, SessionBase, SessionFields
<1>3. QED
  BY <1>1, <1>2, RowChange

(* What one revocation of enforceDeviceLimit does to its call.             *)
LEMMA RevokeEvictedSteps ==
  ASSUME SessionFields, NEW r \in Callers, Login!RevokeEvicted(r)
  PROVE  /\ UNCHANGED <<rows, recent, delivered, raced>>
         /\ \/ loginCall'[r] = Login!Idle
            \/ /\ loginCall'[r].device = loginCall[r].device
               /\ loginCall'[r].jti = loginCall[r].jti
               /\ \/ loginCall'[r].step = "revoke_failed"
                  \/ \E l \in loginCall[r].targets :
                         /\ loginCall[r].step = "revoke" /\ live' = live \ {l}
                         /\ \/ /\ loginCall'[r].step = "revoke"
                               /\ loginCall'[r].targets = loginCall[r].targets \ {l}
                            \/ loginCall'[r].step = "delete" /\ loginCall[r].targets = {l}
<1> USE DEF SessionFields, Login!Calls
<1>1. UNCHANGED <<rows, recent, delivered, raced>>
  BY DEF Login!RevokeEvicted, Login!history
<1>2. PICK l \in loginCall[r].targets, ok \in BOOLEAN :
          LET step == IF ok THEN loginCall[r].step ELSE "revoke_failed"
          IN /\ live' = IF ok THEN live \ {l} ELSE live
             /\ IF loginCall[r].targets # {l}
                THEN loginCall' = [loginCall EXCEPT ![r].step = step, ![r].targets = @ \ {l}]
                ELSE IF step = "revoke"
                     THEN loginCall' = [loginCall EXCEPT ![r].step = "delete", ![r].targets = {}]
                     ELSE Login!Finish(r)
  BY DEF Login!RevokeEvicted
<1> DEFINE step == IF ok THEN loginCall[r].step ELSE "revoke_failed"
<1>3. /\ step \in {"revoke", "revoke_failed"}
      /\ (step = "revoke" => ok /\ loginCall[r].step = "revoke")
  BY DEF Login!RevokeEvicted
<1>4. CASE loginCall[r].targets # {l}
  <2>1. loginCall' = [loginCall EXCEPT ![r].step = step, ![r].targets = @ \ {l}]
    BY <1>2, <1>4
  <2> HIDE DEF step
  <2>2. /\ loginCall'[r].device = loginCall[r].device /\ loginCall'[r].jti = loginCall[r].jti
        /\ loginCall'[r].step = step /\ loginCall'[r].targets = loginCall[r].targets \ {l}
    BY <2>1
  <2>3. QED
    BY <1>1, <1>2, <1>3, <2>2
<1>5. CASE loginCall[r].targets = {l} /\ step = "revoke"
  <2>1. loginCall' = [loginCall EXCEPT ![r].step = "delete", ![r].targets = {}]
    BY <1>2, <1>5
  <2>2. /\ loginCall'[r].device = loginCall[r].device /\ loginCall'[r].jti = loginCall[r].jti
        /\ loginCall'[r].step = "delete"
    BY <2>1
  <2>3. QED
    BY <1>1, <1>2, <1>3, <1>5, <2>2
<1>6. CASE loginCall[r].targets = {l} /\ step # "revoke"
  BY <1>1, <1>2, <1>6 DEF Login!Finish
<1>7. QED
  BY <1>4, <1>5, <1>6

(* The row of an older token stays one that lets nobody in, or is known to *)
(* the login that will revoke it.                                          *)
LEMMA SessionLookupPreserved ==
  SessionBase /\ SessionLookup /\ [Login!Next]_sessionVars => SessionLookup'
<1> SUFFICES ASSUME SessionBase, SessionLookup, [Login!Next]_sessionVars, NEW r \in Callers,
                    loginCall'[r].step \in {"revoke_old", "upsert"},
                    NEW j, j = rows'[loginCall'[r].device], Accepting(j)'
             PROVE  loginCall'[r].step = "revoke_old" /\ j \in loginCall'[r].targets
  BY DEF SessionLookup, Accepting
<1>1. loginCall'[r].step \in Underway
  BY DEF Underway, Login!LoginSteps
<1>2. Login!LoggingIn(r) /\ (loginCall'[r] = loginCall[r] \/ Progress(r))
  BY <1>1, LoginProceeds
<1>3. \/ loginCall'[r] = loginCall[r]
      \/ /\ loginCall'[r].device = loginCall[r].device
         /\ Login!GetJTIByUserAndDevice(r) \/ Login!RevokeOld(r)
  <2> USE DEF SessionBase, SessionFields, Login!Calls
  <2>1. ~ Login!Upsert(r) /\ ~ Login!GetOldest(r)
    BY DEF Login!Upsert, Login!GetOldest
  <2>2. ~ Login!RevokeEvicted(r)
    BY RevokeEvictedSteps DEF Login!Idle
  <2>3. /\ ~ Login!CountByUserID(r) /\ ~ Login!DeleteOldest(r)
        /\ ~ Login!SetSessionFails(r) /\ ~ Login!UndoSession(r)
    BY DEF Login!CountByUserID, Login!DeleteOldest, Login!SetSessionFails, Login!UndoSession,
       Login!Goto
  <2>4. Login!GetJTIByUserAndDevice(r) \/ Login!RevokeOld(r) =>
            loginCall'[r].device = loginCall[r].device
    BY DEF Login!GetJTIByUserAndDevice, Login!RevokeOld
  <2>5. QED
    BY <1>2, <2>1, <2>2, <2>3, <2>4 DEF Progress
<1>4. loginCall[r].device \in Pair
  BY <1>2 DEF SessionBase, SessionOverlap
<1>5. Accepting(j) /\ rows[loginCall[r].device] = j
  BY <1>1, <1>3, <1>4, NoneNewlyAccepted
<1>6. CASE loginCall'[r] = loginCall[r]
  BY <1>5, <1>6 DEF SessionLookup
<1>7. CASE Login!GetJTIByUserAndDevice(r)
  <2>1. j # None
    BY <1>5, NoneAssumption DEF Accepting, SessionBase, SessionFields
  <2>2. QED
    BY <1>5, <1>7, <2>1 DEF Login!GetJTIByUserAndDevice, SessionBase, SessionFields, Login!Calls
<1>8. CASE Login!RevokeOld(r)
  <2>1. j \in loginCall[r].targets
    BY <1>5, <1>8 DEF Login!RevokeOld, SessionLookup
  <2>2. j \notin live'
    BY <1>8, <2>1 DEF Login!RevokeOld
  <2>3. QED
    BY <2>2 DEF Accepting
<1>9. QED
  BY <1>3, <1>6, <1>7, <1>8

(* A login under way that nothing overlaps meets no write of another login *)
(* and no usage update: rows change by its own steps and by logouts.       *)
LEMMA Alone ==
  ASSUME SessionBase, [Login!Next]_sessionVars, NEW r \in Callers, r \notin contended',
         loginCall'[r].step \in Underway
  PROVE  /\ r \notin contended
         /\ \/ Progress(r)
            \/ /\ loginCall'[r] = loginCall[r]
               /\ \/ \E q \in Callers : Login!LogoutRow(q)
                  \/ UNCHANGED <<rows, recent>>
<1> USE DEF SessionBase, SessionFields
<1>1. Login!LoggingIn(r) /\ (Login!Login(r) \/ Login!Logout(r) \/ Login!Abort(r) => Progress(r))
  BY LoginProceeds
<1>2. ASSUME NEW p \in Callers \ {r}, NEW d \in Pair, Login!StartLogin(p, d) PROVE FALSE
  BY <1>1, <1>2 DEF Login!StartLogin, Login!Overlap
<1>3. ASSUME NEW j \in Names, Login!UpdateLastUsed(j) PROVE FALSE
  BY <1>1, <1>3 DEF Login!UpdateLastUsed
<1>4. ASSUME NEW p \in Callers \ {r}, Login!LoggingIn(p) PROVE r \in contended
  BY <1>1, <1>4 DEF SessionOverlap
<1>5. r \notin contended
  <2>1. CASE UNCHANGED contended
    BY <2>1
  <2>2. ASSUME NEW p \in Callers \ {r}, NEW j \in Names, Login!StartLogout(p, j)
        PROVE  r \notin contended
    BY <2>2 DEF Login!StartLogout
  <2>3. CASE Login!Login(r) \/ Login!Logout(r) \/ Login!Abort(r)
    <3>1. Progress(r)
      BY <1>1, <2>3
    <3>2. UNCHANGED contended
      BY <3>1 DEF Progress, Login!GetJTIByUserAndDevice, Login!RevokeOld, Login!Upsert,
         Login!CountByUserID, Login!GetOldest, Login!RevokeEvicted, Login!DeleteOldest,
         Login!SetSessionFails, Login!UndoSession, Login!history
    <3>3. QED
      BY <3>2
  <2>4. ASSUME NEW p \in Callers \ {r}, Login!Login(p), ~ \E d \in Pair : Login!StartLogin(p, d)
        PROVE  UNCHANGED contended
    BY <2>4 DEF Login!Login, Login!GetJTIByUserAndDevice, Login!RevokeOld, Login!Upsert,
       Login!CountByUserID, Login!GetOldest, Login!RevokeEvicted, Login!DeleteOldest,
       Login!SetSession, Login!SetSessionFails, Login!UndoSession, Login!UndoRow, Login!history
  <2>5. ASSUME NEW p \in Callers \ {r},
               Login!LogoutSession(p) \/ Login!LogoutRow(p) \/ Login!Abort(p)
        PROVE  UNCHANGED contended
    BY <2>5 DEF Login!LogoutSession, Login!LogoutRow, Login!Abort, Login!history
  <2>6. ASSUME NEW j \in Names, Login!ExpireSession(j) \/ Login!LateSet(j)
        PROVE  UNCHANGED contended
    BY <2>6 DEF Login!ExpireSession, Login!LateSet, Login!history
  <2>7. CASE UNCHANGED sessionVars
    BY <2>7 DEF sessionVars
  <2>8. QED
    BY <1>2, <1>3, <2>1, <2>2, <2>3, <2>4, <2>5, <2>6, <2>7 DEF Login!Next, Login!Logout
<1>6. ASSUME NEW p \in Callers \ {r}, Login!Login(p) PROVE FALSE
  <2>1. Login!LoggingIn(p)
    BY <1>2, <1>6 DEF Login!Login, Login!GetJTIByUserAndDevice, Login!RevokeOld, Login!Upsert,
       Login!CountByUserID, Login!GetOldest, Login!RevokeEvicted, Login!DeleteOldest,
       Login!SetSession, Login!SetSessionFails, Login!UndoSession, Login!UndoRow,
       Login!LoggingIn, Login!LoginSteps
  <2>2. QED
    BY <1>4, <1>5, <2>1
<1>7. ASSUME NEW p \in Callers \ {r}, Login!Logout(p) \/ Login!Abort(p)
      PROVE  (\E q \in Callers : Login!LogoutRow(q)) \/ UNCHANGED <<rows, recent>>
  BY <1>7 DEF Login!Logout, Login!StartLogout, Login!LogoutSession, Login!Abort, Login!stores
<1>8. ASSUME NEW j \in Names, Login!ExpireSession(j) \/ Login!LateSet(j)
      PROVE  UNCHANGED <<rows, recent>>
  BY <1>8 DEF Login!ExpireSession, Login!LateSet
<1>9. CASE UNCHANGED sessionVars
  BY <1>5, <1>9 DEF sessionVars
<1>10. Progress(r) \/ (\E q \in Callers : Login!LogoutRow(q)) \/ UNCHANGED <<rows, recent>>
  BY <1>1, <1>3, <1>6, <1>7, <1>8, <1>9 DEF Login!Next, sessionVars
<1>11. QED
  BY <1>5, <1>10, LoginProceeds

(* The row that a logout takes away is not that of a login in progress.    *)
LEMMA LogoutElsewhere ==
  ASSUME SessionBase, NEW q \in Callers, Login!LogoutRow(q)
  PROVE  \/ UNCHANGED <<rows, recent>>
         \/ \E e \in Pair : /\ rows[e] \in delivered \ live
                            /\ rows' = [rows EXCEPT ![e] = None]
                            /\ recent' = Login!Without(recent, e)
  BY DEF Login!LogoutRow, Login!DeleteByJTI, SessionBase, SessionTokens, Login!LogoutSteps

(* The first device of an order is not among those beyond the limit.       *)
LEMMA FirstKept ==
  ASSUME SessionBase, Len(recent) >= 1
  PROVE  /\ Login!WithinLimit >= 1 /\ recent[1] \notin Login!BeyondLimit
         /\ Len(SubSeq(recent, 1, Login!WithinLimit)) >= 1
         /\ SubSeq(recent, 1, Login!WithinLimit)[1] = recent[1]
<1>1. /\ recent \in Seq(Pair) /\ Len(recent) \in Nat
      /\ \A i, k \in 1 .. Len(recent) : recent[i] = recent[k] => i = k
  BY DEF SessionBase, SessionOrder, Ordered, Login!IsInjective
<1>2. Login!WithinLimit \in 1 .. Len(recent)
  BY <1>1, BoundsAssumption DEF Login!WithinLimit
<1>3. recent[1] \notin Login!BeyondLimit
  BY <1>1, <1>2 DEF Login!BeyondLimit
<1> DEFINE n == Login!WithinLimit
           t == SubSeq(recent, 1, n)
<1> HIDE DEF n
<1>4. n \in 1 .. Len(recent)
  BY <1>2 DEF n
<1>5. Len(t) = n /\ t[1] = recent[1]
  BY <1>1, <1>4
<1>6. QED
  BY <1>3, <1>4, <1>5 DEF n

(* The row of a login that nothing overlaps stays in front.                *)
LEMMA SessionOwnPreserved ==
  SessionBase /\ SessionOwn /\ [Login!Next]_sessionVars => SessionOwn'
<1> SUFFICES ASSUME SessionBase, SessionOwn, [Login!Next]_sessionVars, NEW r \in Callers,
                    r \notin contended', loginCall'[r].step \in TokenSteps
             PROVE  /\ rows'[loginCall'[r].device] = loginCall'[r].jti
                    /\ Len(recent') >= 1 /\ recent'[1] = loginCall'[r].device
  BY DEF SessionOwn
<1> DEFINE d == loginCall[r].device
<1>1. loginCall'[r].step \in Underway
  BY DEF Underway, TokenSteps, Login!LoginSteps
<1>2. r \in Callers \ contended /\ d \in Pair
  BY <1>1, Alone, LoginProceeds DEF SessionBase, SessionOverlap
<1>3. CASE Login!Upsert(r)
  <2>1. PICK j \in Names :
            /\ rows' = [rows EXCEPT ![d] = j]
            /\ recent' = Login!InsertAt(Login!Without(recent, d), 1, d)
            /\ loginCall' = [loginCall EXCEPT ![r].step = "count", ![r].jti = j]
    <3>1. PICK j \in Names : /\ Login!UpsertRow(r, j)
                             /\ loginCall' = [loginCall EXCEPT ![r].step = "count", ![r].jti = j]
      BY <1>3 DEF Login!Upsert
    <3>2. \E k \in 1 .. 1 : recent' = Login!InsertAt(Login!Without(recent, d), k, d)
      BY <1>2, <3>1 DEF Login!UpsertRow
    <3>3. recent' = Login!InsertAt(Login!Without(recent, d), 1, d)
      BY <3>2
    <3>4. rows' = [rows EXCEPT ![d] = j]
      BY <3>1 DEF Login!UpsertRow
    <3>5. QED
      BY <3>1, <3>3, <3>4
  <2> DEFINE others == Login!Without(recent, d)
  <2>2. others \in Seq(Pair) /\ Len(others) \in Nat
    BY WithoutOrdered DEF SessionBase, SessionOrder, Ordered
  <2> HIDE DEF others
  <2>3. Len(recent') >= 1 /\ recent'[1] = d
    <3>1. 1 \in 1 .. (Len(others) + 1)
      BY <2>2
    <3>2. /\ Len(Login!InsertAt(others, 1, d)) = Len(others) + 1
          /\ \A i \in 1 .. (Len(others) + 1) :
                 Login!InsertAt(others, 1, d)[i]
                     = IF i < 1 THEN others[i] ELSE IF i = 1 THEN d ELSE others[i - 1]
      BY <1>2, <2>2, <3>1, Inserted
    <3>3. recent' = Login!InsertAt(others, 1, d)
      BY <2>1 DEF others
    <3>4. QED
      BY <2>2, <3>1, <3>2, <3>3
  <2>4. loginCall'[r].device = d /\ loginCall'[r].jti = j /\ rows'[d] = j
    BY <1>2, <2>1 DEF SessionBase, SessionFields, Login!Calls
  <2>5. QED
    BY <2>3, <2>4
<1>4. ASSUME ~ Login!Upsert(r)
      PROVE  /\ loginCall'[r].device = d /\ loginCall'[r].jti = loginCall[r].jti
             /\ loginCall[r].step \in TokenSteps
             /\ \/ UNCHANGED <<rows, recent>>
                \/ Login!DeleteOldestBeyondLimit
                \/ \E q \in Callers : Login!LogoutRow(q)
  <2> USE DEF SessionBase, SessionFields, Login!Calls, TokenSteps
  <2>1. ~ Login!GetJTIByUserAndDevice(r) /\ ~ Login!RevokeOld(r)
    BY DEF Login!GetJTIByUserAndDevice, Login!RevokeOld
  <2>2. ~ Login!SetSessionFails(r) /\ ~ Login!UndoSession(r)
    BY DEF Login!SetSessionFails, Login!UndoSession, Login!Goto
  <2>3. CASE Login!CountByUserID(r)
    BY <2>3 DEF Login!CountByUserID, Login!Goto, Login!stores
  <2>4. CASE Login!GetOldest(r)
    BY <2>4 DEF Login!GetOldest, Login!stores
  <2>5. CASE Login!RevokeEvicted(r)
    <3>1. loginCall[r].step \in TokenSteps
      BY <2>5 DEF Login!RevokeEvicted
    <3>2. QED
      BY <2>5, <3>1, RevokeEvictedSteps DEF Login!Idle
  <2>6. CASE Login!DeleteOldest(r)
    BY <2>6 DEF Login!DeleteOldest, Login!Goto
  <2>7. CASE /\ loginCall'[r] = loginCall[r]
             /\ ((\E q \in Callers : Login!LogoutRow(q)) \/ UNCHANGED <<rows, recent>>)
    BY <2>7
  <2>8. QED
    BY <1>1, <1>4, <2>1, <2>2, <2>3, <2>4, <2>5, <2>6, <2>7, Alone DEF Progress
<1>5. ASSUME ~ Login!Upsert(r)
      PROVE  rows[d] = loginCall[r].jti /\ Len(recent) >= 1 /\ recent[1] = d
  BY <1>2, <1>4, <1>5 DEF SessionOwn
<1>6. CASE ~ Login!Upsert(r) /\ UNCHANGED <<rows, recent>>
  BY <1>4, <1>5, <1>6
<1>7. CASE ~ Login!Upsert(r) /\ Login!DeleteOldestBeyondLimit
  BY <1>2, <1>4, <1>5, <1>7, FirstKept DEF Login!DeleteOldestBeyondLimit
<1>8. ASSUME ~ Login!Upsert(r), NEW e \in Pair, rows[e] \in delivered,
             rows' = [rows EXCEPT ![e] = None], recent' = Login!Without(recent, e)
      PROVE  rows'[d] = rows[d] /\ Len(recent') >= 1 /\ recent'[1] = recent[1]
  <2>1. e # d
    BY <1>4, <1>5, <1>8 DEF SessionBase, SessionTokens
  <2>2. rows'[d] = rows[d]
    BY <1>2, <1>8, <2>1 DEF SessionBase, SessionFields
  <2>3. Len(recent') >= 1 /\ recent'[1] = recent[1]
    BY <1>5, <1>8, <2>1, WithoutMoves DEF SessionBase, SessionOrder
  <2>4. QED
    BY <2>2, <2>3
<1>9. QED
  BY <1>3, <1>4, <1>5, <1>6, <1>7, <1>8, LogoutElsewhere

(* Deleting rows leaves no new device beyond the limit.                    *)
LEMMA BeyondShrinks ==
  ASSUME SessionBase, NEW e, recent' = Login!Without(recent, e)
  PROVE  Login!BeyondLimit' \subseteq Login!BeyondLimit
<1> DEFINE n == Login!WithinLimit
           t == Login!Without(recent, e)
           m == IF Len(t) <= MaxDevices THEN Len(t) ELSE MaxDevices
<1>1. Login!BeyondLimit' = {t[i] : i \in (m + 1) .. Len(t)}
  BY DEF Login!BeyondLimit, Login!WithinLimit
<1>2. /\ Len(t) \in Nat /\ Len(t) <= Len(recent)
      /\ \A i \in 1 .. Len(t) : \E k \in i .. Len(recent) : t[i] = recent[k]
  BY WithoutMoves DEF SessionBase, SessionOrder
<1>3. Len(recent) \in Nat
  BY DEF SessionBase, SessionOrder, Ordered
<1>4. n = IF Len(recent) <= MaxDevices THEN Len(recent) ELSE MaxDevices
  BY DEF Login!WithinLimit
<1>5. Login!BeyondLimit = {recent[i] : i \in (n + 1) .. Len(recent)}
  BY DEF Login!BeyondLimit
<1> HIDE DEF t, n
<1>6. ASSUME NEW i \in (m + 1) .. Len(t) PROVE t[i] \in Login!BeyondLimit
  <2>1. i \in 1 .. Len(t) /\ n = MaxDevices /\ m = MaxDevices
    BY <1>2, <1>3, <1>4, BoundsAssumption
  <2>2. PICK k \in i .. Len(recent) : t[i] = recent[k]
    BY <1>2, <2>1
  <2>3. k \in (n + 1) .. Len(recent)
    BY <1>3, <2>1, <2>2, BoundsAssumption
  <2>4. QED
    BY <1>5, <2>2, <2>3
<1>7. QED
  BY <1>1, <1>6

(* Rows beyond the limit let nobody in once the login that deletes them    *)
(* has revoked what it found.                                              *)
LEMMA SessionEvictPreserved ==
  SessionBase /\ SessionEvict /\ [Login!Next]_sessionVars => SessionEvict'
<1> SUFFICES ASSUME SessionBase, SessionEvict, [Login!Next]_sessionVars, NEW r \in Callers,
                    r \notin contended', loginCall'[r].step \in {"revoke", "delete"},
                    NEW d \in Login!BeyondLimit', NEW j, j = rows'[d], Accepting(j)'
             PROVE  loginCall'[r].step = "revoke" /\ j \in loginCall'[r].targets
  BY DEF SessionEvict, Accepting
<1> USE DEF SessionBase
<1>1. loginCall'[r].step \in Underway
  BY DEF Underway, Login!LoginSteps
<1>2. r \in Callers \ contended
  BY <1>1, Alone
<1>3. Accepting(j) /\ j \in Names /\ \A e \in Pair : rows'[e] = j => rows[e] = j
  BY <1>1, NoneNewlyAccepted DEF Accepting, SessionFields
<1>4. Login!BeyondLimit \subseteq Pair
  BY Beyond
<1>5. ASSUME d \in Login!BeyondLimit
      PROVE  /\ rows[d] = j
             /\ loginCall[r].step = "revoke" => j \in loginCall[r].targets
             /\ loginCall[r].step # "delete"
  BY <1>2, <1>3, <1>4, <1>5 DEF SessionEvict
<1>6. CASE loginCall'[r] = loginCall[r] /\ UNCHANGED <<rows, recent>>
  <2>1. d \in Login!BeyondLimit
    BY <1>6 DEF Login!BeyondLimit, Login!WithinLimit
  <2>2. QED
    BY <1>5, <1>6, <2>1
<1>7. ASSUME loginCall'[r] = loginCall[r], NEW q \in Callers, Login!LogoutRow(q)
      PROVE  loginCall'[r].step = "revoke" /\ j \in loginCall'[r].targets
  <2>1. CASE UNCHANGED <<rows, recent>>
    BY <1>6, <1>7, <2>1
  <2>2. ASSUME NEW e \in Pair, recent' = Login!Without(recent, e) PROVE d \in Login!BeyondLimit
    BY <2>2, BeyondShrinks
  <2>3. QED
    BY <1>5, <1>7, <2>1, <2>2, LogoutElsewhere
<1>8. CASE Login!GetOldest(r)
  <2>1. d \in Login!BeyondLimit
    BY <1>8 DEF Login!GetOldest, Login!stores, Login!BeyondLimit, Login!WithinLimit
  <2> DEFINE T == {rows[e] : e \in Login!BeyondLimit}
  <2>2. j \in T
    BY <1>5, <2>1
  <2>3. loginCall' = [loginCall EXCEPT ![r].step = IF T = {} THEN "delete" ELSE "revoke",
                                       ![r].targets = T]
    BY <1>8 DEF Login!GetOldest
  <2> HIDE DEF T
  <2>4. loginCall' = [loginCall EXCEPT ![r].step = "revoke", ![r].targets = T]
    BY <2>2, <2>3
  <2>5. QED
    BY <2>2, <2>4 DEF SessionFields, Login!Calls
<1>9. CASE Login!RevokeEvicted(r)
  <2>1. d \in Login!BeyondLimit
    BY <1>9 DEF Login!RevokeEvicted, Login!BeyondLimit, Login!WithinLimit
  <2>2. PICK l \in loginCall[r].targets :
            /\ loginCall[r].step = "revoke" /\ live' = live \ {l}
            /\ \/ /\ loginCall'[r].step = "revoke"
                  /\ loginCall'[r].targets = loginCall[r].targets \ {l}
               \/ loginCall'[r].step = "delete" /\ loginCall[r].targets = {l}
    BY <1>9, RevokeEvictedSteps DEF Login!Idle
  <2>3. j \in loginCall[r].targets /\ j # l
    BY <1>5, <2>1, <2>2 DEF Accepting
  <2>4. QED
    BY <2>2, <2>3
<1>10. Progress(r) => Login!GetOldest(r) \/ Login!RevokeEvicted(r)
  BY DEF Progress, Login!GetJTIByUserAndDevice, Login!RevokeOld, Login!Upsert,
     Login!CountByUserID, Login!DeleteOldest, Login!SetSessionFails, Login!UndoSession,
     Login!Goto, SessionFields, Login!Calls
<1>11. QED
  BY <1>1, <1>6, <1>7, <1>8, <1>9, <1>10, Alone

(* The three steps that delete a row.                                      *)
LEMMA RowDeleted ==
  ASSUME SessionBase, [Login!Next]_sessionVars, NEW d \in Pair, rows[d] # None, rows'[d] = None
  PROVE  \E p \in Callers :
             \/ /\ Login!DeleteOldest(p) /\ d \in Login!BeyondLimit
                /\ p \in contended => rows[d] \in raced'
             \/ /\ Login!UndoRow(p) \/ Login!LogoutRow(p)
                /\ rows[d] = loginCall[p].jti
<1> USE DEF SessionBase, SessionFields
<1>1. ASSUME NEW p \in Callers, Login!Login(p), ~ Login!Upsert(p), ~ Login!DeleteOldest(p),
             ~ Login!UndoRow(p)
      PROVE  UNCHANGED rows
  BY <1>1 DEF Login!Login, Login!StartLogin, Login!GetJTIByUserAndDevice, Login!RevokeOld,
     Login!CountByUserID, Login!GetOldest, Login!RevokeEvicted, Login!SetSession,
     Login!SetSessionFails, Login!UndoSession, Login!stores
<1>2. ASSUME NEW p \in Callers, Login!Upsert(p) PROVE FALSE
  <2>1. PICK j \in Names : rows' = [rows EXCEPT ![loginCall[p].device] = j]
    BY <1>2 DEF Login!Upsert, Login!UpsertRow
  <2>2. QED
    BY <2>1, NoneAssumption
<1>3. ASSUME NEW p \in Callers, Login!DeleteOldest(p)
      PROVE  d \in Login!BeyondLimit /\ (p \in contended => rows[d] \in raced')
  <2>1. Login!DeleteOldestBeyondLimit /\ d \in Login!BeyondLimit
    BY <1>3 DEF Login!DeleteOldest, Login!DeleteOldestBeyondLimit
  <2> DEFINE T == {rows[e] : e \in Login!BeyondLimit}
  <2>2. rows[d] \in T
    BY <2>1
  <2>3. raced' = IF p \in contended THEN raced \cup (T \ {None}) ELSE raced
    BY <1>3 DEF Login!DeleteOldest
  <2> HIDE DEF T
  <2>4. QED
    BY <2>1, <2>2, <2>3
<1>4. ASSUME NEW p \in Callers, Login!UndoRow(p) \/ Login!LogoutRow(p)
      PROVE  rows[d] = loginCall[p].jti
  BY <1>4 DEF Login!UndoRow, Login!LogoutRow, Login!DeleteByJTI
<1>5. ASSUME NEW p \in Callers, Login!Logout(p) \/ Login!Abort(p), ~ Login!LogoutRow(p)
      PROVE  UNCHANGED rows
  BY <1>5 DEF Login!Logout, Login!StartLogout, Login!LogoutSession, Login!Abort, Login!stores
<1>6. ASSUME NEW j \in Names, Login!UpdateLastUsed(j) \/ Login!ExpireSession(j) \/ Login!LateSet(j)
      PROVE  UNCHANGED rows
  BY <1>6 DEF Login!UpdateLastUsed, Login!ExpireSession, Login!LateSet
<1>7. ~ UNCHANGED rows /\ ~ UNCHANGED sessionVars
  BY DEF sessionVars
<1>8. QED
  BY <1>1, <1>2, <1>3, <1>4, <1>5, <1>6, <1>7 DEF Login!Next

(* A token that lets its client in keeps its row: the steps that delete or *)
(* overwrite rows find others.                                             *)
LEMMA UnlistedPreserved ==
  /\ SessionBase /\ SessionLookup /\ SessionOwn /\ SessionEvict /\ UnlistedOnlyByRace
  /\ [Login!Next]_sessionVars
  => UnlistedOnlyByRace'
<1> SUFFICES ASSUME SessionBase, SessionLookup, SessionOwn, SessionEvict, UnlistedOnlyByRace,
                    [Login!Next]_sessionVars, NEW j, Accepting(j)'
             PROVE  \E d \in Pair : rows'[d] = j
  BY DEF UnlistedOnlyByRace, Login!UnlistedOnlyByRace, Login!Listed, Accepting
<1> USE DEF SessionBase
<1>1. CASE \E p \in Callers \ contended : Login!SetSession(p) /\ j = loginCall[p].jti
  <2>1. PICK p \in Callers \ contended : Login!SetSession(p) /\ j = loginCall[p].jti
    BY <1>1
  <2>2. loginCall[p].device \in Pair /\ rows[loginCall[p].device] = j /\ UNCHANGED rows
    BY <2>1 DEF Login!SetSession, SessionOwn, TokenSteps, SessionOverlap, Login!LoggingIn,
       Login!LoginSteps
  <2>3. QED
    BY <2>2
<1>2. CASE Accepting(j)
  <2>1. PICK d \in Pair : rows[d] = j
    BY <1>2 DEF UnlistedOnlyByRace, Login!UnlistedOnlyByRace, Login!Listed, Accepting
  <2>2. j # None
    BY <1>2, NoneAssumption DEF Accepting, SessionFields
  <2>3. ASSUME NEW p \in Callers, Login!Upsert(p), d = loginCall[p].device PROVE FALSE
    BY <1>2, <2>1, <2>3 DEF Login!Upsert, SessionLookup
  <2>4. ASSUME NEW p \in Callers, Login!DeleteOldest(p), d \in Login!BeyondLimit,
               p \in contended => rows[d] \in raced'
        PROVE  FALSE
    BY <1>2, <2>1, <2>4 DEF Login!DeleteOldest, SessionEvict, Accepting
  <2>5. ASSUME NEW p \in Callers, Login!UndoRow(p) \/ Login!LogoutRow(p), rows[d] = loginCall[p].jti
        PROVE  FALSE
    BY <1>2, <2>1, <2>5 DEF Login!UndoRow, Login!LogoutRow, SessionTokens, UndoSteps, Accepting
  <2>6. rows'[d] # None
    BY <2>1, <2>2, <2>4, <2>5, RowDeleted
  <2>7. rows'[d] = rows[d]
    BY <2>3, <2>6, RowChange
  <2>8. QED
    BY <2>1, <2>7
<1>3. QED
  BY <1>1, <1>2, NewlyAccepted

(* The devices whose rows the limit keeps.                                 *)
Within == {recent[i] : i \in 1 .. Login!WithinLimit}

(* The rows the limit keeps are as many as it, and the other rows are      *)
(* those beyond it.                                                        *)
LEMMA WithinBound ==
  ASSUME SessionBase
  PROVE  /\ IsFiniteSet(Within) /\ Cardinality(Within) <= MaxDevices
         /\ \A d \in Pair : rows[d] # None => d \in Within \cup Login!BeyondLimit
         /\ Len(recent) >= 1 => recent[1] \in Within
<1> DEFINE n == Login!WithinLimit
           f == [i \in 1 .. n |-> recent[i]]
<1>1. n \in 0 .. Len(recent) /\ Len(recent) \in Nat /\ n <= MaxDevices
  BY BoundsAssumption DEF Login!WithinLimit, SessionBase, SessionOrder, Ordered
<1>2. Len(recent) >= 1 => n >= 1
  BY <1>1, BoundsAssumption DEF Login!WithinLimit
<1>3. /\ Within = {recent[i] : i \in 1 .. n}
      /\ Login!BeyondLimit = {recent[i] : i \in (n + 1) .. Len(recent)}
  BY DEF Within, Login!BeyondLimit
<1> HIDE DEF n
<1>4. f \in Surjection(1 .. n, Within)
  BY <1>3 DEF Surjection
<1>5. IsFiniteSet(1 .. n) /\ Cardinality(1 .. n) = n
  BY <1>1, FS_Interval
<1>6. IsFiniteSet(Within) /\ Cardinality(Within) <= MaxDevices
  <2>1. IsFiniteSet(Within) /\ Cardinality(Within) <= Cardinality(1 .. n)
    BY <1>4, <1>5, FS_Surjection
  <2>2. Cardinality(Within) \in Nat
    BY <2>1, FS_CardinalityType
  <2>3. QED
    BY <1>1, <1>5, <2>1, <2>2, BoundsAssumption
<1>7. {d \in Pair : rows[d] # None} = {recent[i] : i \in 1 .. Len(recent)}
  BY DEF SessionBase, SessionOrder, Ordered, Login!ToSet
<1>8. ASSUME NEW d \in Pair, rows[d] # None PROVE d \in Within \cup Login!BeyondLimit
  <2>1. PICK i \in 1 .. Len(recent) : d = recent[i]
    BY <1>7, <1>8
  <2>2. i \in 1 .. n \/ i \in (n + 1) .. Len(recent)
    BY <1>1, <2>1
  <2>3. QED
    BY <1>3, <2>1, <2>2
<1>9. Len(recent) >= 1 => recent[1] \in Within
  BY <1>1, <1>2, <1>3
<1>10. QED
  BY <1>6, <1>8, <1>9

(* The devices whose token lets its client in are finitely many.           *)
LEMMA GoodFinite ==
  ASSUME SessionBase
  PROVE  IsFiniteSet(Good) /\ \A d \in Good : rows[d] \in Names
<1> DEFINE f == [i \in 1 .. Len(recent) |-> recent[i]]
<1>1. Len(recent) \in Nat /\ {d \in Pair : rows[d] # None} = {recent[i] : i \in 1 .. Len(recent)}
  BY DEF SessionBase, SessionOrder, Ordered, Login!ToSet
<1>2. f \in Surjection(1 .. Len(recent), {d \in Pair : rows[d] # None})
  BY <1>1 DEF Surjection
<1>3. IsFiniteSet({d \in Pair : rows[d] # None})
  BY <1>1, <1>2, FS_Interval, FS_Surjection
<1>4. \A d \in Good : rows[d] \in Names
  BY DEF Good, Accepting, SessionBase, SessionFields
<1>5. Good \in SUBSET {d \in Pair : rows[d] # None}
  BY <1>4, NoneAssumption DEF Good
<1>6. QED
  BY <1>3, <1>4, <1>5, FS_Subset

(* A bound of a set bounds its subsets.                                    *)
LEMMA Fewer ==
  ASSUME NEW S, NEW T, IsFiniteSet(T), S \subseteq T, Cardinality(T) <= MaxDevices
  PROVE  Cardinality(S) <= MaxDevices
<1>1. IsFiniteSet(S) /\ Cardinality(S) <= Cardinality(T)
  BY FS_Subset
<1>2. Cardinality(S) \in Nat /\ Cardinality(T) \in Nat
  BY <1>1, FS_CardinalityType
<1>3. QED
  BY <1>1, <1>2, BoundsAssumption

(* One more session is set only where an eviction has made room for it.    *)
LEMMA SessionLimitPreserved ==
  SessionBase /\ SessionOwn /\ SessionEvict /\ SessionLimit /\ [Login!Next]_sessionVars
      => SessionLimit'
<1> SUFFICES ASSUME SessionBase, SessionOwn, SessionEvict, SessionLimit, [Login!Next]_sessionVars
             PROVE  SessionLimit'
  OBVIOUS
<1>1. ASSUME NEW d \in Good'
      PROVE  \/ d \in Good
             \/ \E p \in Callers \ contended : Login!SetSession(p) /\ d = loginCall[p].device
  <2>1. d \in Pair /\ Accepting(rows[d])'
    BY <1>1 DEF Good
  <2>2. PICK j : j = rows'[d] /\ Accepting(j)'
    BY <2>1 DEF Accepting
  <2>3. ASSUME Accepting(j) PROVE d \in Good
    <3>1. j \in issued /\ None \notin issued
      BY <2>3, NoneAssumption DEF Accepting, SessionBase, SessionFields
    <3>2. rows[d] = j
      BY <2>1, <2>2, <3>1, RowChange
    <3>3. QED
      BY <2>1, <2>3, <3>2 DEF Good
  <2>4. ASSUME NEW p \in Callers \ contended, Login!SetSession(p), j = loginCall[p].jti
        PROVE  d = loginCall[p].device
    <3>1. loginCall[p].device \in Pair /\ rows[loginCall[p].device] = j /\ UNCHANGED rows
      BY <2>4 DEF Login!SetSession, SessionOwn, TokenSteps, SessionBase, SessionOverlap,
         Login!LoggingIn, Login!LoginSteps
    <3>2. j \in Names
      BY <2>4 DEF Login!SetSession, SessionBase, SessionTokens, TokenSteps, SessionFields
    <3>3. QED
      BY <2>1, <2>2, <3>1, <3>2, NoneAssumption DEF SessionBase, SessionRows
  <2>5. QED
    BY <2>2, <2>3, <2>4, NewlyAccepted
<1>2. Cardinality(Good') <= MaxDevices
  <2>1. CASE ~ \E p \in Callers \ contended : Login!SetSession(p)
    BY <1>1, <2>1, GoodFinite, Fewer DEF SessionLimit
  <2>2. ASSUME NEW p \in Callers \ contended, Login!SetSession(p)
        PROVE  Cardinality(Good') <= MaxDevices
    <3>1. ASSUME NEW q \in Callers \ contended, Login!SetSession(q) PROVE q = p
      BY <2>2, <3>1 DEF Login!SetSession, SessionBase, SessionOverlap, Login!LoggingIn,
         Login!LoginSteps
    <3>2. Good' \subseteq Good \cup {loginCall[p].device}
      BY <1>1, <3>1
    <3>3. Cardinality(Good \cup {loginCall[p].device}) <= MaxDevices
      BY <2>2 DEF Login!SetSession, SessionLimit
    <3>4. IsFiniteSet(Good \cup {loginCall[p].device})
      BY GoodFinite, FS_AddElement
    <3>5. QED
      BY <3>2, <3>3, <3>4, Fewer
  <2>3. QED
    BY <2>1, <2>2
<1>3. ASSUME NEW r \in Callers, r \notin contended', loginCall'[r].step = "set"
      PROVE  Cardinality(Good' \cup {loginCall'[r].device}) <= MaxDevices
  <2> DEFINE d == loginCall[r].device
  <2>1. loginCall'[r].step \in Underway
    BY <1>3 DEF Underway, Login!LoginSteps
  <2>2. r \in Callers \ contended /\ d \in Pair
    BY <1>3, <2>1, Alone, LoginProceeds DEF SessionBase, SessionOverlap
  <2>3. ASSUME NEW e \in Good' PROVE e \in Good
    <3>1. ASSUME NEW p \in Callers \ contended, Login!SetSession(p) PROVE FALSE
      <4>1. p # r
        BY <1>3, <3>1 DEF Login!SetSession, Login!Finish, Login!Idle, SessionBase, SessionFields
      <4>2. Login!LoggingIn(p) /\ Login!LoggingIn(r)
        BY <2>1, <3>1, LoginProceeds DEF Login!SetSession, Login!LoggingIn, Login!LoginSteps
      <4>3. QED
        BY <3>1, <4>1, <4>2 DEF SessionBase, SessionOverlap
    <3>2. QED
      BY <1>1, <3>1
  <2>4. CASE loginCall'[r] = loginCall[r]
    <3>1. Cardinality(Good \cup {d}) <= MaxDevices /\ IsFiniteSet(Good \cup {d})
      BY <1>3, <2>2, <2>4, GoodFinite, FS_AddElement DEF SessionLimit
    <3>2. Good' \cup {loginCall'[r].device} \subseteq Good \cup {d}
      BY <2>3, <2>4
    <3>3. QED
      BY <3>1, <3>2, Fewer
  <2>5. ASSUME loginCall'[r].device = d, loginCall[r].step \in TokenSteps,
               \A e \in Login!BeyondLimit : ~ Accepting(rows[e])
        PROVE  Cardinality(Good' \cup {loginCall'[r].device}) <= MaxDevices
    <3>1. d \in Within
      BY <2>2, <2>5, WithinBound DEF SessionOwn
    <3>2. Good \subseteq Within
      BY <2>5, WithinBound, GoodFinite, NoneAssumption DEF Good
    <3>3. Good' \cup {loginCall'[r].device} \subseteq Within
      BY <2>3, <2>5, <3>1, <3>2
    <3>4. QED
      BY <3>3, WithinBound, Fewer
  <2>6. CASE Login!CountByUserID(r)
    <3> USE DEF SessionBase, SessionFields, Login!Calls
    <3>1. Len(recent) <= MaxDevices /\ loginCall'[r].device = d /\ loginCall[r].step \in TokenSteps
      BY <1>3, <2>6 DEF Login!CountByUserID, Login!Goto, TokenSteps
    <3>2. Login!BeyondLimit = {}
      BY <3>1, Beyond DEF Login!BeyondLimit, Login!WithinLimit
    <3>3. QED
      BY <2>5, <3>1, <3>2
  <2>7. CASE Login!DeleteOldest(r)
    <3>1. loginCall'[r].device = d /\ loginCall[r].step = "delete"
      BY <2>7 DEF Login!DeleteOldest, Login!Goto, SessionBase, SessionFields, Login!Calls
    <3>2. QED
      BY <2>2, <2>5, <3>1 DEF SessionEvict, TokenSteps
  <2>8. ~ Login!RevokeEvicted(r)
    BY <1>3, RevokeEvictedSteps DEF Login!Idle, SessionBase
  <2>9. ~ Login!GetOldest(r)
    BY <1>3 DEF Login!GetOldest, SessionBase, SessionFields, Login!Calls
  <2>10. /\ ~ Login!GetJTIByUserAndDevice(r) /\ ~ Login!RevokeOld(r) /\ ~ Login!Upsert(r)
         /\ ~ Login!SetSessionFails(r) /\ ~ Login!UndoSession(r)
    BY <1>3 DEF Login!GetJTIByUserAndDevice, Login!RevokeOld, Login!Upsert,
       Login!SetSessionFails, Login!UndoSession, Login!Goto, SessionBase, SessionFields, Login!Calls
  <2>11. QED
    BY <2>1, <2>4, <2>6, <2>7, <2>8, <2>9, <2>10, LoginProceeds DEF Progress
<1>4. QED
  BY <1>2, <1>3 DEF SessionLimit

(* No sessions, no calls: the invariant holds at the start.                *)
LEMMA SessionInit == Login!Init => SessionIInv
<1> SUFFICES ASSUME Login!Init PROVE SessionIInv
  OBVIOUS
<1> USE NoneAssumption DEF Login!Init
<1>1. loginCall = [p \in Callers |-> Login!Idle] /\ \A p \in Callers : loginCall[p].step = "idle"
  BY DEF Login!Idle
<1>2. {d \in Pair : rows[d] # None} = {} /\ recent = <<>>
  OBVIOUS
<1>3. SessionOrder /\ Len(recent) = 0
  BY <1>2 DEF SessionOrder, Ordered, Login!IsInjective, Login!ToSet
<1>4. Login!TypeOK
  <2>1. Login!Idle \in Login!Calls
    BY DEF Login!Idle, Login!Calls
  <2>2. QED
    BY <1>1, <1>3, <2>1 DEF Login!TypeOK, SessionOrder, Ordered
<1>5. SessionTokens /\ SessionOverlap /\ SessionLookup /\ SessionOwn
  BY <1>1 DEF SessionTokens, SessionOverlap, SessionLookup, SessionOwn, TokenSteps, UndoSteps,
     Login!LogoutSteps, Login!LoggingIn, Login!LoginSteps
<1>6. SessionRows /\ SessionEvict
  BY <1>1 DEF SessionRows, SessionEvict
<1>7. LogoutIsFinal /\ UnlistedOnlyByRace
  BY DEF LogoutIsFinal, Login!LogoutIsFinal, UnlistedOnlyByRace, Login!UnlistedOnlyByRace
<1>8. Good = {}
  BY DEF Good, Accepting
<1>9. SessionLimit
  BY <1>1, <1>8, FS_EmptySet, BoundsAssumption DEF SessionLimit
<1>10. QED
  BY <1>3, <1>4, <1>5, <1>6, <1>7, <1>9 DEF SessionIInv

(* SessionIInv is inductive: its parts together.                           *)
LEMMA SessionNext == SessionIInv /\ [Login!Next]_sessionVars => SessionIInv'
<1> SUFFICES ASSUME SessionIInv, [Login!Next]_sessionVars PROVE SessionIInv'
  OBVIOUS
<1> USE DEF SessionIInv
<1>1. SessionBase
  BY DEF SessionBase, SessionFields, Login!TypeOK
<1>2. SessionFields' /\ SessionTokens' /\ SessionOverlap' /\ SessionRows' /\ SessionOrder'
  BY <1>1, SessionFieldsPreserved, SessionTokensPreserved, SessionOverlapPreserved,
     SessionRowsPreserved, SessionOrderPreserved DEF SessionBase
<1>3. Login!TypeOK'
  BY <1>2 DEF SessionFields, SessionOrder, Ordered, Login!TypeOK
<1>4. LogoutIsFinal'
  BY <1>1, LogoutPreserved DEF SessionBase
<1>5. SessionLookup' /\ SessionOwn' /\ SessionEvict' /\ UnlistedOnlyByRace' /\ SessionLimit'
  BY <1>1, SessionLookupPreserved, SessionOwnPreserved, SessionEvictPreserved,
     UnlistedPreserved, SessionLimitPreserved
<1>6. QED
  BY <1>2, <1>3, <1>4, <1>5

(* SessionIInv holds of every behaviour of the sessions.                   *)
LEMMA SessionInvariance == Login!Spec => []SessionIInv
BY SessionInit, SessionNext, PTL DEF Login!Spec, Login!vars, sessionVars

(* A session that lets its client in is listed, where a later login of its *)
(* device and the device limit find it, whatever failed or died half way,  *)
(* unless a login that overlapped another write touched it: for any number *)
(* of callers, devices and tokens.                                         *)
THEOREM Unlisted == Login!Spec => []UnlistedOnlyByRace
<1>1. SessionIInv => UnlistedOnlyByRace
  BY DEF SessionIInv
<1>2. QED
  BY <1>1, SessionInvariance, PTL

(* No token is accepted again once its logout was answered with success.   *)
THEOREM LogoutFinal == Login!Spec => []LogoutIsFinal
<1>1. SessionIInv => LogoutIsFinal
  BY DEF SessionIInv
<1>2. QED
  BY <1>1, SessionInvariance, PTL

(* The cardinality Session takes is the one the theorems are about.        *)
LEMMA SessionCardinality == \A S : Login!Cardinality(S) = Cardinality(S)
BY DEF Login!Cardinality, Cardinality

(* The device limit holds, for any limit, of the sessions that overlapping *)
(* logins did not touch: each is on a row of its own, and the devices of   *)
(* these rows are counted by SessionLimit.                                 *)
THEOREM DeviceBound == Login!Spec => []DeviceLimit
<1>1. ASSUME SessionIInv PROVE DeviceLimit
  <2> DEFINE T == (live \cap delivered) \ raced
             f == [d \in Good |-> rows[d]]
  <2>1. f \in Surjection(Good, T)
    <3>1. \A d \in Good : rows[d] \in T
      BY DEF Good, Accepting
    <3>2. \A j \in T : \E d \in Good : rows[d] = j
      BY <1>1 DEF SessionIInv, UnlistedOnlyByRace, Login!UnlistedOnlyByRace, Login!Listed, Good,
         Accepting
    <3>3. QED
      BY <3>1, <3>2 DEF Surjection
  <2> HIDE DEF T, f
  <2>2. SessionBase /\ Cardinality(Good) <= MaxDevices
    BY <1>1 DEF SessionIInv, SessionBase, SessionFields, Login!TypeOK, SessionLimit
  <2>3. IsFiniteSet(Good) /\ IsFiniteSet(T) /\ Cardinality(T) <= Cardinality(Good)
    BY <2>1, <2>2, GoodFinite, FS_Surjection
  <2>4. Cardinality(Good) \in Nat /\ Cardinality(T) \in Nat
    BY <2>3, FS_CardinalityType
  <2>5. Cardinality(T) <= MaxDevices
    BY <2>2, <2>3, <2>4, BoundsAssumption
  <2>6. QED
    BY <2>5, SessionCardinality DEF DeviceLimit, Login!DeviceLimit, T
<1>2. QED
  BY <1>1, SessionInvariance, PTL

-----------------------------------------------------------------------------
(* Read state.                                                             *)

(* A member's receipts and the targets of its advancing calls are not      *)
(* ahead of its watermark, and a call no other crossed has the last word.  *)
ReadOrdered ==
    /\ IF member THEN receipt <= watermark ELSE receipt = 0
    /\ \A p \in Callers : Reading!Busy(p) =>
           /\ readCall[p].step = "publish" => readCall[p].advanced
           /\ readCall[p].advanced => readCall[p].target # None
           /\ readCall[p].advanced /\ ~ readCall[p].former =>
                  /\ member /\ readCall[p].target <= watermark
                  /\ ~ readCall[p].crossed => receipt <= readCall[p].target
    /\ \A p, q \in Callers :
           /\ p # q /\ Reading!Busy(p) /\ Reading!Busy(q)
           /\ readCall[p].advanced /\ ~ readCall[p].former
           /\ readCall[q].advanced /\ ~ readCall[q].former
           => readCall[p].crossed

(* A call that holds a count nothing has been written beside holds the     *)
(* number of the unread messages, and no increment is to come.             *)
ReadClean ==
    \A p \in Callers : Reading!Busy(p) /\ readCall[p].step = "store" /\ ~ readCall[p].dirty =>
        readCall[p].count = Reading!UnreadCount /\ pending = {}

(* A call that moved the watermark and has still to store its count.       *)
Recounting ==
    \E p \in Callers : /\ Reading!Busy(p) /\ readCall[p].advanced
                       /\ readCall[p].step \in {"count", "store"}

(* The counter and the increments to come are the unread messages.         *)
ReadCounted ==
    member /\ unread # None /\ ~ drift /\ ~ Recounting =>
        /\ \A m \in pending : m > watermark /\ m \notin deleted
        /\ unread + Cardinality(pending) = Reading!UnreadCount

ReadIInv == Reading!TypeOK /\ ReadOrdered /\ ReadClean /\ ReadCounted

(* A call b that is the call a but for its dirty mark.                     *)
Kept(a, b) ==
    /\ b \in Reading!Calls /\ b.step = a.step /\ (a = Reading!Idle <=> b = Reading!Idle)
    /\ a # Reading!Idle =>
           /\ b.target = a.target /\ b.count = a.count /\ b.advanced = a.advanced
           /\ b.crossed = a.crossed /\ b.former = a.former

(* Every call that holds a count knows that something was written.         *)
AllDirty == \A q \in Callers : readCall[q].step = "store" => readCall[q].dirty

(* Dirtied changes the dirty marks of the calls that hold a count only.    *)
LEMMA DirtiedKept ==
  ASSUME NEW c \in [Callers -> Reading!Calls]
  PROVE  LET e == Reading!Dirtied(c)
         IN /\ e \in [Callers -> Reading!Calls]
            /\ \A q \in Callers : Kept(c[q], e[q]) /\ (e[q].step = "store" => e[q].dirty)
<1> DEFINE e == Reading!Dirtied(c)
<1>1. e = [q \in Callers |-> IF c[q].step = "store" THEN [c[q] EXCEPT !.dirty = TRUE] ELSE c[q]]
  BY DEF Reading!Dirtied
<1> HIDE DEF e
<1>2. ASSUME NEW q \in Callers
      PROVE  /\ e[q] \in Reading!Calls /\ Kept(c[q], e[q])
             /\ e[q].step = "store" => e[q].dirty
  <2>1. CASE c[q].step = "store"
    <3>1. e[q] = [c[q] EXCEPT !.dirty = TRUE] /\ c[q] # Reading!Idle
      BY <1>1, <2>1 DEF Reading!Idle
    <3>2. QED
      BY <2>1, <3>1 DEF Kept, Reading!Calls, Reading!Idle
  <2>2. CASE c[q].step # "store"
    <3>1. e[q] = c[q] /\ c[q] \in Reading!Calls
      BY <1>1, <2>2
    <3>2. QED
      BY <2>2, <3>1 DEF Kept
  <2>3. QED
    BY <2>1, <2>2
<1>3. e \in [Callers -> Reading!Calls]
  BY <1>1, <1>2
<1>4. QED
  BY <1>2, <1>3 DEF e

(* The calls after a write of another actor.                               *)
LEMMA AllKept ==
  ASSUME Reading!TypeOK, readCall' = Reading!Dirtied(readCall)
  PROVE  /\ readCall' \in [Callers -> Reading!Calls] /\ AllDirty'
         /\ \A q \in Callers : Kept(readCall[q], readCall'[q])
BY DirtiedKept DEF Reading!TypeOK, AllDirty

(* The calls after p has stored its count, or failed to.                   *)
LEMMA AfterOnward ==
  ASSUME Reading!TypeOK, NEW p \in Callers, Reading!Busy(p), Reading!Onward(p)
  PROVE  /\ readCall' \in [Callers -> Reading!Calls] /\ AllDirty'
         /\ \A q \in Callers \ {p} : Kept(readCall[q], readCall'[q])
         /\ ~ readCall[p].advanced => readCall'[p] = Reading!Idle
         /\ readCall[p].advanced =>
                /\ readCall'[p].step = "publish" /\ readCall'[p] # Reading!Idle
                /\ readCall'[p].target = readCall[p].target /\ readCall'[p].advanced
                /\ readCall'[p].crossed = readCall[p].crossed
                /\ readCall'[p].former = readCall[p].former
<1> DEFINE r == IF readCall[p].advanced
                THEN [readCall[p] EXCEPT !.step = "publish", !.count = 0, !.dirty = FALSE]
                ELSE Reading!Idle
           c == [readCall EXCEPT ![p] = r]
<1>1. readCall' = Reading!Dirtied(c)
  BY DEF Reading!Onward
<1>2. readCall[p] \in
          [step : {"count", "store", "publish"}, target : Reading!Messages \cup {None},
           count : 0 .. MaxMessages, dirty : BOOLEAN, advanced : BOOLEAN,
           crossed : BOOLEAN, former : BOOLEAN]
  BY DEF Reading!TypeOK, Reading!Busy, Reading!Calls
<1>3. /\ r \in Reading!Calls
      /\ readCall[p].advanced =>
             /\ r.step = "publish" /\ r # Reading!Idle /\ r.target = readCall[p].target
             /\ r.advanced /\ r.crossed = readCall[p].crossed /\ r.former = readCall[p].former
  <2>1. CASE readCall[p].advanced
    <3>1. r = [readCall[p] EXCEPT !.step = "publish", !.count = 0, !.dirty = FALSE]
      BY <2>1
    <3> HIDE DEF r
    <3>2. 0 \in 0 .. MaxMessages
      BY BoundsAssumption
    <3>3. /\ r \in [step : {"count", "store", "publish"}, target : Reading!Messages \cup {None},
                    count : 0 .. MaxMessages, dirty : BOOLEAN, advanced : BOOLEAN,
                    crossed : BOOLEAN, former : BOOLEAN]
          /\ r.step = "publish" /\ r.target = readCall[p].target /\ r.advanced
          /\ r.crossed = readCall[p].crossed /\ r.former = readCall[p].former
      BY <1>2, <2>1, <3>1, <3>2
    <3>4. r # Reading!Idle
      BY <3>3 DEF Reading!Idle
    <3>5. QED
      BY <3>3, <3>4 DEF Reading!Calls
  <2>2. CASE ~ readCall[p].advanced
    BY <2>2 DEF Reading!Calls
  <2>3. QED
    BY <2>1, <2>2
<1> HIDE DEF r
<1>4. /\ c \in [Callers -> Reading!Calls] /\ c[p] = r
      /\ \A q \in Callers \ {p} : c[q] = readCall[q]
  BY <1>3 DEF Reading!TypeOK
<1>5. ~ readCall[p].advanced => r = Reading!Idle
  BY DEF r
<1> HIDE DEF c
<1>6. /\ readCall' \in [Callers -> Reading!Calls] /\ AllDirty'
      /\ \A q \in Callers : Kept(c[q], readCall'[q])
  BY <1>1, <1>4, DirtiedKept DEF AllDirty
<1>7. QED
  BY <1>3, <1>4, <1>5, <1>6 DEF Kept

(* The calls after one has ended, by its last step or by a failure.        *)
LEMMA AfterAbort ==
  ASSUME Reading!TypeOK, NEW p \in Callers,
         readCall' = Reading!Dirtied([readCall EXCEPT ![p] = Reading!Idle])
  PROVE  /\ readCall' \in [Callers -> Reading!Calls] /\ AllDirty'
         /\ readCall'[p] = Reading!Idle
         /\ \A q \in Callers \ {p} : Kept(readCall[q], readCall'[q])
<1> DEFINE c == [readCall EXCEPT ![p] = Reading!Idle]
<1>1. /\ c \in [Callers -> Reading!Calls] /\ c[p] = Reading!Idle
      /\ \A q \in Callers \ {p} : c[q] = readCall[q]
  BY DEF Reading!TypeOK, Reading!Calls
<1> HIDE DEF c
<1>2. /\ readCall' \in [Callers -> Reading!Calls] /\ AllDirty'
      /\ \A q \in Callers : Kept(c[q], readCall'[q])
  BY <1>1, DirtiedKept DEF AllDirty, c
<1>3. Kept(Reading!Idle, readCall'[p])
  BY <1>1, <1>2
<1>4. readCall'[p] = Reading!Idle
  BY <1>3 DEF Kept
<1>5. \A q \in Callers \ {p} : Kept(readCall[q], readCall'[q])
  BY <1>1, <1>2
<1>6. QED
  BY <1>2, <1>4, <1>5

BusyCalls ==
    [step : {"count", "store", "publish"}, target : Reading!Messages \cup {None},
     count : 0 .. MaxMessages, dirty : BOOLEAN, advanced : BOOLEAN,
     crossed : BOOLEAN, former : BOOLEAN]

(* A call that is not idle is a record of all its fields.                  *)
LEMMA BusyIsRecord ==
  /\ \A a \in Reading!Calls : a # Reading!Idle <=> a \in BusyCalls
  /\ Reading!Calls = {Reading!Idle} \cup BusyCalls
  /\ Reading!Idle.step = "idle"
<1>1. Reading!Calls = {Reading!Idle} \cup BusyCalls
  BY DEF Reading!Calls, BusyCalls
<1>2. Reading!Idle.step = "idle"
  BY DEF Reading!Idle
<1>3. Reading!Idle \notin BusyCalls
  BY <1>2 DEF BusyCalls
<1>4. QED
  BY <1>1, <1>2, <1>3

(* The calls after a MarkAsRead has come to its UPDATE.                    *)
LEMMA AfterAdvance ==
  ASSUME Reading!TypeOK, NEW p \in Callers, NEW m \in Reading!Messages,
         Reading!AdvanceReadWatermark(p, m)
  PROVE  /\ readCall' \in [Callers -> Reading!Calls] /\ AllDirty'
         /\ readCall'[p] # Reading!Idle /\ readCall'[p].step = "count"
         /\ readCall'[p].target = m /\ (readCall'[p].advanced <=> member /\ m > watermark)
         /\ readCall'[p].former = FALSE
         /\ \A q \in Callers \ {p} :
                readCall'[p].advanced /\ Reading!Marking(q) /\ readCall[q].advanced =>
                readCall'[p].crossed /\ readCall'[q].crossed
         /\ \A q \in Callers \ {p} :
                /\ readCall'[q].step = readCall[q].step
                /\ readCall'[q] = Reading!Idle <=> readCall[q] = Reading!Idle
                /\ readCall[q] # Reading!Idle =>
                       /\ readCall'[q].target = readCall[q].target
                       /\ readCall'[q].advanced = readCall[q].advanced
                       /\ readCall'[q].former = readCall[q].former
                       /\ readCall[q].crossed => readCall'[q].crossed
<1> DEFINE ahead == member /\ m > watermark
           others == {q \in Callers : Reading!Marking(q) /\ readCall[q].advanced}
           s == [Reading!Started EXCEPT !.target = m, !.advanced = ahead,
                                        !.crossed = ahead /\ others # {}]
           c == [q \in Callers |-> IF q = p THEN s
                                   ELSE IF ahead /\ q \in others
                                   THEN [readCall[q] EXCEPT !.crossed = TRUE]
                                   ELSE readCall[q]]
<1>1. readCall' = Reading!Dirtied(c)
  BY DEF Reading!AdvanceReadWatermark
<1>2. /\ s \in BusyCalls /\ s.step = "count" /\ s.target = m /\ (s.advanced <=> ahead)
      /\ s.former = FALSE /\ s.crossed = (ahead /\ others # {})
  <2>1. 0 \in 0 .. MaxMessages
    BY BoundsAssumption
  <2> HIDE DEF others
  <2>2. QED
    BY <2>1 DEF Reading!Started, BusyCalls
<1>3. ASSUME NEW q \in others
      PROVE  /\ readCall[q] \in BusyCalls
             /\ LET t == [readCall[q] EXCEPT !.crossed = TRUE]
                IN /\ t \in BusyCalls /\ t.step = readCall[q].step /\ t.crossed
                   /\ t.target = readCall[q].target /\ t.advanced = readCall[q].advanced
                   /\ t.former = readCall[q].former
  <2>1. readCall[q] \in BusyCalls
    BY BusyIsRecord DEF Reading!TypeOK, Reading!Marking, Reading!Busy
  <2>2. QED
    BY <2>1 DEF BusyCalls
<1> HIDE DEF s
<1>4. /\ c \in [Callers -> Reading!Calls] /\ c[p] = s
      /\ \A q \in Callers \ {p} :
             /\ c[q].step = readCall[q].step
             /\ c[q] = Reading!Idle <=> readCall[q] = Reading!Idle
             /\ readCall[q] # Reading!Idle =>
                    /\ c[q].target = readCall[q].target
                    /\ c[q].advanced = readCall[q].advanced
                    /\ c[q].former = readCall[q].former
                    /\ readCall[q].crossed => c[q].crossed
             /\ ahead /\ q \in others => c[q].crossed /\ readCall[q] # Reading!Idle
  <2>1. c[p] = s /\ s \in Reading!Calls
    BY <1>2, BusyIsRecord
  <2>2. ASSUME NEW q \in Callers \ {p}, ahead, q \in others
        PROVE  c[q] = [readCall[q] EXCEPT !.crossed = TRUE]
    BY <2>2
  <2>3. ASSUME NEW q \in Callers \ {p}, ~ (ahead /\ q \in others)
        PROVE  c[q] = readCall[q]
    BY <2>3
  <2>4. \A q \in Callers : c[q] \in Reading!Calls
    BY <1>3, <2>1, <2>2, <2>3, BusyIsRecord DEF Reading!TypeOK
  <2>5. c \in [Callers -> Reading!Calls]
    BY <2>4
  <2> HIDE DEF c, others
  <2>6. QED
    BY <1>3, <2>1, <2>2, <2>3, <2>5, BusyIsRecord
<1> HIDE DEF c
<1>5. /\ readCall' \in [Callers -> Reading!Calls] /\ AllDirty'
      /\ \A q \in Callers : Kept(c[q], readCall'[q])
  BY <1>1, <1>4, DirtiedKept DEF AllDirty
<1>6. Kept(s, readCall'[p]) /\ s # Reading!Idle
  BY <1>2, <1>4, <1>5, BusyIsRecord
<1>7. ASSUME NEW q \in Callers \ {p}, ahead, q \in others
      PROVE  readCall'[p].crossed /\ readCall'[q].crossed
  <2>1. s.crossed
    BY <1>2, <1>7
  <2>2. c[q].crossed /\ c[q] # Reading!Idle
    BY <1>4, <1>7
  <2>3. QED
    BY <1>5, <1>6, <2>1, <2>2 DEF Kept
<1>8. ASSUME NEW q \in Callers \ {p}
      PROVE  /\ readCall'[q].step = readCall[q].step
             /\ readCall'[q] = Reading!Idle <=> readCall[q] = Reading!Idle
             /\ readCall[q] # Reading!Idle =>
                    /\ readCall'[q].target = readCall[q].target
                    /\ readCall'[q].advanced = readCall[q].advanced
                    /\ readCall'[q].former = readCall[q].former
                    /\ readCall[q].crossed => readCall'[q].crossed
  BY <1>4, <1>5 DEF Kept
<1>9. QED
  BY <1>2, <1>5, <1>6, <1>7, <1>8 DEF Kept

(* The calls after the reader was removed.                                 *)
LEMMA AfterRemoval ==
  ASSUME Reading!TypeOK, Reading!RemoveReader
  PROVE  /\ readCall' \in [Callers -> Reading!Calls] /\ AllDirty'
         /\ \A q \in Callers :
                /\ readCall'[q].step = readCall[q].step
                /\ readCall'[q] = Reading!Idle <=> readCall[q] = Reading!Idle
                /\ readCall[q] # Reading!Idle =>
                       /\ readCall'[q].target = readCall[q].target
                       /\ readCall'[q].advanced = readCall[q].advanced
                       /\ readCall'[q].crossed = readCall[q].crossed
                       /\ readCall'[q].former
<1> DEFINE c == [q \in Callers |-> IF Reading!Busy(q) THEN [readCall[q] EXCEPT !.former = TRUE]
                                   ELSE readCall[q]]
<1>1. readCall' = Reading!Dirtied(c)
  BY DEF Reading!RemoveReader
<1>2. ASSUME NEW q \in Callers
      PROVE  /\ c[q] \in Reading!Calls /\ c[q].step = readCall[q].step
             /\ c[q] = Reading!Idle <=> readCall[q] = Reading!Idle
             /\ readCall[q] # Reading!Idle =>
                    /\ c[q].target = readCall[q].target
                    /\ c[q].advanced = readCall[q].advanced
                    /\ c[q].crossed = readCall[q].crossed
                    /\ c[q].former
  <2>1. CASE readCall[q] = Reading!Idle
    <3>1. c[q] = readCall[q]
      BY <2>1 DEF Reading!Busy
    <3>2. QED
      BY <2>1, <3>1, BusyIsRecord
  <2>2. CASE readCall[q] # Reading!Idle
    <3>1. c[q] = [readCall[q] EXCEPT !.former = TRUE] /\ readCall[q] \in BusyCalls
      BY <2>2, BusyIsRecord DEF Reading!Busy, Reading!TypeOK
    <3> HIDE DEF c
    <3>2. /\ c[q] \in BusyCalls /\ c[q].step = readCall[q].step
          /\ c[q].target = readCall[q].target /\ c[q].advanced = readCall[q].advanced
          /\ c[q].crossed = readCall[q].crossed /\ c[q].former
      BY <3>1 DEF BusyCalls
    <3>3. QED
      BY <2>2, <3>2, BusyIsRecord
  <2>3. QED
    BY <2>1, <2>2
<1>3. c \in [Callers -> Reading!Calls]
  BY <1>2
<1> HIDE DEF c
<1>4. /\ readCall' \in [Callers -> Reading!Calls] /\ AllDirty'
      /\ \A q \in Callers : Kept(c[q], readCall'[q])
  BY <1>1, <1>3, DirtiedKept DEF AllDirty
<1>5. QED
  BY <1>2, <1>4 DEF Kept

(* The messages of a bounded set are counted by a natural number.          *)
LEMMA ReadCount ==
  ASSUME Reading!TypeOK
  PROVE  /\ IsFiniteSet(stored) /\ IsFiniteSet(pending)
         /\ Cardinality(pending) \in Nat /\ Reading!UnreadCount \in 0 .. MaxMessages
         /\ IsFiniteSet({m \in stored \ deleted : m > watermark})
         /\ Reading!UnreadCount =
                IF member THEN Cardinality({m \in stored \ deleted : m > watermark}) ELSE 0
<1>1. IsFiniteSet(1 .. MaxMessages) /\ Cardinality(1 .. MaxMessages) = MaxMessages
  BY BoundsAssumption, FS_Interval
<1>2. IsFiniteSet(stored) /\ IsFiniteSet(pending)
  <2>1. stored \in SUBSET (1 .. MaxMessages) /\ pending \in SUBSET (1 .. MaxMessages)
    BY DEF Reading!TypeOK, Reading!Messages
  <2>2. QED
    BY <1>1, <2>1, FS_Subset
<1> DEFINE U == {m \in stored \ deleted : m > watermark}
<1>3. IsFiniteSet(U) /\ Cardinality(U) <= MaxMessages
  <2>1. U \in SUBSET (1 .. MaxMessages)
    BY DEF Reading!TypeOK, Reading!Messages
  <2>2. QED
    BY <1>1, <2>1, FS_Subset
<1>4. Reading!UnreadCount = IF member THEN Cardinality(U) ELSE 0
  BY DEF Reading!UnreadCount, Reading!Cardinality, Cardinality
<1> HIDE DEF U
<1>5. Cardinality(U) \in Nat /\ Cardinality(pending) \in Nat
  BY <1>2, <1>3, FS_CardinalityType
<1>6. Reading!UnreadCount \in 0 .. MaxMessages
  BY <1>3, <1>4, <1>5, BoundsAssumption
<1>7. QED
  BY <1>2, <1>3, <1>4, <1>5, <1>6 DEF U

(* The calls after one has counted.                                        *)
LEMMA AfterCount ==
  ASSUME Reading!TypeOK, NEW p \in Callers, Reading!CountUnread(p)
  PROVE  /\ readCall' \in [Callers -> Reading!Calls]
         /\ \A q \in Callers \ {p} : readCall'[q] = readCall[q]
         /\ readCall[p] # Reading!Idle /\ readCall'[p] # Reading!Idle /\ readCall'[p].step = "store"
         /\ readCall'[p].target = readCall[p].target
         /\ readCall'[p].advanced = readCall[p].advanced
         /\ readCall'[p].crossed = readCall[p].crossed
         /\ readCall'[p].former = readCall[p].former
         /\ readCall'[p].count = Reading!UnreadCount /\ readCall'[p].dirty = (pending # {})
<1> DEFINE n == Reading!UnreadCount
           b == pending # {}
           r == [readCall[p] EXCEPT !.step = "store", !.count = n, !.dirty = b]
<1>1. readCall' = [readCall EXCEPT ![p] = r]
  BY DEF Reading!CountUnread
<1>2. readCall[p] \in BusyCalls
  BY BusyIsRecord DEF Reading!CountUnread, Reading!TypeOK
<1>3. n \in 0 .. MaxMessages /\ b \in BOOLEAN
  BY ReadCount
<1> HIDE DEF n, b
<1>4. /\ r \in BusyCalls /\ r.step = "store" /\ r.target = readCall[p].target
      /\ r.advanced = readCall[p].advanced /\ r.crossed = readCall[p].crossed
      /\ r.former = readCall[p].former /\ r.count = n /\ r.dirty = b
  BY <1>2, <1>3 DEF BusyCalls
<1> HIDE DEF r
<1>5. /\ readCall' \in [Callers -> Reading!Calls] /\ readCall'[p] = r
      /\ \A q \in Callers \ {p} : readCall'[q] = readCall[q]
  BY <1>1, <1>4, BusyIsRecord DEF Reading!TypeOK
<1>6. QED
  BY <1>2, <1>4, <1>5, BusyIsRecord DEF n, b

(* The calls after one of ListConversations has counted.                   *)
LEMMA AfterListCount ==
  ASSUME Reading!TypeOK, NEW p \in Callers, Reading!CountForList(p)
  PROVE  /\ readCall' \in [Callers -> Reading!Calls]
         /\ \A q \in Callers \ {p} : readCall'[q] = readCall[q]
         /\ readCall'[p] # Reading!Idle /\ readCall'[p].step = "store"
         /\ ~ readCall'[p].advanced
         /\ readCall'[p].count = Reading!UnreadCount /\ readCall'[p].dirty = (pending # {})
<1> DEFINE n == Reading!UnreadCount
           b == pending # {}
           r == [Reading!Started EXCEPT !.step = "store", !.count = n, !.dirty = b]
<1>1. readCall' = [readCall EXCEPT ![p] = r]
  BY DEF Reading!CountForList
<1>2. n \in 0 .. MaxMessages /\ b \in BOOLEAN
  BY ReadCount
<1> HIDE DEF n, b
<1>3. r \in BusyCalls /\ r.step = "store" /\ ~ r.advanced /\ r.count = n /\ r.dirty = b
  BY <1>2 DEF BusyCalls, Reading!Started
<1> HIDE DEF r
<1>4. /\ readCall' \in [Callers -> Reading!Calls] /\ readCall'[p] = r
      /\ \A q \in Callers \ {p} : readCall'[q] = readCall[q]
  BY <1>1, <1>3, BusyIsRecord DEF Reading!TypeOK
<1>5. QED
  BY <1>3, <1>4, BusyIsRecord DEF n, b

(* The calls after a receipt was published.                                *)
LEMMA AfterPublish ==
  ASSUME Reading!TypeOK, NEW p \in Callers, Reading!PublishReceipt(p)
  PROVE  /\ readCall' \in [Callers -> Reading!Calls] /\ readCall[p] # Reading!Idle
         /\ \A q \in Callers \ {p} : readCall'[q] = readCall[q]
         /\ readCall'[p] = Reading!Idle
BY BusyIsRecord DEF Reading!TypeOK, Reading!PublishReceipt

(* The types of the read state.                                            *)
LEMMA ReadTypes ==
  Reading!TypeOK /\ ReadOrdered /\ [Reading!Next]_readVars => Reading!TypeOK'
<1> SUFFICES ASSUME Reading!TypeOK, ReadOrdered, [Reading!Next]_readVars PROVE Reading!TypeOK'
  OBVIOUS
<1>1. ASSUME NEW m \in Reading!Messages, Reading!InsertMessage(m) PROVE Reading!TypeOK'
  BY <1>1, AllKept DEF Reading!InsertMessage, Reading!messages, Reading!reader, Reading!TypeOK
<1>2. ASSUME NEW m \in Reading!Messages, Reading!IncrUnread(m) PROVE Reading!TypeOK'
  BY <1>2, AllKept DEF Reading!IncrUnread, Reading!messages, Reading!reader, Reading!TypeOK
<1>3. ASSUME NEW m \in Reading!Messages, Reading!SkipUnread(m) \/ Reading!DeleteMessage(m)
      PROVE Reading!TypeOK'
  BY <1>3, AllKept DEF Reading!SkipUnread, Reading!DeleteMessage, Reading!messages,
     Reading!reader, Reading!TypeOK
<1>4. ASSUME NEW p \in Callers, NEW m \in Reading!Messages, Reading!AdvanceReadWatermark(p, m)
      PROVE Reading!TypeOK'
  <2>1. readCall' \in [Callers -> Reading!Calls]
    BY <1>4, AfterAdvance
  <2>2. m \in 0 .. MaxMessages
    BY BoundsAssumption DEF Reading!Messages
  <2>3. QED
    BY <1>4, <2>1, <2>2 DEF Reading!AdvanceReadWatermark, Reading!messages, Reading!TypeOK
<1>5. ASSUME NEW p \in Callers, Reading!CountUnread(p) PROVE Reading!TypeOK'
  BY <1>5, AfterCount DEF Reading!CountUnread, Reading!messages, Reading!reader, Reading!TypeOK
<1>6. ASSUME NEW p \in Callers, Reading!SetUnread(p) PROVE Reading!TypeOK'
  <2>1. readCall[p] \in BusyCalls
    BY <1>6, BusyIsRecord DEF Reading!SetUnread, Reading!TypeOK
  <2>2. readCall[p].count \in 0 .. MaxMessages /\ readCall[p].dirty \in BOOLEAN
    BY <2>1 DEF BusyCalls
  <2>3. readCall' \in [Callers -> Reading!Calls]
    BY <1>6, <2>1, AfterOnward, BusyIsRecord DEF Reading!SetUnread, Reading!Busy
  <2>4. QED
    BY <1>6, <2>2, <2>3, BoundsAssumption DEF Reading!SetUnread, Reading!messages,
       Reading!reader,
       Reading!TypeOK
<1>7. ASSUME NEW p \in Callers, Reading!ReconcileFails(p) PROVE Reading!TypeOK'
  <2>1. readCall' \in [Callers -> Reading!Calls]
    BY <1>7, AfterOnward DEF Reading!ReconcileFails, Reading!Marking
  <2>2. QED
    BY <1>7, <2>1 DEF Reading!ReconcileFails, Reading!messages, Reading!reader, Reading!TypeOK
<1>8. ASSUME NEW p \in Callers, Reading!PublishReceipt(p) PROVE Reading!TypeOK'
  <2>1. readCall' \in [Callers -> Reading!Calls] /\ readCall[p] \in BusyCalls
    BY <1>8, AfterPublish, BusyIsRecord DEF Reading!TypeOK
  <2>2. ~ readCall[p].former => readCall[p].target \in Reading!Messages
    BY <1>8, <2>1, BusyIsRecord DEF Reading!PublishReceipt, ReadOrdered, Reading!Busy, BusyCalls
  <2>3. receipt' \in 0 .. MaxMessages
    BY <1>8, <2>2, BoundsAssumption DEF Reading!PublishReceipt, Reading!Messages, Reading!TypeOK
  <2>4. QED
    BY <1>8, <2>1, <2>3 DEF Reading!PublishReceipt, Reading!messages, Reading!reader,
       Reading!TypeOK
<1>9. ASSUME NEW p \in Callers, Reading!CountForList(p) PROVE Reading!TypeOK'
  BY <1>9, AfterListCount DEF Reading!CountForList, Reading!messages, Reading!reader,
     Reading!TypeOK
<1>10. ASSUME NEW p \in Callers, Reading!Abort(p) PROVE Reading!TypeOK'
  BY <1>10, AfterAbort DEF Reading!Abort, Reading!messages, Reading!reader, Reading!TypeOK
<1>11. ASSUME Reading!RemoveReader PROVE Reading!TypeOK'
  <2>1. readCall' \in [Callers -> Reading!Calls]
    BY <1>11, AfterRemoval
  <2>2. 0 \in 0 .. MaxMessages
    BY BoundsAssumption
  <2>3. QED
    BY <1>11, <2>1, <2>2 DEF Reading!RemoveReader, Reading!messages, Reading!TypeOK
<1>12. ASSUME Reading!AddReader PROVE Reading!TypeOK'
  BY <1>12, AllKept DEF Reading!AddReader, Reading!messages, Reading!reader, Reading!TypeOK
<1>13. ASSUME Reading!DeleteUnread PROVE Reading!TypeOK'
  BY <1>13, AllKept DEF Reading!DeleteUnread, Reading!messages, Reading!reader, Reading!TypeOK
<1>14. CASE UNCHANGED readVars
  BY <1>14 DEF readVars, Reading!TypeOK
<1>15. QED
  BY <1>1, <1>2, <1>3, <1>4, <1>5, <1>6, <1>7, <1>8, <1>9, <1>10, <1>11, <1>12, <1>13, <1>14 DEF
     Reading!Next

(* The last receipt stays behind the calls that have one to publish.       *)
LEMMA ReadOrderedPreserved ==
  Reading!TypeOK /\ ReadOrdered /\ [Reading!Next]_readVars => ReadOrdered'
<1> SUFFICES ASSUME Reading!TypeOK /\ ReadOrdered, [Reading!Next]_readVars PROVE ReadOrdered'
  OBVIOUS
<1>1. ASSUME NEW m \in Reading!Messages, Reading!InsertMessage(m) \/ Reading!IncrUnread(m) \/
             Reading!SkipUnread(m) \/ Reading!DeleteMessage(m)
      PROVE ReadOrdered'
  BY <1>1, AllKept DEF Reading!InsertMessage, Reading!IncrUnread, Reading!SkipUnread,
     Reading!DeleteMessage, Reading!messages, Reading!reader, ReadOrdered, Reading!Busy, Kept
<1>2. ASSUME NEW p \in Callers, NEW m \in Reading!Messages, Reading!AdvanceReadWatermark(p, m)
      PROVE ReadOrdered'
  <2>1. /\ readCall'[p] # Reading!Idle /\ readCall'[p].step = "count"
        /\ readCall'[p].target = m /\ readCall'[p].former = FALSE
        /\ readCall'[p].advanced <=> member /\ m > watermark
        /\ \A q \in Callers \ {p} :
               readCall'[p].advanced /\ Reading!Marking(q) /\ readCall[q].advanced =>
               readCall'[p].crossed /\ readCall'[q].crossed
        /\ \A q \in Callers \ {p} :
               /\ readCall'[q].step = readCall[q].step
               /\ readCall'[q] = Reading!Idle <=> readCall[q] = Reading!Idle
               /\ readCall[q] # Reading!Idle =>
                      /\ readCall'[q].target = readCall[q].target
                      /\ readCall'[q].advanced = readCall[q].advanced
                      /\ readCall'[q].former = readCall[q].former
                      /\ readCall[q].crossed => readCall'[q].crossed
    BY <1>2, AfterAdvance
  <2>2. /\ watermark' = IF member /\ m > watermark THEN m ELSE watermark
        /\ UNCHANGED <<member, receipt>> /\ m \in 1 .. MaxMessages /\ m # None
    <3>1. /\ watermark' = IF member /\ m > watermark THEN m ELSE watermark
          /\ UNCHANGED <<member, receipt>>
      BY <1>2 DEF Reading!AdvanceReadWatermark
    <3>2. m \in 1 .. MaxMessages /\ m # None
      BY NoneAssumption DEF Reading!Messages
    <3>3. QED
      BY <3>1, <3>2
  <2>3. watermark \in Nat /\ receipt \in Nat /\ m \in Nat /\ MaxMessages \in Nat
    BY <2>2, BoundsAssumption DEF Reading!TypeOK
  <2>4. ASSUME NEW q \in Callers, readCall[q] # Reading!Idle, readCall[q].target # None
        PROVE  readCall[q].target \in Nat
    BY <2>4, BusyIsRecord DEF Reading!TypeOK, BusyCalls, Reading!Messages
  <2>5. ASSUME NEW q \in Callers, readCall[q] # Reading!Idle, readCall[q].advanced
        PROVE  Reading!Marking(q)
    BY <2>5 DEF ReadOrdered, Reading!Marking, Reading!Busy
  <2>6. IF member' THEN receipt' <= watermark' ELSE receipt' = 0
    BY <2>2, <2>3 DEF ReadOrdered
  <2>7. ASSUME NEW q \in Callers, readCall'[q] # Reading!Idle
        PROVE  /\ readCall'[q].step = "publish" => readCall'[q].advanced
               /\ readCall'[q].advanced => readCall'[q].target # None
               /\ readCall'[q].advanced /\ ~ readCall'[q].former =>
                      /\ member' /\ readCall'[q].target <= watermark'
                      /\ ~ readCall'[q].crossed => receipt' <= readCall'[q].target
    <3>1. CASE q = p
      BY <2>1, <2>2, <2>3, <3>1 DEF ReadOrdered
    <3>2. CASE q # p
      <4>1. /\ readCall[q].step = "publish" => readCall[q].advanced
            /\ readCall[q].advanced => readCall[q].target # None
            /\ readCall[q].advanced /\ ~ readCall[q].former =>
                   /\ member /\ readCall[q].target <= watermark
                   /\ ~ readCall[q].crossed => receipt <= readCall[q].target
        BY <2>1, <2>7, <3>2 DEF ReadOrdered, Reading!Busy
      <4>2. readCall[q].advanced => watermark <= watermark' /\ readCall[q].target \in Nat
        BY <2>1, <2>2, <2>3, <2>4, <2>7, <3>2, <4>1
      <4>3. QED
        BY <2>1, <2>2, <2>3, <2>7, <3>2, <4>1, <4>2
    <3>3. QED
      BY <3>1, <3>2
  <2>8. ASSUME NEW q \in Callers, NEW r \in Callers, q # r,
               readCall'[q] # Reading!Idle, readCall'[q].advanced, ~ readCall'[q].former,
               readCall'[r] # Reading!Idle, readCall'[r].advanced, ~ readCall'[r].former
        PROVE  readCall'[q].crossed
    BY <2>1, <2>5, <2>8 DEF ReadOrdered, Reading!Busy
  <2>9. QED
    BY <2>6, <2>7, <2>8 DEF ReadOrdered, Reading!Busy
<1>3. ASSUME NEW p \in Callers, Reading!CountUnread(p) PROVE ReadOrdered'
  <2>1. UNCHANGED <<member, watermark, receipt>>
    BY <1>3 DEF Reading!CountUnread, Reading!reader
  <2>2. QED
    BY <1>3, <2>1, AfterCount DEF ReadOrdered, Reading!Busy
<1>4. ASSUME NEW p \in Callers, Reading!SetUnread(p) PROVE ReadOrdered'
  <2>1. Reading!Busy(p)
    BY <1>4, BusyIsRecord DEF Reading!SetUnread, Reading!Busy
  <2>2. Reading!Onward(p) /\ UNCHANGED <<member, watermark, receipt>>
    BY <1>4 DEF Reading!SetUnread, Reading!reader
  <2>3. QED
    BY <2>1, <2>2, AfterOnward DEF ReadOrdered, Reading!Busy, Kept
<1>5. ASSUME NEW p \in Callers, Reading!ReconcileFails(p) PROVE ReadOrdered'
  <2>1. Reading!Busy(p)
    BY <1>5 DEF Reading!ReconcileFails, Reading!Marking
  <2>2. Reading!Onward(p) /\ UNCHANGED <<member, watermark, receipt>>
    BY <1>5 DEF Reading!ReconcileFails, Reading!reader
  <2>3. QED
    BY <2>1, <2>2, AfterOnward DEF ReadOrdered, Reading!Busy, Kept
<1>6. ASSUME NEW p \in Callers, Reading!PublishReceipt(p) PROVE ReadOrdered'
  <2>1. /\ readCall[p] # Reading!Idle /\ readCall'[p] = Reading!Idle
        /\ \A q \in Callers \ {p} : readCall'[q] = readCall[q]
    BY <1>6, AfterPublish
  <2>2. /\ readCall[p].step = "publish" /\ UNCHANGED <<member, watermark>>
        /\ receipt' = IF readCall[p].former THEN receipt ELSE readCall[p].target
    BY <1>6 DEF Reading!PublishReceipt, Reading!reader
  <2>3. QED
    BY <2>1, <2>2 DEF ReadOrdered, Reading!Busy
<1>7. ASSUME NEW p \in Callers, Reading!CountForList(p) PROVE ReadOrdered'
  BY <1>7, AfterListCount DEF Reading!CountForList, Reading!messages, Reading!reader,
     ReadOrdered, Reading!Busy
<1>8. ASSUME NEW p \in Callers, Reading!Abort(p) PROVE ReadOrdered'
  <2>1. UNCHANGED <<member, watermark, receipt>>
    BY <1>8 DEF Reading!Abort, Reading!reader
  <2>2. readCall'[p] = Reading!Idle /\ \A q \in Callers \ {p} : Kept(readCall[q], readCall'[q])
    BY <1>8, AfterAbort DEF Reading!Abort
  <2>3. QED
    BY <2>1, <2>2 DEF ReadOrdered, Reading!Busy, Kept
<1>9. ASSUME Reading!RemoveReader PROVE ReadOrdered'
  BY <1>9, AfterRemoval DEF Reading!RemoveReader, Reading!messages, Reading!reader, ReadOrdered,
     Reading!Busy
<1>10. ASSUME Reading!AddReader PROVE ReadOrdered'
  BY <1>10, AllKept, BoundsAssumption DEF Reading!TypeOK, Reading!AddReader,
     Reading!messages, Reading!reader, ReadOrdered, Reading!Busy, Kept
<1>11. ASSUME Reading!DeleteUnread PROVE ReadOrdered'
  BY <1>11, AllKept DEF Reading!DeleteUnread, Reading!messages, Reading!reader, ReadOrdered,
     Reading!Busy, Kept
<1>12. CASE UNCHANGED readVars
  BY <1>12 DEF readVars, ReadOrdered, Reading!Busy
<1>13. QED
  BY <1>1, <1>2, <1>3, <1>4, <1>5, <1>6, <1>7, <1>8, <1>9, <1>10, <1>11, <1>12 DEF Reading!Next

(* A clean count stays the number of the unread messages.                  *)
LEMMA ReadCleanPreserved ==
  Reading!TypeOK /\ ReadClean /\ [Reading!Next]_readVars => ReadClean'
<1> SUFFICES ASSUME Reading!TypeOK /\ ReadClean, [Reading!Next]_readVars PROVE ReadClean'
  OBVIOUS
<1>1. ASSUME NEW m \in Reading!Messages, Reading!InsertMessage(m) \/ Reading!IncrUnread(m) \/
             Reading!SkipUnread(m) \/ Reading!DeleteMessage(m)
      PROVE ReadClean'
  <2>1. AllDirty'
    BY <1>1, AllKept DEF Reading!InsertMessage, Reading!IncrUnread, Reading!SkipUnread,
       Reading!DeleteMessage
  <2>2. QED
    BY <2>1 DEF AllDirty, ReadClean
<1>2. ASSUME NEW p \in Callers, NEW m \in Reading!Messages, Reading!AdvanceReadWatermark(p, m)
      PROVE ReadClean'
  <2>1. AllDirty'
    BY <1>2, AfterAdvance
  <2>2. QED
    BY <2>1 DEF AllDirty, ReadClean
<1>3. ASSUME NEW p \in Callers, Reading!CountUnread(p) PROVE ReadClean'
  <2>1. UNCHANGED <<stored, deleted, pending, member, watermark>>
    BY <1>3 DEF Reading!CountUnread, Reading!messages, Reading!reader
  <2>2. Reading!UnreadCount' = Reading!UnreadCount
    BY <2>1 DEF Reading!UnreadCount
  <2>3. QED
    BY <1>3, <2>1, <2>2, AfterCount DEF ReadClean, Reading!Busy
<1>4. ASSUME NEW p \in Callers, Reading!SetUnread(p) PROVE ReadClean'
  <2>1. AllDirty'
    BY <1>4, BusyIsRecord, AfterOnward DEF Reading!SetUnread, Reading!Busy
  <2>2. QED
    BY <2>1 DEF AllDirty, ReadClean
<1>5. ASSUME NEW p \in Callers, Reading!ReconcileFails(p) PROVE ReadClean'
  <2>1. AllDirty'
    BY <1>5, AfterOnward DEF Reading!ReconcileFails, Reading!Marking
  <2>2. QED
    BY <2>1 DEF AllDirty, ReadClean
<1>6. ASSUME NEW p \in Callers, Reading!PublishReceipt(p) PROVE ReadClean'
  <2>1. UNCHANGED <<stored, deleted, pending, member, watermark>>
    BY <1>6 DEF Reading!PublishReceipt, Reading!messages, Reading!reader
  <2>2. Reading!UnreadCount' = Reading!UnreadCount
    BY <2>1 DEF Reading!UnreadCount
  <2>3. QED
    BY <1>6, <2>1, <2>2, AfterPublish DEF ReadClean, Reading!Busy
<1>7. ASSUME NEW p \in Callers, Reading!CountForList(p) PROVE ReadClean'
  <2>1. UNCHANGED <<stored, deleted, pending, member, watermark>>
    BY <1>7 DEF Reading!CountForList, Reading!messages, Reading!reader
  <2>2. Reading!UnreadCount' = Reading!UnreadCount
    BY <2>1 DEF Reading!UnreadCount
  <2>3. QED
    BY <1>7, <2>1, <2>2, AfterListCount DEF ReadClean, Reading!Busy
<1>8. ASSUME NEW p \in Callers, Reading!Abort(p) PROVE ReadClean'
  <2>1. AllDirty'
    BY <1>8, AfterAbort DEF Reading!Abort
  <2>2. QED
    BY <2>1 DEF AllDirty, ReadClean
<1>9. ASSUME Reading!RemoveReader PROVE ReadClean'
  <2>1. AllDirty'
    BY <1>9, AfterRemoval
  <2>2. QED
    BY <2>1 DEF AllDirty, ReadClean
<1>10. ASSUME Reading!AddReader PROVE ReadClean'
  <2>1. AllDirty'
    BY <1>10, AllKept DEF Reading!AddReader
  <2>2. QED
    BY <2>1 DEF AllDirty, ReadClean
<1>11. ASSUME Reading!DeleteUnread PROVE ReadClean'
  <2>1. AllDirty'
    BY <1>11, AllKept DEF Reading!DeleteUnread
  <2>2. QED
    BY <2>1 DEF AllDirty, ReadClean
<1>12. CASE UNCHANGED readVars
  BY <1>12 DEF readVars, ReadClean, Reading!Busy, Reading!UnreadCount
<1>13. QED
  BY <1>1, <1>2, <1>3, <1>4, <1>5, <1>6, <1>7, <1>8, <1>9, <1>10, <1>11, <1>12 DEF Reading!Next

(* The counter and the increments to come stay the unread messages.        *)
LEMMA ReadCountedPreserved ==
  Reading!TypeOK /\ ReadOrdered /\ ReadClean /\ ReadCounted /\ [Reading!Next]_readVars
      => ReadCounted'
<1> SUFFICES ASSUME Reading!TypeOK, ReadOrdered, ReadClean, ReadCounted, [Reading!Next]_readVars,
                    member', unread' # None, ~ drift', ~ Recounting'
             PROVE  /\ \A m \in pending' : m > watermark' /\ m \notin deleted'
                    /\ unread' + Cardinality(pending') = Reading!UnreadCount'
  BY DEF ReadCounted
<1> DEFINE U == {m \in stored \ deleted : m > watermark}
           Goal == /\ \A m \in pending' : m > watermark' /\ m \notin deleted'
                   /\ unread' + Cardinality(pending') = Reading!UnreadCount'
<1>1. /\ IsFiniteSet(pending) /\ IsFiniteSet(U)
      /\ Cardinality(pending) \in Nat /\ Cardinality(U) \in Nat
      /\ member => Reading!UnreadCount = Cardinality(U)
      /\ stored \subseteq Nat /\ pending \subseteq stored /\ deleted \subseteq stored
      /\ watermark \in Nat /\ (unread # None => unread \in Nat)
  <2>1. IsFiniteSet(U) /\ (member => Reading!UnreadCount = Cardinality(U))
    BY ReadCount
  <2>2. Cardinality(U) \in Nat
    BY <2>1, FS_CardinalityType
  <2>3. IsFiniteSet(pending) /\ Cardinality(pending) \in Nat
    BY ReadCount
  <2> HIDE DEF U
  <2>4. QED
    BY <2>1, <2>2, <2>3, BoundsAssumption DEF Reading!TypeOK, Reading!Messages
<1>2. member' => Reading!UnreadCount' = Cardinality({m \in stored' \ deleted' : m > watermark'})
  BY DEF Reading!UnreadCount, Reading!Cardinality, Cardinality
<1>3. ASSUME member, unread # None, ~ drift, ~ Recounting
      PROVE  /\ \A m \in pending : m > watermark /\ m \notin deleted
             /\ unread + Cardinality(pending) = Cardinality(U)
  BY <1>1, <1>3 DEF ReadCounted
<1>4. ASSUME NEW m \in Reading!Messages, Reading!InsertMessage(m) PROVE Goal
  <2>1. /\ m \notin stored /\ stored' = stored \cup {m} /\ pending' = pending \cup {m}
        /\ ~ drift /\ ~ (m <= watermark)
        /\ UNCHANGED <<deleted, member, watermark, unread>>
    BY <1>4 DEF Reading!InsertMessage, Reading!reader
  <2>2. ~ Recounting
    BY <1>4, AllKept DEF Reading!InsertMessage, Recounting, Kept, Reading!Busy
  <2>3. /\ \A n \in pending : n > watermark /\ n \notin deleted
        /\ unread + Cardinality(pending) = Cardinality(U)
    BY <1>3, <2>1, <2>2
  <2>4. m \in Nat /\ m > watermark /\ m \notin deleted /\ m \notin pending /\ m \notin U
    BY <1>1, <2>1, BoundsAssumption DEF Reading!Messages
  <2>5. Reading!UnreadCount' = Cardinality(U \cup {m})
    <3>1. {n \in stored' \ deleted' : n > watermark'} = U \cup {m}
      BY <2>1, <2>4
    <3>2. QED
      BY <1>2, <3>1
  <2> HIDE DEF U
  <2>6. /\ Cardinality(pending') = Cardinality(pending) + 1
        /\ Cardinality(U \cup {m}) = Cardinality(U) + 1
    BY <1>1, <2>1, <2>4, FS_AddElement
  <2>7. QED
    BY <1>1, <2>1, <2>3, <2>4, <2>5, <2>6
<1>5. ASSUME NEW m \in Reading!Messages, Reading!IncrUnread(m) PROVE Goal
  <2>1. /\ m \in pending /\ pending' = pending \ {m}
        /\ unread # None /\ unread' = unread + 1 /\ ~ drift
        /\ UNCHANGED <<stored, deleted, member, watermark>>
    BY <1>5 DEF Reading!IncrUnread, Reading!reader
  <2>2. ~ Recounting
    BY <1>5, AllKept DEF Reading!IncrUnread, Recounting, Kept, Reading!Busy
  <2>3. /\ \A n \in pending : n > watermark /\ n \notin deleted
        /\ unread + Cardinality(pending) = Cardinality(U)
    BY <1>3, <2>1, <2>2
  <2>4. Cardinality(pending') = Cardinality(pending) - 1
    BY <1>1, <2>1, FS_RemoveElement
  <2>5. Reading!UnreadCount' = Cardinality(U)
    <3>1. {n \in stored' \ deleted' : n > watermark'} = U
      BY <2>1
    <3>2. QED
      BY <1>2, <3>1
  <2> HIDE DEF U
  <2>6. QED
    BY <1>1, <2>1, <2>3, <2>4, <2>5
<1>6. ASSUME NEW m \in Reading!Messages, Reading!SkipUnread(m) PROVE FALSE
  BY <1>6 DEF Reading!SkipUnread
<1>7. ASSUME NEW m \in Reading!Messages, Reading!DeleteMessage(m) PROVE Goal
  <2>1. /\ deleted' = deleted \cup {m} /\ ~ drift /\ ~ (m > watermark)
        /\ UNCHANGED <<stored, pending, member, watermark, unread>>
    BY <1>7 DEF Reading!DeleteMessage, Reading!reader
  <2>2. ~ Recounting
    BY <1>7, AllKept DEF Reading!DeleteMessage, Recounting, Kept, Reading!Busy
  <2>3. /\ \A n \in pending : n > watermark /\ n \notin deleted
        /\ unread + Cardinality(pending) = Cardinality(U)
    BY <1>3, <2>1, <2>2
  <2>4. Reading!UnreadCount' = Cardinality(U)
    <3>1. {n \in stored' \ deleted' : n > watermark'} = U
      BY <2>1
    <3>2. QED
      BY <1>2, <3>1
  <2> HIDE DEF U
  <2>5. QED
    BY <2>1, <2>3, <2>4
(* The steps that touch no message and no counter keep what was so, unless *)
(* a count is under way.                                                   *)
<1>8. ASSUME UNCHANGED <<stored, deleted, pending, member, watermark, unread, drift>>, ~ Recounting
      PROVE  Goal
  <2>1. Reading!UnreadCount' = Cardinality(U)
    <3>1. {n \in stored' \ deleted' : n > watermark'} = U
      BY <1>8
    <3>2. QED
      BY <1>2, <3>1
  <2> HIDE DEF U
  <2>2. QED
    BY <1>3, <1>8, <2>1
<1>9. ASSUME NEW p \in Callers, NEW m \in Reading!Messages, Reading!AdvanceReadWatermark(p, m)
      PROVE  Goal
  <2>1. /\ readCall'[p] # Reading!Idle /\ readCall'[p].step = "count"
        /\ readCall'[p].advanced <=> member /\ m > watermark
        /\ \A q \in Callers \ {p} :
               /\ readCall'[q].step = readCall[q].step
               /\ readCall'[q] = Reading!Idle <=> readCall[q] = Reading!Idle
               /\ readCall[q] # Reading!Idle => readCall'[q].advanced = readCall[q].advanced
    BY <1>9, AfterAdvance
  <2>2. ~ readCall'[p].advanced
    BY <2>1 DEF Recounting, Reading!Busy
  <2>3. UNCHANGED <<stored, deleted, pending, member, watermark, unread, drift>>
    BY <1>9, <2>1, <2>2 DEF Reading!AdvanceReadWatermark, Reading!messages
  <2>4. readCall[p] = Reading!Idle
    BY <1>9 DEF Reading!AdvanceReadWatermark
  <2>5. ~ Recounting
    BY <2>1, <2>4 DEF Recounting, Reading!Busy
  <2> HIDE DEF Goal
  <2>6. QED
    BY <1>8, <2>3, <2>5
<1>10. ASSUME NEW p \in Callers, Reading!CountUnread(p) PROVE Goal
  <2>1. ~ Recounting
    BY <1>10, AfterCount DEF Recounting, Reading!Busy, Reading!CountUnread
  <2> HIDE DEF Goal
  <2>2. QED
    BY <1>8, <1>10, <2>1 DEF Reading!CountUnread, Reading!messages, Reading!reader
<1>11. ASSUME NEW p \in Callers, Reading!SetUnread(p) PROVE Goal
  <2>1. /\ Reading!Busy(p) /\ readCall[p].step = "store" /\ ~ readCall[p].dirty
        /\ unread' = readCall[p].count
        /\ UNCHANGED <<stored, deleted, pending, member, watermark>>
    BY <1>11, BusyIsRecord DEF Reading!SetUnread, Reading!Busy, Reading!messages, Reading!reader
  <2>2. unread' = Cardinality(U) /\ pending = {}
    BY <1>1, <2>1 DEF ReadClean
  <2>3. Reading!UnreadCount' = Cardinality(U)
    <3>1. {n \in stored' \ deleted' : n > watermark'} = U
      BY <2>1
    <3>2. QED
      BY <1>2, <3>1
  <2> HIDE DEF U
  <2>4. QED
    BY <1>1, <2>1, <2>2, <2>3, FS_EmptySet
<1>12. ASSUME NEW p \in Callers, Reading!ReconcileFails(p) PROVE FALSE
  BY <1>12 DEF Reading!ReconcileFails
<1>13. ASSUME NEW p \in Callers, Reading!PublishReceipt(p) PROVE Goal
  <2>1. ~ Recounting
    BY <1>13, AfterPublish DEF Recounting, Reading!Busy, Reading!PublishReceipt
  <2> HIDE DEF Goal
  <2>2. QED
    BY <1>8, <1>13, <2>1 DEF Reading!PublishReceipt, Reading!messages, Reading!reader
<1>14. ASSUME NEW p \in Callers, Reading!CountForList(p) PROVE Goal
  <2>1. ~ Recounting
    BY <1>14, AfterListCount DEF Recounting, Reading!Busy, Reading!CountForList
  <2> HIDE DEF Goal
  <2>2. QED
    BY <1>8, <1>14, <2>1 DEF Reading!CountForList, Reading!messages, Reading!reader
<1>15. ASSUME NEW p \in Callers, Reading!Abort(p) PROVE Goal
  <2>1. /\ ~ drift /\ ~ (readCall[p].step \in {"count", "store"} /\ readCall[p].advanced)
        /\ UNCHANGED <<stored, deleted, pending, member, watermark, unread>>
    BY <1>15 DEF Reading!Abort, Reading!messages, Reading!reader
  <2>2. \A q \in Callers \ {p} : Kept(readCall[q], readCall'[q])
    BY <1>15, AfterAbort DEF Reading!Abort
  <2>3. ~ Recounting
    BY <2>1, <2>2 DEF Recounting, Reading!Busy, Kept
  <2>4. drift \in BOOLEAN /\ drift' \in BOOLEAN
    BY <1>15 DEF Reading!Abort, Reading!TypeOK
  <2> HIDE DEF Goal
  <2>5. QED
    BY <1>8, <2>1, <2>3, <2>4
<1>16. Reading!RemoveReader \/ Reading!DeleteUnread => FALSE
  BY DEF Reading!RemoveReader, Reading!DeleteUnread
<1>17. Reading!AddReader => FALSE
  BY DEF Reading!AddReader
<1>18. ASSUME UNCHANGED readVars PROVE Goal
  <2>1. ~ Recounting
    BY <1>18 DEF readVars, Recounting, Reading!Busy
  <2>2. UNCHANGED <<stored, deleted, pending, member, watermark, unread, drift>>
    BY <1>18 DEF readVars
  <2> HIDE DEF Goal
  <2>3. QED
    BY <1>8, <2>1, <2>2
<1> HIDE DEF Goal
<1>19. Goal
  <2>1. CASE \E m \in Reading!Messages :
            Reading!InsertMessage(m) \/ Reading!IncrUnread(m) \/ Reading!SkipUnread(m)
                \/ Reading!DeleteMessage(m)
    BY <1>4, <1>5, <1>6, <1>7, <2>1
  <2>2. ASSUME NEW p \in Callers,
               \/ \E m \in Reading!Messages : Reading!AdvanceReadWatermark(p, m)
               \/ Reading!CountUnread(p) \/ Reading!SetUnread(p)
               \/ Reading!ReconcileFails(p) \/ Reading!PublishReceipt(p)
               \/ Reading!CountForList(p) \/ Reading!Abort(p)
        PROVE  Goal
    BY <1>9, <1>10, <1>11, <1>12, <1>13, <1>14, <1>15, <2>2
  <2>3. QED
    BY <1>16, <1>17, <1>18, <2>1, <2>2 DEF Reading!Next
<1>20. QED
  BY <1>19 DEF Goal

(* No messages, no calls: the invariant holds at the start.                *)
LEMMA ReadInit == Reading!Init => ReadIInv
<1> SUFFICES ASSUME Reading!Init PROVE ReadIInv
  OBVIOUS
<1> USE BoundsAssumption DEF Reading!Init
<1>1. \A p \in Callers : readCall[p] = Reading!Idle
  OBVIOUS
<1>2. readCall \in [Callers -> Reading!Calls]
  BY BusyIsRecord
<1>3. Reading!TypeOK
  <2>1. 0 \in 0 .. MaxMessages
    OBVIOUS
  <2>2. stored = {} /\ deleted = {} /\ pending = {} /\ unread \in Nat \cup {None}
    OBVIOUS
  <2> QED
    BY <1>2, <2>1, <2>2 DEF Reading!TypeOK
<1>4. ReadOrdered /\ ReadClean
  BY <1>1 DEF ReadOrdered, ReadClean, Reading!Busy
<1>5. ReadCounted
  BY DEF ReadCounted
<1>6. QED
  BY <1>3, <1>4, <1>5 DEF ReadIInv

(* ReadIInv is inductive: its parts together.                              *)
LEMMA ReadNext == ReadIInv /\ [Reading!Next]_readVars => ReadIInv'
BY ReadTypes, ReadOrderedPreserved, ReadCleanPreserved, ReadCountedPreserved DEF ReadIInv

(* ReadIInv holds of every behaviour of the read state.                    *)
LEMMA ReadInvariance == Reading!Spec => []ReadIInv
BY ReadInit, ReadNext, PTL DEF Reading!Spec, Reading!vars, readVars

(* The counter of a member is its number of unread messages whenever       *)
(* nothing is under way and nothing has put it off, for any number of      *)
(* messages and of calls.  SetUnread stores only what ReadClean vouches    *)
(* for; the sends keep ReadCounted.                                        *)
THEOREM CounterTrue == Reading!Spec => []CounterTrusted
<1>1. ASSUME ReadIInv PROVE CounterTrusted
  <2> SUFFICES ASSUME member, unread # None, ~ drift, pending = {},
                      \A p \in Callers : readCall[p] = Reading!Idle
               PROVE  unread = Reading!UnreadCount
    BY DEF CounterTrusted, Reading!CounterTrusted
  <2>1. ~ Recounting
    BY DEF Recounting, Reading!Busy
  <2>2. unread \in Nat /\ Cardinality(pending) = 0
    BY <1>1, FS_EmptySet DEF ReadIInv, Reading!TypeOK
  <2>3. unread + Cardinality(pending) = Reading!UnreadCount
    BY <1>1, <2>1 DEF ReadIInv, ReadCounted
  <2>4. QED
    BY <2>2, <2>3
<1>2. QED
  BY <1>1, ReadInvariance, PTL

(* The receipts of a membership go forward, unless two MarkAsRead calls    *)
(* crossed: a call no other crossed has the last word (ReadOrdered).       *)
THEOREM ReceiptsForward == Reading!Spec => ReceiptsInOrder
<1> DEFINE A == \/ receipt' >= receipt \/ ~ member'
                \/ \E p \in Callers : readCall[p].step = "publish" /\ readCall[p].crossed
<1>1. ASSUME ReadIInv, [Reading!Next]_readVars PROVE A \/ UNCHANGED readVars
  <2>1. receipt \in Nat
    BY <1>1, BoundsAssumption DEF ReadIInv, Reading!TypeOK
  <2>2. ASSUME NEW p \in Callers, Reading!PublishReceipt(p) PROVE A
    <3>1. readCall[p] # Reading!Idle /\ readCall[p].step = "publish"
      BY <1>1, <2>2, AfterPublish DEF ReadIInv, Reading!PublishReceipt
    <3>2. CASE readCall[p].former
      BY <2>1, <2>2, <3>2 DEF Reading!PublishReceipt
    <3>3. CASE ~ readCall[p].former /\ ~ readCall[p].crossed
      BY <1>1, <2>2, <3>1, <3>3 DEF ReadIInv, ReadOrdered, Reading!Busy, Reading!PublishReceipt
    <3>4. QED
      BY <3>1, <3>2, <3>3
  <2>3. CASE Reading!RemoveReader
    BY <2>3 DEF Reading!RemoveReader
  <2>4. ASSUME NEW m \in Reading!Messages,
               \/ Reading!InsertMessage(m) \/ Reading!IncrUnread(m)
               \/ Reading!SkipUnread(m) \/ Reading!DeleteMessage(m)
        PROVE  UNCHANGED receipt
    BY <2>4 DEF Reading!InsertMessage, Reading!IncrUnread, Reading!SkipUnread,
       Reading!DeleteMessage
  <2>5. ASSUME NEW p \in Callers,
               \/ \E m \in Reading!Messages : Reading!AdvanceReadWatermark(p, m)
               \/ Reading!CountUnread(p) \/ Reading!SetUnread(p) \/ Reading!ReconcileFails(p)
               \/ Reading!CountForList(p) \/ Reading!Abort(p)
        PROVE  UNCHANGED receipt
    BY <2>5 DEF Reading!AdvanceReadWatermark, Reading!CountUnread, Reading!SetUnread,
       Reading!ReconcileFails, Reading!CountForList, Reading!Abort
  <2>6. ASSUME Reading!AddReader \/ Reading!DeleteUnread PROVE UNCHANGED receipt
    BY <2>6 DEF Reading!AddReader, Reading!DeleteUnread
  <2>7. receipt' = receipt => A
    BY <2>1
  <2> HIDE DEF A
  <2>8. QED
    BY <1>1, <2>2, <2>3, <2>4, <2>5, <2>6, <2>7 DEF Reading!Next
<1>2. ReadIInv /\ [Reading!Next]_readVars => [A]_readVars
  BY <1>1
<1>3. QED
  BY <1>2, ReadInvariance, PTL
     DEF Reading!Spec, Reading!vars, readVars, ReceiptsInOrder, Reading!ReceiptsInOrder

-----------------------------------------------------------------------------
(* Together.                                                               *)

(* A behaviour of the four side by side is one of each.                    *)
LEMMA SpecSession == Spec => Login!Spec
<1>1. Init => Login!Init
  BY DEF Init
<1>2. [Next]_vars => [Login!Next]_sessionVars
  BY DEF Next, vars
<1>3. QED
  BY <1>1, <1>2, PTL DEF Spec, Login!Spec, Login!vars, sessionVars

(* The same for the contacts.                                              *)
LEMMA SpecContacts == Spec => Contact!Spec
<1>1. Init => Contact!Init
  BY DEF Init
<1>2. [Next]_vars => [Contact!Next]_contactVars
  BY DEF Next, vars
<1>3. QED
  BY <1>1, <1>2, PTL DEF Spec, Contact!Spec, Contact!vars, contactVars

(* The same for the rooms.                                                 *)
LEMMA SpecRooms == Spec => Room!Spec
<1>1. Init => Room!Init
  BY DEF Init
<1>2. [Next]_vars => [Room!Next]_roomVars
  BY DEF Next, vars
<1>3. QED
  BY <1>1, <1>2, PTL DEF Spec, Room!Spec, Room!vars, roomVars

(* The same for the read state.                                            *)
LEMMA SpecReading == Spec => Reading!Spec
<1>1. Init => Reading!Init
  BY DEF Init
<1>2. [Next]_vars => [Reading!Next]_readVars
  BY DEF Next, vars
<1>3. QED
  BY <1>1, <1>2, PTL DEF Spec, Reading!Spec, Reading!vars, readVars

(* Every state of the four services has its types.                         *)
THEOREM Types == Spec => []TypeOK
<1>1. SessionIInv /\ ContactsIInv /\ RoomsIInv /\ ReadIInv => TypeOK
  BY DEF TypeOK, SessionIInv, ContactsIInv, RoomsIInv, ReadIInv
<1>2. QED
  BY <1>1, SpecSession, SpecContacts, SpecRooms, SpecReading, SessionInvariance,
     ContactsInvariance, RoomsInvariance, ReadInvariance, PTL

(* What the services promise holds of them together.                       *)
THEOREM ServicesSafe ==
  Spec => /\ [](UnlistedOnlyByRace /\ LogoutIsFinal /\ DeviceLimit)
          /\ [](ContactsAreMutual /\ DMStaysPrivate /\ OneDMPerPair /\ CounterTrusted)
          /\ ReceiptsInOrder
BY SpecSession, SpecContacts, SpecRooms, SpecReading, Unlisted, LogoutFinal, DeviceBound,
   MutualContacts, DirectPrivate, OneDirect, CounterTrue, ReceiptsForward, PTL

=============================================================================
