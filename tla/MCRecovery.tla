----------------------------- MODULE MCRecovery -----------------------------
(***************************************************************************)
(* Four more components side by side, each behaviour one of a single       *)
(* part: the paged listings, the room manager, presence and the seed tool. *)
(* The seed tool has a liveness property, so there is no symmetry here.    *)
(***************************************************************************)
EXTENDS Naturals

CONSTANTS Pair, Items, MaxTime, MaxLimit, MaxSeq, MaxFaults, None

ASSUME NoneAssumption ==
    /\ None \notin Pair \cup Nat \cup [key : Nat, tie : Nat]
    /\ None \notin {"sql-ready", "ready", "reset-db-done"}
ASSUME ItemsAssumption == Items \subseteq Nat
ASSUME BoundsAssumption ==
    /\ MaxTime \in Nat /\ MaxLimit \in Nat \ {0}
    /\ MaxSeq \in Nat \ {0, 1} /\ MaxFaults \in Nat

VARIABLES part,
    kind, present, key, clock, page, listedTimes, steady,
    local, viewing, listed, reader, closer, last, viewMissed, wants, behind,
    zset, life, keyLife, serve, close, became, idle, missed, announced, alone, excused,
    state, stored, unseen, damaged, related, seq, unread, cached, lock, cmd,
    faults, drawn, touched, overtaken

listingVars == <<kind, present, key, clock, page, listedTimes, steady>>
viewingVars == <<local, viewing, listed, reader, closer, last, viewMissed, wants, behind>>
presenceVars == <<zset, life, keyLife, serve, close, became, idle, missed, announced, alone,
                  excused>>
seedVars == <<state, stored, unseen, damaged, related, seq, unread, cached, lock, cmd,
              faults, drawn, touched, overtaken>>
vars == <<part, listingVars, viewingVars, presenceVars, seedVars>>

Paging == INSTANCE Listing WITH listed <- listedTimes
View == INSTANCE Viewing WITH Sessions <- Pair, missed <- viewMissed
Online == INSTANCE Presence WITH Sessions <- Pair
Tool == INSTANCE Seed WITH Commands <- Pair

Init ==
    /\ part \in {"listing", "viewing", "presence", "seed"}
    /\ Paging!Init /\ (part # "listing" => kind = "messages")
    /\ View!Init /\ Online!Init /\ Tool!Init

Next ==
    /\ UNCHANGED part
    /\ \/ part = "listing" /\ Paging!Next /\ UNCHANGED <<viewingVars, presenceVars, seedVars>>
       \/ part = "viewing" /\ View!Next /\ UNCHANGED <<listingVars, presenceVars, seedVars>>
       \/ part = "presence" /\ Online!Next /\ UNCHANGED <<listingVars, viewingVars, seedVars>>
       \/ part = "seed" /\ Tool!Next /\ UNCHANGED <<listingVars, viewingVars, presenceVars>>

(* The fairness of Seed, in a behaviour that is one of the tool.           *)
InTool(A) == part = "seed" /\ A /\ UNCHANGED <<part, listingVars, viewingVars, presenceVars>>

Fairness ==
    /\ \A p \in Pair : WF_vars(InTool(Tool!Step(p)))
    /\ SF_vars(InTool(\E p \in Pair : Tool!Open(p, "sync")))
    /\ SF_vars(InTool(\E p \in Pair : Tool!Open(p, "reset")))

Spec == Init /\ [][Next]_vars /\ Fairness

(* The properties of the components, each stated in its module.            *)
(* Paged listings.                                                         *)
EachListedOnce == Paging!EachListedOnce
(* The room manager.                                                       *)
ViewingTracks == View!ViewingTracks
(* Presence.                                                               *)
PresenceTracks == Online!PresenceTracks
(* Presence.                                                               *)
AnnouncedIsTrue == Online!AnnouncedIsTrue
(* The seed tool.                                                          *)
SeedSynced == Tool!SeedSynced
(* The seed tool.                                                          *)
SeedRecovers == Tool!SeedRecovers
=============================================================================
