------------------------------ MODULE Contacts ------------------------------
(***************************************************************************)
(* The contact requests of user_contacts: one row for each ordered pair of *)
(* users that asked, pending or accepted.  A call reads the rows in one    *)
(* statement and writes in a later one, with no lock or transaction around *)
(* them, in any number of API processes.  Nothing in the program deletes   *)
(* or blocks a contact, so those rows do not occur.                        *)
(***************************************************************************)
EXTENDS Naturals, FiniteSets

CONSTANTS Callers,   \* requests in progress at the same time
          Users

VARIABLES
    status,   \* <<user_id, contact_id>> -> status of that row, "none" without one
    call,     \* what each caller is doing
    agreed,   \* history: <<u, v>> when a request or an acceptance of u for v took effect
    crossed   \* history: pairs of users that both found no row before either wrote one

vars == <<status, call, agreed, crossed>>

Pairs == {r \in Users \X Users : r[1] # r[2]}

Mirror(r) == <<r[2], r[1]>>

Idle == [step |-> "idle"]

Calls == {Idle} \cup [step : {"pair", "create", "record", "auto_accept", "accept"}, row : Pairs]

Init ==
    /\ status = [r \in Pairs |-> "none"]
    /\ call = [p \in Callers |-> Idle]
    /\ agreed = {}
    /\ crossed = {}

Goto(p, step, r) == call' = [call EXCEPT ![p] = [step |-> step, row |-> r]]

Finish(p) == call' = [call EXCEPT ![p] = Idle]

-----------------------------------------------------------------------------
(* SendContactRequest(u, v): the row it may create is <<u, v>>.            *)

StartSend(p, r) ==
    /\ call[p] = Idle
    /\ Goto(p, "pair", r)
    /\ UNCHANGED <<status, agreed, crossed>>

(* Variant: a request of the other user does not accept it.                *)
GetContactPairOneWay(p) ==
    /\ call[p].step = "pair"
    /\ LET r == call[p].row
       IN IF status[r] = "none" THEN Goto(p, "create", r) ELSE Finish(p)
    /\ UNCHANGED <<status, agreed, crossed>>

(* At most two rows, in any order; whichever comes first decides.          *)
GetContactPair(p) ==
    /\ call[p].step = "pair"
    /\ LET r == call[p].row
           found == {q \in {r, Mirror(r)} : status[q] # "none"}
       IN \/ /\ found = {}
             /\ Goto(p, "create", r)
          \/ \E first \in found :
                 IF first = Mirror(r) /\ status[first] = "pending"
                 THEN Goto(p, "auto_accept", first)
                 ELSE Finish(p)
    /\ UNCHANGED <<status, agreed, crossed>>

(* The unique key refuses a second row of the same direction only.         *)
CreateContactRequest(p) ==
    /\ call[p].step = "create"
    /\ LET r == call[p].row
       IN IF status[r] # "none" THEN UNCHANGED <<status, agreed, crossed>>
          ELSE /\ status' = [status EXCEPT ![r] = "pending"]
               /\ agreed' = agreed \cup {r}
               /\ crossed' = IF \E q \in Callers : call[q] = [step |-> "create", row |-> Mirror(r)]
                             THEN crossed \cup {r, Mirror(r)} ELSE crossed
    /\ Finish(p)

-----------------------------------------------------------------------------
(* AcceptContactRequest(v, u): the row it looks for is <<u, v>>.           *)

StartAccept(p, r) ==
    /\ call[p] = Idle
    /\ Goto(p, "record", r)
    /\ UNCHANGED <<status, agreed, crossed>>

GetContactRecord(p) ==
    /\ call[p].step = "record"
    /\ LET r == call[p].row
       IN IF status[r] = "pending" THEN Goto(p, "accept", r) ELSE Finish(p)
    /\ UNCHANGED <<status, agreed, crossed>>

(* By id, whatever the status is by now; the one who agrees is the         *)
(* contact of the row, the caller of either operation.                     *)
UpdateContactStatus(p) ==
    /\ call[p].step \in {"auto_accept", "accept"}
    /\ status' = [status EXCEPT ![call[p].row] = "accepted"]
    /\ agreed' = agreed \cup {Mirror(call[p].row)}
    /\ Finish(p)
    /\ UNCHANGED crossed

(* A statement fails, or the process dies.                                 *)
Abort(p) ==
    /\ call[p] # Idle
    /\ Finish(p)
    /\ UNCHANGED <<status, agreed, crossed>>

Next == \E p \in Callers :
    \/ \E r \in Pairs : StartSend(p, r) \/ StartAccept(p, r)
    \/ GetContactPair(p) \/ CreateContactRequest(p)
    \/ GetContactRecord(p) \/ UpdateContactStatus(p) \/ Abort(p)

Spec == Init /\ [][Next]_vars

-----------------------------------------------------------------------------
(* The listings: each is a join of users with the rows.                    *)

(* One entry of listFriendsBaseQuery for each row that joins.              *)
FriendRows(u) == {r \in Pairs : status[r] = "accepted" /\ u \in {r[1], r[2]}}

(* listIncomingBaseQuery                                                   *)
Incoming(u) == {v \in Users : <<v, u>> \in Pairs /\ status[<<v, u>>] = "pending"}

(* The two statuses searchUsersBaseQuery shows with a user it finds.       *)
SearchResult(u, v) == [outgoing |-> status[<<u, v>>], incoming |-> status[<<v, u>>]]

Befriended(u, v) == \E r \in FriendRows(u) : v \in {r[1], r[2]}

-----------------------------------------------------------------------------
(* Type invariant.                                                         *)
TypeOK ==
    /\ status \in [Pairs -> {"none", "pending", "accepted"}]
    /\ call \in [Callers -> Calls]
    /\ agreed \in SUBSET Pairs
    /\ crossed \in SUBSET Pairs

(* Users are contacts only when both wanted it, and two that both asked    *)
(* are contacts, each listed to the other once, with no request left to    *)
(* answer and the same thing shown by a search: unless both found no row   *)
(* before either wrote one.       user_service.go:108, user_service.go:135 *)
ContactsAreMutual ==
    \A r \in Pairs :
        LET u == r[1] v == r[2]
        IN /\ Befriended(u, v) => {r, Mirror(r)} \subseteq agreed
           /\ {r, Mirror(r)} \subseteq agreed /\ r \notin crossed =>
                  /\ Cardinality({q \in FriendRows(u) : v \in {q[1], q[2]}}) = 1
                  /\ v \notin Incoming(u)
                  /\ "accepted" \in {SearchResult(u, v).outgoing, SearchResult(u, v).incoming}
=============================================================================
