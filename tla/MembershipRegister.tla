------------------------- MODULE MembershipRegister -------------------------
(***************************************************************************)
(* What the membership of one conversation promises its callers.           *)
(*                                                                         *)
(* The member set is an atomic register.  A question (GetMembers or        *)
(* IsMember) is answered from the committed members of one instant between *)
(* its call and its return; a change (UpdateMembership) that returns       *)
(* without an error took effect at one such instant; a call that returns   *)
(* an error promises nothing.  MembershipCache, with its Redis cache in    *)
(* front of the database, implements this module.                          *)
(***************************************************************************)
CONSTANTS Callers,   \* requests in progress at the same time
          Users,     \* users of the conversation
          None       \* no request, no answer

VARIABLES members,   \* the committed members
          request,   \* what each caller asked for, None when it is idle
          answer,    \* what its call has found or done so far
          outcome    \* how its last call ended

vars == <<members, request, answer, outcome>>

(* GetMembers asks for all users, IsMember for one; CreateGroup adds many   *)
(* members at once.                                                        *)
Requests == [op : {"read", "add", "remove"}, users : SUBSET Users]

Change(S, r) == IF r.op = "add" THEN S \cup r.users ELSE S \ r.users

Applied == [applied |-> TRUE]

Init ==
    /\ members \in SUBSET Users
    /\ request = [p \in Callers |-> None]
    /\ answer = [p \in Callers |-> None]
    /\ outcome = [p \in Callers |-> "ok"]

Call(p) ==
    /\ request[p] = None
    /\ \E r \in Requests : request' = [request EXCEPT ![p] = r]
    /\ UNCHANGED <<members, answer, outcome>>

Observe(p) ==
    /\ request[p] # None
    /\ request[p].op = "read"
    /\ answer[p] = None
    /\ answer' = [answer EXCEPT ![p] = [found |-> members \cap request[p].users]]
    /\ UNCHANGED <<members, request, outcome>>

TakeEffect(p) ==
    /\ request[p] # None
    /\ request[p].op # "read"
    /\ answer[p] = None
    /\ members' = Change(members, request[p])
    /\ answer' = [answer EXCEPT ![p] = Applied]
    /\ UNCHANGED <<request, outcome>>

Finish(p, how) ==
    /\ request' = [request EXCEPT ![p] = None]
    /\ answer' = [answer EXCEPT ![p] = None]
    /\ outcome' = [outcome EXCEPT ![p] = how]
    /\ UNCHANGED members

Return(p) == request[p] # None /\ answer[p] # None /\ Finish(p, "ok")

Fail(p) == request[p] # None /\ Finish(p, "error")

Next == \E p \in Callers :
    Call(p) \/ Observe(p) \/ TakeEffect(p) \/ Return(p) \/ Fail(p)

Spec == Init /\ [][Next]_vars
=============================================================================
