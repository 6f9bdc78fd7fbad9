------------------------------- MODULE Listing -------------------------------
(***************************************************************************)
(* The paged listings: the messages of a conversation and the              *)
(* conversations of a user, newest first, and the listings of users by     *)
(* name.  A client asks for page after page, each a query of its own that  *)
(* starts after the cursor of the last one, while rows come, go and move.  *)
(***************************************************************************)
EXTENDS Naturals, FiniteSets

CONSTANTS Items,      \* rows, by what breaks a tie: seq of a message, id of a conversation
          MaxTime,    \* bound on the clock, and on the names of users
          MaxLimit,   \* maxLimit of normalizePageLimit
          None

VARIABLES
    kind,      \* which listing this is
    present,   \* the rows that the query selects, the cursor aside
    key,       \* created_at, last_activity_at or username of each row
    clock,     \* time of the database, in milliseconds
    page,      \* the client: its step, page size and cursor
    listed,    \* how often each row was in a page
    steady     \* history: rows selected ever since the first page, with one key

rows == <<kind, present, key, clock>>
vars == <<kind, present, key, clock, page, listed, steady>>

Kinds == {"messages", "conversations", "users"}
Times == 0 .. MaxTime
Cursors == [key : Times, tie : Items]

NotStarted == [step |-> "none", limit |-> 0, cursor |-> None]

Init ==
    /\ kind \in Kinds
    /\ present = {}
    /\ key = [i \in Items |-> 0]
    /\ clock = 0
    /\ page = NotStarted
    /\ listed = [i \in Items |-> 0]
    /\ steady = {}

-----------------------------------------------------------------------------
(* The rows change.                                                        *)

Tick ==
    /\ clock < MaxTime
    /\ clock' = clock + 1
    /\ UNCHANGED <<kind, present, key, page, listed, steady>>

(* Row i is selected from now on, or not any more, or has another key.     *)
Appear(i, k) ==
    /\ i \notin present
    /\ present' = present \cup {i}
    /\ key' = [key EXCEPT ![i] = k]
    /\ UNCHANGED <<kind, clock, page, listed, steady>>

Vanish(i) ==
    /\ i \in present
    /\ present' = present \ {i}
    /\ steady' = steady \ {i}
    /\ UNCHANGED <<kind, key, clock, page, listed>>

Move(i, k) ==
    /\ key[i] # k
    /\ key' = [key EXCEPT ![i] = k]
    /\ steady' = steady \ {i}
    /\ UNCHANGED <<kind, present, clock, page, listed>>

(* created_at is the time of the insert; seq was drawn before it.  Rows    *)
(* with a key of 0 that are not present were never inserted, those with    *)
(* another one may have been deleted and do not return.                    *)
InsertMessage(i) == kind = "messages" /\ clock > 0 /\ key[i] = 0 /\ Appear(i, clock)

DeleteMessage(i) == kind = "messages" /\ Vanish(i)

(* A conversation keeps its activity while its listing user is away.       *)
JoinConversation(i) == kind = "conversations" /\ Appear(i, key[i])

LeaveConversation(i) == kind = "conversations" /\ Vanish(i)

(* last_activity_at only goes up: UpdateConversationLastActivity.          *)
BumpActivity(i) ==
    /\ kind = "conversations"
    /\ \E t \in key[i] .. clock : Move(i, t)

(* A name is unique; a contact or request can come and go in the listing.  *)
FreeName(i, k) == \A j \in Items \ {i} : key[j] # k \/ j \notin present

AddUser(i) == kind = "users" /\ \E k \in Times : FreeName(i, k) /\ Appear(i, k)

RemoveUser(i) == kind = "users" /\ Vanish(i)

RenameUser(i) ==
    /\ kind = "users" /\ i \in present
    /\ \E k \in Times : FreeName(i, k) /\ Move(i, k)

-----------------------------------------------------------------------------
(* Queries: the WHERE clause asks whether row i comes after the cursor c,  *)
(* the ORDER BY clause whether row i comes before row j.                   *)

(* Variant: a cursor that does not know of rows of one millisecond.        *)
MessageAfterTimeOnly(c, i) == key[i] < c.key

MessageAfter(c, i) == key[i] < c.key \/ (key[i] = c.key /\ i < c.tie)

ConversationAfter(c, i) == key[i] < c.key \/ (key[i] = c.key /\ i < c.tie)

UserAfter(c, i) == key[i] > c.key

NewestFirst(i, j) == key[i] > key[j] \/ (key[i] = key[j] /\ i > j)

ByName(i, j) == key[i] < key[j]

(* The clauses of the query of this listing.                               *)
After(c, i) ==
    IF kind = "users" THEN UserAfter(c, i)
    ELSE IF kind = "messages" THEN MessageAfter(c, i) ELSE ConversationAfter(c, i)

Before(i, j) == IF kind = "users" THEN ByName(i, j) ELSE NewestFirst(i, j)

CursorOf(i) == [key |-> key[i], tie |-> i]

normalizePageLimit(limit) == IF limit = 0 \/ limit > MaxLimit THEN MaxLimit ELSE limit

Found == {i \in present : page.cursor = None \/ After(page.cursor, i)}

(* One row more than the page is read to see whether there is more.        *)
HasMore == Cardinality(Found) > page.limit

(* The page is the first rows of those found.                              *)
PageOf(items) ==
    /\ \A i \in items, j \in Found \ items : Before(i, j)
    /\ IF HasMore THEN Cardinality(items) = page.limit ELSE items = Found

(* One request: no cursor reads the first page, and the last row of a page *)
(* is the cursor of the next one.                                          *)
Request ==
    /\ page.step \in {"start", "more"}
    /\ \E items \in SUBSET Found :
           /\ PageOf(items)
           /\ \/ /\ ~HasMore
                 /\ page' = [page EXCEPT !.step = "done", !.cursor = None]
              \/ /\ HasMore
                 /\ \E end \in items :
                        /\ \A i \in items \ {end} : Before(i, end)
                        /\ page' = [page EXCEPT !.step = "more", !.cursor = CursorOf(end)]
           /\ listed' = [i \in Items |-> IF i \in items THEN listed[i] + 1 ELSE listed[i]]
    /\ steady' = IF page.step = "start" THEN present ELSE steady
    /\ UNCHANGED rows

Open ==
    /\ page = NotStarted
    /\ \E limit \in 0 .. MaxLimit + 1 :
           page' = [page EXCEPT !.step = "start", !.limit = normalizePageLimit(limit)]
    /\ UNCHANGED <<rows, listed, steady>>

ListMessages == kind = "messages" /\ Request

ListConversations == kind = "conversations" /\ Request

ListUsers == kind = "users" /\ Request

Next ==
    \/ Tick \/ Open \/ ListMessages \/ ListConversations \/ ListUsers
    \/ \E i \in Items :
           \/ InsertMessage(i) \/ DeleteMessage(i)
           \/ JoinConversation(i) \/ LeaveConversation(i) \/ BumpActivity(i)
           \/ AddUser(i) \/ RemoveUser(i) \/ RenameUser(i)

Spec == Init /\ [][Next]_vars

-----------------------------------------------------------------------------
(* Type invariant.                                                         *)
TypeOK ==
    /\ kind \in Kinds
    /\ present \in SUBSET Items /\ steady \in SUBSET present
    /\ key \in [Items -> Times] /\ clock \in Times
    /\ page \in [step : {"none", "start", "more", "done"}, limit : 0 .. MaxLimit,
                cursor : Cursors \cup {None}]
    /\ listed \in [Items -> Nat]

(* Paging to the end while rows come, go and move lists every row that     *)
(* stayed as it was exactly once, rows of one millisecond included, and no *)
(* message or conversation twice.  message.sql.go:391, room.sql.go:351,    *)
(* user_repo.go:497                                                        *)
EachListedOnce ==
    /\ page.step = "done" => \A i \in steady : listed[i] = 1
    /\ kind # "users" => \A i \in Items : listed[i] <= 1
=============================================================================
