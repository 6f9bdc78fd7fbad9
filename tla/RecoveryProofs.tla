--------------------------- MODULE RecoveryProofs ---------------------------
(***************************************************************************)
(* Proofs about the paged listings, the room manager, presence and the     *)
(* seed tool, for every number of rows, sessions, commands and failures.   *)
(* Each section strengthens what its component promises to an inductive    *)
(* invariant: the listings say where the cursor stands among the rows      *)
(* shown, the room manager which half of an update is still to come,       *)
(* presence what each handler saw before it announces anything, and the    *)
(* seed tool what the row of the registry tells about rows, keys and the   *)
(* command that runs.  The last section puts the four side by side.        *)
(***************************************************************************)
EXTENDS MCRecovery, TLAPS

-----------------------------------------------------------------------------
(* The paged listings.                                                     *)

(* There is a cursor between the first page and the last.                  *)
ListingCursor ==
    /\ page.step = "more" <=> page.cursor # None
    /\ page.step \in {"none", "start"} => \A i \in Items : listedTimes[i] = 0

(* Names are unique, and a message has a time when it is inserted.         *)
ListingKeys ==
    /\ kind = "users" => \A i, j \in present : key[i] = key[j] => i = j
    /\ kind = "messages" => \A i \in present : key[i] > 0

(* Of the rows that stayed as they were those before the cursor are        *)
(* listed, once, and in the end all of them.                               *)
ListingSteady ==
    \A i \in steady :
        /\ page.step = "more" =>
               listedTimes[i] = IF Paging!After(page.cursor, i) THEN 0 ELSE 1
        /\ page.step = "done" => listedTimes[i] = 1

(* A message or conversation that was listed does not come after the       *)
(* cursor again.                                                           *)
ListingOnce ==
    kind # "users" =>
        \A i \in Items :
            /\ listedTimes[i] <= 1
            /\ listedTimes[i] = 1 =>
                   /\ page.step = "more" => ~Paging!After(page.cursor, i)
                   /\ kind = "messages" => key[i] > 0

ListingIInv ==
    Paging!TypeOK /\ ListingCursor /\ ListingKeys /\ ListingSteady /\ ListingOnce

(* The order of the rows is strict, and what comes after a row comes after *)
(* every cursor before it.                                                 *)
LEMMA ListingOrder ==
  ASSUME Paging!TypeOK, NEW i \in Items, NEW j \in Items
  PROVE  /\ ~Paging!Before(i, i) /\ ~(Paging!Before(i, j) /\ Paging!Before(j, i))
         /\ \A c \in Paging!Cursors : Paging!After(c, i) /\ Paging!Before(i, j) =>
             Paging!After(c, j)
<1>1. i \in Nat /\ j \in Nat /\ key[i] \in Nat /\ key[j] \in Nat
  BY ItemsAssumption, BoundsAssumption DEF Paging!TypeOK, Paging!Times
<1>2. ASSUME NEW c \in Paging!Cursors PROVE c.key \in Nat /\ c.tie \in Nat
  <2>1. c.key \in 0 .. MaxTime /\ c.tie \in Items
    BY DEF Paging!Cursors, Paging!Times
  <2>2. c.key \in Nat
    BY <2>1, BoundsAssumption
  <2>3. c.tie \in Nat
    BY <2>1, ItemsAssumption
  <2>4. QED
    BY <2>2, <2>3
<1>3. QED
  BY <1>1, <1>2
     DEF Paging!After, Paging!Before, Paging!UserAfter, Paging!MessageAfter,
         Paging!ConversationAfter, Paging!ByName,
         Paging!NewestFirst

(* Rows are found by a cursor or, without one, all of them.                *)
LEMMA ListingFinds ==
  ASSUME Paging!TypeOK, NEW i \in Items
  PROVE  /\ i \in Paging!Found => i \in present
         /\ i \in present /\ i \notin Paging!Found =>
                page.cursor # None /\ ~Paging!After(page.cursor, i)
         /\ i \in Paging!Found /\ page.cursor # None => Paging!After(page.cursor, i)
         /\ page.cursor # None => page.cursor \in Paging!Cursors
         /\ listedTimes[i] \in Nat /\ Paging!Found \subseteq Items
BY DEF Paging!TypeOK, Paging!Found

(* A page is the first rows after the cursor, and all of them if it is the *)
(* last one; otherwise its last row is the new cursor.                     *)
LEMMA ListingPage ==
  ASSUME Paging!TypeOK,
         Paging!ListMessages \/ Paging!ListConversations \/ Paging!ListUsers
  PROVE  /\ page.step \in {"start", "more"}
         /\ UNCHANGED <<kind, present, key, clock>>
         /\ steady' = IF page.step = "start" THEN present ELSE steady
         /\ \E items \in SUBSET Paging!Found :
              /\ \A i \in items, j \in Paging!Found \ items : Paging!Before(i, j)
              /\ listedTimes' = [i \in Items |-> IF i \in items THEN listedTimes[i] + 1
                                                 ELSE listedTimes[i]]
              /\ \/ /\ items = Paging!Found
                    /\ page' = [page EXCEPT !.step = "done", !.cursor = None]
                 \/ \E end \in items :
                       /\ \A i \in items \ {end} : Paging!Before(i, end)
                       /\ page' = [page EXCEPT !.step = "more", !.cursor = Paging!CursorOf(end)]
<1>1. Paging!Request
  BY DEF Paging!ListMessages, Paging!ListConversations, Paging!ListUsers
<1>2. /\ page.step \in {"start", "more"}
      /\ UNCHANGED <<kind, present, key, clock>>
      /\ steady' = IF page.step = "start" THEN present ELSE steady
  BY <1>1 DEF Paging!Request, Paging!rows
<1>3. PICK items \in SUBSET Paging!Found :
         /\ \A i \in items, j \in Paging!Found \ items : Paging!Before(i, j)
         /\ IF Paging!HasMore THEN Paging!Cardinality(items) = page.limit
            ELSE items = Paging!Found
         /\ \/ /\ ~Paging!HasMore
               /\ page' = [page EXCEPT !.step = "done", !.cursor = None]
            \/ /\ Paging!HasMore
               /\ \E end \in items :
                     /\ \A i \in items \ {end} : Paging!Before(i, end)
                     /\ page' = [page EXCEPT !.step = "more", !.cursor = Paging!CursorOf(end)]
         /\ listedTimes' = [i \in Items |-> IF i \in items THEN listedTimes[i] + 1
                                            ELSE listedTimes[i]]
  BY <1>1, Zenon DEF Paging!Request, Paging!PageOf
<1>4. QED
  BY <1>2, <1>3, Zenon

(* The listings keep their types.                                          *)
LEMMA ListingTypes ==
  Paging!TypeOK /\ [Paging!Next]_listingVars => Paging!TypeOK'
<1> SUFFICES ASSUME Paging!TypeOK, [Paging!Next]_listingVars PROVE Paging!TypeOK'
  OBVIOUS
<1>1. ASSUME Paging!ListMessages \/ Paging!ListConversations \/ Paging!ListUsers
      PROVE Paging!TypeOK'
  <2>1. /\ page.step \in {"start", "more"}
        /\ UNCHANGED <<kind, present, key, clock>>
        /\ steady' = IF page.step = "start" THEN present ELSE steady
    BY <1>1, ListingPage
  <2>2. PICK items \in SUBSET Paging!Found :
          /\ \A i \in items, j \in Paging!Found \ items : Paging!Before(i, j)
          /\ listedTimes' = [i \in Items |-> IF i \in items THEN listedTimes[i] + 1
                                             ELSE listedTimes[i]]
          /\ \/ /\ items = Paging!Found
                /\ page' = [page EXCEPT !.step = "done", !.cursor = None]
             \/ \E end \in items :
                   /\ \A i \in items \ {end} : Paging!Before(i, end)
                   /\ page' = [page EXCEPT !.step = "more", !.cursor = Paging!CursorOf(end)]
    BY <1>1, ListingPage
  <2>3. \A end \in Paging!Found : Paging!CursorOf(end) \in Paging!Cursors
    BY DEF Paging!Found, Paging!TypeOK, Paging!CursorOf, Paging!Cursors
  <2>4. page' \in [step : {"none", "start", "more", "done"}, limit : 0 .. MaxLimit,
                   cursor : Paging!Cursors \cup {None}]
    <3>1. CASE page' = [page EXCEPT !.step = "done", !.cursor = None]
      BY <3>1 DEF Paging!TypeOK
    <3>2. ASSUME NEW end \in items,
                 page' = [page EXCEPT !.step = "more", !.cursor = Paging!CursorOf(end)]
          PROVE  page' \in [step : {"none", "start", "more", "done"}, limit : 0 .. MaxLimit,
                            cursor : Paging!Cursors \cup {None}]
      <4>1. Paging!CursorOf(end) \in Paging!Cursors
        BY <2>3
      <4>2. QED
        BY <3>2, <4>1 DEF Paging!TypeOK
    <3>3. QED
      BY <2>2, <3>1, <3>2
  <2>5. listedTimes' \in [Items -> Nat]
    <3>1. \A i \in Items : listedTimes[i] \in Nat /\ listedTimes[i] + 1 \in Nat
      BY DEF Paging!TypeOK
    <3>2. QED
      BY <2>2, <3>1
  <2>6. steady' \in SUBSET present'
    BY <2>1 DEF Paging!TypeOK
  <2>7. QED
    BY <2>1, <2>4, <2>5, <2>6 DEF Paging!TypeOK
<1>2. ASSUME Paging!Tick PROVE Paging!TypeOK'
  BY <1>2, NoneAssumption, ItemsAssumption, BoundsAssumption DEF Paging!Tick, Paging!TypeOK,
     Paging!rows, Paging!Kinds, Paging!Times, Paging!Cursors, Paging!NotStarted, Paging!Appear,
     Paging!Vanish, Paging!Move, Paging!FreeName, Paging!CursorOf, Paging!normalizePageLimit
<1>3. ASSUME Paging!Open PROVE Paging!TypeOK'
  <2>1. page' \in [step : {"none", "start", "more", "done"}, limit : 0 .. MaxLimit,
                   cursor : Paging!Cursors \cup {None}]
    <3>1. PICK limit \in 0 .. MaxLimit + 1 :
            page' = [page EXCEPT !.step = "start", !.limit = Paging!normalizePageLimit(limit)]
      BY <1>3 DEF Paging!Open
    <3>2. Paging!normalizePageLimit(limit) \in 0 .. MaxLimit
      BY BoundsAssumption DEF Paging!normalizePageLimit
    <3>3. QED
      BY <3>1, <3>2 DEF Paging!TypeOK
  <2>2. QED
    BY <1>3, <2>1 DEF Paging!Open, Paging!rows, Paging!TypeOK
<1>4. ASSUME NEW i \in Items, Paging!InsertMessage(i) PROVE Paging!TypeOK'
  BY <1>4, NoneAssumption, ItemsAssumption, BoundsAssumption DEF Paging!InsertMessage,
     Paging!TypeOK, Paging!rows, Paging!Kinds, Paging!Times, Paging!Cursors, Paging!NotStarted,
     Paging!Appear, Paging!Vanish, Paging!Move, Paging!FreeName, Paging!CursorOf,
     Paging!normalizePageLimit
<1>5. ASSUME NEW i \in Items, Paging!DeleteMessage(i) PROVE Paging!TypeOK'
  BY <1>5, NoneAssumption, ItemsAssumption, BoundsAssumption DEF Paging!DeleteMessage,
     Paging!TypeOK, Paging!rows, Paging!Kinds, Paging!Times, Paging!Cursors, Paging!NotStarted,
     Paging!Appear, Paging!Vanish, Paging!Move, Paging!FreeName, Paging!CursorOf,
     Paging!normalizePageLimit
<1>6. ASSUME NEW i \in Items, Paging!JoinConversation(i) PROVE Paging!TypeOK'
  BY <1>6, NoneAssumption, ItemsAssumption, BoundsAssumption DEF Paging!JoinConversation,
     Paging!TypeOK, Paging!rows, Paging!Kinds, Paging!Times, Paging!Cursors, Paging!NotStarted,
     Paging!Appear, Paging!Vanish, Paging!Move, Paging!FreeName, Paging!CursorOf,
     Paging!normalizePageLimit
<1>7. ASSUME NEW i \in Items, Paging!LeaveConversation(i) PROVE Paging!TypeOK'
  BY <1>7, NoneAssumption, ItemsAssumption, BoundsAssumption DEF Paging!LeaveConversation,
     Paging!TypeOK, Paging!rows, Paging!Kinds, Paging!Times, Paging!Cursors, Paging!NotStarted,
     Paging!Appear, Paging!Vanish, Paging!Move, Paging!FreeName, Paging!CursorOf,
     Paging!normalizePageLimit
<1>8. ASSUME NEW i \in Items, Paging!BumpActivity(i) PROVE Paging!TypeOK'
  BY <1>8, NoneAssumption, ItemsAssumption, BoundsAssumption DEF Paging!BumpActivity,
     Paging!TypeOK, Paging!rows, Paging!Kinds, Paging!Times, Paging!Cursors, Paging!NotStarted,
     Paging!Appear, Paging!Vanish, Paging!Move, Paging!FreeName, Paging!CursorOf,
     Paging!normalizePageLimit
<1>9. ASSUME NEW i \in Items, Paging!AddUser(i) PROVE Paging!TypeOK'
  BY <1>9, NoneAssumption, ItemsAssumption, BoundsAssumption DEF Paging!AddUser, Paging!TypeOK,
     Paging!rows, Paging!Kinds, Paging!Times, Paging!Cursors, Paging!NotStarted, Paging!Appear,
     Paging!Vanish, Paging!Move, Paging!FreeName, Paging!CursorOf, Paging!normalizePageLimit
<1>10. ASSUME NEW i \in Items, Paging!RemoveUser(i) PROVE Paging!TypeOK'
  BY <1>10, NoneAssumption, ItemsAssumption, BoundsAssumption DEF Paging!RemoveUser,
     Paging!TypeOK, Paging!rows, Paging!Kinds, Paging!Times, Paging!Cursors, Paging!NotStarted,
     Paging!Appear, Paging!Vanish, Paging!Move, Paging!FreeName, Paging!CursorOf,
     Paging!normalizePageLimit
<1>11. ASSUME NEW i \in Items, Paging!RenameUser(i) PROVE Paging!TypeOK'
  BY <1>11, NoneAssumption, ItemsAssumption, BoundsAssumption DEF Paging!RenameUser,
     Paging!TypeOK, Paging!rows, Paging!Kinds, Paging!Times, Paging!Cursors, Paging!NotStarted,
     Paging!Appear, Paging!Vanish, Paging!Move, Paging!FreeName, Paging!CursorOf,
     Paging!normalizePageLimit
<1>12. CASE UNCHANGED listingVars
  BY <1>12 DEF listingVars, Paging!TypeOK, Paging!rows, Paging!Kinds, Paging!Times,
     Paging!Cursors, Paging!NotStarted, Paging!Appear, Paging!Vanish, Paging!Move,
     Paging!FreeName, Paging!CursorOf, Paging!normalizePageLimit
<1>13. QED
  BY <1>1, <1>2, <1>3, <1>4, <1>5, <1>6, <1>7, <1>8, <1>9, <1>10, <1>11, <1>12 DEF Paging!Next

(* The cursor is that of the page before.                                  *)
LEMMA ListingCursorPreserved ==
  Paging!TypeOK /\ ListingCursor /\ [Paging!Next]_listingVars => ListingCursor'
<1> SUFFICES ASSUME Paging!TypeOK /\ ListingCursor, [Paging!Next]_listingVars PROVE ListingCursor'
  OBVIOUS
<1>1. ASSUME Paging!ListMessages \/ Paging!ListConversations \/ Paging!ListUsers
      PROVE ListingCursor'
  <2>1. /\ page.step \in {"start", "more"}
        /\ UNCHANGED <<kind, present, key, clock>>
        /\ steady' = IF page.step = "start" THEN present ELSE steady
    BY <1>1, ListingPage
  <2>2. PICK items \in SUBSET Paging!Found :
          /\ \A i \in items, j \in Paging!Found \ items : Paging!Before(i, j)
          /\ listedTimes' = [i \in Items |-> IF i \in items THEN listedTimes[i] + 1
                                             ELSE listedTimes[i]]
          /\ \/ /\ items = Paging!Found
                /\ page' = [page EXCEPT !.step = "done", !.cursor = None]
             \/ \E end \in items :
                   /\ \A i \in items \ {end} : Paging!Before(i, end)
                   /\ page' = [page EXCEPT !.step = "more", !.cursor = Paging!CursorOf(end)]
    BY <1>1, ListingPage
  <2>3. ASSUME NEW end \in items PROVE Paging!CursorOf(end) # None
    <3>1. end \in Nat /\ key[end] \in Nat
      <4>1. end \in Items /\ key[end] \in 0 .. MaxTime
        BY DEF Paging!Found, Paging!TypeOK, Paging!Times
      <4>2. end \in Nat
        BY <4>1, ItemsAssumption
      <4>3. key[end] \in Nat
        BY <4>1, BoundsAssumption
      <4>4. QED
        BY <4>2, <4>3
    <3>2. Paging!CursorOf(end) \in [key : Nat, tie : Nat]
      BY <3>1 DEF Paging!CursorOf
    <3>3. QED
      BY <3>2, NoneAssumption
  <2>4. page'.step \in {"more", "done"} /\ (page'.step = "more" <=> page'.cursor # None)
    <3>1. CASE page' = [page EXCEPT !.step = "done", !.cursor = None]
      BY <3>1 DEF Paging!TypeOK
    <3>2. ASSUME NEW end \in items,
                 page' = [page EXCEPT !.step = "more", !.cursor = Paging!CursorOf(end)]
          PROVE  page'.step = "more" /\ page'.cursor # None
      BY <2>3, <3>2 DEF Paging!TypeOK
    <3>3. QED
      BY <2>2, <3>1, <3>2
  <2>5. QED
    BY <2>4 DEF ListingCursor
<1>2. ASSUME Paging!Tick PROVE ListingCursor'
  BY <1>2, NoneAssumption, ItemsAssumption, BoundsAssumption DEF Paging!Tick, Paging!TypeOK,
     Paging!rows, Paging!Kinds, Paging!Times, Paging!Cursors, Paging!NotStarted, Paging!Appear,
     Paging!Vanish, Paging!Move, Paging!FreeName, Paging!CursorOf, Paging!normalizePageLimit,
     ListingCursor
<1>3. ASSUME Paging!Open PROVE ListingCursor'
  BY <1>3, NoneAssumption, ItemsAssumption, BoundsAssumption DEF Paging!Open, Paging!TypeOK,
     Paging!rows, Paging!Kinds, Paging!Times, Paging!Cursors, Paging!NotStarted, Paging!Appear,
     Paging!Vanish, Paging!Move, Paging!FreeName, Paging!CursorOf, Paging!normalizePageLimit,
     ListingCursor
<1>4. ASSUME NEW i \in Items, Paging!InsertMessage(i) PROVE ListingCursor'
  BY <1>4, NoneAssumption, ItemsAssumption, BoundsAssumption DEF Paging!InsertMessage,
     Paging!TypeOK, Paging!rows, Paging!Kinds, Paging!Times, Paging!Cursors, Paging!NotStarted,
     Paging!Appear, Paging!Vanish, Paging!Move, Paging!FreeName, Paging!CursorOf,
     Paging!normalizePageLimit, ListingCursor
<1>5. ASSUME NEW i \in Items, Paging!DeleteMessage(i) PROVE ListingCursor'
  BY <1>5, NoneAssumption, ItemsAssumption, BoundsAssumption DEF Paging!DeleteMessage,
     Paging!TypeOK, Paging!rows, Paging!Kinds, Paging!Times, Paging!Cursors, Paging!NotStarted,
     Paging!Appear, Paging!Vanish, Paging!Move, Paging!FreeName, Paging!CursorOf,
     Paging!normalizePageLimit, ListingCursor
<1>6. ASSUME NEW i \in Items, Paging!JoinConversation(i) PROVE ListingCursor'
  BY <1>6, NoneAssumption, ItemsAssumption, BoundsAssumption DEF Paging!JoinConversation,
     Paging!TypeOK, Paging!rows, Paging!Kinds, Paging!Times, Paging!Cursors, Paging!NotStarted,
     Paging!Appear, Paging!Vanish, Paging!Move, Paging!FreeName, Paging!CursorOf,
     Paging!normalizePageLimit, ListingCursor
<1>7. ASSUME NEW i \in Items, Paging!LeaveConversation(i) PROVE ListingCursor'
  BY <1>7, NoneAssumption, ItemsAssumption, BoundsAssumption DEF Paging!LeaveConversation,
     Paging!TypeOK, Paging!rows, Paging!Kinds, Paging!Times, Paging!Cursors, Paging!NotStarted,
     Paging!Appear, Paging!Vanish, Paging!Move, Paging!FreeName, Paging!CursorOf,
     Paging!normalizePageLimit, ListingCursor
<1>8. ASSUME NEW i \in Items, Paging!BumpActivity(i) PROVE ListingCursor'
  BY <1>8, NoneAssumption, ItemsAssumption, BoundsAssumption DEF Paging!BumpActivity,
     Paging!TypeOK, Paging!rows, Paging!Kinds, Paging!Times, Paging!Cursors, Paging!NotStarted,
     Paging!Appear, Paging!Vanish, Paging!Move, Paging!FreeName, Paging!CursorOf,
     Paging!normalizePageLimit, ListingCursor
<1>9. ASSUME NEW i \in Items, Paging!AddUser(i) PROVE ListingCursor'
  BY <1>9, NoneAssumption, ItemsAssumption, BoundsAssumption DEF Paging!AddUser, Paging!TypeOK,
     Paging!rows, Paging!Kinds, Paging!Times, Paging!Cursors, Paging!NotStarted, Paging!Appear,
     Paging!Vanish, Paging!Move, Paging!FreeName, Paging!CursorOf, Paging!normalizePageLimit,
     ListingCursor
<1>10. ASSUME NEW i \in Items, Paging!RemoveUser(i) PROVE ListingCursor'
  BY <1>10, NoneAssumption, ItemsAssumption, BoundsAssumption DEF Paging!RemoveUser,
     Paging!TypeOK, Paging!rows, Paging!Kinds, Paging!Times, Paging!Cursors, Paging!NotStarted,
     Paging!Appear, Paging!Vanish, Paging!Move, Paging!FreeName, Paging!CursorOf,
     Paging!normalizePageLimit, ListingCursor
<1>11. ASSUME NEW i \in Items, Paging!RenameUser(i) PROVE ListingCursor'
  BY <1>11, NoneAssumption, ItemsAssumption, BoundsAssumption DEF Paging!RenameUser,
     Paging!TypeOK, Paging!rows, Paging!Kinds, Paging!Times, Paging!Cursors, Paging!NotStarted,
     Paging!Appear, Paging!Vanish, Paging!Move, Paging!FreeName, Paging!CursorOf,
     Paging!normalizePageLimit, ListingCursor
<1>12. CASE UNCHANGED listingVars
  BY <1>12 DEF listingVars, ListingCursor
<1>13. QED
  BY <1>1, <1>2, <1>3, <1>4, <1>5, <1>6, <1>7, <1>8, <1>9, <1>10, <1>11, <1>12 DEF Paging!Next

(* Names stay unique and messages keep their time.                         *)
LEMMA ListingKeysPreserved ==
  Paging!TypeOK /\ ListingKeys /\ [Paging!Next]_listingVars => ListingKeys'
<1> SUFFICES ASSUME Paging!TypeOK /\ ListingKeys, [Paging!Next]_listingVars PROVE ListingKeys'
  OBVIOUS
<1>1. ASSUME Paging!ListMessages \/ Paging!ListConversations \/ Paging!ListUsers
      PROVE ListingKeys'
  <2>1. QED
    BY <1>1, ListingPage DEF ListingKeys
<1>2. ASSUME Paging!Tick PROVE ListingKeys'
  BY <1>2, NoneAssumption, ItemsAssumption, BoundsAssumption DEF Paging!Tick, Paging!TypeOK,
     Paging!rows, Paging!Kinds, Paging!Times, Paging!Cursors, Paging!NotStarted, Paging!Appear,
     Paging!Vanish, Paging!Move, Paging!FreeName, Paging!CursorOf, Paging!normalizePageLimit,
     ListingKeys
<1>3. ASSUME Paging!Open PROVE ListingKeys'
  BY <1>3, NoneAssumption, ItemsAssumption, BoundsAssumption DEF Paging!Open, Paging!TypeOK,
     Paging!rows, Paging!Kinds, Paging!Times, Paging!Cursors, Paging!NotStarted, Paging!Appear,
     Paging!Vanish, Paging!Move, Paging!FreeName, Paging!CursorOf, Paging!normalizePageLimit,
     ListingKeys
<1>4. ASSUME NEW i \in Items, Paging!InsertMessage(i) PROVE ListingKeys'
  BY <1>4, NoneAssumption, ItemsAssumption, BoundsAssumption DEF Paging!InsertMessage,
     Paging!TypeOK, Paging!rows, Paging!Kinds, Paging!Times, Paging!Cursors, Paging!NotStarted,
     Paging!Appear, Paging!Vanish, Paging!Move, Paging!FreeName, Paging!CursorOf,
     Paging!normalizePageLimit, ListingKeys
<1>5. ASSUME NEW i \in Items, Paging!DeleteMessage(i) PROVE ListingKeys'
  BY <1>5, NoneAssumption, ItemsAssumption, BoundsAssumption DEF Paging!DeleteMessage,
     Paging!TypeOK, Paging!rows, Paging!Kinds, Paging!Times, Paging!Cursors, Paging!NotStarted,
     Paging!Appear, Paging!Vanish, Paging!Move, Paging!FreeName, Paging!CursorOf,
     Paging!normalizePageLimit, ListingKeys
<1>6. ASSUME NEW i \in Items, Paging!JoinConversation(i) PROVE ListingKeys'
  BY <1>6, NoneAssumption, ItemsAssumption, BoundsAssumption DEF Paging!JoinConversation,
     Paging!TypeOK, Paging!rows, Paging!Kinds, Paging!Times, Paging!Cursors, Paging!NotStarted,
     Paging!Appear, Paging!Vanish, Paging!Move, Paging!FreeName, Paging!CursorOf,
     Paging!normalizePageLimit, ListingKeys
<1>7. ASSUME NEW i \in Items, Paging!LeaveConversation(i) PROVE ListingKeys'
  BY <1>7, NoneAssumption, ItemsAssumption, BoundsAssumption DEF Paging!LeaveConversation,
     Paging!TypeOK, Paging!rows, Paging!Kinds, Paging!Times, Paging!Cursors, Paging!NotStarted,
     Paging!Appear, Paging!Vanish, Paging!Move, Paging!FreeName, Paging!CursorOf,
     Paging!normalizePageLimit, ListingKeys
<1>8. ASSUME NEW i \in Items, Paging!BumpActivity(i) PROVE ListingKeys'
  BY <1>8, NoneAssumption, ItemsAssumption, BoundsAssumption DEF Paging!BumpActivity,
     Paging!TypeOK, Paging!rows, Paging!Kinds, Paging!Times, Paging!Cursors, Paging!NotStarted,
     Paging!Appear, Paging!Vanish, Paging!Move, Paging!FreeName, Paging!CursorOf,
     Paging!normalizePageLimit, ListingKeys
<1>9. ASSUME NEW i \in Items, Paging!AddUser(i) PROVE ListingKeys'
  BY <1>9, NoneAssumption, ItemsAssumption, BoundsAssumption DEF Paging!AddUser, Paging!TypeOK,
     Paging!rows, Paging!Kinds, Paging!Times, Paging!Cursors, Paging!NotStarted, Paging!Appear,
     Paging!Vanish, Paging!Move, Paging!FreeName, Paging!CursorOf, Paging!normalizePageLimit,
     ListingKeys
<1>10. ASSUME NEW i \in Items, Paging!RemoveUser(i) PROVE ListingKeys'
  BY <1>10, NoneAssumption, ItemsAssumption, BoundsAssumption DEF Paging!RemoveUser,
     Paging!TypeOK, Paging!rows, Paging!Kinds, Paging!Times, Paging!Cursors, Paging!NotStarted,
     Paging!Appear, Paging!Vanish, Paging!Move, Paging!FreeName, Paging!CursorOf,
     Paging!normalizePageLimit, ListingKeys
<1>11. ASSUME NEW i \in Items, Paging!RenameUser(i) PROVE ListingKeys'
  BY <1>11, NoneAssumption, ItemsAssumption, BoundsAssumption DEF Paging!RenameUser,
     Paging!TypeOK, Paging!rows, Paging!Kinds, Paging!Times, Paging!Cursors, Paging!NotStarted,
     Paging!Appear, Paging!Vanish, Paging!Move, Paging!FreeName, Paging!CursorOf,
     Paging!normalizePageLimit, ListingKeys
<1>12. CASE UNCHANGED listingVars
  BY <1>12 DEF listingVars, ListingKeys
<1>13. QED
  BY <1>1, <1>2, <1>3, <1>4, <1>5, <1>6, <1>7, <1>8, <1>9, <1>10, <1>11, <1>12 DEF Paging!Next

(* A page lists the steady rows up to the next cursor.                     *)
LEMMA ListingSteadyPreserved ==
  Paging!TypeOK /\ ListingCursor /\ ListingSteady /\ [Paging!Next]_listingVars => ListingSteady'
<1> SUFFICES ASSUME Paging!TypeOK /\ ListingCursor /\ ListingSteady, [Paging!Next]_listingVars
             PROVE ListingSteady'
  OBVIOUS
<1>1. ASSUME Paging!ListMessages \/ Paging!ListConversations \/ Paging!ListUsers
      PROVE ListingSteady'
  <2>1. /\ page.step \in {"start", "more"}
        /\ UNCHANGED <<kind, present, key, clock>>
        /\ steady' = IF page.step = "start" THEN present ELSE steady
    BY <1>1, ListingPage
  <2>2. PICK items \in SUBSET Paging!Found :
          /\ \A i \in items, j \in Paging!Found \ items : Paging!Before(i, j)
          /\ listedTimes' = [i \in Items |-> IF i \in items THEN listedTimes[i] + 1
                                             ELSE listedTimes[i]]
          /\ \/ /\ items = Paging!Found
                /\ page' = [page EXCEPT !.step = "done", !.cursor = None]
             \/ \E end \in items :
                   /\ \A i \in items \ {end} : Paging!Before(i, end)
                   /\ page' = [page EXCEPT !.step = "more", !.cursor = Paging!CursorOf(end)]
    BY <1>1, ListingPage
  <2>3. ASSUME NEW i \in steady' PROVE i \in Items /\ i \in present
    BY <2>1, <2>3 DEF Paging!TypeOK
  <2>4. ASSUME NEW i \in steady', i \in Paging!Found PROVE listedTimes[i] = 0
    BY <2>1, <2>3, <2>4, ListingFinds DEF ListingCursor, ListingSteady
  <2>5. ASSUME NEW i \in steady', i \notin Paging!Found PROVE listedTimes[i] = 1
    BY <2>1, <2>3, <2>5, ListingFinds DEF ListingCursor, ListingSteady
  <2>6. ASSUME NEW end \in items, \A i \in items \ {end} : Paging!Before(i, end),
               page' = [page EXCEPT !.step = "more", !.cursor = Paging!CursorOf(end)]
        PROVE  ListingSteady'
    <3>1. /\ page'.step = "more" /\ end \in Paging!Found /\ end \in Items
          /\ \A i \in Items : Paging!After(page.cursor, i)' <=> Paging!Before(end, i)
      <4>1. page'.step = "more" /\ page'.cursor = Paging!CursorOf(end)
        BY <2>6 DEF Paging!TypeOK
      <4>2. end \in Paging!Found /\ end \in Items
        BY ListingFinds DEF Paging!Found, Paging!TypeOK
      <4>3. QED
        BY <2>1, <4>1, <4>2
           DEF Paging!After, Paging!Before, Paging!UserAfter, Paging!MessageAfter,
           Paging!ConversationAfter, Paging!ByName,
               Paging!NewestFirst, Paging!CursorOf
    <3>2. ASSUME NEW i \in steady', i \in items
          PROVE  ~Paging!Before(end, i) /\ listedTimes'[i] = 1
      <4>1. i \in Items /\ listedTimes[i] = 0
        BY <2>3, <2>4, <3>2
      <4>2. listedTimes'[i] = listedTimes[i] + 1
        BY <2>2, <3>2, <4>1
      <4>3. QED
        BY <2>6, <3>1, <3>2, <4>1, <4>2, ListingOrder
    <3>3. ASSUME NEW i \in steady', i \in Paging!Found \ items
          PROVE  Paging!Before(end, i) /\ listedTimes'[i] = 0
      BY <2>2, <2>3, <2>4, <3>3
    <3>4. ASSUME NEW i \in steady', i \notin Paging!Found
          PROVE  ~Paging!Before(end, i) /\ listedTimes'[i] = 1
      <4>1. page.cursor \in Paging!Cursors /\ ~Paging!After(page.cursor, i)
        BY <2>3, <3>4, ListingFinds
      <4>2. Paging!After(page.cursor, end)
        BY <2>3, <3>1, <3>4, ListingFinds
      <4>3. listedTimes'[i] = 1
        BY <2>2, <2>3, <2>5, <3>4
      <4>4. QED
        BY <2>3, <3>1, <4>1, <4>2, <4>3, ListingOrder
    <3>5. QED
      BY <2>3, <3>1, <3>2, <3>3, <3>4 DEF ListingSteady
  <2>7. CASE items = Paging!Found /\ page' = [page EXCEPT !.step = "done", !.cursor = None]
    <3>1. page'.step = "done"
      BY <2>7 DEF Paging!TypeOK
    <3>2. QED
      BY <2>2, <2>3, <2>4, <2>5, <2>7, <3>1 DEF ListingSteady
  <2>8. QED
    BY <2>2, <2>6, <2>7
<1>2. ASSUME Paging!Tick PROVE ListingSteady'
  BY <1>2, NoneAssumption, ItemsAssumption, BoundsAssumption DEF Paging!Tick, Paging!TypeOK,
     Paging!rows, Paging!Kinds, Paging!Times, Paging!Cursors, Paging!NotStarted, Paging!Appear,
     Paging!Vanish, Paging!Move, Paging!FreeName, Paging!CursorOf, Paging!normalizePageLimit,
     ListingCursor, ListingSteady, Paging!After, Paging!Before, Paging!UserAfter,
     Paging!MessageAfter, Paging!ConversationAfter, Paging!ByName, Paging!NewestFirst
<1>3. ASSUME Paging!Open PROVE ListingSteady'
  BY <1>3, NoneAssumption, ItemsAssumption, BoundsAssumption DEF Paging!Open, Paging!TypeOK,
     Paging!rows, Paging!Kinds, Paging!Times, Paging!Cursors, Paging!NotStarted, Paging!Appear,
     Paging!Vanish, Paging!Move, Paging!FreeName, Paging!CursorOf, Paging!normalizePageLimit,
     ListingCursor, ListingSteady, Paging!After, Paging!Before, Paging!UserAfter,
     Paging!MessageAfter, Paging!ConversationAfter, Paging!ByName, Paging!NewestFirst
<1>4. ASSUME NEW i \in Items, Paging!InsertMessage(i) PROVE ListingSteady'
  BY <1>4, NoneAssumption, ItemsAssumption, BoundsAssumption DEF Paging!InsertMessage,
     Paging!TypeOK, Paging!rows, Paging!Kinds, Paging!Times, Paging!Cursors, Paging!NotStarted,
     Paging!Appear, Paging!Vanish, Paging!Move, Paging!FreeName, Paging!CursorOf,
     Paging!normalizePageLimit, ListingCursor, ListingSteady, Paging!After, Paging!Before,
     Paging!UserAfter, Paging!MessageAfter, Paging!ConversationAfter, Paging!ByName,
     Paging!NewestFirst
<1>5. ASSUME NEW i \in Items, Paging!DeleteMessage(i) PROVE ListingSteady'
  BY <1>5, NoneAssumption, ItemsAssumption, BoundsAssumption DEF Paging!DeleteMessage,
     Paging!TypeOK, Paging!rows, Paging!Kinds, Paging!Times, Paging!Cursors, Paging!NotStarted,
     Paging!Appear, Paging!Vanish, Paging!Move, Paging!FreeName, Paging!CursorOf,
     Paging!normalizePageLimit, ListingCursor, ListingSteady, Paging!After, Paging!Before,
     Paging!UserAfter, Paging!MessageAfter, Paging!ConversationAfter, Paging!ByName,
     Paging!NewestFirst
<1>6. ASSUME NEW i \in Items, Paging!JoinConversation(i) PROVE ListingSteady'
  BY <1>6, NoneAssumption, ItemsAssumption, BoundsAssumption DEF Paging!JoinConversation,
     Paging!TypeOK, Paging!rows, Paging!Kinds, Paging!Times, Paging!Cursors, Paging!NotStarted,
     Paging!Appear, Paging!Vanish, Paging!Move, Paging!FreeName, Paging!CursorOf,
     Paging!normalizePageLimit, ListingCursor, ListingSteady, Paging!After, Paging!Before,
     Paging!UserAfter, Paging!MessageAfter, Paging!ConversationAfter, Paging!ByName,
     Paging!NewestFirst
<1>7. ASSUME NEW i \in Items, Paging!LeaveConversation(i) PROVE ListingSteady'
  BY <1>7, NoneAssumption, ItemsAssumption, BoundsAssumption DEF Paging!LeaveConversation,
     Paging!TypeOK, Paging!rows, Paging!Kinds, Paging!Times, Paging!Cursors, Paging!NotStarted,
     Paging!Appear, Paging!Vanish, Paging!Move, Paging!FreeName, Paging!CursorOf,
     Paging!normalizePageLimit, ListingCursor, ListingSteady, Paging!After, Paging!Before,
     Paging!UserAfter, Paging!MessageAfter, Paging!ConversationAfter, Paging!ByName,
     Paging!NewestFirst
<1>8. ASSUME NEW i \in Items, Paging!BumpActivity(i) PROVE ListingSteady'
  BY <1>8, NoneAssumption, ItemsAssumption, BoundsAssumption DEF Paging!BumpActivity,
     Paging!TypeOK, Paging!rows, Paging!Kinds, Paging!Times, Paging!Cursors, Paging!NotStarted,
     Paging!Appear, Paging!Vanish, Paging!Move, Paging!FreeName, Paging!CursorOf,
     Paging!normalizePageLimit, ListingCursor, ListingSteady, Paging!After, Paging!Before,
     Paging!UserAfter, Paging!MessageAfter, Paging!ConversationAfter, Paging!ByName,
     Paging!NewestFirst
<1>9. ASSUME NEW i \in Items, Paging!AddUser(i) PROVE ListingSteady'
  BY <1>9, NoneAssumption, ItemsAssumption, BoundsAssumption DEF Paging!AddUser, Paging!TypeOK,
     Paging!rows, Paging!Kinds, Paging!Times, Paging!Cursors, Paging!NotStarted, Paging!Appear,
     Paging!Vanish, Paging!Move, Paging!FreeName, Paging!CursorOf, Paging!normalizePageLimit,
     ListingCursor, ListingSteady, Paging!After, Paging!Before, Paging!UserAfter,
     Paging!MessageAfter, Paging!ConversationAfter, Paging!ByName, Paging!NewestFirst
<1>10. ASSUME NEW i \in Items, Paging!RemoveUser(i) PROVE ListingSteady'
  BY <1>10, NoneAssumption, ItemsAssumption, BoundsAssumption DEF Paging!RemoveUser,
     Paging!TypeOK, Paging!rows, Paging!Kinds, Paging!Times, Paging!Cursors, Paging!NotStarted,
     Paging!Appear, Paging!Vanish, Paging!Move, Paging!FreeName, Paging!CursorOf,
     Paging!normalizePageLimit, ListingCursor, ListingSteady, Paging!After, Paging!Before,
     Paging!UserAfter, Paging!MessageAfter, Paging!ConversationAfter, Paging!ByName,
     Paging!NewestFirst
<1>11. ASSUME NEW i \in Items, Paging!RenameUser(i) PROVE ListingSteady'
  BY <1>11, NoneAssumption, ItemsAssumption, BoundsAssumption DEF Paging!RenameUser,
     Paging!TypeOK, Paging!rows, Paging!Kinds, Paging!Times, Paging!Cursors, Paging!NotStarted,
     Paging!Appear, Paging!Vanish, Paging!Move, Paging!FreeName, Paging!CursorOf,
     Paging!normalizePageLimit, ListingCursor, ListingSteady, Paging!After, Paging!Before,
     Paging!UserAfter, Paging!MessageAfter, Paging!ConversationAfter, Paging!ByName,
     Paging!NewestFirst
<1>12. CASE UNCHANGED listingVars
  BY <1>12 DEF listingVars, ListingSteady, Paging!After, Paging!Before, Paging!UserAfter,
     Paging!MessageAfter, Paging!ConversationAfter, Paging!ByName, Paging!NewestFirst
<1>13. QED
  BY <1>1, <1>2, <1>3, <1>4, <1>5, <1>6, <1>7, <1>8, <1>9, <1>10, <1>11, <1>12 DEF Paging!Next

(* What was listed stays before the cursor.                                *)
LEMMA ListingOncePreserved ==
  Paging!TypeOK /\ ListingCursor /\ ListingKeys /\ ListingOnce /\ [Paging!Next]_listingVars =>
      ListingOnce'
<1> SUFFICES ASSUME Paging!TypeOK /\ ListingCursor /\ ListingKeys /\ ListingOnce,
                    [Paging!Next]_listingVars
             PROVE ListingOnce'
  OBVIOUS
<1>1. ASSUME Paging!ListMessages \/ Paging!ListConversations \/ Paging!ListUsers
      PROVE ListingOnce'
  <2>1. /\ page.step \in {"start", "more"}
        /\ UNCHANGED <<kind, present, key, clock>>
        /\ steady' = IF page.step = "start" THEN present ELSE steady
    BY <1>1, ListingPage
  <2>2. PICK items \in SUBSET Paging!Found :
          /\ \A i \in items, j \in Paging!Found \ items : Paging!Before(i, j)
          /\ listedTimes' = [i \in Items |-> IF i \in items THEN listedTimes[i] + 1
                                             ELSE listedTimes[i]]
          /\ \/ /\ items = Paging!Found
                /\ page' = [page EXCEPT !.step = "done", !.cursor = None]
             \/ \E end \in items :
                   /\ \A i \in items \ {end} : Paging!Before(i, end)
                   /\ page' = [page EXCEPT !.step = "more", !.cursor = Paging!CursorOf(end)]
    BY <1>1, ListingPage
  <2>3. \A i \in items : i \in Items /\ i \in present
    BY DEF Paging!Found, Paging!TypeOK
  <2>4. ASSUME kind # "users", NEW i \in items PROVE listedTimes[i] = 0
    BY <2>1, <2>3, <2>4, ListingFinds DEF ListingCursor, ListingOnce
  <2>5. ASSUME kind # "users", NEW i \in Items
        PROVE  /\ listedTimes'[i] <= 1
               /\ listedTimes'[i] = 1 /\ kind = "messages" => key[i] > 0
               /\ listedTimes'[i] = 1 => listedTimes[i] = 1 \/ i \in items
    <3>1. CASE i \in items
      <4>1. listedTimes'[i] = listedTimes[i] + 1 /\ listedTimes[i] = 0
        BY <2>2, <2>4, <2>5, <3>1
      <4>2. kind = "messages" => key[i] > 0
        BY <2>3, <3>1 DEF ListingKeys
      <4>3. QED
        BY <3>1, <4>1, <4>2
    <3>2. CASE i \notin items
      BY <2>2, <2>5, <3>2 DEF ListingOnce
    <3>3. QED
      BY <3>1, <3>2
  <2>6. ASSUME NEW end \in items, \A i \in items \ {end} : Paging!Before(i, end),
               page' = [page EXCEPT !.step = "more", !.cursor = Paging!CursorOf(end)]
        PROVE  ListingOnce'
    <3>1. /\ page'.step = "more" /\ end \in Paging!Found /\ end \in Items
          /\ \A i \in Items : Paging!After(page.cursor, i)' <=> Paging!Before(end, i)
      <4>1. page'.step = "more" /\ page'.cursor = Paging!CursorOf(end)
        BY <2>6 DEF Paging!TypeOK
      <4>2. end \in Paging!Found /\ end \in Items
        BY ListingFinds DEF Paging!Found, Paging!TypeOK
      <4>3. QED
        BY <2>1, <4>1, <4>2
           DEF Paging!After, Paging!Before, Paging!UserAfter, Paging!MessageAfter,
           Paging!ConversationAfter, Paging!ByName,
               Paging!NewestFirst, Paging!CursorOf
    <3>2. ASSUME kind # "users", NEW i \in Items, listedTimes[i] = 1
          PROVE  ~Paging!Before(end, i)
      <4>1. page.cursor # None /\ page.step = "more"
        BY <2>1, <3>2 DEF ListingCursor
      <4>2. page.cursor \in Paging!Cursors /\ ~Paging!After(page.cursor, i)
        BY <3>2, <4>1, ListingFinds DEF ListingOnce
      <4>3. QED
        BY <3>1, <4>1, <4>2, ListingFinds, ListingOrder
    <3>3. ASSUME NEW i \in items PROVE ~Paging!Before(end, i)
      BY <2>3, <2>6, <3>1, <3>3, ListingOrder
    <3>4. QED
      BY <2>1, <2>3, <2>5, <3>1, <3>2, <3>3 DEF ListingOnce
  <2>7. CASE items = Paging!Found /\ page' = [page EXCEPT !.step = "done", !.cursor = None]
    <3>1. page'.step = "done"
      BY <2>7 DEF Paging!TypeOK
    <3>2. QED
      BY <2>1, <2>5, <3>1 DEF ListingOnce
  <2>8. QED
    BY <2>2, <2>6, <2>7
<1>2. ASSUME Paging!Tick PROVE ListingOnce'
  BY <1>2, NoneAssumption, ItemsAssumption, BoundsAssumption DEF Paging!Tick, Paging!TypeOK,
     Paging!rows, Paging!Kinds, Paging!Times, Paging!Cursors, Paging!NotStarted, Paging!Appear,
     Paging!Vanish, Paging!Move, Paging!FreeName, Paging!CursorOf, Paging!normalizePageLimit,
     ListingCursor, ListingKeys, ListingOnce, Paging!After, Paging!Before, Paging!UserAfter,
     Paging!MessageAfter, Paging!ConversationAfter, Paging!ByName, Paging!NewestFirst
<1>3. ASSUME Paging!Open PROVE ListingOnce'
  BY <1>3, NoneAssumption, ItemsAssumption, BoundsAssumption DEF Paging!Open, Paging!TypeOK,
     Paging!rows, Paging!Kinds, Paging!Times, Paging!Cursors, Paging!NotStarted, Paging!Appear,
     Paging!Vanish, Paging!Move, Paging!FreeName, Paging!CursorOf, Paging!normalizePageLimit,
     ListingCursor, ListingKeys, ListingOnce, Paging!After, Paging!Before, Paging!UserAfter,
     Paging!MessageAfter, Paging!ConversationAfter, Paging!ByName, Paging!NewestFirst
<1>4. ASSUME NEW i \in Items, Paging!InsertMessage(i) PROVE ListingOnce'
  BY <1>4, NoneAssumption, ItemsAssumption, BoundsAssumption DEF Paging!InsertMessage,
     Paging!TypeOK, Paging!rows, Paging!Kinds, Paging!Times, Paging!Cursors, Paging!NotStarted,
     Paging!Appear, Paging!Vanish, Paging!Move, Paging!FreeName, Paging!CursorOf,
     Paging!normalizePageLimit, ListingCursor, ListingKeys, ListingOnce, Paging!After,
     Paging!Before, Paging!UserAfter, Paging!MessageAfter, Paging!ConversationAfter,
     Paging!ByName, Paging!NewestFirst
<1>5. ASSUME NEW i \in Items, Paging!DeleteMessage(i) PROVE ListingOnce'
  BY <1>5, NoneAssumption, ItemsAssumption, BoundsAssumption DEF Paging!DeleteMessage,
     Paging!TypeOK, Paging!rows, Paging!Kinds, Paging!Times, Paging!Cursors, Paging!NotStarted,
     Paging!Appear, Paging!Vanish, Paging!Move, Paging!FreeName, Paging!CursorOf,
     Paging!normalizePageLimit, ListingCursor, ListingKeys, ListingOnce, Paging!After,
     Paging!Before, Paging!UserAfter, Paging!MessageAfter, Paging!ConversationAfter,
     Paging!ByName, Paging!NewestFirst
<1>6. ASSUME NEW i \in Items, Paging!JoinConversation(i) PROVE ListingOnce'
  BY <1>6, NoneAssumption, ItemsAssumption, BoundsAssumption DEF Paging!JoinConversation,
     Paging!TypeOK, Paging!rows, Paging!Kinds, Paging!Times, Paging!Cursors, Paging!NotStarted,
     Paging!Appear, Paging!Vanish, Paging!Move, Paging!FreeName, Paging!CursorOf,
     Paging!normalizePageLimit, ListingCursor, ListingKeys, ListingOnce, Paging!After,
     Paging!Before, Paging!UserAfter, Paging!MessageAfter, Paging!ConversationAfter,
     Paging!ByName, Paging!NewestFirst
<1>7. ASSUME NEW i \in Items, Paging!LeaveConversation(i) PROVE ListingOnce'
  BY <1>7, NoneAssumption, ItemsAssumption, BoundsAssumption DEF Paging!LeaveConversation,
     Paging!TypeOK, Paging!rows, Paging!Kinds, Paging!Times, Paging!Cursors, Paging!NotStarted,
     Paging!Appear, Paging!Vanish, Paging!Move, Paging!FreeName, Paging!CursorOf,
     Paging!normalizePageLimit, ListingCursor, ListingKeys, ListingOnce, Paging!After,
     Paging!Before, Paging!UserAfter, Paging!MessageAfter, Paging!ConversationAfter,
     Paging!ByName, Paging!NewestFirst
<1>8. ASSUME NEW i \in Items, Paging!BumpActivity(i) PROVE ListingOnce'
  BY <1>8, NoneAssumption, ItemsAssumption, BoundsAssumption DEF Paging!BumpActivity,
     Paging!TypeOK, Paging!rows, Paging!Kinds, Paging!Times, Paging!Cursors, Paging!NotStarted,
     Paging!Appear, Paging!Vanish, Paging!Move, Paging!FreeName, Paging!CursorOf,
     Paging!normalizePageLimit, ListingCursor, ListingKeys, ListingOnce, Paging!After,
     Paging!Before, Paging!UserAfter, Paging!MessageAfter, Paging!ConversationAfter,
     Paging!ByName, Paging!NewestFirst
<1>9. ASSUME NEW i \in Items, Paging!AddUser(i) PROVE ListingOnce'
  BY <1>9, NoneAssumption, ItemsAssumption, BoundsAssumption DEF Paging!AddUser, Paging!TypeOK,
     Paging!rows, Paging!Kinds, Paging!Times, Paging!Cursors, Paging!NotStarted, Paging!Appear,
     Paging!Vanish, Paging!Move, Paging!FreeName, Paging!CursorOf, Paging!normalizePageLimit,
     ListingCursor, ListingKeys, ListingOnce, Paging!After, Paging!Before, Paging!UserAfter,
     Paging!MessageAfter, Paging!ConversationAfter, Paging!ByName, Paging!NewestFirst
<1>10. ASSUME NEW i \in Items, Paging!RemoveUser(i) PROVE ListingOnce'
  BY <1>10, NoneAssumption, ItemsAssumption, BoundsAssumption DEF Paging!RemoveUser,
     Paging!TypeOK, Paging!rows, Paging!Kinds, Paging!Times, Paging!Cursors, Paging!NotStarted,
     Paging!Appear, Paging!Vanish, Paging!Move, Paging!FreeName, Paging!CursorOf,
     Paging!normalizePageLimit, ListingCursor, ListingKeys, ListingOnce, Paging!After,
     Paging!Before, Paging!UserAfter, Paging!MessageAfter, Paging!ConversationAfter,
     Paging!ByName, Paging!NewestFirst
<1>11. ASSUME NEW i \in Items, Paging!RenameUser(i) PROVE ListingOnce'
  BY <1>11, NoneAssumption, ItemsAssumption, BoundsAssumption DEF Paging!RenameUser,
     Paging!TypeOK, Paging!rows, Paging!Kinds, Paging!Times, Paging!Cursors, Paging!NotStarted,
     Paging!Appear, Paging!Vanish, Paging!Move, Paging!FreeName, Paging!CursorOf,
     Paging!normalizePageLimit, ListingCursor, ListingKeys, ListingOnce, Paging!After,
     Paging!Before, Paging!UserAfter, Paging!MessageAfter, Paging!ConversationAfter,
     Paging!ByName, Paging!NewestFirst
<1>12. CASE UNCHANGED listingVars
  BY <1>12 DEF listingVars, ListingOnce, Paging!After, Paging!Before, Paging!UserAfter,
     Paging!MessageAfter, Paging!ConversationAfter, Paging!ByName, Paging!NewestFirst
<1>13. QED
  BY <1>1, <1>2, <1>3, <1>4, <1>5, <1>6, <1>7, <1>8, <1>9, <1>10, <1>11, <1>12 DEF Paging!Next

(* ListingIInv is inductive.                                               *)
LEMMA ListingInvariance == Paging!Spec => []ListingIInv
<1>1. Paging!Init => ListingIInv
  BY NoneAssumption, BoundsAssumption
     DEF Paging!Init, Paging!TypeOK, Paging!Kinds, Paging!Times, Paging!NotStarted, ListingIInv,
         ListingCursor, ListingKeys, ListingSteady, ListingOnce
<1>2. UNCHANGED Paging!vars => UNCHANGED listingVars
  BY DEF Paging!vars, Paging!rows, listingVars
<1>3. ListingIInv /\ [Paging!Next]_(Paging!vars) => ListingIInv'
  BY <1>2, ListingTypes, ListingCursorPreserved, ListingKeysPreserved, ListingSteadyPreserved,
     ListingOncePreserved DEF ListingIInv
<1>4. QED
  BY <1>1, <1>3, PTL DEF Paging!Spec

(* Paging to the end lists every row that stayed as it was exactly once,   *)
(* and no message or conversation twice (EachListedOnce), for every number *)
(* of rows, page size and time.  message.sql.go:391, room.sql.go:351       *)
THEOREM ListedOnce == Paging!Spec => []EachListedOnce
<1>1. ListingIInv => EachListedOnce
  BY DEF ListingIInv, ListingSteady, ListingOnce, EachListedOnce, Paging!EachListedOnce
<1>2. QED
  BY <1>1, ListingInvariance, PTL

-----------------------------------------------------------------------------
(* The room manager.                                                       *)

(* A client that has the conversation open is registered, and its reader   *)
(* is neither clearing nor done.                                           *)
ViewingOpen ==
    \A s \in wants : closer[s] = "no" /\ reader[s] \notin {"none", "clear_redis", "done"}

(* Between messages its entry is there, unless its last write failed.      *)
ViewingEntered == \A s \in wants : reader[s] = "idle" => s \in viewing \/ s \in viewMissed

(* Only a reader whose session is being ended sets what nobody has open.   *)
ViewingSetting ==
    \A s \in Pair :
        /\ reader[s] \in {"set", "set_redis"} /\ closer[s] = "no" => s \in wants
        /\ reader[s] = "none" => closer[s] = "no"

(* What nobody has open and no race left behind is about to be cleared.    *)
ViewingLocal == \A s \in local : s \in wants \cup behind \/ closer[s] = "clear"

ViewingRedis ==
    /\ viewing \subseteq listed \cup behind
    /\ \A s \in viewing \cup listed :
           \/ s \in wants \cup behind
           \/ reader[s] = "clear_redis"
           \/ closer[s] \in {"clear", "members", "members_or_hint", "pipe"}
    /\ \A s \in viewing \cup listed : closer[s] = "pipe_set" => s \in behind

ViewingIInv ==
    /\ View!TypeOK
    /\ ViewingOpen /\ ViewingEntered /\ ViewingSetting /\ ViewingLocal /\ ViewingRedis

(* The room manager keeps its types.                                       *)
LEMMA ViewingTypes ==
  View!TypeOK /\ [View!Next]_viewingVars => View!TypeOK'
<1> SUFFICES ASSUME View!TypeOK, [View!Next]_viewingVars PROVE View!TypeOK'
  OBVIOUS
<1> USE DEF View!TypeOK, View!setLocal, View!clearLocal, View!setViewingRedis,
         View!setViewingInPart, View!clearViewingRedis, View!clearInPart, View!heartbeatRedis,
         View!Step, View!LeftBehind, View!Registered, View!Unregister, View!Close, View!redis,
         View!control
<1>1. ASSUME View!Crash PROVE View!TypeOK'
  BY <1>1 DEF View!Crash
<1>2. ASSUME NEW s \in Pair, View!Connect(s) PROVE View!TypeOK'
  BY <1>2 DEF View!Connect
<1>3. ASSUME NEW s \in Pair, View!onViewing(s) PROVE View!TypeOK'
  BY <1>3 DEF View!onViewing
<1>4. ASSUME NEW s \in Pair, View!SetViewing(s) PROVE View!TypeOK'
  BY <1>4 DEF View!SetViewing
<1>5. ASSUME NEW s \in Pair, View!SetViewingRedis(s) PROVE View!TypeOK'
  BY <1>5 DEF View!SetViewingRedis
<1>6. ASSUME NEW s \in Pair, View!onLeft(s) PROVE View!TypeOK'
  BY <1>6 DEF View!onLeft
<1>7. ASSUME NEW s \in Pair, View!ClearViewingRedis(s) PROVE View!TypeOK'
  BY <1>7 DEF View!ClearViewingRedis
<1>8. ASSUME NEW s \in Pair, View!HeartbeatSession(s) PROVE View!TypeOK'
  BY <1>8 DEF View!HeartbeatSession
<1>9. ASSUME NEW s \in Pair, View!HeartbeatRedis(s) PROVE View!TypeOK'
  BY <1>9 DEF View!HeartbeatRedis
<1>10. ASSUME NEW s \in Pair, View!ReaderEnds(s) PROVE View!TypeOK'
  BY <1>10 DEF View!ReaderEnds
<1>11. ASSUME NEW s \in Pair, View!HubUnregisters(s) PROVE View!TypeOK'
  BY <1>11 DEF View!HubUnregisters
<1>12. ASSUME NEW s \in Pair, View!ClearSession(s) PROVE View!TypeOK'
  BY <1>12 DEF View!ClearSession
<1>13. ASSUME NEW s \in Pair, View!SMembers(s) PROVE View!TypeOK'
  BY <1>13 DEF View!SMembers
<1>14. ASSUME NEW s \in Pair, View!ClearSessionRedis(s) PROVE View!TypeOK'
  BY <1>14 DEF View!ClearSessionRedis
<1>15. ASSUME NEW s \in Pair, View!ClearAll(s) PROVE View!TypeOK'
  BY <1>15 DEF View!ClearAll
<1>16. ASSUME NEW s \in Pair, View!Expire(s) PROVE View!TypeOK'
  BY <1>16 DEF View!Expire
<1>17. CASE UNCHANGED viewingVars
  BY <1>17 DEF viewingVars
<1>18. QED
  BY <1>1, <1>2, <1>3, <1>4, <1>5, <1>6, <1>7, <1>8, <1>9, <1>10, <1>11, <1>12, <1>13, <1>14,
     <1>15, <1>16, <1>17 DEF View!Next

(* Ending a session and leaving close the conversation first.              *)
LEMMA ViewingOpenPreserved ==
  View!TypeOK /\ ViewingOpen /\ [View!Next]_viewingVars => ViewingOpen'
<1> SUFFICES ASSUME View!TypeOK /\ ViewingOpen, [View!Next]_viewingVars PROVE ViewingOpen'
  OBVIOUS
<1> USE DEF View!TypeOK, View!setLocal, View!clearLocal, View!setViewingRedis,
         View!setViewingInPart, View!clearViewingRedis, View!clearInPart, View!heartbeatRedis,
         View!Step, View!LeftBehind, View!Registered, View!Unregister, View!Close, View!redis,
         View!control, ViewingOpen
<1>1. ASSUME View!Crash PROVE ViewingOpen'
  BY <1>1 DEF View!Crash
<1>2. ASSUME NEW s \in Pair, View!Connect(s) PROVE ViewingOpen'
  BY <1>2 DEF View!Connect
<1>3. ASSUME NEW s \in Pair, View!onViewing(s) PROVE ViewingOpen'
  BY <1>3 DEF View!onViewing
<1>4. ASSUME NEW s \in Pair, View!SetViewing(s) PROVE ViewingOpen'
  BY <1>4 DEF View!SetViewing
<1>5. ASSUME NEW s \in Pair, View!SetViewingRedis(s) PROVE ViewingOpen'
  BY <1>5 DEF View!SetViewingRedis
<1>6. ASSUME NEW s \in Pair, View!onLeft(s) PROVE ViewingOpen'
  BY <1>6 DEF View!onLeft
<1>7. ASSUME NEW s \in Pair, View!ClearViewingRedis(s) PROVE ViewingOpen'
  BY <1>7 DEF View!ClearViewingRedis
<1>8. ASSUME NEW s \in Pair, View!HeartbeatSession(s) PROVE ViewingOpen'
  BY <1>8 DEF View!HeartbeatSession
<1>9. ASSUME NEW s \in Pair, View!HeartbeatRedis(s) PROVE ViewingOpen'
  BY <1>9 DEF View!HeartbeatRedis
<1>10. ASSUME NEW s \in Pair, View!ReaderEnds(s) PROVE ViewingOpen'
  BY <1>10 DEF View!ReaderEnds
<1>11. ASSUME NEW s \in Pair, View!HubUnregisters(s) PROVE ViewingOpen'
  BY <1>11 DEF View!HubUnregisters
<1>12. ASSUME NEW s \in Pair, View!ClearSession(s) PROVE ViewingOpen'
  BY <1>12 DEF View!ClearSession
<1>13. ASSUME NEW s \in Pair, View!SMembers(s) PROVE ViewingOpen'
  BY <1>13 DEF View!SMembers
<1>14. ASSUME NEW s \in Pair, View!ClearSessionRedis(s) PROVE ViewingOpen'
  BY <1>14 DEF View!ClearSessionRedis
<1>15. ASSUME NEW s \in Pair, View!ClearAll(s) PROVE ViewingOpen'
  BY <1>15 DEF View!ClearAll
<1>16. ASSUME NEW s \in Pair, View!Expire(s) PROVE ViewingOpen'
  BY <1>16 DEF View!Expire
<1>17. CASE UNCHANGED viewingVars
  BY <1>17 DEF viewingVars
<1>18. QED
  BY <1>1, <1>2, <1>3, <1>4, <1>5, <1>6, <1>7, <1>8, <1>9, <1>10, <1>11, <1>12, <1>13, <1>14,
     <1>15, <1>16, <1>17 DEF View!Next

(* Others do not remove the entry of an open conversation.                 *)
LEMMA ViewingEnteredPreserved ==
  View!TypeOK /\ ViewingOpen /\ ViewingEntered /\ [View!Next]_viewingVars => ViewingEntered'
<1> SUFFICES ASSUME View!TypeOK /\ ViewingOpen /\ ViewingEntered, [View!Next]_viewingVars
             PROVE ViewingEntered'
  OBVIOUS
<1> USE DEF View!TypeOK, View!setLocal, View!clearLocal, View!setViewingRedis,
         View!setViewingInPart, View!clearViewingRedis, View!clearInPart, View!heartbeatRedis,
         View!Step, View!LeftBehind, View!Registered, View!Unregister, View!Close, View!redis,
         View!control, ViewingOpen, ViewingEntered
<1>1. ASSUME View!Crash PROVE ViewingEntered'
  BY <1>1 DEF View!Crash
<1>2. ASSUME NEW s \in Pair, View!Connect(s) PROVE ViewingEntered'
  BY <1>2 DEF View!Connect
<1>3. ASSUME NEW s \in Pair, View!onViewing(s) PROVE ViewingEntered'
  BY <1>3 DEF View!onViewing
<1>4. ASSUME NEW s \in Pair, View!SetViewing(s) PROVE ViewingEntered'
  BY <1>4 DEF View!SetViewing
<1>5. ASSUME NEW s \in Pair, View!SetViewingRedis(s) PROVE ViewingEntered'
  BY <1>5 DEF View!SetViewingRedis
<1>6. ASSUME NEW s \in Pair, View!onLeft(s) PROVE ViewingEntered'
  BY <1>6 DEF View!onLeft
<1>7. ASSUME NEW s \in Pair, View!ClearViewingRedis(s) PROVE ViewingEntered'
  BY <1>7 DEF View!ClearViewingRedis
<1>8. ASSUME NEW s \in Pair, View!HeartbeatSession(s) PROVE ViewingEntered'
  BY <1>8 DEF View!HeartbeatSession
<1>9. ASSUME NEW s \in Pair, View!HeartbeatRedis(s) PROVE ViewingEntered'
  BY <1>9 DEF View!HeartbeatRedis
<1>10. ASSUME NEW s \in Pair, View!ReaderEnds(s) PROVE ViewingEntered'
  BY <1>10 DEF View!ReaderEnds
<1>11. ASSUME NEW s \in Pair, View!HubUnregisters(s) PROVE ViewingEntered'
  BY <1>11 DEF View!HubUnregisters
<1>12. ASSUME NEW s \in Pair, View!ClearSession(s) PROVE ViewingEntered'
  BY <1>12 DEF View!ClearSession
<1>13. ASSUME NEW s \in Pair, View!SMembers(s) PROVE ViewingEntered'
  BY <1>13 DEF View!SMembers
<1>14. ASSUME NEW s \in Pair, View!ClearSessionRedis(s) PROVE ViewingEntered'
  BY <1>14 DEF View!ClearSessionRedis
<1>15. ASSUME NEW s \in Pair, View!ClearAll(s) PROVE ViewingEntered'
  BY <1>15 DEF View!ClearAll
<1>16. ASSUME NEW s \in Pair, View!Expire(s) PROVE ViewingEntered'
  BY <1>16 DEF View!Expire
<1>17. CASE UNCHANGED viewingVars
  BY <1>17 DEF viewingVars
<1>18. QED
  BY <1>1, <1>2, <1>3, <1>4, <1>5, <1>6, <1>7, <1>8, <1>9, <1>10, <1>11, <1>12, <1>13, <1>14,
     <1>15, <1>16, <1>17 DEF View!Next

(* A registered reader sets what its client has open.                      *)
LEMMA ViewingSettingPreserved ==
  View!TypeOK /\ ViewingOpen /\ ViewingSetting /\ [View!Next]_viewingVars => ViewingSetting'
<1> SUFFICES ASSUME View!TypeOK /\ ViewingOpen /\ ViewingSetting, [View!Next]_viewingVars
             PROVE ViewingSetting'
  OBVIOUS
<1> USE DEF View!TypeOK, View!setLocal, View!clearLocal, View!setViewingRedis,
         View!setViewingInPart, View!clearViewingRedis, View!clearInPart, View!heartbeatRedis,
         View!Step, View!LeftBehind, View!Registered, View!Unregister, View!Close, View!redis,
         View!control, ViewingOpen, ViewingSetting
<1>1. ASSUME View!Crash PROVE ViewingSetting'
  BY <1>1 DEF View!Crash
<1>2. ASSUME NEW s \in Pair, View!Connect(s) PROVE ViewingSetting'
  BY <1>2 DEF View!Connect
<1>3. ASSUME NEW s \in Pair, View!onViewing(s) PROVE ViewingSetting'
  BY <1>3 DEF View!onViewing
<1>4. ASSUME NEW s \in Pair, View!SetViewing(s) PROVE ViewingSetting'
  BY <1>4 DEF View!SetViewing
<1>5. ASSUME NEW s \in Pair, View!SetViewingRedis(s) PROVE ViewingSetting'
  BY <1>5 DEF View!SetViewingRedis
<1>6. ASSUME NEW s \in Pair, View!onLeft(s) PROVE ViewingSetting'
  BY <1>6 DEF View!onLeft
<1>7. ASSUME NEW s \in Pair, View!ClearViewingRedis(s) PROVE ViewingSetting'
  BY <1>7 DEF View!ClearViewingRedis
<1>8. ASSUME NEW s \in Pair, View!HeartbeatSession(s) PROVE ViewingSetting'
  BY <1>8 DEF View!HeartbeatSession
<1>9. ASSUME NEW s \in Pair, View!HeartbeatRedis(s) PROVE ViewingSetting'
  BY <1>9 DEF View!HeartbeatRedis
<1>10. ASSUME NEW s \in Pair, View!ReaderEnds(s) PROVE ViewingSetting'
  BY <1>10 DEF View!ReaderEnds
<1>11. ASSUME NEW s \in Pair, View!HubUnregisters(s) PROVE ViewingSetting'
  BY <1>11 DEF View!HubUnregisters
<1>12. ASSUME NEW s \in Pair, View!ClearSession(s) PROVE ViewingSetting'
  BY <1>12 DEF View!ClearSession
<1>13. ASSUME NEW s \in Pair, View!SMembers(s) PROVE ViewingSetting'
  BY <1>13 DEF View!SMembers
<1>14. ASSUME NEW s \in Pair, View!ClearSessionRedis(s) PROVE ViewingSetting'
  BY <1>14 DEF View!ClearSessionRedis
<1>15. ASSUME NEW s \in Pair, View!ClearAll(s) PROVE ViewingSetting'
  BY <1>15 DEF View!ClearAll
<1>16. ASSUME NEW s \in Pair, View!Expire(s) PROVE ViewingSetting'
  BY <1>16 DEF View!Expire
<1>17. CASE UNCHANGED viewingVars
  BY <1>17 DEF viewingVars
<1>18. QED
  BY <1>1, <1>2, <1>3, <1>4, <1>5, <1>6, <1>7, <1>8, <1>9, <1>10, <1>11, <1>12, <1>13, <1>14,
     <1>15, <1>16, <1>17 DEF View!Next

(* The map of the process is cleared in the end.                           *)
LEMMA ViewingLocalPreserved ==
  View!TypeOK /\ ViewingSetting /\ ViewingLocal /\ [View!Next]_viewingVars => ViewingLocal'
<1> SUFFICES ASSUME View!TypeOK /\ ViewingSetting /\ ViewingLocal, [View!Next]_viewingVars
             PROVE ViewingLocal'
  OBVIOUS
<1> USE DEF View!TypeOK, View!setLocal, View!clearLocal, View!setViewingRedis,
         View!setViewingInPart, View!clearViewingRedis, View!clearInPart, View!heartbeatRedis,
         View!Step, View!LeftBehind, View!Registered, View!Unregister, View!Close, View!redis,
         View!control, ViewingSetting, ViewingLocal
<1>1. ASSUME View!Crash PROVE ViewingLocal'
  BY <1>1 DEF View!Crash
<1>2. ASSUME NEW s \in Pair, View!Connect(s) PROVE ViewingLocal'
  BY <1>2 DEF View!Connect
<1>3. ASSUME NEW s \in Pair, View!onViewing(s) PROVE ViewingLocal'
  BY <1>3 DEF View!onViewing
<1>4. ASSUME NEW s \in Pair, View!SetViewing(s) PROVE ViewingLocal'
  BY <1>4 DEF View!SetViewing
<1>5. ASSUME NEW s \in Pair, View!SetViewingRedis(s) PROVE ViewingLocal'
  BY <1>5 DEF View!SetViewingRedis
<1>6. ASSUME NEW s \in Pair, View!onLeft(s) PROVE ViewingLocal'
  BY <1>6 DEF View!onLeft
<1>7. ASSUME NEW s \in Pair, View!ClearViewingRedis(s) PROVE ViewingLocal'
  BY <1>7 DEF View!ClearViewingRedis
<1>8. ASSUME NEW s \in Pair, View!HeartbeatSession(s) PROVE ViewingLocal'
  BY <1>8 DEF View!HeartbeatSession
<1>9. ASSUME NEW s \in Pair, View!HeartbeatRedis(s) PROVE ViewingLocal'
  BY <1>9 DEF View!HeartbeatRedis
<1>10. ASSUME NEW s \in Pair, View!ReaderEnds(s) PROVE ViewingLocal'
  BY <1>10 DEF View!ReaderEnds
<1>11. ASSUME NEW s \in Pair, View!HubUnregisters(s) PROVE ViewingLocal'
  BY <1>11 DEF View!HubUnregisters
<1>12. ASSUME NEW s \in Pair, View!ClearSession(s) PROVE ViewingLocal'
  BY <1>12 DEF View!ClearSession
<1>13. ASSUME NEW s \in Pair, View!SMembers(s) PROVE ViewingLocal'
  BY <1>13 DEF View!SMembers
<1>14. ASSUME NEW s \in Pair, View!ClearSessionRedis(s) PROVE ViewingLocal'
  BY <1>14 DEF View!ClearSessionRedis
<1>15. ASSUME NEW s \in Pair, View!ClearAll(s) PROVE ViewingLocal'
  BY <1>15 DEF View!ClearAll
<1>16. ASSUME NEW s \in Pair, View!Expire(s) PROVE ViewingLocal'
  BY <1>16 DEF View!Expire
<1>17. CASE UNCHANGED viewingVars
  BY <1>17 DEF viewingVars
<1>18. QED
  BY <1>1, <1>2, <1>3, <1>4, <1>5, <1>6, <1>7, <1>8, <1>9, <1>10, <1>11, <1>12, <1>13, <1>14,
     <1>15, <1>16, <1>17 DEF View!Next

(* The entries in Redis are cleared in the end, or left behind.            *)
LEMMA ViewingRedisPreserved ==
  ViewingIInv /\ [View!Next]_viewingVars => ViewingRedis'
<1> SUFFICES ASSUME ViewingIInv, [View!Next]_viewingVars PROVE ViewingRedis'
  OBVIOUS
<1> USE DEF View!TypeOK, View!setLocal, View!clearLocal, View!setViewingRedis,
         View!setViewingInPart, View!clearViewingRedis, View!clearInPart, View!heartbeatRedis,
         View!Step, View!LeftBehind, View!Registered, View!Unregister, View!Close, View!redis,
         View!control, ViewingIInv, ViewingOpen, ViewingSetting, ViewingRedis
<1>1. ASSUME View!Crash PROVE ViewingRedis'
  BY <1>1 DEF View!Crash
<1>2. ASSUME NEW s \in Pair, View!Connect(s) PROVE ViewingRedis'
  BY <1>2 DEF View!Connect
<1>3. ASSUME NEW s \in Pair, View!onViewing(s) PROVE ViewingRedis'
  BY <1>3 DEF View!onViewing
<1>4. ASSUME NEW s \in Pair, View!SetViewing(s) PROVE ViewingRedis'
  BY <1>4 DEF View!SetViewing
<1>5. ASSUME NEW s \in Pair, View!SetViewingRedis(s) PROVE ViewingRedis'
  BY <1>5 DEF View!SetViewingRedis
<1>6. ASSUME NEW s \in Pair, View!onLeft(s) PROVE ViewingRedis'
  BY <1>6 DEF View!onLeft
<1>7. ASSUME NEW s \in Pair, View!ClearViewingRedis(s) PROVE ViewingRedis'
  BY <1>7 DEF View!ClearViewingRedis
<1>8. ASSUME NEW s \in Pair, View!HeartbeatSession(s) PROVE ViewingRedis'
  BY <1>8 DEF View!HeartbeatSession
<1>9. ASSUME NEW s \in Pair, View!HeartbeatRedis(s) PROVE ViewingRedis'
  BY <1>9 DEF View!HeartbeatRedis
<1>10. ASSUME NEW s \in Pair, View!ReaderEnds(s) PROVE ViewingRedis'
  BY <1>10 DEF View!ReaderEnds
<1>11. ASSUME NEW s \in Pair, View!HubUnregisters(s) PROVE ViewingRedis'
  BY <1>11 DEF View!HubUnregisters
<1>12. ASSUME NEW s \in Pair, View!ClearSession(s) PROVE ViewingRedis'
  BY <1>12 DEF View!ClearSession
<1>13. ASSUME NEW s \in Pair, View!SMembers(s) PROVE ViewingRedis'
  BY <1>13 DEF View!SMembers
<1>14. ASSUME NEW s \in Pair, View!ClearSessionRedis(s) PROVE ViewingRedis'
  BY <1>14 DEF View!ClearSessionRedis
<1>15. ASSUME NEW s \in Pair, View!ClearAll(s) PROVE ViewingRedis'
  BY <1>15 DEF View!ClearAll
<1>16. ASSUME NEW s \in Pair, View!Expire(s) PROVE ViewingRedis'
  BY <1>16 DEF View!Expire
<1>17. CASE UNCHANGED viewingVars
  BY <1>17 DEF viewingVars
<1>18. QED
  BY <1>1, <1>2, <1>3, <1>4, <1>5, <1>6, <1>7, <1>8, <1>9, <1>10, <1>11, <1>12, <1>13, <1>14,
     <1>15, <1>16, <1>17 DEF View!Next

(* ViewingIInv is inductive.                                               *)
LEMMA ViewingInvariance == View!Spec => []ViewingIInv
<1>1. View!Init => ViewingIInv
  BY DEF View!Init, View!TypeOK, ViewingIInv, ViewingOpen, ViewingEntered, ViewingSetting,
         ViewingLocal, ViewingRedis
<1>2. UNCHANGED View!vars => UNCHANGED viewingVars
  BY DEF View!vars, View!redis, View!control, viewingVars
<1>3. ViewingIInv /\ [View!Next]_(View!vars) => ViewingIInv'
  BY <1>2, ViewingTypes, ViewingOpenPreserved, ViewingEnteredPreserved, ViewingSettingPreserved,
     ViewingLocalPreserved, ViewingRedisPreserved DEF ViewingIInv
<1>4. QED
  BY <1>1, <1>3, PTL DEF View!Spec

(* A conversation that is open is seen open by every process and no other  *)
(* is, races and failed commands aside (ViewingTracks), for every number   *)
(* of sessions.                              room_manager.go:62, hub.go:242 *)
THEOREM ViewingTrue == View!Spec => []ViewingTracks
<1>1. ASSUME ViewingIInv PROVE ViewingTracks
  BY <1>1
     DEF ViewingIInv, View!TypeOK, ViewingOpen, ViewingEntered, ViewingLocal, ViewingRedis,
         ViewingTracks, View!ViewingTracks, View!Settled, View!isViewingRedis
<1>2. QED
  BY <1>1, ViewingInvariance, PTL

-----------------------------------------------------------------------------
(* Presence.                                                               *)

(* The key lives as long as its entries, and no entry longer than presence *)
(* outlives the last session.                                              *)
PresenceLives ==
    /\ \A s \in zset : life[s] <= keyLife /\ life[s] + alone <= Online!presenceTTL
    /\ (\E s \in Pair : Online!Serving(s)) => alone = 0

(* A session is closed by the hub only once it was announced, and keeps    *)
(* its announcement while its registration goes on.                        *)
PresenceSteps ==
    \A s \in Pair :
        /\ serve[s] \in {"none", "register", "rollback"} => close[s] = "no"
        /\ serve[s] \notin {"read", "done"} => idle[s] = 0
        /\ s \in became => serve[s] \in {"register", "rollback", "announce"}
        /\ serve[s] = "announce" => s \in became

(* The entry of an open session outlives the pong that is due, also when   *)
(* the last one did not reach Redis.                                       *)
PresenceKept ==
    \A s \in Pair :
        serve[s] \in {"register", "rollback", "announce", "read"} /\ close[s] = "no" =>
            /\ missed[s] = 0 => s \in zset /\ life[s] + idle[s] >= Online!presenceTTL
            /\ missed[s] = 1 =>
                   s \in zset /\ life[s] + idle[s] >= Online!presenceTTL - Online!pongWait

(* Without an excuse at most one transition is being announced, and it is  *)
(* the last one that took place.                                           *)
PresenceOrdered ==
    /\ \A s, t \in Pair : Online!Announcing(s) /\ Online!Announcing(t) => s = t
    /\ \A s \in became : close[s] # "announce" /\ Online!IsOnline
    /\ \A s \in Pair : close[s] = "announce" => ~Online!IsOnline
    /\ Online!Quiet => (announced <=> Online!IsOnline)

PresenceTold == ~excused => PresenceOrdered

PresenceIInv ==
    /\ Online!TypeOK
    /\ PresenceLives /\ PresenceSteps /\ PresenceKept /\ PresenceTold

(* Presence keeps its types.                                               *)
LEMMA PresenceTypes ==
  Online!TypeOK /\ [Online!Next]_presenceVars => Online!TypeOK'
<1> SUFFICES ASSUME Online!TypeOK, [Online!Next]_presenceVars PROVE Online!TypeOK'
  OBVIOUS
<1> USE DEF Online!TypeOK, Online!redis, Online!Active, Online!IsOnline, Online!AddSession,
         Online!RemoveSession, Online!LastLeft, Online!Transition, Online!publishPresence,
         Online!StartUnregister, Online!Less, Online!presenceTTL, Online!pongWait,
         Online!ServeSteps, Online!CloseSteps, Online!Serving
<1>1. ASSUME Online!Tick PROVE Online!TypeOK'
  BY <1>1 DEF Online!Tick
<1>2. ASSUME NEW s \in Pair, Online!SetSessionOnline(s) PROVE Online!TypeOK'
  <2>1. excused' \in BOOLEAN
    BY <1>2, Zenon DEF Online!SetSessionOnline, Online!TypeOK, Online!AddSession,
       Online!RemoveSession, Online!LastLeft, Online!Transition, Online!publishPresence,
       Online!StartUnregister, Online!redis
  <2>2. /\ zset' \in SUBSET Pair /\ became' \in SUBSET Pair
        /\ life' \in [Pair -> 0 .. Online!presenceTTL] /\ keyLife' \in 0 .. Online!presenceTTL
        /\ serve' \in [Pair -> Online!ServeSteps] /\ close' \in [Pair -> Online!CloseSteps]
        /\ idle' \in [Pair -> 0 .. Online!pongWait] /\ missed' \in [Pair -> 0 .. 2]
        /\ announced' \in BOOLEAN /\ alone' \in 0 .. Online!presenceTTL
    BY <1>2 DEF Online!SetSessionOnline
  <2>3. QED
    BY <2>1, <2>2
<1>3. ASSUME NEW s \in Pair, Online!Register(s) PROVE Online!TypeOK'
  BY <1>3 DEF Online!Register
<1>4. ASSUME NEW s \in Pair, Online!Rollback(s) PROVE Online!TypeOK'
  <2>1. excused' \in BOOLEAN
    BY <1>4, Zenon DEF Online!Rollback, Online!TypeOK, Online!AddSession,
       Online!RemoveSession, Online!LastLeft, Online!Transition, Online!publishPresence,
       Online!StartUnregister, Online!redis
  <2>2. /\ zset' \in SUBSET Pair /\ became' \in SUBSET Pair
        /\ life' \in [Pair -> 0 .. Online!presenceTTL] /\ keyLife' \in 0 .. Online!presenceTTL
        /\ serve' \in [Pair -> Online!ServeSteps] /\ close' \in [Pair -> Online!CloseSteps]
        /\ idle' \in [Pair -> 0 .. Online!pongWait] /\ missed' \in [Pair -> 0 .. 2]
        /\ announced' \in BOOLEAN /\ alone' \in 0 .. Online!presenceTTL
    BY <1>4 DEF Online!Rollback
  <2>3. QED
    BY <2>1, <2>2
<1>5. ASSUME NEW s \in Pair, Online!AnnounceOnline(s) PROVE Online!TypeOK'
  BY <1>5 DEF Online!AnnounceOnline
<1>6. ASSUME NEW s \in Pair, Online!HeartbeatSession(s) PROVE Online!TypeOK'
  BY <1>6 DEF Online!HeartbeatSession
<1>7. ASSUME NEW s \in Pair, Online!ReaderEnds(s) PROVE Online!TypeOK'
  BY <1>7 DEF Online!ReaderEnds
<1>8. ASSUME NEW s \in Pair, Online!HubUnregisters(s) PROVE Online!TypeOK'
  BY <1>8 DEF Online!HubUnregisters
<1>9. ASSUME NEW s \in Pair, Online!SetSessionOffline(s) PROVE Online!TypeOK'
  <2>1. excused' \in BOOLEAN
    BY <1>9, Zenon DEF Online!SetSessionOffline, Online!TypeOK, Online!AddSession,
       Online!RemoveSession, Online!LastLeft, Online!Transition, Online!publishPresence,
       Online!StartUnregister, Online!redis
  <2>2. /\ zset' \in SUBSET Pair /\ became' \in SUBSET Pair
        /\ life' \in [Pair -> 0 .. Online!presenceTTL] /\ keyLife' \in 0 .. Online!presenceTTL
        /\ serve' \in [Pair -> Online!ServeSteps] /\ close' \in [Pair -> Online!CloseSteps]
        /\ idle' \in [Pair -> 0 .. Online!pongWait] /\ missed' \in [Pair -> 0 .. 2]
        /\ announced' \in BOOLEAN /\ alone' \in 0 .. Online!presenceTTL
    BY <1>9 DEF Online!SetSessionOffline
  <2>3. QED
    BY <2>1, <2>2
<1>10. ASSUME NEW s \in Pair, Online!AnnounceOffline(s) PROVE Online!TypeOK'
  BY <1>10 DEF Online!AnnounceOffline
<1>11. ASSUME NEW s \in Pair, Online!Crash(s) PROVE Online!TypeOK'
  BY <1>11 DEF Online!Crash
<1>12. ASSUME NEW s \in Pair, Online!Reconnect(s) PROVE Online!TypeOK'
  BY <1>12 DEF Online!Reconnect
<1>13. CASE UNCHANGED presenceVars
  BY <1>13 DEF presenceVars
<1>14. QED
  BY <1>1, <1>2, <1>3, <1>4, <1>5, <1>6, <1>7, <1>8, <1>9, <1>10, <1>11, <1>12, <1>13 DEF
     Online!Next

(* Entries fade while nobody serves the user.                              *)
LEMMA PresenceLivesPreserved ==
  Online!TypeOK /\ PresenceLives /\ [Online!Next]_presenceVars => PresenceLives'
<1> SUFFICES ASSUME Online!TypeOK /\ PresenceLives, [Online!Next]_presenceVars
             PROVE PresenceLives'
  OBVIOUS
<1> USE DEF Online!TypeOK, Online!redis, Online!Active, Online!IsOnline, Online!AddSession,
         Online!RemoveSession, Online!LastLeft, Online!Transition, Online!publishPresence,
         Online!StartUnregister, Online!Less, Online!presenceTTL, Online!pongWait,
         Online!ServeSteps, Online!CloseSteps, Online!Serving, PresenceLives
<1>1. ASSUME Online!Tick PROVE PresenceLives'
  BY <1>1 DEF Online!Tick
<1>2. ASSUME NEW s \in Pair, Online!SetSessionOnline(s) PROVE PresenceLives'
  BY <1>2 DEF Online!SetSessionOnline
<1>3. ASSUME NEW s \in Pair, Online!Register(s) PROVE PresenceLives'
  BY <1>3 DEF Online!Register
<1>4. ASSUME NEW s \in Pair, Online!Rollback(s) PROVE PresenceLives'
  BY <1>4 DEF Online!Rollback
<1>5. ASSUME NEW s \in Pair, Online!AnnounceOnline(s) PROVE PresenceLives'
  BY <1>5 DEF Online!AnnounceOnline
<1>6. ASSUME NEW s \in Pair, Online!HeartbeatSession(s) PROVE PresenceLives'
  BY <1>6 DEF Online!HeartbeatSession
<1>7. ASSUME NEW s \in Pair, Online!ReaderEnds(s) PROVE PresenceLives'
  BY <1>7 DEF Online!ReaderEnds
<1>8. ASSUME NEW s \in Pair, Online!HubUnregisters(s) PROVE PresenceLives'
  BY <1>8 DEF Online!HubUnregisters
<1>9. ASSUME NEW s \in Pair, Online!SetSessionOffline(s) PROVE PresenceLives'
  BY <1>9 DEF Online!SetSessionOffline
<1>10. ASSUME NEW s \in Pair, Online!AnnounceOffline(s) PROVE PresenceLives'
  BY <1>10 DEF Online!AnnounceOffline
<1>11. ASSUME NEW s \in Pair, Online!Crash(s) PROVE PresenceLives'
  BY <1>11 DEF Online!Crash
<1>12. ASSUME NEW s \in Pair, Online!Reconnect(s) PROVE PresenceLives'
  BY <1>12 DEF Online!Reconnect
<1>13. CASE UNCHANGED presenceVars
  BY <1>13 DEF presenceVars
<1>14. QED
  BY <1>1, <1>2, <1>3, <1>4, <1>5, <1>6, <1>7, <1>8, <1>9, <1>10, <1>11, <1>12, <1>13 DEF
     Online!Next

(* A session goes through its steps.                                       *)
LEMMA PresenceStepsPreserved ==
  Online!TypeOK /\ PresenceSteps /\ [Online!Next]_presenceVars => PresenceSteps'
<1> SUFFICES ASSUME Online!TypeOK /\ PresenceSteps, [Online!Next]_presenceVars
             PROVE PresenceSteps'
  OBVIOUS
<1> USE DEF Online!TypeOK, Online!redis, Online!Active, Online!IsOnline, Online!AddSession,
         Online!RemoveSession, Online!LastLeft, Online!Transition, Online!publishPresence,
         Online!StartUnregister, Online!Less, Online!presenceTTL, Online!pongWait,
         Online!ServeSteps, Online!CloseSteps, Online!Serving, PresenceSteps
<1>1. ASSUME Online!Tick PROVE PresenceSteps'
  BY <1>1 DEF Online!Tick
<1>2. ASSUME NEW s \in Pair, Online!SetSessionOnline(s) PROVE PresenceSteps'
  BY <1>2 DEF Online!SetSessionOnline
<1>3. ASSUME NEW s \in Pair, Online!Register(s) PROVE PresenceSteps'
  BY <1>3 DEF Online!Register
<1>4. ASSUME NEW s \in Pair, Online!Rollback(s) PROVE PresenceSteps'
  BY <1>4 DEF Online!Rollback
<1>5. ASSUME NEW s \in Pair, Online!AnnounceOnline(s) PROVE PresenceSteps'
  BY <1>5 DEF Online!AnnounceOnline
<1>6. ASSUME NEW s \in Pair, Online!HeartbeatSession(s) PROVE PresenceSteps'
  BY <1>6 DEF Online!HeartbeatSession
<1>7. ASSUME NEW s \in Pair, Online!ReaderEnds(s) PROVE PresenceSteps'
  BY <1>7 DEF Online!ReaderEnds
<1>8. ASSUME NEW s \in Pair, Online!HubUnregisters(s) PROVE PresenceSteps'
  BY <1>8 DEF Online!HubUnregisters
<1>9. ASSUME NEW s \in Pair, Online!SetSessionOffline(s) PROVE PresenceSteps'
  BY <1>9 DEF Online!SetSessionOffline
<1>10. ASSUME NEW s \in Pair, Online!AnnounceOffline(s) PROVE PresenceSteps'
  BY <1>10 DEF Online!AnnounceOffline
<1>11. ASSUME NEW s \in Pair, Online!Crash(s) PROVE PresenceSteps'
  BY <1>11 DEF Online!Crash
<1>12. ASSUME NEW s \in Pair, Online!Reconnect(s) PROVE PresenceSteps'
  BY <1>12 DEF Online!Reconnect
<1>13. CASE UNCHANGED presenceVars
  BY <1>13 DEF presenceVars
<1>14. QED
  BY <1>1, <1>2, <1>3, <1>4, <1>5, <1>6, <1>7, <1>8, <1>9, <1>10, <1>11, <1>12, <1>13 DEF
     Online!Next

(* Only its own end or its expiry removes an open session.                 *)
LEMMA PresenceKeptPreserved ==
  Online!TypeOK /\ PresenceLives /\ PresenceSteps /\ PresenceKept /\ [Online!Next]_presenceVars =>
      PresenceKept'
<1> SUFFICES ASSUME Online!TypeOK /\ PresenceLives /\ PresenceSteps /\ PresenceKept,
                    [Online!Next]_presenceVars
             PROVE PresenceKept'
  OBVIOUS
<1> USE DEF Online!TypeOK, Online!redis, Online!Active, Online!IsOnline, Online!AddSession,
         Online!RemoveSession, Online!LastLeft, Online!Transition, Online!publishPresence,
         Online!StartUnregister, Online!Less, Online!presenceTTL, Online!pongWait,
         Online!ServeSteps, Online!CloseSteps, Online!Serving, PresenceLives, PresenceSteps,
         PresenceKept
<1>1. ASSUME Online!Tick PROVE PresenceKept'
  BY <1>1 DEF Online!Tick
<1>2. ASSUME NEW s \in Pair, Online!SetSessionOnline(s) PROVE PresenceKept'
  BY <1>2 DEF Online!SetSessionOnline
<1>3. ASSUME NEW s \in Pair, Online!Register(s) PROVE PresenceKept'
  BY <1>3 DEF Online!Register
<1>4. ASSUME NEW s \in Pair, Online!Rollback(s) PROVE PresenceKept'
  BY <1>4 DEF Online!Rollback
<1>5. ASSUME NEW s \in Pair, Online!AnnounceOnline(s) PROVE PresenceKept'
  BY <1>5 DEF Online!AnnounceOnline
<1>6. ASSUME NEW s \in Pair, Online!HeartbeatSession(s) PROVE PresenceKept'
  BY <1>6 DEF Online!HeartbeatSession
<1>7. ASSUME NEW s \in Pair, Online!ReaderEnds(s) PROVE PresenceKept'
  BY <1>7 DEF Online!ReaderEnds
<1>8. ASSUME NEW s \in Pair, Online!HubUnregisters(s) PROVE PresenceKept'
  BY <1>8 DEF Online!HubUnregisters
<1>9. ASSUME NEW s \in Pair, Online!SetSessionOffline(s) PROVE PresenceKept'
  BY <1>9 DEF Online!SetSessionOffline
<1>10. ASSUME NEW s \in Pair, Online!AnnounceOffline(s) PROVE PresenceKept'
  BY <1>10 DEF Online!AnnounceOffline
<1>11. ASSUME NEW s \in Pair, Online!Crash(s) PROVE PresenceKept'
  BY <1>11 DEF Online!Crash
<1>12. ASSUME NEW s \in Pair, Online!Reconnect(s) PROVE PresenceKept'
  BY <1>12 DEF Online!Reconnect
<1>13. CASE UNCHANGED presenceVars
  BY <1>13 DEF presenceVars
<1>14. QED
  BY <1>1, <1>2, <1>3, <1>4, <1>5, <1>6, <1>7, <1>8, <1>9, <1>10, <1>11, <1>12, <1>13 DEF
     Online!Next

(* Whoever is added is online.                                             *)
LEMMA PresenceAdding ==
  ASSUME Online!TypeOK, NEW s \in Pair, Online!AddSession(s)
  PROVE  Online!IsOnline'
BY DEF Online!TypeOK, Online!AddSession, Online!IsOnline, Online!Active, Online!presenceTTL

(* Removing a session ends presence exactly if it was the last one.        *)
LEMMA PresenceRemoving ==
  ASSUME Online!TypeOK, NEW s \in Pair, Online!RemoveSession(s)
  PROVE  /\ Online!LastLeft(s) => ~Online!IsOnline'
         /\ ~Online!LastLeft(s) => (Online!IsOnline' <=> Online!IsOnline)
<1>1. Online!Active' = Online!Active \ {s}
  BY DEF Online!TypeOK, Online!RemoveSession, Online!Active, Online!presenceTTL
<1>2. QED
  BY <1>1 DEF Online!LastLeft, Online!IsOnline

(* The last event is about the last transition.                            *)
LEMMA PresenceToldPreserved ==
  Online!TypeOK /\ PresenceLives /\ PresenceSteps /\ PresenceTold /\ [Online!Next]_presenceVars =>
      PresenceTold'
<1> SUFFICES ASSUME Online!TypeOK /\ PresenceLives /\ PresenceSteps /\ PresenceTold,
                    [Online!Next]_presenceVars
             PROVE PresenceTold'
  OBVIOUS
<1>1. ASSUME Online!Tick PROVE PresenceTold'
  <2>1. ASSUME ~excused' PROVE ~excused /\ \A s \in zset : life[s] # 1
    BY <1>1, <2>1, Zenon DEF Online!Tick
  <2>2. ASSUME ~excused' PROVE Online!Active' = Online!Active
    BY <1>1, <2>1, <2>2
       DEF Online!Tick, Online!Less, Online!Active, Online!TypeOK, Online!presenceTTL,
           PresenceLives
  <2>3. serve' = serve /\ close' = close /\ became' = became /\ announced' = announced
    BY <1>1 DEF Online!Tick
  <2>4. QED
    BY <2>1, <2>2, <2>3
       DEF PresenceTold, PresenceOrdered, Online!Announcing, Online!Quiet, Online!IsOnline
<1>2. ASSUME NEW s \in Pair, Online!SetSessionOnline(s) PROVE PresenceTold'
  <2>1. /\ serve[s] = "none" /\ close[s] = "no" /\ s \notin became
        /\ serve' = [serve EXCEPT ![s] = "register"]
        /\ close' = close /\ announced' = announced
    BY <1>2 DEF Online!SetSessionOnline, PresenceSteps
  <2>2. /\ \A t \in Pair : t # s => serve'[t] = serve[t]
        /\ serve'[s] = "register"
    BY <2>1 DEF Online!TypeOK
  <2>3. CASE excused' = TRUE
    BY <2>3 DEF PresenceTold
  <2>4. CASE Online!IsOnline /\ Online!IsOnline' /\ became' = became /\ excused' = excused
    BY <2>1, <2>2, <2>4
       DEF PresenceTold, PresenceOrdered, Online!Announcing, Online!Quiet, PresenceSteps
  <2>5. ASSUME ~Online!IsOnline, Online!IsOnline', became' = became \cup {s},
               excused' = ~Online!Quiet
        PROVE  PresenceTold'
    <3> SUFFICES ASSUME Online!Quiet PROVE PresenceOrdered'
      BY <2>5, Zenon DEF PresenceTold
    <3>1. /\ \A t \in Pair : t \notin became /\ close[t] # "announce"
          /\ Online!IsOnline'
      BY <2>5 DEF Online!Quiet, Online!Announcing, PresenceSteps
    <3>2. became' = {s}
      BY <2>5, <3>1 DEF Online!TypeOK
    <3>3. \A t \in Pair : Online!Announcing(t)' <=> t = s
      BY <2>1, <2>2, <3>1, <3>2 DEF Online!Announcing
    <3>4. QED
      BY <2>1, <3>1, <3>2, <3>3 DEF PresenceOrdered, Online!Quiet
  <2>6. \/ excused' = TRUE
        \/ /\ Online!AddSession(s)
           /\ became' = IF Online!IsOnline THEN became ELSE became \cup {s}
           /\ Online!Transition(~Online!IsOnline)
    BY <1>2 DEF Online!SetSessionOnline
  <2>7. ASSUME Online!AddSession(s), Online!Transition(~Online!IsOnline),
               became' = IF Online!IsOnline THEN became ELSE became \cup {s}
        PROVE  \/ Online!IsOnline /\ Online!IsOnline' /\ became' = became /\ excused' = excused
               \/ /\ ~Online!IsOnline /\ Online!IsOnline' /\ became' = became \cup {s}
                  /\ excused' = ~Online!Quiet
    <3>1. Online!IsOnline'
      BY <2>7, PresenceAdding
    <3>2. QED
      BY <2>7, <3>1, Zenon DEF Online!Transition
  <2>8. QED
    BY <2>3, <2>4, <2>5, <2>6, <2>7
<1>3. ASSUME NEW s \in Pair, Online!Register(s) PROVE PresenceTold'
  <2>1. QED
    BY <1>3 DEF Online!Register, PresenceTold, PresenceOrdered, Online!Announcing, Online!Quiet,
       Online!IsOnline, Online!Active, Online!redis, PresenceSteps, Online!TypeOK
<1>4. ASSUME NEW s \in Pair, Online!Rollback(s) PROVE PresenceTold'
  <2>1. /\ serve[s] = "rollback" /\ close[s] = "no" /\ announced' = announced
        /\ became' = became \ {s}
        /\ serve' = [serve EXCEPT ![s] = "done"] /\ close' = [close EXCEPT ![s] = "closed"]
    BY <1>4 DEF Online!Rollback, PresenceSteps
  <2>2. CASE excused' = TRUE
    BY <2>2 DEF PresenceTold
  <2>3. ASSUME Online!RemoveSession(s), excused' = (excused \/ s \in became \/ Online!LastLeft(s)),
               ~excused'
        PROVE  PresenceOrdered'
    <3>1. ~excused /\ s \notin became /\ ~Online!LastLeft(s)
      BY <2>3, Zenon
    <3>2. Online!IsOnline' <=> Online!IsOnline
      BY <2>3, <3>1, PresenceRemoving
    <3>3. \A t \in Pair : /\ Online!Announcing(t)' <=> Online!Announcing(t)
                          /\ close'[t] = "announce" <=> close[t] = "announce"
      BY <2>1, <3>1 DEF Online!Announcing, Online!TypeOK, PresenceSteps
    <3>4. became' = became
      BY <2>1, <3>1
    <3>5. Online!Quiet' <=> Online!Quiet
      BY <3>3 DEF Online!Quiet
    <3>6. QED
      BY <2>1, <3>1, <3>2, <3>3, <3>4, <3>5 DEF PresenceTold, PresenceOrdered, Online!TypeOK
  <2>4. \/ excused' = TRUE
        \/ Online!RemoveSession(s) /\ excused' = (excused \/ s \in became \/ Online!LastLeft(s))
    BY <1>4 DEF Online!Rollback
  <2>5. QED
    BY <2>2, <2>3, <2>4 DEF PresenceTold
<1>5. ASSUME NEW s \in Pair, Online!AnnounceOnline(s) PROVE PresenceTold'
  <2>1. /\ serve[s] = "announce" /\ became' = became \ {s} /\ close' = close
        /\ serve' = [serve EXCEPT ![s] = "read"] /\ UNCHANGED Online!redis
        /\ Online!publishPresence(TRUE)
    BY <1>5 DEF Online!AnnounceOnline
  <2>2. Online!IsOnline' <=> Online!IsOnline
    BY <2>1 DEF Online!redis, Online!IsOnline, Online!Active
  <2>3. ASSUME announced' = TRUE, excused' = excused, ~excused, s \in became
        PROVE  PresenceOrdered'
    <3>1. /\ Online!IsOnline
          /\ \A t \in Pair : close[t] # "announce" /\ (t \in became => t = s)
      BY <2>1, <2>3 DEF PresenceTold, PresenceOrdered, Online!Announcing, PresenceSteps
    <3>2. became' = {}
      BY <2>1, <3>1 DEF Online!TypeOK
    <3>3. \A t \in Pair : ~Online!Announcing(t)'
      BY <2>1, <3>1, <3>2 DEF Online!Announcing
    <3>4. QED
      BY <2>1, <2>2, <2>3, <3>1, <3>2, <3>3 DEF PresenceOrdered
  <2>4. s \in became
    BY <2>1 DEF PresenceSteps
  <2>5. \/ announced' = TRUE /\ excused' = excused
        \/ excused' = TRUE
    BY <2>1 DEF Online!publishPresence
  <2>6. QED
    BY <2>3, <2>4, <2>5 DEF PresenceTold
<1>6. ASSUME NEW s \in Pair, Online!HeartbeatSession(s) PROVE PresenceTold'
  <2>1. /\ UNCHANGED <<serve, close, became, announced>>
        /\ Online!AddSession(s) \/ UNCHANGED Online!redis
        /\ excused' = (excused \/ ~Online!IsOnline \/ close[s] \in {"announce", "closed"})
    BY <1>6 DEF Online!HeartbeatSession
  <2>2. ASSUME ~excused' PROVE ~excused /\ Online!IsOnline
    BY <2>1, <2>2, Zenon
  <2>3. ASSUME Online!IsOnline PROVE Online!IsOnline'
    BY <2>1, <2>3, PresenceAdding DEF Online!redis, Online!IsOnline, Online!Active
  <2>4. QED
    BY <2>1, <2>2, <2>3
       DEF PresenceTold, PresenceOrdered, Online!Announcing, Online!Quiet
<1>7. ASSUME NEW s \in Pair, Online!ReaderEnds(s) PROVE PresenceTold'
  BY <1>7 DEF Online!ReaderEnds, Online!redis, Online!Active, Online!IsOnline,
     Online!AddSession, Online!RemoveSession, Online!LastLeft, Online!Transition,
     Online!publishPresence, Online!StartUnregister, Online!Less, Online!presenceTTL,
     Online!pongWait, Online!ServeSteps, Online!CloseSteps, Online!Serving, Online!TypeOK,
     Online!Announcing, Online!Quiet, PresenceLives, PresenceSteps, PresenceOrdered,
     PresenceTold
<1>8. ASSUME NEW s \in Pair, Online!HubUnregisters(s) PROVE PresenceTold'
  BY <1>8 DEF Online!HubUnregisters, Online!redis, Online!Active, Online!IsOnline,
     Online!AddSession, Online!RemoveSession, Online!LastLeft, Online!Transition,
     Online!publishPresence, Online!StartUnregister, Online!Less, Online!presenceTTL,
     Online!pongWait, Online!ServeSteps, Online!CloseSteps, Online!Serving, Online!TypeOK,
     Online!Announcing, Online!Quiet, PresenceLives, PresenceSteps, PresenceOrdered,
     PresenceTold
<1>9. ASSUME NEW s \in Pair, Online!SetSessionOffline(s) PROVE PresenceTold'
  <2>1. /\ close[s] = "offline" /\ serve' = serve /\ became' = became /\ announced' = announced
    BY <1>9 DEF Online!SetSessionOffline
  <2>2. CASE excused' = TRUE
    BY <2>2 DEF PresenceTold
  <2>3. ASSUME ~Online!LastLeft(s), Online!RemoveSession(s), excused' = excused, ~excused,
               close' = [close EXCEPT ![s] = "closed"]
        PROVE  PresenceOrdered'
    <3>1. Online!IsOnline' <=> Online!IsOnline
      BY <2>3, PresenceRemoving
    <3>2. \A t \in Pair : close'[t] = "announce" <=> close[t] = "announce"
      BY <2>1, <2>3 DEF Online!TypeOK
    <3>3. \A t \in Pair : Online!Announcing(t)' <=> Online!Announcing(t)
      BY <2>1, <3>2 DEF Online!Announcing
    <3>4. QED
      BY <2>1, <2>3, <3>1, <3>2, <3>3
         DEF PresenceTold, PresenceOrdered, Online!Quiet, Online!TypeOK
  <2>4. ASSUME Online!LastLeft(s), Online!RemoveSession(s), Online!Quiet,
               close' = [close EXCEPT ![s] = "announce"]
        PROVE  PresenceOrdered'
    <3>1. ~Online!IsOnline'
      BY <2>4, PresenceRemoving
    <3>2. \A t \in Pair : t \notin became /\ close[t] # "announce"
      BY <2>4 DEF Online!Quiet, Online!Announcing, PresenceSteps
    <3>3. became' = {} /\ close'[s] = "announce"
      BY <2>1, <2>4, <3>2 DEF Online!TypeOK
    <3>4. \A t \in Pair : Online!Announcing(t)' <=> t = s
      BY <2>1, <2>4, <3>2, <3>3 DEF Online!Announcing, Online!TypeOK
    <3>5. QED
      BY <3>1, <3>3, <3>4 DEF PresenceOrdered, Online!Quiet
  <2>5. \/ excused' = TRUE
        \/ /\ Online!RemoveSession(s)
           /\ close' = [close EXCEPT ![s] = IF Online!LastLeft(s) THEN "announce" ELSE "closed"]
           /\ Online!Transition(Online!LastLeft(s))
    BY <1>9 DEF Online!SetSessionOffline
  <2>6. ASSUME ~excused', Online!RemoveSession(s),
               close' = [close EXCEPT ![s] = IF Online!LastLeft(s) THEN "announce" ELSE "closed"],
               Online!Transition(Online!LastLeft(s))
        PROVE  PresenceOrdered'
    <3>1. ASSUME Online!LastLeft(s) PROVE Online!Quiet
      BY <2>6, <3>1, Zenon DEF Online!Transition
    <3>2. ASSUME ~Online!LastLeft(s) PROVE excused' = excused
      BY <2>6, <3>2, Zenon DEF Online!Transition
    <3>3. CASE Online!LastLeft(s)
      BY <2>4, <2>6, <3>1, <3>3
    <3>4. CASE ~Online!LastLeft(s)
      BY <2>3, <2>6, <3>2, <3>4
    <3>5. QED
      BY <3>3, <3>4
  <2>7. QED
    BY <2>2, <2>5, <2>6 DEF PresenceTold
<1>10. ASSUME NEW s \in Pair, Online!AnnounceOffline(s) PROVE PresenceTold'
  BY <1>10 DEF Online!AnnounceOffline, Online!redis, Online!Active, Online!IsOnline,
     Online!AddSession, Online!RemoveSession, Online!LastLeft, Online!Transition,
     Online!publishPresence, Online!StartUnregister, Online!Less, Online!presenceTTL,
     Online!pongWait, Online!ServeSteps, Online!CloseSteps, Online!Serving, Online!TypeOK,
     Online!Announcing, Online!Quiet, PresenceLives, PresenceSteps, PresenceOrdered,
     PresenceTold
<1>11. ASSUME NEW s \in Pair, Online!Crash(s) PROVE PresenceTold'
  BY <1>11 DEF Online!Crash, Online!redis, Online!Active, Online!IsOnline, Online!AddSession,
     Online!RemoveSession, Online!LastLeft, Online!Transition, Online!publishPresence,
     Online!StartUnregister, Online!Less, Online!presenceTTL, Online!pongWait,
     Online!ServeSteps, Online!CloseSteps, Online!Serving, Online!TypeOK, Online!Announcing,
     Online!Quiet, PresenceLives, PresenceSteps, PresenceOrdered, PresenceTold
<1>12. ASSUME NEW s \in Pair, Online!Reconnect(s) PROVE PresenceTold'
  BY <1>12 DEF Online!Reconnect, Online!redis, Online!Active, Online!IsOnline,
     Online!AddSession, Online!RemoveSession, Online!LastLeft, Online!Transition,
     Online!publishPresence, Online!StartUnregister, Online!Less, Online!presenceTTL,
     Online!pongWait, Online!ServeSteps, Online!CloseSteps, Online!Serving, Online!TypeOK,
     Online!Announcing, Online!Quiet, PresenceLives, PresenceSteps, PresenceOrdered,
     PresenceTold
<1>13. CASE UNCHANGED presenceVars
  BY <1>13 DEF presenceVars, Online!redis, Online!Active, Online!IsOnline, Online!AddSession,
     Online!RemoveSession, Online!LastLeft, Online!Transition, Online!publishPresence,
     Online!StartUnregister, Online!Less, Online!presenceTTL, Online!pongWait,
     Online!ServeSteps, Online!CloseSteps, Online!Serving, Online!TypeOK, Online!Announcing,
     Online!Quiet, PresenceOrdered, PresenceTold
<1>14. QED
  BY <1>1, <1>2, <1>3, <1>4, <1>5, <1>6, <1>7, <1>8, <1>9, <1>10, <1>11, <1>12, <1>13 DEF
     Online!Next

(* PresenceIInv is inductive.                                              *)
LEMMA PresenceInvariance == Online!Spec => []PresenceIInv
<1>1. ASSUME Online!Init PROVE PresenceIInv
  <2>1. Online!TypeOK
    <3>1. announced \in BOOLEAN /\ excused \in BOOLEAN
      BY <1>1, Zenon DEF Online!Init
    <3>2. /\ zset \in SUBSET Pair /\ became \in SUBSET Pair
          /\ life \in [Pair -> 0 .. Online!presenceTTL] /\ keyLife \in 0 .. Online!presenceTTL
          /\ serve \in [Pair -> Online!ServeSteps] /\ close \in [Pair -> Online!CloseSteps]
          /\ idle \in [Pair -> 0 .. Online!pongWait] /\ missed \in [Pair -> 0 .. 2]
          /\ alone \in 0 .. Online!presenceTTL
      BY <1>1
         DEF Online!Init, Online!ServeSteps, Online!CloseSteps, Online!presenceTTL,
             Online!pongWait
    <3>3. QED
      BY <3>1, <3>2 DEF Online!TypeOK
  <2>2. PresenceLives /\ PresenceSteps /\ PresenceKept
    BY <1>1
       DEF Online!Init, Online!presenceTTL, Online!pongWait, Online!Serving,
           PresenceLives, PresenceSteps, PresenceKept
  <2>3. ~Online!IsOnline /\ ~announced /\ became = {} /\ \A s \in Pair : close[s] = "no"
    BY <1>1 DEF Online!Init, Online!IsOnline, Online!Active
  <2>4. QED
    BY <2>1, <2>2, <2>3
       DEF PresenceIInv, PresenceTold, PresenceOrdered, Online!Announcing
<1>2. UNCHANGED Online!vars => UNCHANGED presenceVars
  BY DEF Online!vars, Online!redis, presenceVars
<1>3. PresenceIInv /\ [Online!Next]_(Online!vars) => PresenceIInv'
  BY <1>2, PresenceTypes, PresenceLivesPreserved, PresenceStepsPreserved,
     PresenceKeptPreserved, PresenceToldPreserved DEF PresenceIInv
<1>4. QED
  BY <1>1, <1>3, PTL DEF Online!Spec

(* An open session is online although its last presence command may have   *)
(* failed, and a user without sessions is offline after presenceTTL        *)
(* (PresenceTracks), for every number of sessions.  presence.go:14         *)
THEOREM PresenceTrue == Online!Spec => []PresenceTracks
<1>1. ASSUME PresenceIInv PROVE PresenceTracks
  BY <1>1
     DEF PresenceIInv, Online!TypeOK, PresenceLives, PresenceSteps, PresenceKept,
         PresenceTracks, Online!PresenceTracks, Online!IsOnline, Online!Active,
         Online!presenceTTL, Online!pongWait, Online!ServeSteps
<1>2. QED
  BY <1>1, PresenceInvariance, PTL

(* With no event outstanding the last one published tells the truth, what  *)
(* excused records aside (AnnouncedIsTrue), for every number of sessions.  *)
(*                                            hub.go:252-263, handler.go:137 *)
THEOREM Announced == Online!Spec => []AnnouncedIsTrue
<1>1. PresenceIInv => AnnouncedIsTrue
  <2> SUFFICES ASSUME PresenceIInv, Online!Quiet, ~excused PROVE announced = Online!IsOnline
    BY Zenon DEF AnnouncedIsTrue, Online!AnnouncedIsTrue
  <2>1. announced <=> Online!IsOnline
    BY DEF PresenceIInv, PresenceTold, PresenceOrdered
  <2>2. announced \in BOOLEAN /\ Online!IsOnline \in BOOLEAN
    BY DEF PresenceIInv, Online!TypeOK, Online!IsOnline
  <2>3. QED
    BY <2>1, <2>2, Zenon
<1>2. QED
  BY <1>1, PresenceInvariance, PTL

-----------------------------------------------------------------------------
(* The seed tool.                                                          *)

(* A command that is not idle is alone until it is overtaken.              *)
SeedAlone ==
    /\ \A p \in Pair : cmd[p].step = "idle" => cmd[p] = Tool!Idle
    /\ ~overtaken => \A p, q \in Pair : cmd[p] # Tool!Idle /\ cmd[q] # Tool!Idle => p = q

(* No number is drawn above the key there is, and what is written to it is *)
(* a number.                                                               *)
SeedDrawn ==
    /\ IF seq = None THEN drawn = 0 ELSE seq >= drawn
    /\ \A p \in Pair : cmd[p].step = "write" => cmd[p].seq # None

SeedCounting == {"mark", "count", "write", "drop_members", "verify", "ready"}

(* The registry tells whether the rows are there and how far the command   *)
(* is.                                                                     *)
SeedRows ==
    ~overtaken =>
        /\ state \in {"sql-ready", "ready"} <=> stored # None
        /\ \A p \in Pair :
               /\ cmd[p].step \in SeedCounting \cup {"delete"} => stored # None
               /\ cmd[p].step \in {"delete_keys", "forget"} => state = "reset-db-done"
               /\ cmd[p].step \in SeedCounting \ {"mark"} => state = "sql-ready"

(* Before the registry row goes the keys are gone.                         *)
SeedGone == state = None \/ \E p \in Pair : cmd[p].step = "forget"
SeedKeysGone == seq = None /\ unread = None /\ ~cached
SeedClean == ~overtaken /\ SeedGone => SeedKeysGone

(* Counters that were verified stay so until something touches them.       *)
SeedReady == state = "ready" \/ \E p \in Pair : cmd[p].step = "ready"
SeedCounted == seq # None /\ seq >= stored /\ unread = unseen
SeedVerified == ~overtaken /\ ~touched /\ SeedReady => SeedCounted

SeedIInv ==
    Tool!TypeOK /\ SeedAlone /\ SeedDrawn /\ SeedRows /\ SeedClean /\ SeedVerified

(* What a command is doing.                                                *)
SeedRecords == [step : Tool!Steps, connected : BOOLEAN,
                seq : 0 .. MaxSeq \cup {None}, unread : Nat \cup {None}]

(* A command goes on.                                                      *)
LEMMA SeedGoes ==
  ASSUME Tool!TypeOK, NEW p \in Pair, NEW step \in Tool!Steps, Tool!Goto(p, step)
  PROVE  /\ cmd' \in [Pair -> SeedRecords] /\ lock' = lock
         /\ cmd'[p].step = step /\ cmd'[p].seq = cmd[p].seq /\ cmd'[p].unread = cmd[p].unread
         /\ cmd'[p].connected = cmd[p].connected
         /\ \A q \in Pair : q # p => cmd'[q] = cmd[q]
BY DEF Tool!TypeOK, Tool!Goto, SeedRecords

(* A command ends.                                                         *)
LEMMA SeedCloses ==
  ASSUME Tool!TypeOK, NEW p \in Pair, Tool!Close(p)
  PROVE  /\ cmd' \in [Pair -> SeedRecords] /\ lock' \in Pair \cup {None}
         /\ cmd'[p] = Tool!Idle /\ cmd'[p].step = "idle"
         /\ \A q \in Pair : q # p => cmd'[q] = cmd[q]
<1>1. Tool!Idle \in SeedRecords /\ Tool!Idle.step = "idle"
  BY Zenon DEF Tool!Idle, SeedRecords, Tool!Steps
<1>2. QED
  BY <1>1 DEF Tool!TypeOK, Tool!Close, SeedRecords

(* The seed tool keeps its types.                                          *)
LEMMA SeedTypes ==
  Tool!TypeOK /\ [Tool!Next]_seedVars => Tool!TypeOK'
<1> SUFFICES ASSUME Tool!TypeOK, [Tool!Next]_seedVars PROVE Tool!TypeOK'
  OBVIOUS
<1>1. ASSUME Tool!Send PROVE Tool!TypeOK'
  <2>1. cmd' \in [Pair -> SeedRecords] /\ lock' \in Pair \cup {None}
    BY <1>1 DEF Tool!Send, Tool!TypeOK, SeedRecords, Tool!Running
  <2>2. /\ state' \in {None, "sql-ready", "ready", "reset-db-done"}
        /\ stored' \in 2 .. MaxSeq \cup {None} /\ unseen' \in Nat
        /\ seq' \in 0 .. MaxSeq \cup {None} /\ unread' \in Nat \cup {None}
        /\ faults' \in 0 .. MaxFaults /\ drawn' \in 0 .. MaxSeq
    <3>1. PICK n \in Nat : /\ n > 2 /\ n <= MaxSeq /\ seq' = n /\ drawn' = n
                           /\ \/ UNCHANGED <<stored, unseen, unread>>
                              \/ /\ stored' = n /\ unseen' = unseen + 1
                                 /\ unread' \in {unread, IF unread = None THEN 1 ELSE unread + 1}
      <4> DEFINE n == (IF seq = None \/ seq < stored THEN stored ELSE seq) + 1
      <4>1. n \in Nat /\ n > 2
        BY <1>1, BoundsAssumption DEF Tool!Send, Tool!Running, Tool!TypeOK
      <4>2. /\ n <= MaxSeq /\ seq' = n /\ drawn' = n
            /\ \/ UNCHANGED <<stored, unseen, unread>>
               \/ /\ stored' = n /\ unseen' = unseen + 1
                  /\ unread' \in {unread, IF unread = None THEN 1 ELSE unread + 1}
        BY <1>1, Zenon DEF Tool!Send
      <4> HIDE DEF n
      <4>3. QED
        BY <4>1, <4>2
    <3>2. state' = state /\ faults' = faults
      BY <1>1 DEF Tool!Send
    <3>3. n \in 0 .. MaxSeq /\ n \in 2 .. MaxSeq
      BY <3>1, BoundsAssumption
    <3>4. QED
      BY <3>1, <3>2, <3>3 DEF Tool!TypeOK
  <2>3. /\ damaged' \in BOOLEAN /\ related' \in BOOLEAN /\ cached' \in BOOLEAN
        /\ touched' \in BOOLEAN /\ overtaken' \in BOOLEAN
    BY <1>1, Zenon DEF Tool!Send, Tool!TypeOK, Tool!sqlVars, Tool!appVars, Tool!redisVars,
       Tool!SQL, Tool!Running
  <2>4. QED
    BY <2>1, <2>2, <2>3 DEF Tool!TypeOK, SeedRecords
<1>2. ASSUME Tool!Read PROVE Tool!TypeOK'
  <2>1. cmd' \in [Pair -> SeedRecords] /\ lock' \in Pair \cup {None}
    BY <1>2 DEF Tool!Read, Tool!TypeOK, SeedRecords, Tool!Running
  <2>2. /\ state' \in {None, "sql-ready", "ready", "reset-db-done"}
        /\ stored' \in 2 .. MaxSeq \cup {None} /\ unseen' \in Nat
        /\ seq' \in 0 .. MaxSeq \cup {None} /\ unread' \in Nat \cup {None}
        /\ faults' \in 0 .. MaxFaults /\ drawn' \in 0 .. MaxSeq
    BY <1>2, NoneAssumption, BoundsAssumption DEF Tool!Read, Tool!TypeOK, Tool!sqlVars,
       Tool!appVars, Tool!redisVars, Tool!SQL, Tool!Fault, Tool!SetState, Tool!Counters,
       Tool!syncSequence, Tool!SetUnread, Tool!Running
  <2>3. /\ damaged' \in BOOLEAN /\ related' \in BOOLEAN /\ cached' \in BOOLEAN
        /\ touched' \in BOOLEAN /\ overtaken' \in BOOLEAN
    BY <1>2, Zenon DEF Tool!Read, Tool!TypeOK, Tool!sqlVars, Tool!appVars, Tool!redisVars,
       Tool!SQL, Tool!Running
  <2>4. QED
    BY <2>1, <2>2, <2>3 DEF Tool!TypeOK, SeedRecords
<1>3. ASSUME Tool!Settle PROVE Tool!TypeOK'
  <2>1. cmd' \in [Pair -> SeedRecords] /\ lock' \in Pair \cup {None}
    BY <1>3 DEF Tool!Settle, Tool!TypeOK, SeedRecords, Tool!Running
  <2>2. /\ state' \in {None, "sql-ready", "ready", "reset-db-done"}
        /\ stored' \in 2 .. MaxSeq \cup {None} /\ unseen' \in Nat
        /\ seq' \in 0 .. MaxSeq \cup {None} /\ unread' \in Nat \cup {None}
        /\ faults' \in 0 .. MaxFaults /\ drawn' \in 0 .. MaxSeq
    BY <1>3, NoneAssumption, BoundsAssumption DEF Tool!Settle, Tool!TypeOK, Tool!sqlVars,
       Tool!appVars, Tool!redisVars, Tool!SQL, Tool!Fault, Tool!SetState, Tool!Counters,
       Tool!syncSequence, Tool!SetUnread, Tool!Running
  <2>3. /\ damaged' \in BOOLEAN /\ related' \in BOOLEAN /\ cached' \in BOOLEAN
        /\ touched' \in BOOLEAN /\ overtaken' \in BOOLEAN
    BY <1>3, Zenon DEF Tool!Settle, Tool!TypeOK, Tool!sqlVars, Tool!appVars, Tool!redisVars,
       Tool!SQL, Tool!Running
  <2>4. QED
    BY <2>1, <2>2, <2>3 DEF Tool!TypeOK, SeedRecords
<1>4. ASSUME Tool!Relate PROVE Tool!TypeOK'
  <2>1. cmd' \in [Pair -> SeedRecords] /\ lock' \in Pair \cup {None}
    BY <1>4 DEF Tool!Relate, Tool!TypeOK, SeedRecords, Tool!Running
  <2>2. /\ state' \in {None, "sql-ready", "ready", "reset-db-done"}
        /\ stored' \in 2 .. MaxSeq \cup {None} /\ unseen' \in Nat
        /\ seq' \in 0 .. MaxSeq \cup {None} /\ unread' \in Nat \cup {None}
        /\ faults' \in 0 .. MaxFaults /\ drawn' \in 0 .. MaxSeq
    BY <1>4, NoneAssumption, BoundsAssumption DEF Tool!Relate, Tool!TypeOK, Tool!sqlVars,
       Tool!appVars, Tool!redisVars, Tool!SQL, Tool!Fault, Tool!SetState, Tool!Counters,
       Tool!syncSequence, Tool!SetUnread, Tool!Running
  <2>3. /\ damaged' \in BOOLEAN /\ related' \in BOOLEAN /\ cached' \in BOOLEAN
        /\ touched' \in BOOLEAN /\ overtaken' \in BOOLEAN
    BY <1>4, Zenon DEF Tool!Relate, Tool!TypeOK, Tool!sqlVars, Tool!appVars, Tool!redisVars,
       Tool!SQL, Tool!Running
  <2>4. QED
    BY <2>1, <2>2, <2>3 DEF Tool!TypeOK, SeedRecords
<1>5. ASSUME Tool!LoseKeys PROVE Tool!TypeOK'
  <2>1. cmd' \in [Pair -> SeedRecords] /\ lock' \in Pair \cup {None}
    BY <1>5 DEF Tool!LoseKeys, Tool!TypeOK, SeedRecords, Tool!Running
  <2>2. /\ state' \in {None, "sql-ready", "ready", "reset-db-done"}
        /\ stored' \in 2 .. MaxSeq \cup {None} /\ unseen' \in Nat
        /\ seq' \in 0 .. MaxSeq \cup {None} /\ unread' \in Nat \cup {None}
        /\ faults' \in 0 .. MaxFaults /\ drawn' \in 0 .. MaxSeq
    BY <1>5, NoneAssumption, BoundsAssumption DEF Tool!LoseKeys, Tool!TypeOK, Tool!sqlVars,
       Tool!appVars, Tool!redisVars, Tool!SQL, Tool!Fault, Tool!SetState, Tool!Counters,
       Tool!syncSequence, Tool!SetUnread, Tool!Running
  <2>3. /\ damaged' \in BOOLEAN /\ related' \in BOOLEAN /\ cached' \in BOOLEAN
        /\ touched' \in BOOLEAN /\ overtaken' \in BOOLEAN
    BY <1>5, Zenon DEF Tool!LoseKeys, Tool!TypeOK, Tool!sqlVars, Tool!appVars, Tool!redisVars,
       Tool!SQL, Tool!Running
  <2>4. QED
    BY <2>1, <2>2, <2>3 DEF Tool!TypeOK, SeedRecords
<1>6. ASSUME NEW p \in Pair, NEW k \in Tool!Kinds, Tool!Open(p, k) PROVE Tool!TypeOK'
  <2>1. cmd' \in [Pair -> SeedRecords] /\ lock' \in Pair \cup {None}
    BY <1>6, SeedGoes DEF Tool!Open, Tool!TypeOK, SeedRecords, Tool!Idle, Tool!Kinds, Tool!Steps
  <2>2. /\ state' \in {None, "sql-ready", "ready", "reset-db-done"}
        /\ stored' \in 2 .. MaxSeq \cup {None} /\ unseen' \in Nat
        /\ seq' \in 0 .. MaxSeq \cup {None} /\ unread' \in Nat \cup {None}
        /\ faults' \in 0 .. MaxFaults /\ drawn' \in 0 .. MaxSeq
    BY <1>6, NoneAssumption, BoundsAssumption DEF Tool!Open, Tool!TypeOK, Tool!sqlVars,
       Tool!appVars, Tool!redisVars, Tool!SQL, Tool!Fault, Tool!SetState, Tool!Counters,
       Tool!syncSequence, Tool!SetUnread
  <2>3. /\ damaged' \in BOOLEAN /\ related' \in BOOLEAN /\ cached' \in BOOLEAN
        /\ touched' \in BOOLEAN /\ overtaken' \in BOOLEAN
    BY <1>6, Zenon DEF Tool!Open, Tool!TypeOK, Tool!sqlVars, Tool!appVars, Tool!redisVars,
       Tool!SQL
  <2>4. QED
    BY <2>1, <2>2, <2>3 DEF Tool!TypeOK, SeedRecords
<1>7. ASSUME NEW p \in Pair, Tool!Load(p) PROVE Tool!TypeOK'
  <2>1. cmd' \in [Pair -> SeedRecords] /\ lock' \in Pair \cup {None}
    BY <1>7, SeedGoes, SeedCloses DEF Tool!Load, Tool!TypeOK, Tool!Steps, Tool!AfterLoad
  <2>2. /\ state' \in {None, "sql-ready", "ready", "reset-db-done"}
        /\ stored' \in 2 .. MaxSeq \cup {None} /\ unseen' \in Nat
        /\ seq' \in 0 .. MaxSeq \cup {None} /\ unread' \in Nat \cup {None}
        /\ faults' \in 0 .. MaxFaults /\ drawn' \in 0 .. MaxSeq
    BY <1>7, NoneAssumption, BoundsAssumption DEF Tool!Load, Tool!TypeOK, Tool!sqlVars,
       Tool!appVars, Tool!redisVars, Tool!SQL, Tool!Fault, Tool!SetState, Tool!Counters,
       Tool!syncSequence, Tool!SetUnread
  <2>3. /\ damaged' \in BOOLEAN /\ related' \in BOOLEAN /\ cached' \in BOOLEAN
        /\ touched' \in BOOLEAN /\ overtaken' \in BOOLEAN
    BY <1>7, Zenon DEF Tool!Load, Tool!TypeOK, Tool!sqlVars, Tool!appVars, Tool!redisVars,
       Tool!SQL
  <2>4. QED
    BY <2>1, <2>2, <2>3 DEF Tool!TypeOK, SeedRecords
<1>8. ASSUME NEW p \in Pair, Tool!Insert(p) PROVE Tool!TypeOK'
  <2>1. cmd' \in [Pair -> SeedRecords] /\ lock' \in Pair \cup {None}
    BY <1>8, SeedGoes, SeedCloses DEF Tool!Insert, Tool!TypeOK, Tool!SQL, Tool!Steps
  <2>2. /\ state' \in {None, "sql-ready", "ready", "reset-db-done"}
        /\ stored' \in 2 .. MaxSeq \cup {None} /\ unseen' \in Nat
        /\ seq' \in 0 .. MaxSeq \cup {None} /\ unread' \in Nat \cup {None}
        /\ faults' \in 0 .. MaxFaults /\ drawn' \in 0 .. MaxSeq
    BY <1>8, NoneAssumption, BoundsAssumption DEF Tool!Insert, Tool!TypeOK, Tool!sqlVars,
       Tool!appVars, Tool!redisVars, Tool!SQL, Tool!Fault, Tool!SetState, Tool!Counters,
       Tool!syncSequence, Tool!SetUnread
  <2>3. /\ damaged' \in BOOLEAN /\ related' \in BOOLEAN /\ cached' \in BOOLEAN
        /\ touched' \in BOOLEAN /\ overtaken' \in BOOLEAN
    BY <1>8, Zenon DEF Tool!Insert, Tool!TypeOK, Tool!sqlVars, Tool!appVars, Tool!redisVars,
       Tool!SQL
  <2>4. QED
    BY <2>1, <2>2, <2>3 DEF Tool!TypeOK, SeedRecords
<1>9. ASSUME NEW p \in Pair, Tool!Mark(p) PROVE Tool!TypeOK'
  <2>1. cmd' \in [Pair -> SeedRecords] /\ lock' \in Pair \cup {None}
    BY <1>9, SeedGoes, SeedCloses DEF Tool!Mark, Tool!TypeOK, Tool!SQL, Tool!Steps
  <2>2. /\ state' \in {None, "sql-ready", "ready", "reset-db-done"}
        /\ stored' \in 2 .. MaxSeq \cup {None} /\ unseen' \in Nat
        /\ seq' \in 0 .. MaxSeq \cup {None} /\ unread' \in Nat \cup {None}
        /\ faults' \in 0 .. MaxFaults /\ drawn' \in 0 .. MaxSeq
    BY <1>9, NoneAssumption, BoundsAssumption DEF Tool!Mark, Tool!TypeOK, Tool!sqlVars,
       Tool!appVars, Tool!redisVars, Tool!SQL, Tool!Fault, Tool!SetState, Tool!Counters,
       Tool!syncSequence, Tool!SetUnread
  <2>3. /\ damaged' \in BOOLEAN /\ related' \in BOOLEAN /\ cached' \in BOOLEAN
        /\ touched' \in BOOLEAN /\ overtaken' \in BOOLEAN
    BY <1>9, Zenon DEF Tool!Mark, Tool!TypeOK, Tool!sqlVars, Tool!appVars, Tool!redisVars,
       Tool!SQL
  <2>4. QED
    BY <2>1, <2>2, <2>3 DEF Tool!TypeOK, SeedRecords
<1>10. ASSUME NEW p \in Pair, Tool!Count(p) PROVE Tool!TypeOK'
  <2>1. cmd' \in [Pair -> SeedRecords] /\ lock' \in Pair \cup {None}
    BY <1>10, SeedCloses, NoneAssumption, BoundsAssumption DEF Tool!Count, Tool!TypeOK,
       SeedRecords, Tool!Counters, Tool!Steps
  <2>2. /\ state' \in {None, "sql-ready", "ready", "reset-db-done"}
        /\ stored' \in 2 .. MaxSeq \cup {None} /\ unseen' \in Nat
        /\ seq' \in 0 .. MaxSeq \cup {None} /\ unread' \in Nat \cup {None}
        /\ faults' \in 0 .. MaxFaults /\ drawn' \in 0 .. MaxSeq
    BY <1>10, NoneAssumption, BoundsAssumption DEF Tool!Count, Tool!TypeOK, Tool!sqlVars,
       Tool!appVars, Tool!redisVars, Tool!SQL, Tool!Fault, Tool!SetState, Tool!Counters,
       Tool!syncSequence, Tool!SetUnread
  <2>3. /\ damaged' \in BOOLEAN /\ related' \in BOOLEAN /\ cached' \in BOOLEAN
        /\ touched' \in BOOLEAN /\ overtaken' \in BOOLEAN
    BY <1>10, Zenon DEF Tool!Count, Tool!TypeOK, Tool!sqlVars, Tool!appVars, Tool!redisVars,
       Tool!SQL
  <2>4. QED
    BY <2>1, <2>2, <2>3 DEF Tool!TypeOK, SeedRecords
<1>11. ASSUME NEW p \in Pair, Tool!Write(p) PROVE Tool!TypeOK'
  <2>1. cmd' \in [Pair -> SeedRecords] /\ lock' \in Pair \cup {None}
    BY <1>11, SeedGoes, SeedCloses DEF Tool!Write, Tool!TypeOK, Tool!SQL, Tool!Steps
  <2>2. /\ state' \in {None, "sql-ready", "ready", "reset-db-done"}
        /\ stored' \in 2 .. MaxSeq \cup {None} /\ unseen' \in Nat
        /\ seq' \in 0 .. MaxSeq \cup {None} /\ unread' \in Nat \cup {None}
        /\ faults' \in 0 .. MaxFaults /\ drawn' \in 0 .. MaxSeq
    BY <1>11, NoneAssumption, BoundsAssumption DEF Tool!Write, Tool!TypeOK, Tool!sqlVars,
       Tool!appVars, Tool!redisVars, Tool!SQL, Tool!Fault, Tool!SetState, Tool!Counters,
       Tool!syncSequence, Tool!SetUnread
  <2>3. /\ damaged' \in BOOLEAN /\ related' \in BOOLEAN /\ cached' \in BOOLEAN
        /\ touched' \in BOOLEAN /\ overtaken' \in BOOLEAN
    BY <1>11, Zenon DEF Tool!Write, Tool!TypeOK, Tool!sqlVars, Tool!appVars, Tool!redisVars,
       Tool!SQL
  <2>4. QED
    BY <2>1, <2>2, <2>3 DEF Tool!TypeOK, SeedRecords
<1>12. ASSUME NEW p \in Pair, Tool!DropMembers(p) PROVE Tool!TypeOK'
  <2>1. cmd' \in [Pair -> SeedRecords] /\ lock' \in Pair \cup {None}
    BY <1>12, SeedGoes, SeedCloses DEF Tool!DropMembers, Tool!TypeOK, Tool!SQL, Tool!Steps
  <2>2. /\ state' \in {None, "sql-ready", "ready", "reset-db-done"}
        /\ stored' \in 2 .. MaxSeq \cup {None} /\ unseen' \in Nat
        /\ seq' \in 0 .. MaxSeq \cup {None} /\ unread' \in Nat \cup {None}
        /\ faults' \in 0 .. MaxFaults /\ drawn' \in 0 .. MaxSeq
    <3>1. /\ UNCHANGED <<state, stored, unseen, seq, unread, drawn>>
          /\ UNCHANGED faults \/ Tool!Fault
      BY <1>12, Zenon DEF Tool!DropMembers, Tool!sqlVars
    <3>2. QED
      BY <3>1, BoundsAssumption DEF Tool!Fault, Tool!TypeOK
  <2>3. /\ damaged' \in BOOLEAN /\ related' \in BOOLEAN /\ cached' \in BOOLEAN
        /\ touched' \in BOOLEAN /\ overtaken' \in BOOLEAN
    BY <1>12, Zenon DEF Tool!DropMembers, Tool!TypeOK, Tool!sqlVars, Tool!appVars, Tool!redisVars,
       Tool!SQL
  <2>4. QED
    BY <2>1, <2>2, <2>3 DEF Tool!TypeOK, SeedRecords
<1>13. ASSUME NEW p \in Pair, Tool!VerifyCounters(p) PROVE Tool!TypeOK'
  <2>1. cmd' \in [Pair -> SeedRecords] /\ lock' \in Pair \cup {None}
    BY <1>13, SeedGoes, SeedCloses DEF Tool!VerifyCounters, Tool!TypeOK, Tool!SQL, Tool!Steps
  <2>2. /\ state' \in {None, "sql-ready", "ready", "reset-db-done"}
        /\ stored' \in 2 .. MaxSeq \cup {None} /\ unseen' \in Nat
        /\ seq' \in 0 .. MaxSeq \cup {None} /\ unread' \in Nat \cup {None}
        /\ faults' \in 0 .. MaxFaults /\ drawn' \in 0 .. MaxSeq
    BY <1>13, NoneAssumption, BoundsAssumption DEF Tool!VerifyCounters, Tool!TypeOK, Tool!sqlVars,
       Tool!appVars, Tool!redisVars, Tool!SQL, Tool!Fault, Tool!SetState, Tool!Counters,
       Tool!syncSequence, Tool!SetUnread
  <2>3. /\ damaged' \in BOOLEAN /\ related' \in BOOLEAN /\ cached' \in BOOLEAN
        /\ touched' \in BOOLEAN /\ overtaken' \in BOOLEAN
    BY <1>13, Zenon DEF Tool!VerifyCounters, Tool!TypeOK, Tool!sqlVars, Tool!appVars,
       Tool!redisVars, Tool!SQL
  <2>4. QED
    BY <2>1, <2>2, <2>3 DEF Tool!TypeOK, SeedRecords
<1>14. ASSUME NEW p \in Pair, Tool!MarkReady(p) PROVE Tool!TypeOK'
  <2>1. cmd' \in [Pair -> SeedRecords] /\ lock' \in Pair \cup {None}
    BY <1>14, SeedGoes, SeedCloses DEF Tool!MarkReady, Tool!TypeOK, Tool!SQL, Tool!Steps
  <2>2. /\ state' \in {None, "sql-ready", "ready", "reset-db-done"}
        /\ stored' \in 2 .. MaxSeq \cup {None} /\ unseen' \in Nat
        /\ seq' \in 0 .. MaxSeq \cup {None} /\ unread' \in Nat \cup {None}
        /\ faults' \in 0 .. MaxFaults /\ drawn' \in 0 .. MaxSeq
    BY <1>14, NoneAssumption, BoundsAssumption DEF Tool!MarkReady, Tool!TypeOK, Tool!sqlVars,
       Tool!appVars, Tool!redisVars, Tool!SQL, Tool!Fault, Tool!SetState, Tool!Counters,
       Tool!syncSequence, Tool!SetUnread
  <2>3. /\ damaged' \in BOOLEAN /\ related' \in BOOLEAN /\ cached' \in BOOLEAN
        /\ touched' \in BOOLEAN /\ overtaken' \in BOOLEAN
    BY <1>14, Zenon DEF Tool!MarkReady, Tool!TypeOK, Tool!sqlVars, Tool!appVars, Tool!redisVars,
       Tool!SQL
  <2>4. QED
    BY <2>1, <2>2, <2>3 DEF Tool!TypeOK, SeedRecords
<1>15. ASSUME NEW p \in Pair, Tool!Delete(p) PROVE Tool!TypeOK'
  <2>1. cmd' \in [Pair -> SeedRecords] /\ lock' \in Pair \cup {None}
    BY <1>15, SeedGoes, SeedCloses DEF Tool!Delete, Tool!TypeOK, Tool!SQL, Tool!Steps
  <2>2. /\ state' \in {None, "sql-ready", "ready", "reset-db-done"}
        /\ stored' \in 2 .. MaxSeq \cup {None} /\ unseen' \in Nat
        /\ seq' \in 0 .. MaxSeq \cup {None} /\ unread' \in Nat \cup {None}
        /\ faults' \in 0 .. MaxFaults /\ drawn' \in 0 .. MaxSeq
    BY <1>15, NoneAssumption, BoundsAssumption DEF Tool!Delete, Tool!TypeOK, Tool!sqlVars,
       Tool!appVars, Tool!redisVars, Tool!SQL, Tool!Fault, Tool!SetState, Tool!Counters,
       Tool!syncSequence, Tool!SetUnread
  <2>3. /\ damaged' \in BOOLEAN /\ related' \in BOOLEAN /\ cached' \in BOOLEAN
        /\ touched' \in BOOLEAN /\ overtaken' \in BOOLEAN
    BY <1>15, Zenon DEF Tool!Delete, Tool!TypeOK, Tool!sqlVars, Tool!appVars, Tool!redisVars,
       Tool!SQL
  <2>4. QED
    BY <2>1, <2>2, <2>3 DEF Tool!TypeOK, SeedRecords
<1>16. ASSUME NEW p \in Pair, Tool!DeleteKeys(p) PROVE Tool!TypeOK'
  <2>1. cmd' \in [Pair -> SeedRecords] /\ lock' \in Pair \cup {None}
    BY <1>16, SeedGoes, SeedCloses DEF Tool!DeleteKeys, Tool!TypeOK, Tool!SQL, Tool!Steps
  <2>2. /\ state' \in {None, "sql-ready", "ready", "reset-db-done"}
        /\ stored' \in 2 .. MaxSeq \cup {None} /\ unseen' \in Nat
        /\ seq' \in 0 .. MaxSeq \cup {None} /\ unread' \in Nat \cup {None}
        /\ faults' \in 0 .. MaxFaults /\ drawn' \in 0 .. MaxSeq
    <3>1. /\ UNCHANGED <<state, stored, unseen>>
          /\ seq' \in {seq, None} /\ unread' \in {unread, None}
          /\ UNCHANGED faults \/ Tool!Fault
          /\ drawn' = IF seq' = None THEN 0 ELSE drawn
      <4>1. /\ UNCHANGED <<state, stored, unseen>>
            /\ drawn' = IF seq' = None THEN 0 ELSE drawn
            /\ \/ seq' = None /\ unread' = None /\ UNCHANGED faults
               \/ seq' \in {seq, None} /\ unread' \in {unread, None} /\ Tool!Fault
        BY <1>16, Zenon DEF Tool!DeleteKeys, Tool!sqlVars
      <4>2. QED
        BY <4>1
    <3>2. QED
      BY <3>1, BoundsAssumption DEF Tool!Fault, Tool!TypeOK
  <2>3. /\ damaged' \in BOOLEAN /\ related' \in BOOLEAN /\ cached' \in BOOLEAN
        /\ touched' \in BOOLEAN /\ overtaken' \in BOOLEAN
    BY <1>16, Zenon DEF Tool!DeleteKeys, Tool!TypeOK, Tool!sqlVars, Tool!appVars, Tool!redisVars,
       Tool!SQL
  <2>4. QED
    BY <2>1, <2>2, <2>3 DEF Tool!TypeOK, SeedRecords
<1>17. ASSUME NEW p \in Pair, Tool!Forget(p) PROVE Tool!TypeOK'
  <2>1. cmd' \in [Pair -> SeedRecords] /\ lock' \in Pair \cup {None}
    BY <1>17, SeedGoes, SeedCloses DEF Tool!Forget, Tool!TypeOK, Tool!SQL, Tool!Steps
  <2>2. /\ state' \in {None, "sql-ready", "ready", "reset-db-done"}
        /\ stored' \in 2 .. MaxSeq \cup {None} /\ unseen' \in Nat
        /\ seq' \in 0 .. MaxSeq \cup {None} /\ unread' \in Nat \cup {None}
        /\ faults' \in 0 .. MaxFaults /\ drawn' \in 0 .. MaxSeq
    BY <1>17, NoneAssumption, BoundsAssumption DEF Tool!Forget, Tool!TypeOK, Tool!sqlVars,
       Tool!appVars, Tool!redisVars, Tool!SQL, Tool!Fault, Tool!SetState, Tool!Counters,
       Tool!syncSequence, Tool!SetUnread
  <2>3. /\ damaged' \in BOOLEAN /\ related' \in BOOLEAN /\ cached' \in BOOLEAN
        /\ touched' \in BOOLEAN /\ overtaken' \in BOOLEAN
    BY <1>17, Zenon DEF Tool!Forget, Tool!TypeOK, Tool!sqlVars, Tool!appVars, Tool!redisVars,
       Tool!SQL
  <2>4. QED
    BY <2>1, <2>2, <2>3 DEF Tool!TypeOK, SeedRecords
<1>18. ASSUME NEW p \in Pair, Tool!Crash(p) PROVE Tool!TypeOK'
  <2>1. cmd' \in [Pair -> SeedRecords] /\ lock' \in Pair \cup {None}
    BY <1>18, SeedGoes, SeedCloses DEF Tool!Crash, Tool!TypeOK, Tool!SQL, Tool!Steps
  <2>2. /\ state' \in {None, "sql-ready", "ready", "reset-db-done"}
        /\ stored' \in 2 .. MaxSeq \cup {None} /\ unseen' \in Nat
        /\ seq' \in 0 .. MaxSeq \cup {None} /\ unread' \in Nat \cup {None}
        /\ faults' \in 0 .. MaxFaults /\ drawn' \in 0 .. MaxSeq
    BY <1>18, NoneAssumption, BoundsAssumption DEF Tool!Crash, Tool!TypeOK, Tool!sqlVars,
       Tool!appVars, Tool!redisVars, Tool!SQL, Tool!Fault, Tool!SetState, Tool!Counters,
       Tool!syncSequence, Tool!SetUnread
  <2>3. /\ damaged' \in BOOLEAN /\ related' \in BOOLEAN /\ cached' \in BOOLEAN
        /\ touched' \in BOOLEAN /\ overtaken' \in BOOLEAN
    BY <1>18, Zenon DEF Tool!Crash, Tool!TypeOK, Tool!sqlVars, Tool!appVars, Tool!redisVars,
       Tool!SQL
  <2>4. QED
    BY <2>1, <2>2, <2>3 DEF Tool!TypeOK, SeedRecords
<1>19. ASSUME NEW p \in Pair, Tool!LoseConnection(p) PROVE Tool!TypeOK'
  <2>1. cmd' \in [Pair -> SeedRecords] /\ lock' \in Pair \cup {None}
    BY <1>19 DEF Tool!LoseConnection, Tool!TypeOK, SeedRecords
  <2>2. /\ state' \in {None, "sql-ready", "ready", "reset-db-done"}
        /\ stored' \in 2 .. MaxSeq \cup {None} /\ unseen' \in Nat
        /\ seq' \in 0 .. MaxSeq \cup {None} /\ unread' \in Nat \cup {None}
        /\ faults' \in 0 .. MaxFaults /\ drawn' \in 0 .. MaxSeq
    BY <1>19, NoneAssumption, BoundsAssumption DEF Tool!LoseConnection, Tool!TypeOK, Tool!sqlVars,
       Tool!appVars, Tool!redisVars, Tool!SQL, Tool!Fault, Tool!SetState, Tool!Counters,
       Tool!syncSequence, Tool!SetUnread
  <2>3. /\ damaged' \in BOOLEAN /\ related' \in BOOLEAN /\ cached' \in BOOLEAN
        /\ touched' \in BOOLEAN /\ overtaken' \in BOOLEAN
    BY <1>19, Zenon DEF Tool!LoseConnection, Tool!TypeOK, Tool!sqlVars, Tool!appVars,
       Tool!redisVars, Tool!SQL
  <2>4. QED
    BY <2>1, <2>2, <2>3 DEF Tool!TypeOK, SeedRecords
<1>20. CASE UNCHANGED seedVars
  BY <1>20 DEF seedVars, Tool!TypeOK
<1>21. QED
  BY <1>1, <1>2, <1>3, <1>4, <1>5, <1>6, <1>7, <1>8, <1>9, <1>10, <1>11, <1>12, <1>13, <1>14,
     <1>15, <1>16, <1>17, <1>18, <1>19, <1>20 DEF Tool!Next, Tool!Step

(* What the commands with batches of a pipeline do, in whole or in part.   *)
LEMMA SeedPipelines ==
  ASSUME NEW p \in Pair
  PROVE  /\ Tool!Write(p) =>
                /\ cmd[p].step = "write"
                /\ Tool!Goto(p, "drop_members") \/ Tool!Close(p)
                /\ UNCHANGED <<state, stored, unseen, cached, drawn, touched, overtaken>>
                /\ Tool!syncSequence(cmd[p].seq) \/ UNCHANGED seq
         /\ Tool!DropMembers(p) =>
                /\ cmd[p].step = "drop_members"
                /\ Tool!Goto(p, "verify") \/ Tool!Close(p)
                /\ UNCHANGED <<state, stored, unseen, seq, unread, drawn, touched, overtaken>>
                /\ ~cached => ~cached'
         /\ Tool!DeleteKeys(p) =>
                /\ cmd[p].step = "delete_keys"
                /\ \/ /\ Tool!Goto(p, "forget") /\ seq' = None /\ unread' = None /\ ~cached'
                   \/ Tool!Close(p)
                /\ UNCHANGED <<state, stored, unseen, touched, overtaken>>
                /\ seq' \in {seq, None} /\ unread' \in {unread, None} /\ (~cached => ~cached')
                /\ drawn' = IF seq' = None THEN 0 ELSE drawn
<1>1. ASSUME Tool!Write(p)
      PROVE  /\ cmd[p].step = "write"
             /\ Tool!Goto(p, "drop_members") \/ Tool!Close(p)
             /\ UNCHANGED <<state, stored, unseen, cached, drawn, touched, overtaken>>
             /\ Tool!syncSequence(cmd[p].seq) \/ UNCHANGED seq
  BY <1>1, Zenon DEF Tool!Write, Tool!sqlVars
<1>2. ASSUME Tool!DropMembers(p)
      PROVE  /\ cmd[p].step = "drop_members"
             /\ Tool!Goto(p, "verify") \/ Tool!Close(p)
             /\ UNCHANGED <<state, stored, unseen, seq, unread, drawn, touched, overtaken>>
             /\ ~cached => ~cached'
  <2>1. \/ cached' = FALSE /\ Tool!Goto(p, "verify")
        \/ cached' \in {cached, FALSE} /\ Tool!Close(p)
    BY <1>2, Zenon DEF Tool!DropMembers
  <2>2. ASSUME cached' \in {cached, FALSE} PROVE ~cached => ~cached'
    BY <2>2, Zenon
  <2>3. /\ cmd[p].step = "drop_members"
        /\ UNCHANGED <<state, stored, unseen, seq, unread, drawn, touched, overtaken>>
    BY <1>2, Zenon DEF Tool!DropMembers, Tool!sqlVars
  <2>4. QED
    BY <2>1, <2>2, <2>3, Zenon
<1>3. ASSUME Tool!DeleteKeys(p)
      PROVE  /\ cmd[p].step = "delete_keys"
             /\ \/ /\ Tool!Goto(p, "forget") /\ seq' = None /\ unread' = None /\ ~cached'
                \/ Tool!Close(p)
             /\ UNCHANGED <<state, stored, unseen, touched, overtaken>>
             /\ seq' \in {seq, None} /\ unread' \in {unread, None} /\ (~cached => ~cached')
             /\ drawn' = IF seq' = None THEN 0 ELSE drawn
  <2>1. \/ seq' = None /\ unread' = None /\ cached' = FALSE /\ Tool!Goto(p, "forget")
        \/ /\ seq' \in {seq, None} /\ unread' \in {unread, None} /\ cached' \in {cached, FALSE}
           /\ Tool!Close(p)
    BY <1>3, Zenon DEF Tool!DeleteKeys
  <2>2. ASSUME cached' \in {cached, FALSE} PROVE ~cached => ~cached'
    BY <2>2, Zenon
  <2>3. /\ cmd[p].step = "delete_keys" /\ drawn' = IF seq' = None THEN 0 ELSE drawn
        /\ UNCHANGED <<state, stored, unseen, touched, overtaken>>
    BY <1>3, Zenon DEF Tool!DeleteKeys, Tool!sqlVars
  <2>4. QED
    BY <2>1, <2>2, <2>3, Zenon
<1>4. QED
  BY <1>1, <1>2, <1>3, Zenon

(* What is lost with the keys.                                             *)
LEMMA SeedLoses ==
  ASSUME Tool!LoseKeys
  PROVE  /\ UNCHANGED <<state, stored, unseen, cmd, overtaken>>
         /\ touched' = TRUE
         /\ seq' \in {seq, None} /\ unread' \in {unread, None} /\ (~cached => ~cached')
         /\ drawn' = IF seq' = None THEN 0 ELSE drawn
<1>1. /\ UNCHANGED <<state, stored, unseen, cmd, overtaken>>
      /\ touched' = TRUE /\ cached' \in {cached, FALSE}
      /\ seq' \in {seq, None} /\ unread' \in {unread, None}
      /\ drawn' = IF seq' = None THEN 0 ELSE drawn
  BY Zenon DEF Tool!LoseKeys, Tool!sqlVars
<1>2. ASSUME cached' \in {cached, FALSE} PROVE ~cached => ~cached'
  BY <1>2, Zenon
<1>3. QED
  BY <1>1, <1>2, Zenon

(* A command moves alone.                                                  *)
LEMMA SeedOthers ==
  ASSUME Tool!TypeOK, SeedAlone, NEW p \in Pair,
         Tool!Step(p) \/ Tool!Crash(p) \/ Tool!LoseConnection(p)
  PROVE  /\ cmd[p] # Tool!Idle /\ overtaken' = overtaken
         /\ cmd'[p].step = "idle" => cmd'[p] = Tool!Idle
         /\ \A q \in Pair : q # p => cmd'[q] = cmd[q]
         /\ ~overtaken => \A q \in Pair : q # p => cmd'[q].step = "idle"
<1>0. Tool!Idle.step = "idle" /\ ~Tool!Idle.connected
  BY DEF Tool!Idle
<1>1. /\ cmd[p] # Tool!Idle /\ overtaken' = overtaken
      /\ cmd'[p].step = "idle" => cmd'[p] = Tool!Idle
      /\ \A q \in Pair : q # p => cmd'[q] = cmd[q]
  <2>1. CASE Tool!Load(p)
    BY <1>0, <2>1, SeedGoes, SeedCloses DEF Tool!Load, Tool!SQL, Tool!Steps, Tool!AfterLoad,
       Tool!Kinds
  <2>2. CASE Tool!Insert(p)
    BY <1>0, <2>2, SeedGoes, SeedCloses DEF Tool!Insert, Tool!SQL, Tool!Steps
  <2>3. CASE Tool!Mark(p)
    BY <1>0, <2>3, SeedGoes, SeedCloses DEF Tool!Mark, Tool!SQL, Tool!Steps
  <2>4. CASE Tool!Count(p)
    BY <1>0, <2>4, SeedGoes, SeedCloses DEF Tool!Count, Tool!SQL, Tool!Steps, Tool!TypeOK
  <2>5. CASE Tool!Write(p)
    BY <1>0, <2>5, SeedPipelines, SeedGoes, SeedCloses DEF Tool!Steps
  <2>6. CASE Tool!DropMembers(p)
    BY <1>0, <2>6, SeedPipelines, SeedGoes, SeedCloses DEF Tool!Steps
  <2>7. CASE Tool!VerifyCounters(p)
    BY <1>0, <2>7, SeedGoes, SeedCloses DEF Tool!VerifyCounters, Tool!SQL, Tool!Steps
  <2>8. CASE Tool!MarkReady(p)
    BY <1>0, <2>8, SeedGoes, SeedCloses DEF Tool!MarkReady, Tool!SQL, Tool!Steps
  <2>9. CASE Tool!Delete(p)
    BY <1>0, <2>9, SeedGoes, SeedCloses DEF Tool!Delete, Tool!SQL, Tool!Steps
  <2>10. CASE Tool!DeleteKeys(p)
    BY <1>0, <2>10, SeedPipelines, SeedGoes, SeedCloses DEF Tool!Steps
  <2>11. CASE Tool!Forget(p)
    BY <1>0, <2>11, SeedGoes, SeedCloses DEF Tool!Forget, Tool!SQL, Tool!Steps
  <2>12. CASE Tool!Crash(p)
    BY <1>0, <2>12, SeedGoes, SeedCloses DEF Tool!Crash, Tool!SQL, Tool!Steps
  <2>13. CASE Tool!LoseConnection(p)
    BY <1>0, <2>13, SeedGoes, SeedCloses DEF Tool!LoseConnection, Tool!SQL, Tool!Steps,
       Tool!TypeOK, SeedAlone
  <2>14. QED
    BY <2>1, <2>2, <2>3, <2>4, <2>5, <2>6, <2>7, <2>8, <2>9, <2>10, <2>11, <2>12, <2>13 DEF
       Tool!Step
<1>2. ASSUME ~overtaken, NEW q \in Pair, q # p PROVE cmd'[q].step = "idle"
  <2>1. cmd[q] = Tool!Idle
    BY <1>1, <1>2, Zenon DEF SeedAlone
  <2>2. QED
    BY <1>0, <1>1, <1>2, <2>1
<1>3. QED
  BY <1>1, <1>2, Zenon

(* A command begins alone or is noted as overtaking.                       *)
LEMMA SeedAlonePreserved ==
  Tool!TypeOK /\ SeedAlone /\ [Tool!Next]_seedVars => SeedAlone'
<1> SUFFICES ASSUME Tool!TypeOK /\ SeedAlone, [Tool!Next]_seedVars PROVE SeedAlone'
  OBVIOUS
<1>1. ASSUME Tool!Send \/ Tool!Read \/ Tool!Settle \/ Tool!Relate \/ Tool!LoseKeys
      PROVE SeedAlone'
  BY <1>1 DEF Tool!Send, Tool!Read, Tool!Settle, Tool!Relate, Tool!LoseKeys, SeedAlone
<1>2. ASSUME NEW p \in Pair, NEW k \in Tool!Kinds, Tool!Open(p, k) PROVE SeedAlone'
  <2>1. /\ cmd[p] = Tool!Idle /\ k # "idle"
        /\ cmd' = [cmd EXCEPT ![p].step = k, ![p].connected = TRUE]
    BY <1>2 DEF Tool!Open, Tool!Kinds
  <2>2. cmd'[p].step = k /\ \A q \in Pair : q # p => cmd'[q] = cmd[q]
    BY <2>1 DEF Tool!TypeOK
  <2>3. ~overtaken' => ~overtaken /\ \A q \in Pair : cmd[q] = Tool!Idle
    BY <1>2, Zenon DEF Tool!Open
  <2>4. QED
    BY <2>1, <2>2, <2>3 DEF SeedAlone
<1>3. ASSUME NEW p \in Pair, Tool!Load(p) \/ Tool!Insert(p) \/ Tool!Mark(p) \/ Tool!Count(p) \/
             Tool!Write(p) \/ Tool!DropMembers(p) \/ Tool!VerifyCounters(p) \/ Tool!MarkReady(p)
             \/ Tool!Delete(p) \/ Tool!DeleteKeys(p) \/ Tool!Forget(p) \/ Tool!Crash(p) \/
             Tool!LoseConnection(p)
      PROVE SeedAlone'
  <2>1. /\ cmd[p] # Tool!Idle /\ overtaken' = overtaken
        /\ cmd'[p].step = "idle" => cmd'[p] = Tool!Idle
        /\ \A q \in Pair : q # p => cmd'[q] = cmd[q]
    BY <1>3, SeedOthers DEF Tool!Step
  <2>2. QED
    BY <2>1 DEF SeedAlone
<1>4. CASE UNCHANGED seedVars
  BY <1>4 DEF seedVars, SeedAlone
<1>5. QED
  BY <1>1, <1>2, <1>3, <1>4 DEF Tool!Next, Tool!Step

(* No step lowers a sequence below what was drawn from it.                 *)
LEMMA SeedDrawnPreserved ==
  Tool!TypeOK /\ SeedAlone /\ SeedDrawn /\ [Tool!Next]_seedVars => SeedDrawn'
<1> SUFFICES ASSUME Tool!TypeOK /\ SeedAlone /\ SeedDrawn, [Tool!Next]_seedVars PROVE SeedDrawn'
  OBVIOUS
<1>1. ASSUME Tool!Send PROVE SeedDrawn'
  <2>1. /\ seq' # None /\ seq' \in Nat /\ drawn' = seq'
    <3> DEFINE n == (IF seq = None \/ seq < stored THEN stored ELSE seq) + 1
    <3>1. n \in Nat
      BY <1>1, BoundsAssumption DEF Tool!Send, Tool!Running, Tool!TypeOK
    <3>2. seq' = n /\ drawn' = n
      BY <1>1, Zenon DEF Tool!Send
    <3> HIDE DEF n
    <3>3. QED
      BY <3>1, <3>2, NoneAssumption
  <2>2. UNCHANGED cmd /\ \A q \in Pair : cmd[q].step = "idle"
    BY <1>1 DEF Tool!Send, Tool!Running, Tool!Idle
  <2>3. QED
    BY <2>1, <2>2 DEF SeedDrawn
<1>2. ASSUME Tool!Read \/ Tool!Settle \/ Tool!Relate PROVE SeedDrawn'
  BY <1>2 DEF Tool!Read, Tool!Settle, Tool!Relate, Tool!redisVars, Tool!Running, Tool!Idle,
     SeedDrawn
<1>3. ASSUME Tool!LoseKeys PROVE SeedDrawn'
  <2>1. /\ UNCHANGED <<state, stored, unseen, cmd>>
        /\ seq' \in {seq, None} /\ unread' \in {unread, None}
        /\ drawn' = IF seq' = None THEN 0 ELSE drawn
    BY <1>3, SeedLoses, Zenon
  <2>2. UNCHANGED overtaken /\ touched'
    BY <1>3, SeedLoses, Zenon
  <2>3. QED
    BY <2>1, <2>2 DEF SeedDrawn, Tool!TypeOK
<1>4. ASSUME NEW p \in Pair, NEW k \in Tool!Kinds, Tool!Open(p, k) PROVE SeedDrawn'
  <2>1. /\ k \notin SeedCounting \cup {"delete", "delete_keys", "forget"}
        /\ cmd' = [cmd EXCEPT ![p].step = k, ![p].connected = TRUE]
        /\ UNCHANGED <<state, stored, unseen, seq, unread, cached, drawn, touched>>
        /\ ~overtaken' => ~overtaken
    <3>1. /\ k \notin SeedCounting \cup {"delete", "delete_keys", "forget"}
          /\ cmd' = [cmd EXCEPT ![p].step = k, ![p].connected = TRUE]
          /\ UNCHANGED <<state, stored, unseen, seq, unread, drawn>>
      BY <1>4 DEF Tool!Open, Tool!Kinds, SeedCounting, Tool!sqlVars, Tool!redisVars
    <3>2. UNCHANGED <<cached, touched>> /\ (~overtaken' => ~overtaken)
      BY <1>4, Zenon DEF Tool!Open, Tool!redisVars
    <3>3. QED
      BY <3>1, <3>2, Zenon
  <2>2. cmd'[p].step = k /\ \A q \in Pair : q # p => cmd'[q] = cmd[q]
    BY <2>1 DEF Tool!TypeOK
  <2>3. QED
    BY <2>1, <2>2 DEF SeedDrawn, SeedCounting
<1>5. ASSUME NEW p \in Pair, Tool!Load(p) PROVE SeedDrawn'
  <2>1. /\ overtaken' = overtaken
        /\ \A q \in Pair : q # p => cmd'[q] = cmd[q]
        /\ ~overtaken => \A q \in Pair : q # p => cmd'[q].step = "idle"
    BY <1>5, SeedOthers DEF Tool!Step
  <2>2. QED
    BY <1>5, <2>1, SeedGoes, SeedCloses, NoneAssumption DEF Tool!Load, SeedDrawn, Tool!SQL,
       Tool!Steps, Tool!TypeOK, Tool!redisVars, Tool!AfterLoad
<1>6. ASSUME NEW p \in Pair, Tool!Insert(p) PROVE SeedDrawn'
  <2>1. /\ overtaken' = overtaken
        /\ \A q \in Pair : q # p => cmd'[q] = cmd[q]
        /\ ~overtaken => \A q \in Pair : q # p => cmd'[q].step = "idle"
    BY <1>6, SeedOthers DEF Tool!Step
  <2>2. QED
    BY <1>6, <2>1, SeedGoes, SeedCloses, NoneAssumption DEF Tool!Insert, SeedDrawn, Tool!SQL,
       Tool!Steps, Tool!TypeOK, Tool!redisVars
<1>7. ASSUME NEW p \in Pair, Tool!Mark(p) PROVE SeedDrawn'
  <2>1. /\ overtaken' = overtaken
        /\ \A q \in Pair : q # p => cmd'[q] = cmd[q]
        /\ ~overtaken => \A q \in Pair : q # p => cmd'[q].step = "idle"
    BY <1>7, SeedOthers DEF Tool!Step
  <2>2. QED
    BY <1>7, <2>1, SeedGoes, SeedCloses, NoneAssumption DEF Tool!Mark, SeedDrawn, Tool!SQL,
       Tool!Steps, Tool!TypeOK, Tool!redisVars
<1>8. ASSUME NEW p \in Pair, Tool!Count(p) PROVE SeedDrawn'
  <2>1. /\ overtaken' = overtaken
        /\ \A q \in Pair : q # p => cmd'[q] = cmd[q]
        /\ ~overtaken => \A q \in Pair : q # p => cmd'[q].step = "idle"
    BY <1>8, SeedOthers DEF Tool!Step
  <2>2. QED
    BY <1>8, <2>1, SeedGoes, SeedCloses, NoneAssumption DEF Tool!Count, SeedDrawn, Tool!SQL,
       Tool!Steps, Tool!TypeOK, Tool!redisVars, Tool!Counters
<1>9. ASSUME NEW p \in Pair, Tool!Write(p) PROVE SeedDrawn'
  <2>1. /\ overtaken' = overtaken
        /\ \A q \in Pair : q # p => cmd'[q] = cmd[q]
        /\ ~overtaken => \A q \in Pair : q # p => cmd'[q].step = "idle"
    BY <1>9, SeedOthers DEF Tool!Step
  <2>2. /\ cmd[p].step = "write"
        /\ Tool!Goto(p, "drop_members") \/ Tool!Close(p)
        /\ UNCHANGED <<state, stored, unseen, drawn>>
        /\ Tool!syncSequence(cmd[p].seq) \/ UNCHANGED seq
    BY <1>9, SeedPipelines, Zenon
  <2>3. QED
    BY <2>1, <2>2, SeedGoes, SeedCloses, NoneAssumption DEF SeedDrawn, Tool!Steps,
       Tool!TypeOK, Tool!syncSequence
<1>10. ASSUME NEW p \in Pair, Tool!DropMembers(p) PROVE SeedDrawn'
  <2>1. /\ overtaken' = overtaken
        /\ \A q \in Pair : q # p => cmd'[q] = cmd[q]
        /\ ~overtaken => \A q \in Pair : q # p => cmd'[q].step = "idle"
    BY <1>10, SeedOthers DEF Tool!Step
  <2>2. /\ cmd[p].step = "drop_members"
        /\ Tool!Goto(p, "verify") \/ Tool!Close(p)
        /\ UNCHANGED <<state, stored, unseen, seq, unread, drawn>>
    BY <1>10, SeedPipelines, Zenon
  <2>3. QED
    BY <2>1, <2>2, SeedGoes, SeedCloses, NoneAssumption DEF SeedDrawn, Tool!Steps, Tool!TypeOK
<1>11. ASSUME NEW p \in Pair, Tool!VerifyCounters(p) PROVE SeedDrawn'
  <2>1. /\ overtaken' = overtaken
        /\ \A q \in Pair : q # p => cmd'[q] = cmd[q]
        /\ ~overtaken => \A q \in Pair : q # p => cmd'[q].step = "idle"
    BY <1>11, SeedOthers DEF Tool!Step
  <2>2. QED
    BY <1>11, <2>1, SeedGoes, SeedCloses, NoneAssumption DEF Tool!VerifyCounters, SeedDrawn,
       Tool!SQL, Tool!Steps, Tool!TypeOK, Tool!redisVars
<1>12. ASSUME NEW p \in Pair, Tool!MarkReady(p) PROVE SeedDrawn'
  <2>1. /\ overtaken' = overtaken
        /\ \A q \in Pair : q # p => cmd'[q] = cmd[q]
        /\ ~overtaken => \A q \in Pair : q # p => cmd'[q].step = "idle"
    BY <1>12, SeedOthers DEF Tool!Step
  <2>2. QED
    BY <1>12, <2>1, SeedGoes, SeedCloses, NoneAssumption DEF Tool!MarkReady, SeedDrawn, Tool!SQL,
       Tool!Steps, Tool!TypeOK, Tool!redisVars
<1>13. ASSUME NEW p \in Pair, Tool!Delete(p) PROVE SeedDrawn'
  <2>1. /\ overtaken' = overtaken
        /\ \A q \in Pair : q # p => cmd'[q] = cmd[q]
        /\ ~overtaken => \A q \in Pair : q # p => cmd'[q].step = "idle"
    BY <1>13, SeedOthers DEF Tool!Step
  <2>2. QED
    BY <1>13, <2>1, SeedGoes, SeedCloses, NoneAssumption DEF Tool!Delete, SeedDrawn, Tool!SQL,
       Tool!Steps, Tool!TypeOK, Tool!redisVars
<1>14. ASSUME NEW p \in Pair, Tool!DeleteKeys(p) PROVE SeedDrawn'
  <2>1. /\ overtaken' = overtaken
        /\ \A q \in Pair : q # p => cmd'[q] = cmd[q]
        /\ ~overtaken => \A q \in Pair : q # p => cmd'[q].step = "idle"
    BY <1>14, SeedOthers DEF Tool!Step
  <2>2. /\ cmd[p].step = "delete_keys"
        /\ \/ Tool!Goto(p, "forget") /\ seq' = None /\ unread' = None
           \/ Tool!Close(p)
        /\ UNCHANGED <<state, stored, unseen>>
        /\ seq' \in {seq, None} /\ unread' \in {unread, None}
        /\ drawn' = IF seq' = None THEN 0 ELSE drawn
    BY <1>14, SeedPipelines, Zenon
  <2>3. QED
    BY <2>1, <2>2, SeedGoes, SeedCloses, NoneAssumption DEF SeedDrawn, Tool!Steps, Tool!TypeOK
<1>15. ASSUME NEW p \in Pair, Tool!Forget(p) PROVE SeedDrawn'
  <2>1. /\ overtaken' = overtaken
        /\ \A q \in Pair : q # p => cmd'[q] = cmd[q]
        /\ ~overtaken => \A q \in Pair : q # p => cmd'[q].step = "idle"
    BY <1>15, SeedOthers DEF Tool!Step
  <2>2. QED
    BY <1>15, <2>1, SeedGoes, SeedCloses, NoneAssumption DEF Tool!Forget, SeedDrawn, Tool!SQL,
       Tool!Steps, Tool!TypeOK, Tool!redisVars
<1>16. ASSUME NEW p \in Pair, Tool!Crash(p) PROVE SeedDrawn'
  <2>1. /\ overtaken' = overtaken
        /\ \A q \in Pair : q # p => cmd'[q] = cmd[q]
        /\ ~overtaken => \A q \in Pair : q # p => cmd'[q].step = "idle"
    BY <1>16, SeedOthers DEF Tool!Step
  <2>2. QED
    BY <1>16, <2>1, SeedGoes, SeedCloses, NoneAssumption DEF Tool!Crash, SeedDrawn, Tool!SQL,
       Tool!Steps, Tool!TypeOK, Tool!redisVars
<1>17. ASSUME NEW p \in Pair, Tool!LoseConnection(p) PROVE SeedDrawn'
  <2>1. /\ overtaken' = overtaken
        /\ \A q \in Pair : q # p => cmd'[q] = cmd[q]
        /\ ~overtaken => \A q \in Pair : q # p => cmd'[q].step = "idle"
    BY <1>17, SeedOthers DEF Tool!Step
  <2>2. QED
    BY <1>17, <2>1, SeedGoes, SeedCloses, NoneAssumption DEF Tool!LoseConnection, SeedDrawn,
       Tool!SQL, Tool!Steps, Tool!TypeOK, Tool!redisVars
<1>18. CASE UNCHANGED seedVars
  BY <1>18 DEF seedVars, SeedDrawn
<1>19. QED
  BY <1>1, <1>2, <1>3, <1>4, <1>5, <1>6, <1>7, <1>8, <1>9, <1>10, <1>11, <1>12, <1>13, <1>14,
     <1>15, <1>16, <1>17, <1>18 DEF Tool!Next, Tool!Step

(* The registry keeps telling where the rows and the command are.          *)
LEMMA SeedRowsPreserved ==
  Tool!TypeOK /\ SeedAlone /\ SeedRows /\ [Tool!Next]_seedVars => SeedRows'
<1> SUFFICES ASSUME Tool!TypeOK /\ SeedAlone /\ SeedRows, [Tool!Next]_seedVars PROVE SeedRows'
  OBVIOUS
<1>1. ASSUME Tool!Send PROVE SeedRows'
  <2>1. /\ UNCHANGED <<cmd, overtaken, state>> /\ (stored' = None <=> stored = None)
        /\ \A q \in Pair : cmd[q].step = "idle"
    <3>1. /\ UNCHANGED <<cmd, state>>
          /\ \A q \in Pair : cmd[q].step = "idle"
      BY <1>1 DEF Tool!Send, Tool!Running, Tool!Idle, Tool!sqlVars
    <3>2. stored' = None <=> stored = None
      <4> DEFINE n == (IF seq = None \/ seq < stored THEN stored ELSE seq) + 1
      <4>1. n \in Nat /\ stored # None
        BY <1>1, BoundsAssumption DEF Tool!Send, Tool!Running, Tool!TypeOK
      <4>2. stored' = stored \/ stored' = n
        BY <1>1, Zenon DEF Tool!Send
      <4> HIDE DEF n
      <4>3. QED
        BY <4>1, <4>2, NoneAssumption
    <3>3. UNCHANGED overtaken
      BY <1>1, Zenon DEF Tool!Send
    <3>4. QED
      BY <3>1, <3>2, <3>3, Zenon
  <2>2. QED
    BY <2>1 DEF SeedRows, SeedCounting
<1>2. ASSUME Tool!Read PROVE SeedRows'
  <2>1. /\ UNCHANGED <<cmd, overtaken, state>> /\ (stored' = None <=> stored = None)
        /\ \A q \in Pair : cmd[q].step = "idle"
    <3>1. /\ UNCHANGED <<cmd, state>>
          /\ \A q \in Pair : cmd[q].step = "idle"
      BY <1>2 DEF Tool!Read, Tool!Running, Tool!Idle, Tool!sqlVars
    <3>2. stored' = None <=> stored = None
      BY <1>2 DEF Tool!Read, Tool!sqlVars
    <3>3. UNCHANGED overtaken
      BY <1>2, Zenon DEF Tool!Read
    <3>4. QED
      BY <3>1, <3>2, <3>3, Zenon
  <2>2. QED
    BY <2>1 DEF SeedRows, SeedCounting
<1>3. ASSUME Tool!Settle PROVE SeedRows'
  <2>1. /\ UNCHANGED <<cmd, overtaken, state>> /\ (stored' = None <=> stored = None)
        /\ \A q \in Pair : cmd[q].step = "idle"
    <3>1. /\ UNCHANGED <<cmd, state>>
          /\ \A q \in Pair : cmd[q].step = "idle"
      BY <1>3 DEF Tool!Settle, Tool!Running, Tool!Idle, Tool!sqlVars
    <3>2. stored' = None <=> stored = None
      BY <1>3 DEF Tool!Settle, Tool!sqlVars
    <3>3. UNCHANGED overtaken
      BY <1>3, Zenon DEF Tool!Settle
    <3>4. QED
      BY <3>1, <3>2, <3>3, Zenon
  <2>2. QED
    BY <2>1 DEF SeedRows, SeedCounting
<1>4. ASSUME Tool!Relate PROVE SeedRows'
  <2>1. /\ UNCHANGED <<cmd, overtaken, state>> /\ (stored' = None <=> stored = None)
        /\ \A q \in Pair : cmd[q].step = "idle"
    <3>1. /\ UNCHANGED <<cmd, state>>
          /\ \A q \in Pair : cmd[q].step = "idle"
      BY <1>4 DEF Tool!Relate, Tool!Running, Tool!Idle, Tool!sqlVars
    <3>2. stored' = None <=> stored = None
      BY <1>4 DEF Tool!Relate, Tool!sqlVars
    <3>3. UNCHANGED overtaken
      BY <1>4, Zenon DEF Tool!Relate
    <3>4. QED
      BY <3>1, <3>2, <3>3, Zenon
  <2>2. QED
    BY <2>1 DEF SeedRows, SeedCounting
<1>5. ASSUME Tool!LoseKeys PROVE SeedRows'
  <2>1. /\ UNCHANGED <<state, stored, unseen, cmd>>
        /\ seq' \in {seq, None} /\ unread' \in {unread, None}
        /\ drawn' = IF seq' = None THEN 0 ELSE drawn
    BY <1>5, SeedLoses, Zenon
  <2>2. UNCHANGED overtaken /\ touched'
    BY <1>5, SeedLoses, Zenon
  <2>3. QED
    BY <2>1, <2>2 DEF SeedRows
<1>6. ASSUME NEW p \in Pair, NEW k \in Tool!Kinds, Tool!Open(p, k) PROVE SeedRows'
  <2>1. /\ k \notin SeedCounting \cup {"delete", "delete_keys", "forget"}
        /\ cmd' = [cmd EXCEPT ![p].step = k, ![p].connected = TRUE]
        /\ UNCHANGED <<state, stored, unseen, seq, unread, cached, drawn, touched>>
        /\ ~overtaken' => ~overtaken
    <3>1. /\ k \notin SeedCounting \cup {"delete", "delete_keys", "forget"}
          /\ cmd' = [cmd EXCEPT ![p].step = k, ![p].connected = TRUE]
          /\ UNCHANGED <<state, stored, unseen, seq, unread, drawn>>
      BY <1>6 DEF Tool!Open, Tool!Kinds, SeedCounting, Tool!sqlVars, Tool!redisVars
    <3>2. UNCHANGED <<cached, touched>> /\ (~overtaken' => ~overtaken)
      BY <1>6, Zenon DEF Tool!Open, Tool!redisVars
    <3>3. QED
      BY <3>1, <3>2, Zenon
  <2>2. cmd'[p].step = k /\ \A q \in Pair : q # p => cmd'[q] = cmd[q]
    BY <2>1 DEF Tool!TypeOK
  <2>3. QED
    BY <2>1, <2>2 DEF SeedRows, SeedCounting
<1>7. ASSUME NEW p \in Pair, Tool!Load(p) PROVE SeedRows'
  <2>1. /\ overtaken' = overtaken
        /\ \A q \in Pair : q # p => cmd'[q] = cmd[q]
        /\ ~overtaken => \A q \in Pair : q # p => cmd'[q].step = "idle"
    BY <1>7, SeedOthers DEF Tool!Step
  <2>2. QED
    BY <1>7, <2>1, SeedGoes, SeedCloses, NoneAssumption DEF Tool!Load, SeedRows, Tool!SQL,
       Tool!Steps, SeedCounting, Tool!TypeOK, Tool!sqlVars, Tool!AfterLoad
<1>8. ASSUME NEW p \in Pair, Tool!Insert(p) PROVE SeedRows'
  <2>1. /\ overtaken' = overtaken
        /\ \A q \in Pair : q # p => cmd'[q] = cmd[q]
        /\ ~overtaken => \A q \in Pair : q # p => cmd'[q].step = "idle"
    BY <1>8, SeedOthers DEF Tool!Step
  <2>2. QED
    BY <1>8, <2>1, SeedGoes, SeedCloses, NoneAssumption, BoundsAssumption DEF Tool!Insert,
       SeedRows, Tool!SQL, Tool!Steps, SeedCounting, Tool!TypeOK, Tool!sqlVars
<1>9. ASSUME NEW p \in Pair, Tool!Mark(p) PROVE SeedRows'
  <2>1. /\ overtaken' = overtaken
        /\ \A q \in Pair : q # p => cmd'[q] = cmd[q]
        /\ ~overtaken => \A q \in Pair : q # p => cmd'[q].step = "idle"
    BY <1>9, SeedOthers DEF Tool!Step
  <2>2. QED
    BY <1>9, <2>1, SeedGoes, SeedCloses, NoneAssumption DEF Tool!Mark, SeedRows, Tool!SQL,
       Tool!Steps, SeedCounting, Tool!TypeOK, Tool!sqlVars, Tool!SetState
<1>10. ASSUME NEW p \in Pair, Tool!Count(p) PROVE SeedRows'
  <2>1. /\ overtaken' = overtaken
        /\ \A q \in Pair : q # p => cmd'[q] = cmd[q]
        /\ ~overtaken => \A q \in Pair : q # p => cmd'[q].step = "idle"
    BY <1>10, SeedOthers DEF Tool!Step
  <2>2. QED
    BY <1>10, <2>1, SeedGoes, SeedCloses, NoneAssumption DEF Tool!Count, SeedRows, Tool!SQL,
       Tool!Steps, SeedCounting, Tool!TypeOK, Tool!sqlVars
<1>11. ASSUME NEW p \in Pair, Tool!Write(p) PROVE SeedRows'
  <2>1. /\ overtaken' = overtaken
        /\ \A q \in Pair : q # p => cmd'[q] = cmd[q]
        /\ ~overtaken => \A q \in Pair : q # p => cmd'[q].step = "idle"
    BY <1>11, SeedOthers DEF Tool!Step
  <2>2. /\ cmd[p].step = "write"
        /\ Tool!Goto(p, "drop_members") \/ Tool!Close(p)
        /\ UNCHANGED <<state, stored, unseen, drawn>>
        /\ Tool!syncSequence(cmd[p].seq) \/ UNCHANGED seq
    BY <1>11, SeedPipelines, Zenon
  <2>3. QED
    BY <2>1, <2>2, SeedGoes, SeedCloses, NoneAssumption DEF SeedRows, Tool!Steps,
       SeedCounting, Tool!TypeOK
<1>12. ASSUME NEW p \in Pair, Tool!DropMembers(p) PROVE SeedRows'
  <2>1. /\ overtaken' = overtaken
        /\ \A q \in Pair : q # p => cmd'[q] = cmd[q]
        /\ ~overtaken => \A q \in Pair : q # p => cmd'[q].step = "idle"
    BY <1>12, SeedOthers DEF Tool!Step
  <2>2. /\ cmd[p].step = "drop_members"
        /\ Tool!Goto(p, "verify") \/ Tool!Close(p)
        /\ UNCHANGED <<state, stored, unseen, seq, unread, drawn>>
    BY <1>12, SeedPipelines, Zenon
  <2>3. QED
    BY <2>1, <2>2, SeedGoes, SeedCloses, NoneAssumption DEF SeedRows, Tool!Steps,
       SeedCounting, Tool!TypeOK
<1>13. ASSUME NEW p \in Pair, Tool!VerifyCounters(p) PROVE SeedRows'
  <2>1. /\ overtaken' = overtaken
        /\ \A q \in Pair : q # p => cmd'[q] = cmd[q]
        /\ ~overtaken => \A q \in Pair : q # p => cmd'[q].step = "idle"
    BY <1>13, SeedOthers DEF Tool!Step
  <2>2. QED
    BY <1>13, <2>1, SeedGoes, SeedCloses, NoneAssumption DEF Tool!VerifyCounters, SeedRows,
       Tool!SQL, Tool!Steps, SeedCounting, Tool!TypeOK, Tool!sqlVars
<1>14. ASSUME NEW p \in Pair, Tool!MarkReady(p) PROVE SeedRows'
  <2>1. /\ overtaken' = overtaken
        /\ \A q \in Pair : q # p => cmd'[q] = cmd[q]
        /\ ~overtaken => \A q \in Pair : q # p => cmd'[q].step = "idle"
    BY <1>14, SeedOthers DEF Tool!Step
  <2>2. QED
    BY <1>14, <2>1, SeedGoes, SeedCloses, NoneAssumption DEF Tool!MarkReady, SeedRows, Tool!SQL,
       Tool!Steps, SeedCounting, Tool!TypeOK, Tool!sqlVars, Tool!SetState
<1>15. ASSUME NEW p \in Pair, Tool!Delete(p) PROVE SeedRows'
  <2>1. /\ overtaken' = overtaken
        /\ \A q \in Pair : q # p => cmd'[q] = cmd[q]
        /\ ~overtaken => \A q \in Pair : q # p => cmd'[q].step = "idle"
    BY <1>15, SeedOthers DEF Tool!Step
  <2>2. QED
    BY <1>15, <2>1, SeedGoes, SeedCloses, NoneAssumption DEF Tool!Delete, SeedRows, Tool!SQL,
       Tool!Steps, SeedCounting, Tool!TypeOK, Tool!sqlVars
<1>16. ASSUME NEW p \in Pair, Tool!DeleteKeys(p) PROVE SeedRows'
  <2>1. /\ overtaken' = overtaken
        /\ \A q \in Pair : q # p => cmd'[q] = cmd[q]
        /\ ~overtaken => \A q \in Pair : q # p => cmd'[q].step = "idle"
    BY <1>16, SeedOthers DEF Tool!Step
  <2>2. /\ cmd[p].step = "delete_keys"
        /\ \/ Tool!Goto(p, "forget") /\ seq' = None /\ unread' = None
           \/ Tool!Close(p)
        /\ UNCHANGED <<state, stored, unseen>>
        /\ seq' \in {seq, None} /\ unread' \in {unread, None}
        /\ drawn' = IF seq' = None THEN 0 ELSE drawn
    BY <1>16, SeedPipelines, Zenon
  <2>3. QED
    BY <2>1, <2>2, SeedGoes, SeedCloses, NoneAssumption DEF SeedRows, Tool!Steps,
       SeedCounting, Tool!TypeOK
<1>17. ASSUME NEW p \in Pair, Tool!Forget(p) PROVE SeedRows'
  <2>1. /\ overtaken' = overtaken
        /\ \A q \in Pair : q # p => cmd'[q] = cmd[q]
        /\ ~overtaken => \A q \in Pair : q # p => cmd'[q].step = "idle"
    BY <1>17, SeedOthers DEF Tool!Step
  <2>2. QED
    BY <1>17, <2>1, SeedGoes, SeedCloses, NoneAssumption DEF Tool!Forget, SeedRows, Tool!SQL,
       Tool!Steps, SeedCounting, Tool!TypeOK, Tool!sqlVars
<1>18. ASSUME NEW p \in Pair, Tool!Crash(p) PROVE SeedRows'
  <2>1. /\ overtaken' = overtaken
        /\ \A q \in Pair : q # p => cmd'[q] = cmd[q]
        /\ ~overtaken => \A q \in Pair : q # p => cmd'[q].step = "idle"
    BY <1>18, SeedOthers DEF Tool!Step
  <2>2. QED
    BY <1>18, <2>1, SeedGoes, SeedCloses, NoneAssumption DEF Tool!Crash, SeedRows, Tool!SQL,
       Tool!Steps, SeedCounting, Tool!TypeOK, Tool!sqlVars
<1>19. ASSUME NEW p \in Pair, Tool!LoseConnection(p) PROVE SeedRows'
  <2>1. /\ overtaken' = overtaken
        /\ \A q \in Pair : q # p => cmd'[q] = cmd[q]
        /\ ~overtaken => \A q \in Pair : q # p => cmd'[q].step = "idle"
    BY <1>19, SeedOthers DEF Tool!Step
  <2>2. QED
    BY <1>19, <2>1, SeedGoes, SeedCloses, NoneAssumption DEF Tool!LoseConnection, SeedRows,
       Tool!SQL, Tool!Steps, SeedCounting, Tool!TypeOK, Tool!sqlVars
<1>20. CASE UNCHANGED seedVars
  BY <1>20 DEF seedVars, SeedRows
<1>21. QED
  BY <1>1, <1>2, <1>3, <1>4, <1>5, <1>6, <1>7, <1>8, <1>9, <1>10, <1>11, <1>12, <1>13, <1>14,
     <1>15, <1>16, <1>17, <1>18, <1>19, <1>20 DEF Tool!Next, Tool!Step

(* The keys of a dataset that is gone, or about to, stay away.             *)
LEMMA SeedCleanPreserved ==
  Tool!TypeOK /\ SeedAlone /\ SeedRows /\ SeedClean /\ [Tool!Next]_seedVars => SeedClean'
<1> SUFFICES ASSUME Tool!TypeOK /\ SeedAlone /\ SeedRows /\ SeedClean, [Tool!Next]_seedVars
             PROVE SeedClean'
  OBVIOUS
<1>1. ASSUME Tool!Send PROVE SeedClean'
  <2>1. ~overtaken => stored # None /\ state' = state /\ ~SeedGone
    BY <1>1, NoneAssumption DEF Tool!Send, Tool!Running, Tool!Idle, Tool!sqlVars, SeedRows,
       SeedGone
  <2>2. UNCHANGED <<cmd, state>>
    BY <1>1 DEF Tool!Send, Tool!sqlVars
  <2>3. UNCHANGED overtaken
    BY <1>1, Zenon DEF Tool!Send
  <2>4. SeedGone' => SeedGone
    BY <2>2 DEF SeedGone
  <2>9. QED
    BY <2>1, <2>3, <2>4, Zenon DEF SeedClean
<1>2. ASSUME Tool!Read PROVE SeedClean'
  <2>1. ~overtaken => stored # None /\ state' = state /\ ~SeedGone
    BY <1>2, NoneAssumption DEF Tool!Read, Tool!Running, Tool!Idle, Tool!sqlVars, SeedRows,
       SeedGone
  <2>2. UNCHANGED <<cmd, state>>
    BY <1>2 DEF Tool!Read, Tool!sqlVars
  <2>3. UNCHANGED overtaken
    BY <1>2, Zenon DEF Tool!Read
  <2>4. SeedGone' => SeedGone
    BY <2>2 DEF SeedGone
  <2>9. QED
    BY <2>1, <2>3, <2>4, Zenon DEF SeedClean
<1>3. ASSUME Tool!Settle PROVE SeedClean'
  <2>1. ~overtaken => stored # None /\ state' = state /\ ~SeedGone
    BY <1>3, NoneAssumption DEF Tool!Settle, Tool!Running, Tool!Idle, Tool!sqlVars, SeedRows,
       SeedGone
  <2>2. UNCHANGED <<cmd, state>>
    BY <1>3 DEF Tool!Settle, Tool!sqlVars
  <2>3. UNCHANGED overtaken
    BY <1>3, Zenon DEF Tool!Settle
  <2>4. SeedGone' => SeedGone
    BY <2>2 DEF SeedGone
  <2>9. QED
    BY <2>1, <2>3, <2>4, Zenon DEF SeedClean
<1>4. ASSUME Tool!Relate PROVE SeedClean'
  <2>1. ~overtaken => stored # None /\ state' = state /\ ~SeedGone
    BY <1>4, NoneAssumption DEF Tool!Relate, Tool!Running, Tool!Idle, Tool!sqlVars, SeedRows,
       SeedGone
  <2>2. UNCHANGED <<cmd, state>>
    BY <1>4 DEF Tool!Relate, Tool!sqlVars
  <2>3. UNCHANGED overtaken
    BY <1>4, Zenon DEF Tool!Relate
  <2>4. SeedGone' => SeedGone
    BY <2>2 DEF SeedGone
  <2>9. QED
    BY <2>1, <2>3, <2>4, Zenon DEF SeedClean
<1>5. ASSUME Tool!LoseKeys PROVE SeedClean'
  <2>1. UNCHANGED <<state, cmd>>
    BY <1>5, SeedLoses, Zenon
  <2>2. SeedGone' => SeedGone
    BY <2>1 DEF SeedGone
  <2>3. seq' \in {seq, None} /\ unread' \in {unread, None}
    BY <1>5, SeedLoses, Zenon
  <2>4. UNCHANGED overtaken /\ (~cached => ~cached')
    BY <1>5, SeedLoses, Zenon
  <2>5. seq = None /\ unread = None => seq' = None /\ unread' = None
    BY <2>3
  <2>6. SeedKeysGone => SeedKeysGone'
    BY <2>4, <2>5, Zenon DEF SeedKeysGone
  <2>9. QED
    BY <2>2, <2>4, <2>6, Zenon DEF SeedClean
<1>6. ASSUME NEW p \in Pair, NEW k \in Tool!Kinds, Tool!Open(p, k) PROVE SeedClean'
  <2>1. /\ k \notin SeedCounting \cup {"delete", "delete_keys", "forget"}
        /\ cmd' = [cmd EXCEPT ![p].step = k, ![p].connected = TRUE]
        /\ UNCHANGED <<state, stored, unseen, seq, unread, cached, drawn, touched>>
        /\ ~overtaken' => ~overtaken
    <3>1. /\ k \notin SeedCounting \cup {"delete", "delete_keys", "forget"}
          /\ cmd' = [cmd EXCEPT ![p].step = k, ![p].connected = TRUE]
          /\ UNCHANGED <<state, stored, unseen, seq, unread, drawn>>
      BY <1>6 DEF Tool!Open, Tool!Kinds, SeedCounting, Tool!sqlVars, Tool!redisVars
    <3>2. UNCHANGED <<cached, touched>> /\ (~overtaken' => ~overtaken)
      BY <1>6, Zenon DEF Tool!Open, Tool!redisVars
    <3>3. QED
      BY <3>1, <3>2, Zenon
  <2>2. cmd'[p].step = k /\ \A q \in Pair : q # p => cmd'[q] = cmd[q]
    BY <2>1 DEF Tool!TypeOK
  <2>3. SeedGone' => SeedGone
    BY <2>1, <2>2 DEF SeedGone
  <2>4. (SeedKeysGone => SeedKeysGone') /\ (~overtaken' => ~overtaken)
    BY <2>1, Zenon DEF SeedKeysGone
  <2>9. QED
    BY <2>3, <2>4, Zenon DEF SeedClean
<1>7. ASSUME NEW p \in Pair, Tool!Load(p) PROVE SeedClean'
  <2>1. /\ overtaken' = overtaken
        /\ \A q \in Pair : q # p => cmd'[q] = cmd[q]
        /\ ~overtaken => \A q \in Pair : q # p => cmd'[q].step = "idle"
    BY <1>7, SeedOthers DEF Tool!Step
  <2>2. ~overtaken => (SeedGone' => SeedGone)
    BY <1>7, <2>1, SeedGoes, SeedCloses DEF Tool!Load, SeedGone, Tool!SQL, Tool!Steps,
       Tool!AfterLoad, Tool!sqlVars
  <2>3. SeedKeysGone => SeedKeysGone'
    BY <1>7, Zenon DEF Tool!Load, Tool!redisVars, SeedKeysGone
  <2>9. QED
    BY <2>1, <2>2, <2>3, Zenon DEF SeedClean
<1>8. ASSUME NEW p \in Pair, Tool!Insert(p) PROVE SeedClean'
  <2>1. /\ overtaken' = overtaken
        /\ \A q \in Pair : q # p => cmd'[q] = cmd[q]
        /\ ~overtaken => \A q \in Pair : q # p => cmd'[q].step = "idle"
    BY <1>8, SeedOthers DEF Tool!Step
  <2>2. ~overtaken => (SeedGone' => SeedGone)
    BY <1>8, <2>1, SeedGoes, SeedCloses, NoneAssumption DEF Tool!Insert, SeedGone, Tool!SQL,
       Tool!Steps, Tool!sqlVars
  <2>3. SeedKeysGone => SeedKeysGone'
    BY <1>8, Zenon DEF Tool!Insert, Tool!redisVars, SeedKeysGone
  <2>9. QED
    BY <2>1, <2>2, <2>3, Zenon DEF SeedClean
<1>9. ASSUME NEW p \in Pair, Tool!Mark(p) PROVE SeedClean'
  <2>1. /\ overtaken' = overtaken
        /\ \A q \in Pair : q # p => cmd'[q] = cmd[q]
        /\ ~overtaken => \A q \in Pair : q # p => cmd'[q].step = "idle"
    BY <1>9, SeedOthers DEF Tool!Step
  <2>2. ~overtaken => (SeedGone' => SeedGone)
    BY <1>9, <2>1, SeedGoes, SeedCloses, NoneAssumption DEF Tool!Mark, SeedGone, Tool!SQL,
       Tool!Steps, Tool!SetState, Tool!sqlVars
  <2>3. SeedKeysGone => SeedKeysGone'
    BY <1>9, Zenon DEF Tool!Mark, Tool!redisVars, SeedKeysGone
  <2>9. QED
    BY <2>1, <2>2, <2>3, Zenon DEF SeedClean
<1>10. ASSUME NEW p \in Pair, Tool!Count(p) PROVE SeedClean'
  <2>1. /\ overtaken' = overtaken
        /\ \A q \in Pair : q # p => cmd'[q] = cmd[q]
        /\ ~overtaken => \A q \in Pair : q # p => cmd'[q].step = "idle"
    BY <1>10, SeedOthers DEF Tool!Step
  <2>2. ~overtaken => (SeedGone' => SeedGone)
    BY <1>10, <2>1, SeedGoes, SeedCloses DEF Tool!Count, SeedGone, Tool!SQL, Tool!Steps,
       Tool!TypeOK, Tool!sqlVars
  <2>3. SeedKeysGone => SeedKeysGone'
    BY <1>10, Zenon DEF Tool!Count, Tool!redisVars, SeedKeysGone
  <2>9. QED
    BY <2>1, <2>2, <2>3, Zenon DEF SeedClean
<1>11. ASSUME NEW p \in Pair, Tool!Write(p) PROVE SeedClean'
  <2>1. /\ overtaken' = overtaken
        /\ \A q \in Pair : q # p => cmd'[q] = cmd[q]
        /\ ~overtaken => \A q \in Pair : q # p => cmd'[q].step = "idle"
    BY <1>11, SeedOthers DEF Tool!Step
  <2>2. /\ cmd[p].step = "write"
        /\ Tool!Goto(p, "drop_members") \/ Tool!Close(p)
        /\ UNCHANGED <<state, stored, unseen, drawn>>
        /\ Tool!syncSequence(cmd[p].seq) \/ UNCHANGED seq
    BY <1>11, SeedPipelines, Zenon
  <2>3. ~overtaken => ~SeedGone'
    BY <2>1, <2>2, SeedGoes, SeedCloses, NoneAssumption DEF SeedRows, SeedCounting, SeedGone,
       Tool!Steps
  <2>9. QED
    BY <2>1, <2>3, Zenon DEF SeedClean
<1>12. ASSUME NEW p \in Pair, Tool!DropMembers(p) PROVE SeedClean'
  <2>1. /\ overtaken' = overtaken
        /\ \A q \in Pair : q # p => cmd'[q] = cmd[q]
        /\ ~overtaken => \A q \in Pair : q # p => cmd'[q].step = "idle"
    BY <1>12, SeedOthers DEF Tool!Step
  <2>2. /\ cmd[p].step = "drop_members"
        /\ Tool!Goto(p, "verify") \/ Tool!Close(p)
        /\ UNCHANGED <<state, stored, unseen, seq, unread, drawn>>
    BY <1>12, SeedPipelines, Zenon
  <2>3. ~overtaken => (SeedGone' => SeedGone)
    BY <2>1, <2>2, SeedGoes, SeedCloses DEF SeedGone, Tool!Steps
  <2>4. ~cached => ~cached'
    BY <1>12, SeedPipelines, Zenon
  <2>5. SeedKeysGone => SeedKeysGone'
    BY <2>2, <2>4, Zenon DEF SeedKeysGone
  <2>9. QED
    BY <2>1, <2>3, <2>5, Zenon DEF SeedClean
<1>13. ASSUME NEW p \in Pair, Tool!VerifyCounters(p) PROVE SeedClean'
  <2>1. /\ overtaken' = overtaken
        /\ \A q \in Pair : q # p => cmd'[q] = cmd[q]
        /\ ~overtaken => \A q \in Pair : q # p => cmd'[q].step = "idle"
    BY <1>13, SeedOthers DEF Tool!Step
  <2>2. ~overtaken => (SeedGone' => SeedGone)
    BY <1>13, <2>1, SeedGoes, SeedCloses DEF Tool!VerifyCounters, SeedGone, Tool!SQL, Tool!Steps,
       Tool!sqlVars
  <2>3. SeedKeysGone => SeedKeysGone'
    BY <1>13, Zenon DEF Tool!VerifyCounters, Tool!redisVars, SeedKeysGone
  <2>9. QED
    BY <2>1, <2>2, <2>3, Zenon DEF SeedClean
<1>14. ASSUME NEW p \in Pair, Tool!MarkReady(p) PROVE SeedClean'
  <2>1. /\ overtaken' = overtaken
        /\ \A q \in Pair : q # p => cmd'[q] = cmd[q]
        /\ ~overtaken => \A q \in Pair : q # p => cmd'[q].step = "idle"
    BY <1>14, SeedOthers DEF Tool!Step
  <2>2. ~overtaken => (SeedGone' => SeedGone)
    BY <1>14, <2>1, SeedGoes, SeedCloses, NoneAssumption DEF Tool!MarkReady, SeedGone, Tool!SQL,
       Tool!Steps, Tool!SetState, Tool!sqlVars
  <2>3. SeedKeysGone => SeedKeysGone'
    BY <1>14, Zenon DEF Tool!MarkReady, Tool!redisVars, SeedKeysGone
  <2>9. QED
    BY <2>1, <2>2, <2>3, Zenon DEF SeedClean
<1>15. ASSUME NEW p \in Pair, Tool!Delete(p) PROVE SeedClean'
  <2>1. /\ overtaken' = overtaken
        /\ \A q \in Pair : q # p => cmd'[q] = cmd[q]
        /\ ~overtaken => \A q \in Pair : q # p => cmd'[q].step = "idle"
    BY <1>15, SeedOthers DEF Tool!Step
  <2>2. ~overtaken => (SeedGone' => SeedGone)
    BY <1>15, <2>1, SeedGoes, SeedCloses, NoneAssumption DEF Tool!Delete, SeedGone, Tool!SQL,
       Tool!Steps, Tool!sqlVars, SeedRows, SeedCounting
  <2>3. SeedKeysGone => SeedKeysGone'
    BY <1>15, Zenon DEF Tool!Delete, Tool!redisVars, SeedKeysGone
  <2>9. QED
    BY <2>1, <2>2, <2>3, Zenon DEF SeedClean
<1>16. ASSUME NEW p \in Pair, Tool!DeleteKeys(p) PROVE SeedClean'
  <2>1. /\ overtaken' = overtaken
        /\ \A q \in Pair : q # p => cmd'[q] = cmd[q]
        /\ ~overtaken => \A q \in Pair : q # p => cmd'[q].step = "idle"
    BY <1>16, SeedOthers DEF Tool!Step
  <2>2. /\ \/ Tool!Goto(p, "forget") /\ seq' = None /\ unread' = None /\ ~cached'
           \/ Tool!Close(p)
        /\ state' = state /\ (~cached => ~cached')
        /\ seq' \in {seq, None} /\ unread' \in {unread, None}
    BY <1>16, SeedPipelines, Zenon
  <2>3. seq = None /\ unread = None => seq' = None /\ unread' = None
    BY <2>2
  <2>4. (SeedKeysGone => SeedKeysGone') /\ (Tool!Goto(p, "forget") =>
      SeedKeysGone' \/ Tool!Close(p))
    BY <2>2, <2>3, Zenon DEF SeedKeysGone
  <2>5. state' = state
    BY <2>2, Zenon
  <2>6. ~overtaken /\ Tool!Close(p) => (SeedGone' => SeedGone)
    BY <2>1, <2>5, SeedCloses DEF SeedGone
  <2>7. Tool!Goto(p, "forget") \/ Tool!Close(p)
    BY <2>2, Zenon
  <2>9. QED
    BY <2>1, <2>4, <2>6, <2>7, Zenon DEF SeedClean
<1>17. ASSUME NEW p \in Pair, Tool!Forget(p) PROVE SeedClean'
  <2>1. /\ overtaken' = overtaken
        /\ \A q \in Pair : q # p => cmd'[q] = cmd[q]
        /\ ~overtaken => \A q \in Pair : q # p => cmd'[q].step = "idle"
    BY <1>17, SeedOthers DEF Tool!Step
  <2>2. ~overtaken => (SeedGone' => SeedGone)
    BY <1>17, <2>1, SeedGoes, SeedCloses DEF Tool!Forget, SeedGone, Tool!SQL, Tool!Steps,
       Tool!sqlVars
  <2>3. SeedKeysGone => SeedKeysGone'
    BY <1>17, Zenon DEF Tool!Forget, Tool!redisVars, SeedKeysGone
  <2>9. QED
    BY <2>1, <2>2, <2>3, Zenon DEF SeedClean
<1>18. ASSUME NEW p \in Pair, Tool!Crash(p) PROVE SeedClean'
  <2>1. /\ overtaken' = overtaken
        /\ \A q \in Pair : q # p => cmd'[q] = cmd[q]
        /\ ~overtaken => \A q \in Pair : q # p => cmd'[q].step = "idle"
    BY <1>18, SeedOthers DEF Tool!Step
  <2>2. ~overtaken => (SeedGone' => SeedGone)
    BY <1>18, <2>1, SeedGoes, SeedCloses DEF Tool!Crash, SeedGone, Tool!SQL, Tool!Steps,
       Tool!sqlVars
  <2>3. SeedKeysGone => SeedKeysGone'
    BY <1>18, Zenon DEF Tool!Crash, Tool!redisVars, SeedKeysGone
  <2>9. QED
    BY <2>1, <2>2, <2>3, Zenon DEF SeedClean
<1>19. ASSUME NEW p \in Pair, Tool!LoseConnection(p) PROVE SeedClean'
  <2>1. /\ overtaken' = overtaken
        /\ \A q \in Pair : q # p => cmd'[q] = cmd[q]
        /\ ~overtaken => \A q \in Pair : q # p => cmd'[q].step = "idle"
    BY <1>19, SeedOthers DEF Tool!Step
  <2>2. ~overtaken => (SeedGone' => SeedGone)
    BY <1>19, <2>1, SeedGoes, SeedCloses DEF Tool!LoseConnection, SeedGone, Tool!SQL, Tool!Steps,
       Tool!TypeOK, Tool!sqlVars
  <2>3. SeedKeysGone => SeedKeysGone'
    BY <1>19, Zenon DEF Tool!LoseConnection, Tool!redisVars, SeedKeysGone
  <2>9. QED
    BY <2>1, <2>2, <2>3, Zenon DEF SeedClean
<1>20. CASE UNCHANGED seedVars
  BY <1>20 DEF seedVars, SeedClean, SeedGone, SeedKeysGone
<1>21. QED
  BY <1>1, <1>2, <1>3, <1>4, <1>5, <1>6, <1>7, <1>8, <1>9, <1>10, <1>11, <1>12, <1>13, <1>14,
     <1>15, <1>16, <1>17, <1>18, <1>19, <1>20 DEF Tool!Next, Tool!Step

(* The counters of a dataset that is ready stay those of its rows.         *)
LEMMA SeedVerifiedPreserved ==
  Tool!TypeOK /\ SeedAlone /\ SeedRows /\ SeedVerified /\ [Tool!Next]_seedVars => SeedVerified'
<1> SUFFICES ASSUME Tool!TypeOK /\ SeedAlone /\ SeedRows /\ SeedVerified, [Tool!Next]_seedVars
             PROVE SeedVerified'
  OBVIOUS
<1>1. ASSUME Tool!Send \/ Tool!Read PROVE SeedVerified'
  <2>1. touched'
    BY <1>1, Zenon DEF Tool!Send, Tool!Read
  <2>9. QED
    BY <2>1, Zenon DEF SeedVerified
<1>2. ASSUME Tool!LoseKeys PROVE SeedVerified'
  <2>1. touched'
    BY <1>2, SeedLoses, Zenon
  <2>9. QED
    BY <2>1, Zenon DEF SeedVerified
<1>3. ASSUME Tool!Settle \/ Tool!Relate PROVE SeedVerified'
  <2>1. UNCHANGED <<state, stored, unseen, seq, unread, cmd>>
    BY <1>3 DEF Tool!Settle, Tool!Relate, Tool!sqlVars, Tool!redisVars
  <2>2. UNCHANGED <<touched, overtaken>>
    BY <1>3, Zenon DEF Tool!Settle, Tool!Relate
  <2>3. (SeedReady' => SeedReady) /\ (SeedCounted => SeedCounted')
    BY <2>1 DEF SeedReady, SeedCounted
  <2>9. QED
    BY <2>2, <2>3, Zenon DEF SeedVerified
<1>4. ASSUME NEW p \in Pair, NEW k \in Tool!Kinds, Tool!Open(p, k) PROVE SeedVerified'
  <2>1. /\ k \notin SeedCounting \cup {"delete", "delete_keys", "forget"}
        /\ cmd' = [cmd EXCEPT ![p].step = k, ![p].connected = TRUE]
        /\ UNCHANGED <<state, stored, unseen, seq, unread, cached, drawn, touched>>
        /\ ~overtaken' => ~overtaken
    <3>1. /\ k \notin SeedCounting \cup {"delete", "delete_keys", "forget"}
          /\ cmd' = [cmd EXCEPT ![p].step = k, ![p].connected = TRUE]
          /\ UNCHANGED <<state, stored, unseen, seq, unread, drawn>>
      BY <1>4 DEF Tool!Open, Tool!Kinds, SeedCounting, Tool!sqlVars, Tool!redisVars
    <3>2. UNCHANGED <<cached, touched>> /\ (~overtaken' => ~overtaken)
      BY <1>4, Zenon DEF Tool!Open, Tool!redisVars
    <3>3. QED
      BY <3>1, <3>2, Zenon
  <2>2. cmd'[p].step = k /\ \A q \in Pair : q # p => cmd'[q] = cmd[q]
    BY <2>1 DEF Tool!TypeOK
  <2>3. (SeedReady' => SeedReady) /\ (SeedCounted => SeedCounted')
    BY <2>1, <2>2 DEF SeedReady, SeedCounted, SeedCounting
  <2>4. UNCHANGED touched /\ (~overtaken' => ~overtaken)
    BY <2>1, Zenon
  <2>9. QED
    BY <2>3, <2>4, Zenon DEF SeedVerified
<1>5. ASSUME NEW p \in Pair, Tool!Load(p) PROVE SeedVerified'
  <2>1. /\ overtaken' = overtaken
        /\ \A q \in Pair : q # p => cmd'[q] = cmd[q]
        /\ ~overtaken => \A q \in Pair : q # p => cmd'[q].step = "idle"
    BY <1>5, SeedOthers DEF Tool!Step
  <2>3. ~overtaken /\ SeedReady' => (SeedReady /\ (SeedCounted => SeedCounted')) \/ SeedCounted'
    BY <1>5, <2>1, SeedGoes, SeedCloses, NoneAssumption DEF Tool!Load, Tool!SQL, Tool!sqlVars,
       Tool!redisVars, Tool!AfterLoad, SeedReady, SeedCounted, SeedRows, SeedCounting,
       Tool!Steps
  <2>4. UNCHANGED touched
    BY <1>5, Zenon DEF Tool!Load
  <2>9. QED
    BY <2>1, <2>3, <2>4, Zenon DEF SeedVerified
<1>6. ASSUME NEW p \in Pair, Tool!Insert(p) PROVE SeedVerified'
  <2>1. /\ overtaken' = overtaken
        /\ \A q \in Pair : q # p => cmd'[q] = cmd[q]
        /\ ~overtaken => \A q \in Pair : q # p => cmd'[q].step = "idle"
    BY <1>6, SeedOthers DEF Tool!Step
  <2>3. ~overtaken /\ SeedReady' => (SeedReady /\ (SeedCounted => SeedCounted')) \/ SeedCounted'
    BY <1>6, <2>1, SeedGoes, SeedCloses, NoneAssumption DEF Tool!Insert, Tool!SQL, Tool!sqlVars,
       Tool!redisVars, SeedReady, SeedCounted, SeedRows, SeedCounting, Tool!Steps
  <2>4. UNCHANGED touched
    BY <1>6, Zenon DEF Tool!Insert
  <2>9. QED
    BY <2>1, <2>3, <2>4, Zenon DEF SeedVerified
<1>7. ASSUME NEW p \in Pair, Tool!Mark(p) PROVE SeedVerified'
  <2>1. /\ overtaken' = overtaken
        /\ \A q \in Pair : q # p => cmd'[q] = cmd[q]
        /\ ~overtaken => \A q \in Pair : q # p => cmd'[q].step = "idle"
    BY <1>7, SeedOthers DEF Tool!Step
  <2>3. ~overtaken /\ SeedReady' => (SeedReady /\ (SeedCounted => SeedCounted')) \/ SeedCounted'
    BY <1>7, <2>1, SeedGoes, SeedCloses, NoneAssumption DEF Tool!Mark, Tool!SQL, Tool!sqlVars,
       Tool!redisVars, Tool!SetState, SeedReady, SeedCounted, SeedRows, SeedCounting,
       Tool!Steps
  <2>4. UNCHANGED touched
    BY <1>7, Zenon DEF Tool!Mark
  <2>9. QED
    BY <2>1, <2>3, <2>4, Zenon DEF SeedVerified
<1>8. ASSUME NEW p \in Pair, Tool!Count(p) PROVE SeedVerified'
  <2>1. /\ overtaken' = overtaken
        /\ \A q \in Pair : q # p => cmd'[q] = cmd[q]
        /\ ~overtaken => \A q \in Pair : q # p => cmd'[q].step = "idle"
    BY <1>8, SeedOthers DEF Tool!Step
  <2>3. ~overtaken /\ SeedReady' => (SeedReady /\ (SeedCounted => SeedCounted')) \/ SeedCounted'
    BY <1>8, <2>1, SeedGoes, SeedCloses, NoneAssumption DEF Tool!Count, Tool!SQL, Tool!sqlVars,
       Tool!redisVars, Tool!TypeOK, SeedReady, SeedCounted, SeedRows, SeedCounting, Tool!Steps
  <2>4. UNCHANGED touched
    BY <1>8, Zenon DEF Tool!Count
  <2>9. QED
    BY <2>1, <2>3, <2>4, Zenon DEF SeedVerified
<1>9. ASSUME NEW p \in Pair, Tool!Write(p) PROVE SeedVerified'
  <2>1. /\ overtaken' = overtaken
        /\ \A q \in Pair : q # p => cmd'[q] = cmd[q]
        /\ ~overtaken => \A q \in Pair : q # p => cmd'[q].step = "idle"
    BY <1>9, SeedOthers DEF Tool!Step
  <2>2. /\ cmd[p].step = "write"
        /\ Tool!Goto(p, "drop_members") \/ Tool!Close(p)
        /\ UNCHANGED <<state, stored, unseen, drawn>>
        /\ Tool!syncSequence(cmd[p].seq) \/ UNCHANGED seq
    BY <1>9, SeedPipelines, Zenon
  <2>3. ~overtaken /\ SeedReady' => (SeedReady /\ (SeedCounted => SeedCounted')) \/ SeedCounted'
    BY <2>1, <2>2, SeedGoes, SeedCloses, NoneAssumption DEF SeedReady, SeedCounted, SeedRows,
       SeedCounting, Tool!Steps
  <2>4. UNCHANGED touched
    BY <1>9, SeedPipelines, Zenon
  <2>9. QED
    BY <2>1, <2>3, <2>4, Zenon DEF SeedVerified
<1>10. ASSUME NEW p \in Pair, Tool!DropMembers(p) PROVE SeedVerified'
  <2>1. /\ overtaken' = overtaken
        /\ \A q \in Pair : q # p => cmd'[q] = cmd[q]
        /\ ~overtaken => \A q \in Pair : q # p => cmd'[q].step = "idle"
    BY <1>10, SeedOthers DEF Tool!Step
  <2>2. /\ cmd[p].step = "drop_members"
        /\ Tool!Goto(p, "verify") \/ Tool!Close(p)
        /\ UNCHANGED <<state, stored, unseen, seq, unread, drawn>>
    BY <1>10, SeedPipelines, Zenon
  <2>3. ~overtaken /\ SeedReady' => (SeedReady /\ (SeedCounted => SeedCounted')) \/ SeedCounted'
    BY <2>1, <2>2, SeedGoes, SeedCloses, NoneAssumption DEF SeedReady, SeedCounted, SeedRows,
       SeedCounting, Tool!Steps
  <2>4. UNCHANGED touched
    BY <1>10, SeedPipelines, Zenon
  <2>9. QED
    BY <2>1, <2>3, <2>4, Zenon DEF SeedVerified
<1>11. ASSUME NEW p \in Pair, Tool!VerifyCounters(p) PROVE SeedVerified'
  <2>1. /\ overtaken' = overtaken
        /\ \A q \in Pair : q # p => cmd'[q] = cmd[q]
        /\ ~overtaken => \A q \in Pair : q # p => cmd'[q].step = "idle"
    BY <1>11, SeedOthers DEF Tool!Step
  <2>2. CASE Tool!Verified /\ cmd[p].connected
    <3>1. overtaken \/ stored # None
      BY <1>11 DEF SeedRows, SeedCounting, Tool!VerifyCounters
    <3>2. stored # None => SeedCounted'
      BY <1>11, <2>2, NoneAssumption
         DEF Tool!VerifyCounters, Tool!Verified, Tool!Counters, Tool!TypeOK, SeedCounted,
             Tool!sqlVars, Tool!redisVars
    <3>3. QED
      BY <2>1, <3>1, <3>2, Zenon DEF SeedVerified
  <2>3. CASE ~(Tool!Verified /\ cmd[p].connected)
    <3>1. Tool!Close(p) /\ UNCHANGED touched
      BY <1>11, <2>3, Zenon DEF Tool!VerifyCounters
    <3>2. UNCHANGED <<state, stored, unseen, seq, unread>>
      BY <1>11 DEF Tool!VerifyCounters, Tool!sqlVars, Tool!redisVars
    <3>3. (SeedReady' => SeedReady) /\ (SeedCounted => SeedCounted')
      BY <2>1, <3>1, <3>2, SeedCloses DEF SeedReady, SeedCounted
    <3>4. QED
      BY <2>1, <3>1, <3>3, Zenon DEF SeedVerified
  <2>9. QED
    BY <2>2, <2>3
<1>12. ASSUME NEW p \in Pair, Tool!MarkReady(p) PROVE SeedVerified'
  <2>1. /\ overtaken' = overtaken
        /\ \A q \in Pair : q # p => cmd'[q] = cmd[q]
        /\ ~overtaken => \A q \in Pair : q # p => cmd'[q].step = "idle"
    BY <1>12, SeedOthers DEF Tool!Step
  <2>3. ~overtaken /\ SeedReady' => (SeedReady /\ (SeedCounted => SeedCounted')) \/ SeedCounted'
    BY <1>12, <2>1, SeedGoes, SeedCloses, NoneAssumption DEF Tool!MarkReady, Tool!SQL,
       Tool!sqlVars, Tool!redisVars, Tool!SetState, SeedReady, SeedCounted, SeedRows,
       SeedCounting, Tool!Steps
  <2>4. UNCHANGED touched
    BY <1>12, Zenon DEF Tool!MarkReady
  <2>9. QED
    BY <2>1, <2>3, <2>4, Zenon DEF SeedVerified
<1>13. ASSUME NEW p \in Pair, Tool!Delete(p) PROVE SeedVerified'
  <2>1. /\ overtaken' = overtaken
        /\ \A q \in Pair : q # p => cmd'[q] = cmd[q]
        /\ ~overtaken => \A q \in Pair : q # p => cmd'[q].step = "idle"
    BY <1>13, SeedOthers DEF Tool!Step
  <2>3. ~overtaken /\ SeedReady' => (SeedReady /\ (SeedCounted => SeedCounted')) \/ SeedCounted'
    BY <1>13, <2>1, SeedGoes, SeedCloses, NoneAssumption DEF Tool!Delete, Tool!SQL, Tool!sqlVars,
       Tool!redisVars, SeedReady, SeedCounted, SeedRows, SeedCounting, Tool!Steps
  <2>4. UNCHANGED touched
    BY <1>13, Zenon DEF Tool!Delete
  <2>9. QED
    BY <2>1, <2>3, <2>4, Zenon DEF SeedVerified
<1>14. ASSUME NEW p \in Pair, Tool!DeleteKeys(p) PROVE SeedVerified'
  <2>1. /\ overtaken' = overtaken
        /\ \A q \in Pair : q # p => cmd'[q] = cmd[q]
        /\ ~overtaken => \A q \in Pair : q # p => cmd'[q].step = "idle"
    BY <1>14, SeedOthers DEF Tool!Step
  <2>2. /\ cmd[p].step = "delete_keys"
        /\ \/ Tool!Goto(p, "forget") /\ seq' = None /\ unread' = None
           \/ Tool!Close(p)
        /\ UNCHANGED <<state, stored, unseen>>
        /\ seq' \in {seq, None} /\ unread' \in {unread, None}
        /\ drawn' = IF seq' = None THEN 0 ELSE drawn
    BY <1>14, SeedPipelines, Zenon
  <2>3. ~overtaken /\ SeedReady' => (SeedReady /\ (SeedCounted => SeedCounted')) \/ SeedCounted'
    BY <2>1, <2>2, SeedGoes, SeedCloses, NoneAssumption DEF SeedReady, SeedCounted, SeedRows,
       SeedCounting, Tool!Steps
  <2>4. UNCHANGED touched
    BY <1>14, SeedPipelines, Zenon
  <2>9. QED
    BY <2>1, <2>3, <2>4, Zenon DEF SeedVerified
<1>15. ASSUME NEW p \in Pair, Tool!Forget(p) PROVE SeedVerified'
  <2>1. /\ overtaken' = overtaken
        /\ \A q \in Pair : q # p => cmd'[q] = cmd[q]
        /\ ~overtaken => \A q \in Pair : q # p => cmd'[q].step = "idle"
    BY <1>15, SeedOthers DEF Tool!Step
  <2>3. ~overtaken /\ SeedReady' => (SeedReady /\ (SeedCounted => SeedCounted')) \/ SeedCounted'
    BY <1>15, <2>1, SeedGoes, SeedCloses, NoneAssumption DEF Tool!Forget, Tool!SQL, Tool!sqlVars,
       Tool!redisVars, SeedReady, SeedCounted, SeedRows, SeedCounting, Tool!Steps
  <2>4. UNCHANGED touched
    BY <1>15, Zenon DEF Tool!Forget
  <2>9. QED
    BY <2>1, <2>3, <2>4, Zenon DEF SeedVerified
<1>16. ASSUME NEW p \in Pair, Tool!Crash(p) PROVE SeedVerified'
  <2>1. /\ overtaken' = overtaken
        /\ \A q \in Pair : q # p => cmd'[q] = cmd[q]
        /\ ~overtaken => \A q \in Pair : q # p => cmd'[q].step = "idle"
    BY <1>16, SeedOthers DEF Tool!Step
  <2>3. ~overtaken /\ SeedReady' => (SeedReady /\ (SeedCounted => SeedCounted')) \/ SeedCounted'
    BY <1>16, <2>1, SeedGoes, SeedCloses, NoneAssumption DEF Tool!Crash, Tool!SQL, Tool!sqlVars,
       Tool!redisVars, SeedReady, SeedCounted, SeedRows, SeedCounting, Tool!Steps
  <2>4. UNCHANGED touched
    BY <1>16, Zenon DEF Tool!Crash
  <2>9. QED
    BY <2>1, <2>3, <2>4, Zenon DEF SeedVerified
<1>17. ASSUME NEW p \in Pair, Tool!LoseConnection(p) PROVE SeedVerified'
  <2>1. /\ overtaken' = overtaken
        /\ \A q \in Pair : q # p => cmd'[q] = cmd[q]
        /\ ~overtaken => \A q \in Pair : q # p => cmd'[q].step = "idle"
    BY <1>17, SeedOthers DEF Tool!Step
  <2>3. ~overtaken /\ SeedReady' => (SeedReady /\ (SeedCounted => SeedCounted')) \/ SeedCounted'
    BY <1>17, <2>1, SeedGoes, SeedCloses, NoneAssumption DEF Tool!LoseConnection, Tool!SQL,
       Tool!sqlVars, Tool!redisVars, Tool!TypeOK, SeedReady, SeedCounted, SeedRows,
       SeedCounting, Tool!Steps
  <2>4. UNCHANGED touched
    BY <1>17, Zenon DEF Tool!LoseConnection
  <2>9. QED
    BY <2>1, <2>3, <2>4, Zenon DEF SeedVerified
<1>18. CASE UNCHANGED seedVars
  BY <1>18 DEF seedVars, SeedVerified, SeedReady, SeedCounted
<1>19. QED
  BY <1>1, <1>2, <1>3, <1>4, <1>5, <1>6, <1>7, <1>8, <1>9, <1>10, <1>11, <1>12, <1>13, <1>14,
     <1>15, <1>16, <1>17, <1>18 DEF Tool!Next, Tool!Step

(* The tool, whatever of it is fair.                                       *)
SeedSteps == Tool!Init /\ [][Tool!Next]_(Tool!vars)

(* SeedIInv is inductive.                                                  *)
LEMMA SeedInvariance == SeedSteps => []SeedIInv
<1>1. Tool!Init => SeedIInv
  <2> SUFFICES ASSUME Tool!Init PROVE SeedIInv
    OBVIOUS
  <2>1. /\ state = None /\ stored = None /\ unseen = 0 /\ seq = None /\ unread = None
        /\ lock = None /\ cmd = [p \in Pair |-> Tool!Idle] /\ faults = 0 /\ drawn = 0
    BY DEF Tool!Init
  <2>2. /\ damaged = FALSE /\ related = FALSE /\ cached = FALSE
        /\ touched = FALSE /\ overtaken = FALSE
    BY Zenon DEF Tool!Init
  <2>3. Tool!Idle \in SeedRecords /\ Tool!Idle.step = "idle"
    BY Zenon DEF Tool!Idle, SeedRecords, Tool!Steps
  <2>4. \A p \in Pair : cmd[p] = Tool!Idle /\ cmd[p].step = "idle"
    BY <2>1, <2>3
  <2>5. Tool!TypeOK
    <3>1. cmd \in [Pair -> SeedRecords]
      BY <2>1, <2>3
    <3>2. drawn \in 0 .. MaxSeq /\ faults \in 0 .. MaxFaults /\ unseen \in Nat
      BY <2>1, BoundsAssumption
    <3>3. /\ damaged \in BOOLEAN /\ related \in BOOLEAN /\ cached \in BOOLEAN
          /\ touched \in BOOLEAN /\ overtaken \in BOOLEAN
      BY <2>2, Zenon
    <3>4. QED
      BY <2>1, <3>1, <3>2, <3>3 DEF Tool!TypeOK, SeedRecords
  <2>6. SeedAlone /\ SeedDrawn
    BY <2>1, <2>4 DEF SeedAlone, SeedDrawn
  <2>7. SeedRows
    BY <2>1, <2>4, NoneAssumption DEF SeedRows, SeedCounting
  <2>8. SeedClean
    BY <2>1, <2>2, Zenon DEF SeedClean, SeedKeysGone
  <2>9. SeedVerified
    <3>1. ~SeedReady
      BY <2>1, <2>4, NoneAssumption DEF SeedReady
    <3>2. QED
      BY <3>1, Zenon DEF SeedVerified
  <2>10. QED
    BY <2>5, <2>6, <2>7, <2>8, <2>9 DEF SeedIInv
<1>2. UNCHANGED Tool!vars => UNCHANGED seedVars
  BY DEF Tool!vars, Tool!sqlVars, Tool!appVars, Tool!redisVars, seedVars
<1>3. SeedIInv /\ [Tool!Next]_(Tool!vars) => SeedIInv'
  BY <1>2, SeedTypes, SeedAlonePreserved, SeedDrawnPreserved, SeedRowsPreserved,
     SeedCleanPreserved, SeedVerifiedPreserved DEF SeedIInv
<1>4. QED
  BY <1>1, <1>3, PTL DEF SeedSteps

(* A ready dataset that nothing touched has its counters in Redis, one     *)
(* that is gone has left nothing behind, and no sequence falls below a     *)
(* number drawn from it (SeedSynced), for every number of commands and     *)
(* faults.                             lifecycle.go:36, lifecycle.go:138    *)
THEOREM Synced == SeedSteps => []SeedSynced
<1>1. ASSUME SeedIInv PROVE SeedSynced
  <2>1. ASSUME state = "ready", ~touched, ~overtaken
        PROVE seq # None /\ seq >= stored /\ unread = unseen
    <3>1. SeedReady
      BY <2>1 DEF SeedReady
    <3>2. SeedCounted
      BY <1>1, <2>1, <3>1, Zenon DEF SeedIInv, SeedVerified
    <3>3. QED
      BY <3>2 DEF SeedCounted
  <2>2. ASSUME state = None, ~overtaken
        PROVE stored = None /\ seq = None /\ unread = None /\ ~cached
    <3>1. stored = None
      BY <1>1, <2>2, NoneAssumption DEF SeedIInv, SeedRows
    <3>2. SeedKeysGone
      BY <1>1, <2>2, Zenon DEF SeedIInv, SeedClean, SeedGone
    <3>3. QED
      BY <3>1, <3>2, Zenon DEF SeedKeysGone
  <2>3. seq # None => seq >= drawn
    BY <1>1 DEF SeedIInv, SeedDrawn
  <2>4. QED
    BY <2>1, <2>2, <2>3, Zenon DEF SeedSynced, Tool!SeedSynced
<1>2. QED
  BY <1>1, SeedInvariance, PTL

-----------------------------------------------------------------------------
(* Together.                                                               *)

(* A behaviour of the four side by side is one of each.                    *)
LEMMA SpecListing == Spec => Paging!Spec
<1>1. Init => Paging!Init
  BY DEF Init
<1>2. [Next]_vars => [Paging!Next]_listingVars
  BY DEF Next, vars
<1>3. QED
  BY <1>1, <1>2, PTL DEF Spec, Paging!Spec, Paging!vars, listingVars

(* The same for the room manager.                                          *)
LEMMA SpecViewing == Spec => View!Spec
<1>1. Init => View!Init
  BY DEF Init
<1>2. UNCHANGED viewingVars => UNCHANGED View!vars
  BY DEF viewingVars, View!vars, View!redis, View!control
<1>3. [Next]_vars => [View!Next]_(View!vars)
  BY <1>2 DEF Next, vars
<1>4. QED
  BY <1>1, <1>3, PTL DEF Spec, View!Spec

(* The same for presence.                                                  *)
LEMMA SpecPresence == Spec => Online!Spec
<1>1. Init => Online!Init
  BY DEF Init
<1>2. UNCHANGED presenceVars => UNCHANGED Online!vars
  BY DEF presenceVars, Online!vars, Online!redis
<1>3. [Next]_vars => [Online!Next]_(Online!vars)
  BY <1>2 DEF Next, vars
<1>4. QED
  BY <1>1, <1>3, PTL DEF Spec, Online!Spec

(* The same for the seed tool.                                             *)
LEMMA SpecSeed == Spec => SeedSteps
<1>1. Init => Tool!Init
  BY DEF Init
<1>2. UNCHANGED seedVars => UNCHANGED Tool!vars
  BY DEF seedVars, Tool!vars, Tool!sqlVars, Tool!appVars, Tool!redisVars
<1>3. [Next]_vars => [Tool!Next]_(Tool!vars)
  BY <1>2 DEF Next, vars
<1>4. QED
  BY <1>1, <1>3, PTL DEF Spec, SeedSteps

(* Every state of the four components has its types.                       *)
THEOREM Types ==
  Spec => [](Paging!TypeOK /\ View!TypeOK /\ Online!TypeOK /\ Tool!TypeOK)
<1>1. ListingIInv /\ ViewingIInv /\ PresenceIInv /\ SeedIInv =>
          Paging!TypeOK /\ View!TypeOK /\ Online!TypeOK /\ Tool!TypeOK
  BY DEF ListingIInv, ViewingIInv, PresenceIInv, SeedIInv
<1>2. QED
  BY <1>1, SpecListing, SpecViewing, SpecPresence, SpecSeed, ListingInvariance,
     ViewingInvariance, PresenceInvariance, SeedInvariance, PTL

(* What the four components promise holds of them together: rows listed    *)
(* once, viewers known to Redis, presence told as it is and a dataset      *)
(* with the counters of its rows.                                          *)
THEOREM RecoverySafe ==
  Spec => [](EachListedOnce /\ ViewingTracks /\ PresenceTracks /\ AnnouncedIsTrue
             /\ SeedSynced)
BY SpecListing, SpecViewing, SpecPresence, SpecSeed, ListedOnce, ViewingTrue, PresenceTrue,
   Announced, Synced, PTL

=============================================================================
