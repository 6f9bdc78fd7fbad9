------------------------------ MODULE ReadState ------------------------------
(***************************************************************************)
(* How much of one conversation one member has read: the watermark of its  *)
(* row in conversation_members, the counter unread:<user>:<conversation>   *)
(* in Redis, and the receipts that are published.  The counter is counted  *)
(* anew by MarkAsRead and ListConversations and incremented after each     *)
(* send; nothing orders these, and the key never expires by itself.        *)
(***************************************************************************)
EXTENDS Naturals, FiniteSets

CONSTANTS Callers,       \* MarkAsRead and ListConversations calls at a time
          MaxMessages,   \* bound: messages that other members send
          None

VARIABLES
    stored,     \* messages inserted, numbered in order of (created_at, seq)
    deleted,    \* those with is_deleted
    pending,    \* those whose afterSend has not come to the counter yet
    member,     \* the reader has its row
    watermark,  \* last message read, 0 for NULL
    unread,     \* the counter, None without the key
    call,       \* what each caller is doing
    receipt,    \* last message of a receipt published in this membership
    drift       \* history: the counter was written or missed in a way that
                \*          nothing has repaired since

messages == <<stored, deleted, pending>>
reader == <<member, watermark>>
vars == <<stored, deleted, pending, member, watermark, unread, call, receipt, drift>>

Messages == 1 .. MaxMessages

Idle == [step |-> "idle"]

(* dirty: something was written since this call counted; crossed: another  *)
(* MarkAsRead advanced in this one's way; former: the reader left since.   *)
Calls == {Idle}
    \cup [step : {"count", "store", "publish"}, target : Messages \cup {None},
          count : 0 .. MaxMessages, dirty : BOOLEAN, advanced : BOOLEAN,
          crossed : BOOLEAN, former : BOOLEAN]

Started == [step |-> "count", target |-> None, count |-> 0, dirty |-> FALSE,
            advanced |-> FALSE, crossed |-> FALSE, former |-> FALSE]

Init ==
    /\ stored = {} /\ deleted = {} /\ pending = {}
    /\ member = TRUE
    /\ watermark = 0
    /\ unread = None
    /\ call = [p \in Callers |-> Idle]
    /\ receipt = 0
    /\ drift = FALSE

-----------------------------------------------------------------------------
(* GetUnreadCountByWatermark: it joins the reader's own row.               *)
UnreadCount ==
    IF member THEN Cardinality({m \in stored \ deleted : m > watermark}) ELSE 0

Busy(p) == call[p] # Idle

(* A write that a call which has counted does not know of.                 *)
Dirtied(c) == [p \in Callers |->
    IF c[p].step = "store" THEN [c[p] EXCEPT !.dirty = TRUE] ELSE c[p]]

Marking(p) == Busy(p) /\ call[p].target # None

(* Variant: the receipt of a call that did not advance is published too.   *)
OnwardAlways(p) ==
    call' = Dirtied([call EXCEPT ![p] =
        IF @.target # None THEN [@ EXCEPT !.step = "publish", !.count = 0, !.dirty = FALSE]
        ELSE Idle])

(* A call with a receipt to publish goes on to it, another is over.        *)
Onward(p) ==
    call' = Dirtied([call EXCEPT ![p] =
        IF @.advanced THEN [@ EXCEPT !.step = "publish", !.count = 0, !.dirty = FALSE]
        ELSE Idle])

-----------------------------------------------------------------------------
(* Messages of the others.                                                 *)

(* Two messages of one millisecond may be inserted against their order, so *)
(* one may appear below the watermark.                                     *)
InsertMessage(m) ==
    /\ m \notin stored
    /\ stored' = stored \cup {m}
    /\ pending' = pending \cup {m}
    /\ drift' = (drift \/ (m <= watermark))
    /\ call' = Dirtied(call)
    /\ UNCHANGED <<deleted, reader, unread, receipt>>

(* afterSend: INCR makes a missing key 1, whatever the count.              *)
IncrUnread(m) ==
    /\ m \in pending /\ member
    /\ pending' = pending \ {m}
    /\ unread' = IF unread = None THEN 1 ELSE unread + 1
    /\ drift' = (drift \/ unread = None)
    /\ call' = Dirtied(call)
    /\ UNCHANGED <<stored, deleted, reader, receipt>>

(* The reader is viewing the conversation, the members or Redis could not  *)
(* be reached, the process died, or the reader is not a member.            *)
SkipUnread(m) ==
    /\ m \in pending
    /\ pending' = pending \ {m}
    /\ drift' = (drift \/ unread # None)
    /\ call' = Dirtied(call)
    /\ UNCHANGED <<stored, deleted, reader, unread, receipt>>

(* DeleteMessage does not know of the counter.                             *)
DeleteMessage(m) ==
    /\ m \in stored \ deleted
    /\ deleted' = deleted \cup {m}
    /\ drift' = (drift \/ (unread # None /\ m > watermark))
    /\ call' = Dirtied(call)
    /\ UNCHANGED <<stored, pending, reader, unread, receipt>>

-----------------------------------------------------------------------------
(* MarkAsRead                                                              *)

(* UPDATE ... WHERE the stored watermark is lower, or NULL.  The check of  *)
(* the membership before it may be older than a removal.                   *)
AdvanceReadWatermark(p, m) ==
    /\ call[p] = Idle
    /\ m \in stored
    /\ LET ahead == member /\ m > watermark
           others == {q \in Callers : Marking(q) /\ call[q].advanced}
       IN /\ watermark' = IF ahead THEN m ELSE watermark
          /\ call' = Dirtied([q \in Callers |->
                 IF q = p THEN [Started EXCEPT !.target = m, !.advanced = ahead,
                                               !.crossed = ahead /\ others # {}]
                 ELSE IF ahead /\ q \in others THEN [call[q] EXCEPT !.crossed = TRUE]
                 ELSE call[q]])
    /\ UNCHANGED <<messages, member, unread, receipt, drift>>

(* Messages still to be added to the counter are in the count already.     *)
CountUnread(p) ==
    /\ call[p].step = "count"
    /\ call' = [call EXCEPT ![p].step = "store", ![p].count = UnreadCount,
                            ![p].dirty = pending # {}]
    /\ UNCHANGED <<messages, reader, unread, receipt, drift>>

(* Variant: a call that does not advance leaves the counter alone.         *)
SetUnreadIfAdvanced(p) ==
    /\ call[p].step = "store"
    /\ IF Marking(p) /\ ~call[p].advanced THEN UNCHANGED unread
       ELSE unread' = call[p].count
    /\ drift' = call[p].dirty
    /\ Onward(p)
    /\ UNCHANGED <<messages, reader, receipt>>

(* Also the detached store of ListConversations.                           *)
SetUnread(p) ==
    /\ call[p].step = "store"
    /\ unread' = call[p].count
    /\ drift' = call[p].dirty
    /\ Onward(p)
    /\ UNCHANGED <<messages, reader, receipt>>

(* A failed count deletes the key; a failed SET or DEL is ignored.         *)
ReconcileFails(p) ==
    /\ Marking(p) /\ call[p].step \in {"count", "store"}
    /\ \/ unread' = None /\ call[p].step = "count" /\ UNCHANGED drift
       \/ UNCHANGED unread /\ drift' = TRUE
    /\ Onward(p)
    /\ UNCHANGED <<messages, reader, receipt>>

PublishReceipt(p) ==
    /\ call[p].step = "publish"
    /\ receipt' = IF call[p].former THEN receipt ELSE call[p].target
    /\ call' = [call EXCEPT ![p] = Idle]
    /\ UNCHANGED <<messages, reader, unread, drift>>

-----------------------------------------------------------------------------
(* ListConversations counts when the key is missing or Redis fails, and    *)
(* stores the count from a goroutine of its own.                           *)
CountForList(p) ==
    /\ call[p] = Idle /\ member
    /\ call' = [call EXCEPT ![p] = [Started EXCEPT !.step = "store", !.count = UnreadCount,
                                                   !.dirty = pending # {}]]
    /\ UNCHANGED <<messages, reader, unread, receipt, drift>>

(* A call dies, or its publish or its store is lost.                       *)
Abort(p) ==
    /\ Busy(p)
    /\ call' = Dirtied([call EXCEPT ![p] = Idle])
    /\ drift' = (drift \/ (call[p].step \in {"count", "store"} /\ call[p].advanced))
    /\ UNCHANGED <<messages, reader, unread, receipt>>

-----------------------------------------------------------------------------
(* RemoveMember drops the row with its watermark; the DEL comes later.     *)
RemoveReader ==
    /\ member
    /\ member' = FALSE /\ watermark' = 0
    /\ receipt' = 0
    /\ call' = Dirtied([p \in Callers |->
                   IF Busy(p) THEN [call[p] EXCEPT !.former = TRUE] ELSE call[p]])
    /\ UNCHANGED <<messages, unread, drift>>

(* A new row has no watermark; a counter left over does not fit it.        *)
AddReader ==
    /\ ~member
    /\ member' = TRUE
    /\ drift' = (drift \/ unread # None)
    /\ call' = Dirtied(call)
    /\ UNCHANGED <<messages, watermark, unread, receipt>>

(* removeMemberUnread, which may run late, or the loss of the key.         *)
DeleteUnread ==
    /\ unread # None
    /\ unread' = None
    /\ call' = Dirtied(call)
    /\ UNCHANGED <<messages, reader, receipt, drift>>

Next ==
    \/ \E m \in Messages :
           InsertMessage(m) \/ IncrUnread(m) \/ SkipUnread(m) \/ DeleteMessage(m)
    \/ \E p \in Callers :
           \/ \E m \in Messages : AdvanceReadWatermark(p, m)
           \/ CountUnread(p) \/ SetUnread(p)
           \/ ReconcileFails(p) \/ PublishReceipt(p)
           \/ CountForList(p) \/ Abort(p)
    \/ RemoveReader \/ AddReader \/ DeleteUnread

Spec == Init /\ [][Next]_vars

-----------------------------------------------------------------------------
(* Type invariant.                                                         *)
TypeOK ==
    /\ stored \in SUBSET Messages /\ deleted \in SUBSET stored /\ pending \in SUBSET stored
    /\ member \in BOOLEAN /\ watermark \in 0 .. MaxMessages
    /\ unread \in Nat \cup {None}
    /\ drift \in BOOLEAN
    /\ call \in [Callers -> Calls]
    /\ receipt \in 0 .. MaxMessages

(* Once a count was stored that nothing overlapped, the counter of a       *)
(* member is the number of its unread messages whenever no call and no     *)
(* send is under way: until an increment is skipped or creates the key, an *)
(* unread message is deleted, or a count is stored late.  The next clean   *)
(* MarkAsRead repairs it, whether it advances or not.                      *)
(* message_service.go:440, message_service.go:447                          *)
CounterTrusted ==
    /\ member /\ unread # None /\ ~drift
    /\ pending = {} /\ \A p \in Callers : call[p] = Idle
    => unread = UnreadCount

(* The receipts of a membership go forward only, retries and old cursors   *)
(* included, except those of MarkAsRead calls that overlapped.             *)
(* message_service.go:447, message_service.go:457                          *)
ReceiptsInOrder ==
    [][receipt' >= receipt \/ ~member'
          \/ \E p \in Callers : call[p].step = "publish" /\ call[p].crossed]_vars
=============================================================================
