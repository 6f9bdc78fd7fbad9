---------------------------- MODULE Conversation ----------------------------
(***************************************************************************)
(* The messages of one conversation and its preview (last_message_id and   *)
(* last_message_text of conversations), which the worker keeps up to date  *)
(* from jobs that are delivered at least once and in any order.  The       *)
(* callers are requests that send, edit or delete a message, or leave a    *)
(* system message.  Membership and roles are in other modules; a message   *)
(* is named by its seq, unique here (Sequence says when it is).            *)
(***************************************************************************)
EXTENDS Naturals

CONSTANTS Callers,
          MaxSends,  \* bound: messages
          MaxEdits,  \* bound: edits
          MaxClock,  \* bound: milliseconds
          None, Deleted

Msgs == 1..MaxSends
Texts == 0..MaxEdits     \* 0 is the text a message is sent with

ASSUME ValuesAssumption == None \notin Nat /\ Deleted \notin Nat \cup {None}
ASSUME BoundsAssumption == MaxSends \in Nat /\ MaxEdits \in Nat /\ MaxClock \in Nat

VARIABLES
    clock,     \* the database's clock
    sent,      \* messages begun so far
    edits,     \* edits begun so far, which name the new texts
    row,       \* the row of each message, None before its INSERT
    system,    \* messages that are system messages
    last,      \* last_message_id
    shown,     \* last_message_text
    jobs,      \* jobs in the stream, delivered or not (equal ones do the same work)
    pc,        \* where each caller is
    mine,      \* the job it will leave: kind and message
    text,      \* the new text of its edit
    dropped,   \* messages whose send failed after the INSERT
    lost       \* messages one of whose jobs was lost

conv == <<last, shown>>
vars == <<clock, sent, edits, row, system, last, shown, jobs, pc, mine, text, dropped, lost>>

Jobs == [kind : {"activity", "refresh", "system"}, msg : Msgs]
Rows == [at : 0..MaxClock, text : Texts \cup {None}, deleted : BOOLEAN]

ASSUME NoneAssumption == None \notin Jobs \cup Rows

Init ==
    /\ clock = 0 /\ sent = 0 /\ edits = 0
    /\ row = [m \in Msgs |-> None] /\ system = {}
    /\ last = None /\ shown = None
    /\ jobs = {}
    /\ pc = [c \in Callers |-> "idle"]
    /\ mine = [c \in Callers |-> None]
    /\ text = [c \in Callers |-> 0]
    /\ dropped = {} /\ lost = {}

Stored(m) == row[m] # None

(* The order of the history: created_at, then seq.                         *)
Before(m, n) == row[m].at < row[n].at \/ (row[m].at = row[n].at /\ m < n)

(* What the preview says of a message.                                     *)
Preview(m) == IF row[m].deleted THEN Deleted ELSE row[m].text

InsertRow(m) == row' = [row EXCEPT ![m] = [at |-> clock, text |-> 0, deleted |-> FALSE]]

-----------------------------------------------------------------------------
(* The two statements on the conversation.                                 *)

(* Variant: whatever job runs last wins.                                   *)
PromoteAlways(m) == last' = m /\ shown' = Preview(m)

(* Variant: messages are compared by seq alone.                            *)
PromoteBySeq(m) ==
    IF last = None \/ last <= m THEN last' = m /\ shown' = Preview(m) ELSE UNCHANGED conv

(* Variant: the job brings the text the message was sent with.             *)
PromoteWithJobText(m) ==
    IF last = None \/ ~Before(m, last) THEN last' = m /\ shown' = 0 ELSE UNCHANGED conv

(* UpdateConversationLastActivity                                          *)
Promote(m) ==
    IF last = None \/ ~Before(m, last) THEN last' = m /\ shown' = Preview(m)
    ELSE UNCHANGED conv

(* RefreshConversationLastMessage                                          *)
Refresh(m) == last' = last /\ shown' = IF last = m THEN Preview(m) ELSE shown

Apply(j) == IF j.kind = "refresh" THEN Refresh(j.msg) ELSE Promote(j.msg)

-----------------------------------------------------------------------------
(* Requests.                                                               *)

Goto(c, step) == pc' = [pc EXCEPT ![c] = step]
Owes(c, kind, m) == mine' = [mine EXCEPT ![c] = [kind |-> kind, msg |-> m]]

Done(c) ==
    /\ Goto(c, "idle")
    /\ mine' = [mine EXCEPT ![c] = None]
    /\ text' = [text EXCEPT ![c] = 0]

(* Send, and enqueueSystemMessage, with a number from Sequence.            *)
Send(c) ==
    /\ pc[c] = "idle" /\ sent < MaxSends
    /\ sent' = sent + 1
    /\ Owes(c, "activity", sent + 1)
    /\ Goto(c, "insert")
    /\ UNCHANGED <<clock, edits, row, system, conv, jobs, text, dropped, lost>>

SendSystem(c) ==
    /\ pc[c] = "idle" /\ sent < MaxSends
    /\ sent' = sent + 1
    /\ system' = system \cup {sent + 1}
    /\ Owes(c, "system", sent + 1)
    /\ Goto(c, "enqueue")
    /\ UNCHANGED <<clock, edits, row, conv, jobs, text, dropped, lost>>

(* Variant: the error of the INSERT is ignored.                            *)
InsertOrIgnore(c) ==
    /\ pc[c] = "insert"
    /\ InsertRow(mine[c].msg) \/ UNCHANGED row
    /\ Goto(c, "enqueue")
    /\ UNCHANGED <<clock, sent, edits, system, conv, jobs, mine, text, dropped, lost>>

(* persistMessage                                                          *)
Insert(c) ==
    /\ pc[c] = "insert"
    /\ InsertRow(mine[c].msg)
    /\ Goto(c, "enqueue")
    /\ UNCHANGED <<clock, sent, edits, system, conv, jobs, mine, text, dropped, lost>>

(* The attachments failed: the message is deleted again, if that works.    *)
DropMessage(c) ==
    /\ pc[c] = "insert"
    /\ \/ InsertRow(mine[c].msg)
       \/ row' = [row EXCEPT ![mine[c].msg] = [at |-> clock, text |-> None, deleted |-> TRUE]]
    /\ dropped' = dropped \cup {mine[c].msg}
    /\ Done(c)
    /\ UNCHANGED <<clock, sent, edits, system, conv, jobs, lost>>

(* EditMessage and DeleteMessage read the message first.                   *)
BeginEdit(c, m) ==
    /\ pc[c] = "idle" /\ edits < MaxEdits
    /\ Stored(m) /\ m \notin system /\ ~row[m].deleted
    /\ edits' = edits + 1
    /\ text' = [text EXCEPT ![c] = edits + 1]
    /\ Owes(c, "refresh", m)
    /\ Goto(c, "edit")
    /\ UNCHANGED <<clock, sent, row, system, conv, jobs, dropped, lost>>

BeginDelete(c, m) ==
    /\ pc[c] = "idle"
    /\ Stored(m) /\ m \notin system /\ ~row[m].deleted
    /\ Owes(c, "refresh", m)
    /\ Goto(c, "delete")
    /\ UNCHANGED <<clock, sent, edits, row, system, conv, jobs, text, dropped, lost>>

(* Variant: UPDATE without is_deleted = 0.                                 *)
UpdateAnyContent(c) ==
    /\ pc[c] = "edit"
    /\ row' = [row EXCEPT ![mine[c].msg].text = text[c]]
    /\ Goto(c, "enqueue")
    /\ UNCHANGED <<clock, sent, edits, system, conv, jobs, mine, text, dropped, lost>>

(* UpdateMessageContent; no row changed when the message was deleted       *)
(* meanwhile, and the request ends.                                        *)
UpdateContent(c) ==
    /\ pc[c] = "edit"
    /\ IF row[mine[c].msg].deleted THEN Done(c) /\ UNCHANGED row
       ELSE /\ row' = [row EXCEPT ![mine[c].msg].text = text[c]]
            /\ Goto(c, "enqueue")
            /\ UNCHANGED <<mine, text>>
    /\ UNCHANGED <<clock, sent, edits, system, conv, jobs, dropped, lost>>

(* SoftDeleteMessage                                                       *)
SoftDelete(c) ==
    /\ pc[c] = "delete"
    /\ row' = [row EXCEPT ![mine[c].msg].deleted = TRUE, ![mine[c].msg].text = None]
    /\ Goto(c, "enqueue")
    /\ UNCHANGED <<clock, sent, edits, system, conv, jobs, mine, text, dropped, lost>>

Enqueue(c) ==
    /\ pc[c] = "enqueue"
    /\ jobs' = jobs \cup {mine[c]}
    /\ Done(c)
    /\ UNCHANGED <<clock, sent, edits, row, system, conv, dropped, lost>>

(* EnqueueJob returned an error; the job may be in the stream all the same.*)
EnqueueFails(c) ==
    /\ pc[c] = "enqueue"
    /\ jobs' = jobs \cup {mine[c]} \/ UNCHANGED jobs
    /\ Goto(c, "fallback")
    /\ UNCHANGED <<clock, sent, edits, row, system, conv, mine, text, dropped, lost>>

(* updateConversationFallback, insertSystemMessageFallback: the request    *)
(* does the job's work itself.                                             *)
Fallback(c) ==
    /\ pc[c] = "fallback"
    /\ \/ /\ mine[c].kind = "system" /\ ~Stored(mine[c].msg)
          /\ InsertRow(mine[c].msg)
          /\ Owes(c, "activity", mine[c].msg)
          /\ UNCHANGED <<conv, pc, text>>
       \/ /\ mine[c].kind = "system" /\ Stored(mine[c].msg)   \* duplicate entry
          /\ Done(c)
          /\ UNCHANGED <<row, conv>>
       \/ /\ mine[c].kind # "system"
          /\ Apply(mine[c])
          /\ Done(c)
          /\ UNCHANGED row
    /\ UNCHANGED <<clock, sent, edits, system, jobs, dropped, lost>>

(* The request ends early: a statement failed, or its process died.        *)
Abandon(c) ==
    /\ pc[c] # "idle"
    /\ lost' = IF pc[c] \in {"enqueue", "fallback"} THEN lost \cup {mine[c].msg} ELSE lost
    /\ Done(c)
    /\ UNCHANGED <<clock, sent, edits, row, system, conv, jobs, dropped>>

-----------------------------------------------------------------------------
(* The worker's handlers.  A job stays in the stream, to be delivered      *)
(* again, unless it is acknowledged.                                       *)

Acknowledged(j) == jobs' = jobs \ {j} \/ UNCHANGED jobs

HandleUpdate(j) ==
    /\ j \in jobs /\ j.kind # "system"
    /\ Apply(j)
    /\ Acknowledged(j)
    /\ UNCHANGED <<clock, sent, edits, row, system, pc, mine, text, dropped, lost>>

(* The system message's row first, if an earlier attempt did not write it. *)
HandleSystem(j) ==
    /\ j \in jobs /\ j.kind = "system"
    /\ IF ~Stored(j.msg) THEN InsertRow(j.msg) /\ UNCHANGED <<conv, jobs>>
       ELSE Promote(j.msg) /\ Acknowledged(j) /\ UNCHANGED row
    /\ UNCHANGED <<clock, sent, edits, system, pc, mine, text, dropped, lost>>

(* Trimmed, dead-lettered, or lost between two Redis commands.             *)
LoseJob(j) ==
    /\ j \in jobs
    /\ jobs' = jobs \ {j}
    /\ lost' = lost \cup {j.msg}
    /\ UNCHANGED <<clock, sent, edits, row, system, conv, pc, mine, text, dropped>>

Tick ==
    /\ clock < MaxClock
    /\ clock' = clock + 1
    /\ UNCHANGED <<sent, edits, row, system, conv, jobs, pc, mine, text, dropped, lost>>

Request(c) ==
    \/ Send(c) \/ SendSystem(c) \/ Insert(c) \/ DropMessage(c)
    \/ \E m \in Msgs : BeginEdit(c, m) \/ BeginDelete(c, m)
    \/ UpdateContent(c) \/ SoftDelete(c)
    \/ Enqueue(c) \/ EnqueueFails(c) \/ Fallback(c) \/ Abandon(c)

Next ==
    \/ \E c \in Callers : Request(c)
    \/ \E j \in jobs : HandleUpdate(j) \/ HandleSystem(j) \/ LoseJob(j)
    \/ Tick

Spec == Init /\ [][Next]_vars

-----------------------------------------------------------------------------
(* Type invariant; a preview or an update is only ever about a stored      *)
(* message.                                                                *)
TypeOK ==
    /\ clock \in 0..MaxClock /\ sent \in 0..MaxSends /\ edits \in Texts
    /\ row \in [Msgs -> Rows \cup {None}] /\ system \subseteq Msgs
    /\ last \in Msgs \cup {None} /\ shown \in Texts \cup {Deleted, None}
    /\ jobs \subseteq Jobs
    /\ pc \in [Callers -> {"idle", "insert", "edit", "delete", "enqueue", "fallback"}]
    /\ mine \in [Callers -> Jobs \cup {None}]
    /\ \A c \in Callers : pc[c] # "idle" => mine[c] # None
    /\ text \in [Callers -> Texts]
    /\ dropped \subseteq Msgs /\ lost \subseteq Msgs
    /\ last # None => Stored(last)
    /\ \A j \in jobs : j.kind # "system" => Stored(j.msg)

(* Somebody still has to bring the preview up to date for m.               *)
Pending(m, kinds) ==
    \/ \E j \in jobs : j.msg = m /\ j.kind \in kinds
    \/ \E c \in Callers : /\ pc[c] \in {"enqueue", "fallback"}
                          /\ mine[c].msg = m /\ mine[c].kind \in kinds
    \/ m \in lost

(* The preview shows the current content of its message, unless a job for  *)
(* that message is still to come: delayed, repeated and reordered jobs     *)
(* cannot restore old text (room.sql:106, seed/verify.go:57).              *)
StaleIsPending ==
    last # None /\ shown # Preview(last) =>
        Pending(last, {"activity", "refresh", "system"})

(* No message in the history comes after the one in the preview, unless    *)
(* its job is still to come or its send failed (room.sql:106-107,          *)
(* seed/verify.go:57).                                                     *)
LatestIsShown ==
    \A m \in Msgs : Stored(m) /\ m \notin dropped /\ (last = None \/ Before(last, m)) =>
        Pending(m, {"activity", "system"})

(* The preview never goes back to an older message (room.sql:107).         *)
NeverOlder == [][last # None /\ last' # last => Before(last, last')]_vars

(* A deleted message stays deleted and keeps no content, whatever edits    *)
(* were under way (message.sql:86-97).                                     *)
DeletedForGood ==
    [][\A m \in Msgs : Stored(m) /\ row[m].deleted =>
           row'[m].deleted /\ row'[m].text = None]_vars
=============================================================================
