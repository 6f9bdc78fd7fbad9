----------------------------- MODULE MCServices -----------------------------
(***************************************************************************)
(* Four components side by side that share no state: their interleaving    *)
(* says nothing: each behaviour is one of a single component, chosen in    *)
(* the initial state, and the others stay where they start.  The model     *)
(* values are shared too, which keeps the symmetry group small.            *)
(***************************************************************************)
EXTENDS Naturals, TLC

CONSTANTS Callers, Names, Pair, MaxDevices, MaxMessages, None

ASSUME NoneAssumption == None \notin Pair \cup Names \cup Nat
ASSUME BoundsAssumption == MaxDevices \in Nat \ {0} /\ MaxMessages \in Nat

VARIABLES part,
    rows, recent, live, unsure, loginCall, issued, delivered, closed, contended, raced,
    status, contactCall, agreed, crossed,
    type, role, roomCall, madeFor, overlapped,
    stored, deleted, pending, member, watermark, unread, readCall, receipt, drift

sessionVars == <<rows, recent, live, unsure, loginCall, issued, delivered, closed, contended, raced>>
contactVars == <<status, contactCall, agreed, crossed>>
roomVars == <<type, role, roomCall, madeFor, overlapped>>
readVars == <<stored, deleted, pending, member, watermark, unread, readCall, receipt, drift>>
vars == <<part, sessionVars, contactVars, roomVars, readVars>>

Login == INSTANCE Session WITH Devices <- Pair, Jtis <- Names, call <- loginCall
Contact == INSTANCE Contacts WITH Users <- Names, call <- contactCall
Room == INSTANCE Rooms WITH Users <- Names, Ids <- Pair, call <- roomCall
Reading == INSTANCE ReadState WITH call <- readCall

Init ==
    /\ part \in {"session", "contacts", "rooms", "read"}
    /\ Login!Init /\ Contact!Init /\ Room!Init /\ Reading!Init

Next ==
    /\ UNCHANGED part
    /\ \/ /\ part = "session" /\ Login!Next
          /\ UNCHANGED <<contactVars, roomVars, readVars>>
       \/ /\ part = "contacts" /\ Contact!Next
          /\ UNCHANGED <<sessionVars, roomVars, readVars>>
       \/ /\ part = "rooms" /\ Room!Next
          /\ UNCHANGED <<sessionVars, contactVars, readVars>>
       \/ /\ part = "read" /\ Reading!Next
          /\ UNCHANGED <<sessionVars, contactVars, roomVars>>

Spec == Init /\ [][Next]_vars

Symmetry == Permutations(Callers) \cup Permutations(Names) \cup Permutations(Pair)

(* The types of the four components.                                       *)
TypeOK == Login!TypeOK /\ Contact!TypeOK /\ Room!TypeOK /\ Reading!TypeOK

(* The properties of the components, each stated in its module.            *)
(* Sessions.                                                               *)
UnlistedOnlyByRace == Login!UnlistedOnlyByRace
(* Sessions.                                                               *)
DeviceLimit == Login!DeviceLimit
(* Sessions.                                                               *)
LogoutIsFinal == Login!LogoutIsFinal
(* Contacts.                                                               *)
ContactsAreMutual == Contact!ContactsAreMutual
(* Rooms.                                                                  *)
DMStaysPrivate == Room!DMStaysPrivate
(* Rooms.                                                                  *)
OneDMPerPair == Room!OneDMPerPair
(* Read state.                                                             *)
CounterTrusted == Reading!CounterTrusted
(* Read state.                                                             *)
ReceiptsInOrder == Reading!ReceiptsInOrder
=============================================================================
