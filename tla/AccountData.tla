----------------------------- MODULE AccountData -----------------------------
(***************************************************************************)
(* Account data and room state that a call changes by reading the event as *)
(* the client knows it, editing the content and sending it whole: the      *)
(* ignored users and direct rooms of matrix/account.rs and                 *)
(* matrix/room/common.rs, the power levels of matrix/room/joined.rs.  The  *)
(* client's copy of an event changes only when a sync is handled, not when *)
(* an edit is sent.  Documents do not touch each other: a behaviour is     *)
(* about one of them.                                                      *)
(***************************************************************************)
EXTENDS Naturals, Sequences

CONSTANTS
  Editors,    \* tasks that call
  People,     \* ids of other users, all members of every room
  Levels,     \* power levels but the room's default
  DmRooms,    \* rooms that may be direct
  MaxWrites   \* events that the server takes after the first

ASSUME WritesAssumption == MaxWrites \in Nat

VARIABLES
  doc,       \* the document
  written,   \* the contents the server has had of it
  known,     \* how many of them the client's store has seen, 0 for none
  arriving,  \* the same of a sync response on its way
  doing,     \* where a call is
  edit,      \* what it edits
  sending,   \* the content it read, then the content it sends
  wanted,    \* history: what all edits together make of the document
  mixed      \* history: an edit began before the client had seen all others,
             \* or met another one

accountVars == <<doc, written, known, arriving, doing, edit, sending, wanted, mixed>>

Documents == {"m.ignored_user_list", "m.direct", "m.room.power_levels"}

----------------------------------------------------------------------------
(* A content is a set of entries; an edit drops some and adds some.        *)

Edit(d, drop, add) == [doc |-> d, drop |-> drop, add |-> add]

NoEdit == Edit("none", {}, {})

Entries(us, values) == us \X values

IgnoreUser(u) == Edit("m.ignored_user_list", {}, Entries({u}, {""}))
UnignoreUser(u) == Edit("m.ignored_user_list", Entries({u}, {""}), {})

MarkAsDm(u, r) == Edit("m.direct", {}, Entries({u}, {r}))

\* set_is_direct: with all other members, or with nobody.
SetDirect(r) == Edit("m.direct", {}, Entries(People, {r}))
ClearDirect(r) == Edit("m.direct", Entries(People, {r}), {})

\* The default level is not listed.
UpdatePowerLevel(u, l) ==
  Edit("m.room.power_levels", Entries({u}, Levels), Entries({u}, {l} \cap Levels))

Edits ==
  { IgnoreUser(u) : u \in People } \cup { UnignoreUser(u) : u \in People }
  \cup { SetDirect(r) : r \in DmRooms } \cup { ClearDirect(r) : r \in DmRooms }
  \cup { MarkAsDm(u, r) : u \in People, r \in DmRooms }
  \cup { UpdatePowerLevel(u, l) : u \in People, l \in Levels \cup {"default"} }

Edited(content, e) == (content \ e.drop) \cup e.add

\* A room has power levels from its creation on.
First == IF doc = "m.room.power_levels" THEN <<{}>> ELSE <<>>

\* account_data, get_state_event_static: none is read as the empty content,
\* but for power levels.
Local == IF known = 0 THEN {} ELSE written[known]

Newest == IF written = <<>> THEN {} ELSE written[Len(written)]

----------------------------------------------------------------------------
Doing(c, d) == doing' = [doing EXCEPT ![c] = d]
Busy(c) == doing[c] # "idle"

\* Only set_is_direct goes on to await something, the members, before it edits
\* what it read.
ReadContent(c, e) ==
  /\ doing[c] = "idle" /\ e.doc = doc
  /\ doc = "m.room.power_levels" => known # 0
  /\ Doing(c, IF \E r \in DmRooms : e = SetDirect(r) THEN "members" ELSE "editing")
  /\ edit' = [edit EXCEPT ![c] = e]
  /\ sending' = [sending EXCEPT ![c] = Local]
  /\ mixed' = (mixed \/ known # Len(written) \/ \E d \in Editors : Busy(d))
  /\ UNCHANGED <<doc, written, known, arriving, wanted>>

MembersArrive(c) ==
  /\ doing[c] = "members"
  /\ Doing(c, "editing")
  /\ UNCHANGED <<doc, written, known, arriving, edit, sending, wanted, mixed>>

SendContent_Afresh(c) ==
  /\ doing[c] = "editing"
  /\ Doing(c, "sent")
  /\ sending' = [sending EXCEPT ![c] = edit[c].add]
  /\ UNCHANGED <<doc, written, known, arriving, edit, wanted, mixed>>

SendContent(c) ==
  /\ doing[c] = "editing"
  /\ Doing(c, "sent")
  /\ sending' = [sending EXCEPT ![c] = Edited(@, edit[c])]
  /\ UNCHANGED <<doc, written, known, arriving, edit, wanted, mixed>>

Stored(c) ==
  /\ doing[c] = "sent" /\ Len(written) < Len(First) + MaxWrites
  /\ Doing(c, "stored")
  /\ written' = Append(written, sending[c])
  /\ wanted' = Edited(wanted, edit[c])
  /\ UNCHANGED <<doc, known, arriving, edit, sending, mixed>>

\* The call is over, and what it had in hand forgotten: its answer is there, or
\* it failed on the way.
EditEnds(c) ==
  /\ doing[c] \in {"members", "sent", "stored"}
  /\ Doing(c, "idle")
  /\ edit' = [edit EXCEPT ![c] = NoEdit]
  /\ sending' = [sending EXCEPT ![c] = {}]
  /\ UNCHANGED <<doc, written, known, arriving, wanted, mixed>>

\* Another client of ours.
EditedElsewhere(e) ==
  /\ e.doc = doc /\ Len(written) < Len(First) + MaxWrites
  /\ written' = Append(written, Edited(Newest, e))
  /\ wanted' = Edited(wanted, e)
  /\ mixed' = (mixed \/ \E c \in Editors : Busy(c))
  /\ UNCHANGED <<doc, known, arriving, doing, edit, sending>>

SyncStarts ==
  /\ arriving = known /\ Len(written) > known
  /\ arriving' = Len(written)
  /\ UNCHANGED <<doc, written, known, doing, edit, sending, wanted, mixed>>

SyncEnds ==
  /\ arriving # known
  /\ known' = arriving
  /\ UNCHANGED <<doc, written, arriving, doing, edit, sending, wanted, mixed>>

AccountInit ==
  /\ doc \in Documents
  /\ written = First
  /\ known = 0 /\ arriving = 0
  /\ doing = [c \in Editors |-> "idle"]
  /\ edit = [c \in Editors |-> NoEdit]
  /\ sending = [c \in Editors |-> {}]
  /\ wanted = {} /\ mixed = FALSE

AccountNext ==
  \/ \E c \in Editors :
       \/ \E e \in Edits : ReadContent(c, e)
       \/ MembersArrive(c) \/ SendContent(c) \/ Stored(c) \/ EditEnds(c)
  \/ \E e \in Edits : EditedElsewhere(e)
  \/ SyncStarts
  \/ SyncEnds

AccountSpec == AccountInit /\ [][AccountNext]_accountVars

----------------------------------------------------------------------------
AccountTypeOK ==
  /\ doc \in Documents
  /\ Len(written) <= Len(First) + MaxWrites
  /\ known \in 0 .. arriving /\ arriving \in 0 .. Len(written)
  /\ doing \in [Editors -> {"idle", "members", "editing", "sent", "stored"}]
  /\ edit \in [Editors -> Edits \cup {NoEdit}]
  /\ mixed \in BOOLEAN

\* An edit is lost only where two of them met, or where one began before the
\* client had seen the others in a sync: otherwise the server holds what all
\* edits together ask for.
NothingLost == ~mixed => Newest = wanted
==============================================================================
