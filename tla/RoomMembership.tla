--------------------------- MODULE RoomMembership ---------------------------
(***************************************************************************)
(* One room and our membership in it: creating, joining, leaving and       *)
(* forgetting it (matrix/mod.rs and matrix/room/), while syncs tell the    *)
(* client what the server knows.  A call marks the room in the base client *)
(* when its response arrives, a sync when it is handled; either may be     *)
(* overtaken by the other.                                                 *)
(***************************************************************************)
EXTENDS Naturals, Sequences

CONSTANTS
  Users,     \* tasks that call
  MaxEvents  \* our membership changes no more often than this

ASSUME MaxEventsAssumption == MaxEvents \in Nat

Memberships == {"invite", "join", "leave"}
Handles == {"Invited", "Joined", "Left"}
RoomStates == Handles \cup {"unknown"}

VARIABLES
  log,      \* our membership events, as the server made them
  seen,     \* how many of them the client's token covers
  coming,   \* how many a sync response on its way covers; 0 for none
  room,     \* the state of the base client's room
  handle,   \* the handle a task has: "none" or its type
  step,     \* where a task is
  panicked, \* whether an unwrap failed
  crossed   \* history: a call was in flight while our membership changed
            \* otherwise, or while another call was

membershipVars == <<log, seen, coming, room, handle, step, panicked, crossed>>

Steps ==
  { "idle", "join", "leave", "create", "forget",                \* sent
    "join_ok", "leave_ok", "create_ok", "forget_ok",            \* answered
    "joined", "left" }                                          \* marked

----------------------------------------------------------------------------
Member == IF log = <<>> THEN "none" ELSE log[Len(log)]

StateOf(m) == IF m = "invite" THEN "Invited" ELSE IF m = "join" THEN "Joined" ELSE "Left"

InFlight(c) == step[c] # "idle"
Step(c, s) == step' = [step EXCEPT ![c] = s]
Hold(c, h) == handle' = [handle EXCEPT ![c] = h]

Became(m) == Len(log) < MaxEvents /\ log' = Append(log, m)

\* get_room and its like: Room::from(Common) goes by the state.
GetRoom(c) ==
  /\ step[c] = "idle" /\ room # "unknown"
  /\ Hold(c, room)
  /\ UNCHANGED <<log, seen, coming, room, step, panicked, crossed>>

Call(c, s) ==
  /\ step[c] = "idle"
  /\ Step(c, s)
  /\ crossed' = (crossed \/ \E d \in Users : InFlight(d))
  /\ UNCHANGED <<log, seen, coming, room, handle, panicked>>

\* join_room_by_id and, of a handle, Left::join and accept_invitation.
CallJoin(c) == log # <<>> /\ Call(c, "join")

CallLeave_Eager(c) ==
  /\ handle[c] \in {"Joined", "Invited"}
  /\ step[c] = "idle"
  /\ Step(c, "leave")
  /\ room' = "Left"
  /\ crossed' = (crossed \/ \E d \in Users : InFlight(d))
  /\ UNCHANGED <<log, seen, coming, handle, panicked>>

\* Joined::leave and reject_invitation.
CallLeave(c) == handle[c] \in {"Joined", "Invited"} /\ Call(c, "leave")

CallCreate(c) == log = <<>> /\ Call(c, "create")
CallForget(c) == handle[c] = "Left" /\ Call(c, "forget")

\* The server carries the request out.
Serve(c) ==
  /\ \/ step[c] = "join" /\ Step(c, "join_ok")
        /\ IF Member = "join" THEN UNCHANGED log ELSE Became("join")
     \/ step[c] = "leave" /\ Member \in {"join", "invite"} /\ Step(c, "leave_ok")
        /\ Became("leave")
     \/ step[c] = "create" /\ log = <<>> /\ Step(c, "create_ok") /\ Became("join")
     \/ step[c] = "forget" /\ Member = "leave" /\ Step(c, "forget_ok") /\ UNCHANGED log
  /\ UNCHANGED <<seen, coming, room, handle, panicked, crossed>>

\* It refuses, or its answer does not arrive.
RequestErrs(c) ==
  /\ step[c] \in {"join", "leave", "create", "forget"} \cup
                 {"join_ok", "leave_ok", "create_ok", "forget_ok"}
  /\ Step(c, "idle")
  /\ UNCHANGED <<log, seen, coming, room, handle, panicked, crossed>>

\* room_joined, room_left.
MarkJoined(c) ==
  /\ step[c] = "join_ok"
  /\ room' = "Joined"
  /\ Step(c, "joined")
  /\ UNCHANGED <<log, seen, coming, handle, panicked, crossed>>

MarkLeft(c) ==
  /\ step[c] = "leave_ok"
  /\ room' = "Left"
  /\ Step(c, "left")
  /\ UNCHANGED <<log, seen, coming, handle, panicked, crossed>>

\* Joined::new and Left::new look at the state anew: Err(InconsistentState) if
\* a sync has changed it.
TakeHandle(c) ==
  /\ step[c] \in {"joined", "left"}
  /\ IF room = (IF step[c] = "joined" THEN "Joined" ELSE "Left")
     THEN Hold(c, room) ELSE UNCHANGED handle
  /\ Step(c, "idle")
  /\ UNCHANGED <<log, seen, coming, room, panicked, crossed>>

\* create_room takes the room a sync may have brought already, and unwraps.
TakeCreated_Sync(c) ==
  /\ step[c] = "create_ok"
  /\ UNCHANGED <<room, handle>>
  /\ panicked' = (panicked \/ room # "Joined")
  /\ Step(c, "idle")
  /\ UNCHANGED <<log, seen, coming, crossed>>

TakeCreated(c) ==
  /\ step[c] = "create_ok"
  /\ room' = IF room = "unknown" THEN "Joined" ELSE room
  /\ IF room' = "Joined"
     THEN Hold(c, "Joined") /\ UNCHANGED panicked
     ELSE panicked' = TRUE /\ UNCHANGED handle
  /\ Step(c, "idle")
  /\ UNCHANGED <<log, seen, coming, crossed>>

\* store().remove_room
RemoveRoom(c) ==
  /\ step[c] = "forget_ok"
  /\ room' = "unknown"
  /\ Step(c, "idle")
  /\ UNCHANGED <<log, seen, coming, handle, panicked, crossed>>

----------------------------------------------------------------------------
\* Another user, or another client of ours.
Elsewhere(m) ==
  /\ \/ m = "invite" /\ Member \in {"none", "leave"}
     \/ m = "leave" /\ Member \in {"invite", "join"}
  /\ Became(m)
  /\ crossed' = (crossed \/ \E c \in Users : InFlight(c))
  /\ UNCHANGED <<seen, coming, room, handle, step, panicked>>

SyncResponds ==
  /\ coming = 0 /\ Len(log) > seen
  /\ coming' = Len(log)
  /\ UNCHANGED <<log, seen, room, handle, step, panicked, crossed>>

SyncHandled ==
  /\ coming # 0
  /\ room' = StateOf(log[coming])
  /\ seen' = coming /\ coming' = 0
  /\ UNCHANGED <<log, handle, step, panicked, crossed>>

MembershipInit ==
  /\ log = <<>> /\ seen = 0 /\ coming = 0
  /\ room = "unknown"
  /\ handle = [c \in Users |-> "none"]
  /\ step = [c \in Users |-> "idle"]
  /\ panicked = FALSE /\ crossed = FALSE

UserStep(c) ==
  \/ GetRoom(c) \/ CallJoin(c) \/ CallLeave(c) \/ CallCreate(c) \/ CallForget(c)
  \/ Serve(c) \/ RequestErrs(c) \/ MarkJoined(c) \/ MarkLeft(c)
  \/ TakeHandle(c) \/ TakeCreated(c) \/ RemoveRoom(c)

MembershipNext ==
  \/ \E c \in Users : UserStep(c)
  \/ \E m \in {"invite", "leave"} : Elsewhere(m)
  \/ SyncResponds
  \/ SyncHandled

MembershipSpec == MembershipInit /\ [][MembershipNext]_membershipVars

----------------------------------------------------------------------------
\* A sync response is never behind the token it was asked with.
MembershipTypeOK ==
  /\ log \in Seq(Memberships) /\ Len(log) <= MaxEvents
  /\ seen \in 0 .. Len(log) /\ coming \in {0} \cup (seen + 1) .. Len(log)
  /\ room \in RoomStates
  /\ handle \in [Users -> Handles \cup {"none"}]
  /\ step \in [Users -> Steps]
  /\ panicked \in BOOLEAN /\ crossed \in BOOLEAN

\* Responses and syncs may be handled in any order, and the client still ends
\* up with the server's view: with nothing in flight, all synced and no two
\* changes at once, its room is in the state of our last membership event, or
\* was left and is gone.
RoomConverges ==
  ~crossed /\ seen = Len(log) /\ log # <<>> /\ (\A c \in Users : ~InFlight(c)) =>
    room = StateOf(Member) \/ (room = "unknown" /\ Member = "leave")

\* The unwrap in create_room fails only if our membership was changed from
\* elsewhere before the answer was there.
CreateUnwraps == panicked => crossed
=============================================================================
