---------------------------- MODULE EventHandlers ----------------------------
(***************************************************************************)
(* The event handlers of a client (matrix/event_handler/): registration,   *)
(* lookup and removal, the context they may ask for, and the notification  *)
(* handlers.  SyncLoop calls them.                                         *)
(*                                                                         *)
(* The four maps of EventHandlerMaps are one set of handlers: a handler    *)
(* lies under the key made of the kind, type and room it was registered    *)
(* with, and a map has no key without handlers.                            *)
(***************************************************************************)
EXTENDS Naturals

CONSTANTS
  Rooms,         \* rooms, numbered in the order of their ids
  Types,         \* event types
  Registrations, \* what the program registers: a set of Keys
  MaxHandlers,   \* it registers this many handlers
  MaxNotifiers   \* and this many notification handlers

NoRoom == 0
NoType == "no type"

HandlerKind ==
  { "GlobalAccountData", "RoomAccountData", "EphemeralRoomData", "Timeline",
    "MessageLike", "OriginalMessageLike", "RedactedMessageLike", "State",
    "OriginalState", "RedactedState", "StrippedState", "ToDevice", "Presence" }

\* The kinds of the Any*Event types, which have no TYPE.
AnyEventKinds ==
  { "GlobalAccountData", "RoomAccountData", "EphemeralRoomData", "Timeline",
    "MessageLike", "State", "StrippedState", "ToDevice" }

\* KIND and TYPE of the types that implement SyncEvent.
SyncEvent ==
  ((HandlerKind \ {"Timeline"}) \X Types) \cup (AnyEventKinds \X {NoType})

\* The arguments a handler takes besides the event.  It is skipped where one
\* of them is not to be had.
Needs == {"nothing", "room", "context"}

Keys == { k \in [kind : HandlerKind, type : Types \cup {NoType},
                 room : Rooms \cup {NoRoom}, needs : Needs] :
          <<k.kind, k.type>> \in SyncEvent }

Handlers == [id : 0 .. MaxHandlers - 1, key : Registrations]

ASSUME RoomsAssumption == Rooms \subseteq Nat \ {0}
ASSUME TypesAssumption == NoType \notin Types
ASSUME RegistrationsAssumption == Registrations \subseteq Keys
ASSUME BoundsAssumption == MaxHandlers \in Nat /\ MaxNotifiers \in Nat

VARIABLES
  handlers,   \* the registered handlers
  counter,    \* the id of the next one
  context,    \* whether the context some handlers ask for was added
  notifiers   \* the number of notification handlers

registry == <<handlers, counter, context, notifiers>>

----------------------------------------------------------------------------
Matches(h, kind, type, room) ==
  /\ h.key.kind = kind
  /\ h.key.type \in {NoType, type}
  /\ h.key.room \in {NoRoom, room}

\* get_handlers, for an event in a room or with NoRoom.
GetHandlers(kind, type, room) == { h \in handlers : Matches(h, kind, type, room) }

\* Whether handle_event finds all the arguments.
Applicable(h, room) ==
  /\ h.key.needs = "room" => room # NoRoom
  /\ h.key.needs = "context" => context

\* The handle that a handler gets as an argument: it has the event's room.
GivenHandle(h, room) == [id |-> h.id, key |-> [h.key EXCEPT !.room = room]]

Removed_Typed(handle) ==
  { h \in handlers :
      ~ /\ h.id = handle.id /\ h.key.kind = handle.key.kind
        /\ h.key.type = handle.key.type /\ h.key.type # NoType
        /\ h.key.room = handle.key.room }

\* EventHandlerMaps::remove: looks under the handle's own key only.
Removed(handle) ==
  { h \in handlers :
      ~ /\ h.id = handle.id
        /\ h.key.kind = handle.key.kind
        /\ h.key.type = handle.key.type
        /\ h.key.room = handle.key.room }

----------------------------------------------------------------------------
AddEventHandler_SameId(key) ==
  /\ counter < MaxHandlers
  /\ handlers' = handlers \cup {[id |-> 0, key |-> key]}
  /\ counter' = counter + 1
  /\ UNCHANGED <<context, notifiers>>

AddEventHandler(key) ==
  /\ counter < MaxHandlers
  /\ handlers' = handlers \cup {[id |-> counter, key |-> key]}
  /\ counter' = counter + 1
  /\ UNCHANGED <<context, notifiers>>

\* With the handle add_event_handler returned, directly or by its drop guard.
RemoveEventHandler(h) ==
  /\ handlers' = Removed(h)
  /\ UNCHANGED <<counter, context, notifiers>>

AddContext ==
  /\ ~context
  /\ context' = TRUE
  /\ UNCHANGED <<handlers, counter, notifiers>>

RegisterNotificationHandler ==
  /\ notifiers < MaxNotifiers
  /\ notifiers' = notifiers + 1
  /\ UNCHANGED <<handlers, counter, context>>

RegistryInit ==
  /\ handlers = {}
  /\ counter = 0
  /\ context = FALSE
  /\ notifiers = 0

\* What any task of the program may do at any time.
RegistryNext ==
  \/ \E key \in Registrations : AddEventHandler(key)
  \/ \E h \in handlers : RemoveEventHandler(h)
  \/ AddContext
  \/ RegisterNotificationHandler

\* Each id names one handler, so that a handle removes no other.
RegistryTypeOK ==
  /\ handlers \subseteq Handlers
  /\ counter \in Nat
  /\ \A h \in handlers : h.id < counter
  /\ \A g, h \in handlers : g.id = h.id => g = h
  /\ context \in BOOLEAN
  /\ notifiers \in 0 .. MaxNotifiers
============================================================================
