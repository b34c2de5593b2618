------------------------------ MODULE SyncLoop ------------------------------
(***************************************************************************)
(* sync, sync_with_callback, sync_with_result_callback and sync_stream     *)
(* (matrix/mod.rs) with process_sync (matrix/sync.rs), and the dispatch of *)
(* the events to the handlers of EventHandlers.                            *)
(*                                                                         *)
(* The server has a log of events; the token next_batch is the number of   *)
(* events it covers.  Other tasks of the program add and remove handlers   *)
(* at any time.                                                            *)
(***************************************************************************)
EXTENDS EventHandlers, Sequences

CONSTANTS
  Lists,   \* [Rooms -> ListNames]: the part of the response a room is in
  Logs,    \* the server's logs to consider: sequences of Events
  Modes,   \* the loops to consider: see the variable mode
  Envs     \* the environments to consider: each a set of EnvKinds

ListNames == {"join", "leave", "invite"}

EnvKinds ==
  { "errors",  \* sync requests fail
    "skips" }  \* the base client ignores a response whose token it has stored

ModeNames ==
  { "sync",    \* sync, sync_with_callback: an error ends the loop
    "result" } \* sync_with_result_callback, sync_stream: the caller decides

Sections ==
  { "GlobalAccountData", "Presence", "ToDevice", "RoomAccountData", "State",
    "Timeline", "EphemeralRoomData", "StrippedState" }

\* bad: there is no type to be read from it.  garbled: the kinds of handlers
\* whose type does not fit its content.
Event == [section : Sections, room : Rooms \cup {NoRoom}, type : Types,
          state : BOOLEAN, redacted : BOOLEAN, notifies : BOOLEAN, bad : BOOLEAN,
          garbled : SUBSET HandlerKind]

ASSUME ListsAssumption == Lists \in [Rooms -> ListNames]
ASSUME LogsAssumption == Logs \subseteq Seq(Event)
ASSUME ModesAssumption == Modes \subseteq ModeNames
ASSUME EnvsAssumption == Envs \subseteq SUBSET EnvKinds

VARIABLES
  log,       \* the server's events
  mode,      \* which loop the program runs
  env,       \* the environment of this run
  loop,      \* where the loop is
  since,     \* sync_settings.token
  stored,    \* the sync token in the store
  after,     \* the response being processed has the events after this one
  todo,      \* the calls of call_event_handlers the response is still to make
  running,   \* <<n, h>>: h's future for event n has not ended
  notices,   \* the notification handlers' futures, not yet awaited
  \* What follows is history.
  told,      \* <<n, l>>: listener l was told of event n of this response
  steady,    \* those who have listened since it came
  failed,    \* whether handling has failed since the token last advanced
  asked      \* the ids of handlers that asked to be removed while they ran

params == <<log, mode, env>>
batch == <<after, todo, running, notices>>
history == <<told, steady, failed, asked>>
vars == <<registry, params, loop, since, stored, batch, history>>

----------------------------------------------------------------------------
(* The calls a response makes, and their order.                            *)

Redacted(original, redacted, ev) == IF ev.redacted THEN redacted ELSE original

StateKinds(ev) == {"State", Redacted("OriginalState", "RedactedState", ev)}

MessageKinds(ev) ==
  {"MessageLike", Redacted("OriginalMessageLike", "RedactedMessageLike", ev)}

\* handle_sync_events, handle_sync_state_events, handle_sync_timeline_events.
KindsOf(ev) ==
  CASE ev.section = "State" -> StateKinds(ev)
    [] ev.section = "Timeline" ->
         {"Timeline"} \cup (IF ev.state THEN StateKinds(ev) ELSE MessageKinds(ev))
    [] OTHER -> {ev.section}

Calls(from, to) ==
  { c \in [ev : from + 1 .. to, kind : HandlerKind] : c.kind \in KindsOf(log[c.ev]) }

ListRank(room) ==
  CASE room = NoRoom -> 0
    [] Lists[room] = "join" -> 1
    [] Lists[room] = "leave" -> 2
    [] OTHER -> 3

SectionRank_Early ==
  [ GlobalAccountData |-> 1, Presence |-> 2, ToDevice |-> 3,
    RoomAccountData |-> 4, State |-> 5, EphemeralRoomData |-> 6, Timeline |-> 7,
    StrippedState |-> 8 ]

SectionRank ==
  [ GlobalAccountData |-> 1, Presence |-> 2, ToDevice |-> 3,
    RoomAccountData |-> 4, State |-> 5, Timeline |-> 6, EphemeralRoomData |-> 7,
    StrippedState |-> 8 ]

KindRank(kind) ==
  CASE kind \in {"State", "MessageLike"} -> 1
    [] kind = "Timeline" -> 3
    [] OTHER -> 2

\* The section `state` is gone through twice, the others once.
Pass(c) ==
  IF log[c.ev].section = "State" /\ c.kind # "State" THEN 2 ELSE 1

Rank(c) ==
  LET e == log[c.ev]
  IN  << ListRank(e.room), e.room, SectionRank[e.section], Pass(c), c.ev,
         KindRank(c.kind) >>

Before(a, b) ==
  \E i \in 1 .. Len(a) : a[i] < b[i] /\ \A j \in 1 .. i - 1 : a[j] = b[j]

First(c) == c \in todo /\ \A d \in todo \ {c} : Before(Rank(c), Rank(d))

----------------------------------------------------------------------------
(* Who listens: the handlers, and the notification handlers.               *)

Notifier(i) ==
  [id |-> i, key |-> [kind |-> "Notification", type |-> NoType, room |-> NoRoom,
                      needs |-> "nothing"]]

AllListeners == Handlers \cup { Notifier(i) : i \in 1 .. MaxNotifiers }
Listeners == handlers \cup { Notifier(i) : i \in 1 .. notifiers }

----------------------------------------------------------------------------
(* The loop.                                                               *)

Start ==
  /\ loop = "ended"
  /\ loop' = "ask"
  /\ since' = stored
  /\ failed' = FALSE
  /\ UNCHANGED <<registry, params, stored, batch, told, steady, asked>>

RequestFails ==
  /\ loop = "ask" /\ "errors" \in env
  /\ loop' = "error"
  /\ UNCHANGED <<registry, params, since, stored, batch, history>>

\* receive_sync_response stores the response, and its token.
Respond(n) ==
  /\ loop = "ask"
  /\ n \in since .. Len(log)
  /\ loop' = "dispatch"
  /\ stored' = n
  /\ after' = IF "skips" \in env /\ n = stored THEN n ELSE since
  /\ todo' = Calls(after', n)
  /\ told' = {}
  /\ steady' = { l \in Listeners : l.key.needs = "context" => context }
  /\ UNCHANGED <<registry, params, since, running, notices, failed, asked>>

CanRead(l, ev) == l.key.kind \notin ev.garbled

\* The handlers of one event and kind, with the lock on the store held.  Those
\* that cannot read it, or lack an argument, are skipped with a line in the log.
CallEventHandlers(c) ==
  /\ loop = "dispatch" /\ running = {}
  /\ First(c) /\ ~log[c.ev].bad
  /\ todo' = todo \ {c}
  /\ LET e == log[c.ev]
         called == { h \in GetHandlers(c.kind, e.type, e.room) :
                       CanRead(h, e) /\ Applicable(h, e.room) }
     IN  running' = {c.ev} \X called
  /\ UNCHANGED <<registry, params, loop, since, stored, after, notices, history>>

DeserializeFails_Token(c) ==
  /\ loop = "dispatch" /\ running = {}
  /\ First(c) /\ log[c.ev].bad
  /\ loop' = "error"
  /\ since' = stored
  /\ todo' = {}
  /\ told' = {} /\ steady' = {} /\ failed' = TRUE
  /\ UNCHANGED <<registry, params, stored, after, running, notices, asked>>

\* The rest of the response is not handled, though it has been stored.
DeserializeFails(c) ==
  /\ loop = "dispatch" /\ running = {}
  /\ First(c) /\ log[c.ev].bad
  /\ loop' = "error"
  /\ todo' = {}
  /\ told' = {} /\ steady' = {} /\ failed' = TRUE
  /\ UNCHANGED <<registry, params, since, stored, after, running, notices, asked>>

Told(n, h) ==
  /\ <<n, h>> \in running
  /\ running' = running \ {<<n, h>>}
  /\ told' = told \cup {<<n, h>>}

runUnchanged == <<params, loop, since, stored, after, todo, notices, failed>>

\* A handler's future ends.
RunHandler(n, h) ==
  /\ Told(n, h)
  /\ UNCHANGED <<runUnchanged, registry, steady, asked>>

\* It calls remove_event_handler with the handle it was given.
RunAndRemove(n, h) ==
  /\ Told(n, h)
  /\ RemoveEventHandler(GivenHandle(h, log[n].room))
  /\ steady' = steady \cap Listeners'
  /\ asked' = asked \cup {h.id}
  /\ UNCHANGED runUnchanged

----------------------------------------------------------------------------
(* Notification handlers.                                                  *)

CollectNotifications ==
  /\ loop = "dispatch" /\ running = {} /\ todo = {}
  /\ loop' = "notify"
  /\ notices' =
       { f \in [by : 1 .. notifiers, ev : after + 1 .. stored] : log[f.ev].notifies }
  /\ UNCHANGED <<registry, params, since, stored, after, todo, running, history>>

\* They are awaited one by one: for each handler the rooms, for each room its
\* notifications.
RunNotice(f) ==
  /\ loop = "notify" /\ f \in notices
  /\ \A g \in notices \ {f} :
       Before(<<f.by, log[f.ev].room, f.ev>>, <<g.by, log[g.ev].room, g.ev>>)
  /\ notices' = notices \ {f}
  /\ told' = told \cup {<<f.ev, Notifier(f.by)>>}
  /\ UNCHANGED <<registry, params, loop, since, stored, after, todo, running,
                 steady, failed, asked>>

----------------------------------------------------------------------------
(* The end of a turn.                                                      *)

Finish_TokenKept ==
  /\ loop = "notify" /\ notices = {}
  /\ loop' = "ok"
  /\ told' = {} /\ steady' = {} /\ failed' = FALSE
  /\ UNCHANGED <<registry, params, since, stored, batch, asked>>

\* sync_once is Ok, and sync_loop_helper moves the token on.
Finish ==
  /\ loop = "notify" /\ notices = {}
  /\ loop' = "ok"
  /\ since' = stored
  /\ told' = {} /\ steady' = {} /\ failed' = FALSE
  /\ UNCHANGED <<registry, params, stored, batch, asked>>

\* The callback continues or breaks; after an error, only a loop with a result
\* callback may continue.
Callback ==
  /\ \/ loop = "ok" /\ loop' \in {"ask", "ended"}
     \/ loop = "error" /\ loop' = "ended"
     \/ loop = "error" /\ mode = "result" /\ loop' = "ask"
  /\ UNCHANGED <<registry, params, since, stored, batch, history>>

----------------------------------------------------------------------------
\* Other tasks of the program, or what a handler does besides.
Program ==
  /\ RegistryNext
  /\ steady' = steady \cap Listeners'
  /\ UNCHANGED <<params, loop, since, stored, batch, told, failed, asked>>

Init ==
  /\ RegistryInit
  /\ log \in Logs /\ mode \in Modes /\ env \in Envs
  /\ loop = "ended"
  /\ since = 0 /\ stored = 0 /\ after = 0
  /\ todo = {} /\ running = {} /\ notices = {}
  /\ told = {} /\ steady = {} /\ failed = FALSE /\ asked = {}

Handle ==
  \/ \E c \in todo : CallEventHandlers(c) \/ DeserializeFails(c)
  \/ \E p \in running : RunHandler(p[1], p[2]) \/ RunAndRemove(p[1], p[2])
  \/ CollectNotifications
  \/ \E f \in notices : RunNotice(f)
  \/ Finish

Next ==
  \/ Start \/ RequestFails \/ Handle \/ Callback \/ Program
  \/ \E n \in 0 .. Len(log) : Respond(n)

Spec == Init /\ [][Next]_vars

\* The requests of the loop are retried for as long as the server is busy: that
\* they end is the server's doing.  And a server that is asked again and again
\* sends what is new.
ServerRecovers ==
  /\ WF_vars(loop = "ask" /\ Next)
  /\ SF_vars(\E n \in 0 .. Len(log) : n > since /\ Respond(n))

\* The handlers' futures end, and the loop goes on until the callback breaks it.
FairSpec == Spec /\ WF_vars(Handle) /\ WF_vars(Callback) /\ ServerRecovers

----------------------------------------------------------------------------
Places == {"ended", "ask", "dispatch", "notify", "ok", "error"}

TypeOK ==
  /\ RegistryTypeOK
  /\ log \in Seq(Event) /\ mode \in ModeNames /\ env \in SUBSET EnvKinds
  /\ loop \in Places
  /\ since \in 0 .. Len(log) /\ stored \in 0 .. Len(log)
  /\ after \in 0 .. Len(log)
  /\ todo \subseteq Calls(after, stored)
  /\ running \subseteq (1 .. Len(log)) \X Handlers
  /\ told \subseteq (1 .. Len(log)) \X AllListeners
  /\ notices \subseteq [by : 1 .. notifiers, ev : after + 1 .. stored]
  /\ steady \subseteq Listeners
  /\ failed \in BOOLEAN
  /\ asked \subseteq Nat

\* The loop keeps the promise of Delivery: no listener is told twice of an
\* event within an attempt, none that has listened throughout is left out of an
\* event it can read when the token advances, and who is removed is called once
\* more at most.
Wants(l, ev) ==
  IF l.key.kind = "Notification" THEN ev.notifies
  ELSE /\ l.key.kind \in KindsOf(ev)
       /\ l.key.type \in {NoType, ev.type}
       /\ l.key.room \in {NoRoom, ev.room}
       /\ l.key.needs = "room" => ev.room # NoRoom

NeedsContext(l) == l.key.needs = "context"

Promise ==
  INSTANCE Delivery WITH
    Listener <- AllListeners,
    Wants <- Wants, CanRead <- CanRead, NeedsCtx <- NeedsContext,
    listeners <- Listeners, able <- context, confirmed <- since,
    leaving <- { p[2] : p \in running } \ handlers

Delivers == Promise!Spec

\* "Handle ephemeral events after timeline, read receipts in here could refer
\* to timeline events from the same response."
EphemeralLast ==
  \A p \in running, c \in todo :
    log[p[1]].section = "EphemeralRoomData" /\ log[c.ev].section = "Timeline"
    => log[c.ev].room # log[p[1]].room

\* A handler registered for a room, or for events outside rooms, that removes
\* itself with the handle it is given is not registered any more.
AskedAreGone ==
  \A h \in handlers : h.id \in asked =>
    h.key.room = NoRoom /\ \E n \in 1 .. Len(log) : log[n].room # NoRoom /\ Wants(h, log[n])

\* Given a server that recovers, every event is handled unless the program ends
\* the loop.
CatchesUp ==
  (\A n \in 1 .. Len(log) : ~log[n].bad) => []<>(loop = "ended" \/ since = Len(log))

\* "Remove the event handler associated with the handle", of a handle that a
\* handler got as its argument.
HandleRemoves == \A h \in handlers : h.id \notin asked
============================================================================
