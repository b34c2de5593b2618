---------------------------- MODULE ChatSession ----------------------------
(***************************************************************************)
(* The load test of bin/chat.rs.  Every goose user has two threads: the    *)
(* logic task goose runs (on_start, task_scheduler, on_stop) and the       *)
(* sync_forever task that on_start spawns.  Both reach the GooseUser       *)
(* through the raw pointers of the global vector GOOSE_USERS, and all      *)
(* users share the CANCELED flag.                                          *)
(*                                                                         *)
(* A user is its weighted_users_index.  CLIENTS[u] exists exactly from     *)
(* BeginLogin(u) on, so it is not a variable.  Code between two awaits is  *)
(* one step.  Of room_messages only "some event of room r that client c    *)
(* received" is kept; the pagination tokens of room_tokens, which nothing  *)
(* but the next /messages request reads, are left out.                     *)
(***************************************************************************)
EXTENDS Integers, Sequences

CONSTANTS
  NUsers,       \* number of goose users (--users)
  Rooms,        \* the rooms of the homeserver
  NoRoom,       \* Option::None of a room id
  LoginTries,   \* attempts of on_start to log in (3 in the code)
  Envs          \* the environments to consider: each a set of EnvKinds

Users == 0 .. NUsers - 1

\* What an environment does besides answering in time.
EnvKinds ==
  { "unordered_start",  \* tokio starts the users' on_start in any order
    "early_sync",       \* a sync answer overtakes set_session_data
    "login_error",      \* login requests fail
    "leave",            \* the server removes a user from a room
    "stall",            \* a task_sleep is held up between two looks at the clock
    "busy" }            \* the server answers /sync with 429 or 5xx

ASSUME NUsersAssumption == NUsers \in Nat \ {0}
ASSUME RoomAssumption == NoRoom \notin Rooms
ASSUME LoginTriesAssumption == LoginTries \in Nat \ {0}
ASSUME EnvsAssumption == Envs \subseteq SUBSET EnvKinds

VARIABLES
  pc,             \* where the logic task of a user is
  retries,        \* login attempts left
  GOOSE_USERS,    \* the users in the order their on_start pushed them
  CANCELED,       \* the global flag of lib.rs
  ATTACK_START,   \* the run time clock: not started, running, elapsed
  told,           \* the users goose has sent the exit command
  open,           \* whether the session data (ClientData) is set
  room_id,        \* ClientData.room_id
  room_messages,  \* ClientData.room_messages
  target,         \* the local room_id of look_at_room
  membership,     \* the rooms as the client's store knows them
  sync,           \* where the sync_forever task of a user is
  late,           \* history: sync_once calls begun after CANCELED was set
  env             \* the environment of this run, fixed

data == <<room_id, room_messages>>
vars == <<pc, retries, GOOSE_USERS, CANCELED, ATTACK_START, told, open, data,
          target, membership, sync, late, env>>

LogicStates ==
  { "new", "building", "login", "spawned", "idle", "sched", "typing", "compose",
    "look", "request", "pause", "stopping", "waiting", "gone", "panicked" }
SyncStates ==
  { "none", "ready", "sending", "backoff", "check", "done", "panicked" }
LateCap == 2   \* `late` counts no further
Membership == { "none", "joined", "left" }

----------------------------------------------------------------------------
(* GOOSE_USERS: position u is read as user u, whoever was pushed there.    *)

InRange(u) == u < Len(GOOSE_USERS)
Slot_Last(u) == GOOSE_USERS[Len(GOOSE_USERS)]
Slot(u) == GOOSE_USERS[u + 1]

\* The GooseUser lives until goose's user loop returns or unwinds.
Alive(u) == pc[u] \notin {"gone", "panicked"}

\* sync_forever_handle.is_finished(): true also of a task that panicked.
SyncFinished_NoRequest(u) == sync[u] \notin {"sending", "backoff"}
SyncFinished(u) == sync[u] \in {"none", "done", "panicked"}

\* The check that starts task_scheduler and each round of its loop.
Stopped == CANCELED \/ ATTACK_START = "expired"

Joined(u, r) == membership[u][r] = "joined"
Heard(u, r) == \E c \in Users : <<c, r>> \in room_messages[u]

Step(u, from, to) ==
  /\ pc[u] = from
  /\ pc' = [pc EXCEPT ![u] = to]

\* Where a task_sleep may end.  TaskSleep models it tick by tick: it panics if
\* its time runs out after the check of its loop and before the subtraction.
AfterSleep(to) == {to} \cup {s \in {"panicked"} : "stall" \in env}

----------------------------------------------------------------------------
(* on_start *)

\* goose spawns the users 1 / hatch_rate apart; nothing orders their tasks.
MayStart(u) ==
  \/ "unordered_start" \in env
  \/ \A v \in 0 .. u - 1 : pc[v] # "new"

Start(u) ==
  /\ MayStart(u)
  /\ Step(u, "new", "building")
  /\ GOOSE_USERS' = Append(GOOSE_USERS, u)
  /\ UNCHANGED <<retries, CANCELED, ATTACK_START, told, open, data, target,
                 membership, sync, late, env>>

\* The first request of the client indexes GOOSE_USERS, out of bounds if
\* users with smaller indices have not pushed themselves yet.
BeginLogin(u) ==
  /\ Step(u, "building", IF InRange(u) THEN "login" ELSE "panicked")
  /\ UNCHANGED <<retries, GOOSE_USERS, CANCELED, ATTACK_START, told, open, data,
                 target, membership, sync, late, env>>

\* Adds on_room_message and spawns sync_forever; set_session_data comes after.
LoginOk(u) ==
  /\ Step(u, "login", "spawned")
  /\ sync' = [sync EXCEPT ![u] = "ready"]
  /\ UNCHANGED <<retries, GOOSE_USERS, CANCELED, ATTACK_START, told, open, data,
                 target, membership, late, env>>

SetSessionData_Missing(u) ==
  /\ Step(u, "spawned", "idle")
  /\ UNCHANGED <<retries, GOOSE_USERS, CANCELED, ATTACK_START, told, open, data,
                 target, membership, sync, late, env>>

SetSessionData(u) ==
  /\ Step(u, "spawned", "idle")
  /\ open' = [open EXCEPT ![u] = TRUE]
  /\ UNCHANGED <<retries, GOOSE_USERS, CANCELED, ATTACK_START, told, data,
                 target, membership, sync, late, env>>

LoginErr_OffByOne(u) ==
  /\ "login_error" \in env
  /\ Step(u, "login", IF retries[u] >= 1 THEN "login" ELSE "idle")
  /\ retries' = [retries EXCEPT ![u] = @ - 1]
  /\ UNCHANGED <<GOOSE_USERS, CANCELED, ATTACK_START, told, open, data, target,
                 membership, sync, late, env>>

\* After the last attempt on_start still returns Ok(()).
LoginErr(u) ==
  /\ "login_error" \in env
  /\ Step(u, "login", IF retries[u] > 1 THEN "login" ELSE "idle")
  /\ retries' = [retries EXCEPT ![u] = @ - 1]
  /\ UNCHANGED <<GOOSE_USERS, CANCELED, ATTACK_START, told, open, data, target,
                 membership, sync, late, env>>

----------------------------------------------------------------------------
(* task_scheduler.  Goose runs it again whenever it returns, until the     *)
(* user is told to exit; run after Stopped it returns at once.             *)

logicOnly == <<retries, GOOSE_USERS, CANCELED, told, open, membership, sync, late, env>>

RunScheduler(u) ==
  /\ u \notin told
  /\ ~Stopped
  /\ Step(u, "idle", "sched")
  /\ ATTACK_START' = "running"
  /\ UNCHANGED <<logicOnly, data, target>>

ExitScheduler(u) ==
  /\ Stopped
  /\ Step(u, "sched", "idle")
  /\ UNCHANGED <<logicOnly, ATTACK_START, data, target>>

PickTask(u, next) ==
  /\ ~Stopped
  /\ Step(u, "sched", next)
  /\ UNCHANGED <<logicOnly, ATTACK_START>>

\* do_nothing, go_afk and send_image; also the other tasks where they return
\* early (no room joined, no room paginated yet, no message heard).
Rest(u) ==
  /\ PickTask(u, "pause")
  /\ UNCHANGED <<data, target>>

\* Without a login, user_id().unwrap() or the session data's unwrap() panics
\* in every task that talks to the server.
PanicWithoutSession(u) ==
  /\ ~open[u]
  /\ PickTask(u, "panicked")
  /\ UNCHANGED <<data, target>>

\* send_text trusts the room stored by the last paginate_room.
SendText(u) ==
  /\ open[u]
  /\ room_id[u] # NoRoom
  /\ PickTask(u, IF Joined(u, room_id[u]) THEN "typing" ELSE "panicked")
  /\ UNCHANGED <<data, target>>

\* look_at_room chooses a room; SendReceipt looks it up a second time.
LookAtRoom(u, r) ==
  /\ open[u] /\ Joined(u, r) /\ Heard(u, r)
  /\ PickTask(u, "look")
  /\ target' = [target EXCEPT ![u] = r]
  /\ UNCHANGED data

PaginateRoom(u, r) ==
  /\ open[u] /\ Joined(u, r)
  /\ PickTask(u, "request")
  /\ room_id' = [room_id EXCEPT ![u] = r]
  /\ UNCHANGED <<room_messages, target>>

ChangeDisplayName(u) ==
  /\ open[u]
  /\ PickTask(u, "request")
  /\ UNCHANGED <<data, target>>

SendReaction(u, r) ==
  /\ open[u] /\ Joined(u, r) /\ Heard(u, r)
  /\ PickTask(u, "request")
  /\ UNCHANGED <<data, target>>

SendReceipt(u) ==
  /\ Step(u, "look", IF Joined(u, target[u]) THEN "request" ELSE "panicked")
  /\ target' = [target EXCEPT ![u] = NoRoom]
  /\ UNCHANGED <<logicOnly, ATTACK_START, data>>

TypingDone(u) ==
  /\ Step(u, "typing", "compose")
  /\ UNCHANGED <<logicOnly, ATTACK_START, data, target>>

\* The sleep is over in which send_text pretends to type.
SendMessage(u) ==
  /\ \E s \in AfterSleep("request") : Step(u, "compose", s)
  /\ UNCHANGED <<logicOnly, ATTACK_START, data, target>>

RequestDone(u) ==
  /\ Step(u, "request", "pause")
  /\ UNCHANGED <<logicOnly, ATTACK_START, data, target>>

\* The end of a round: its own task_sleep(0.1, true), after that of do_nothing
\* or go_afk where there was one.
Resume(u) ==
  /\ \E s \in AfterSleep("sched") : Step(u, "pause", s)
  /\ UNCHANGED <<logicOnly, ATTACK_START, data, target>>

----------------------------------------------------------------------------
(* on_stop, and the drop of the GooseUser when goose's user loop returns.  *)

OnStop_KeepsRunning(u) ==
  /\ u \in told
  /\ Step(u, "idle", IF open[u] THEN "stopping" ELSE "gone")
  /\ UNCHANGED <<retries, GOOSE_USERS, CANCELED, ATTACK_START, told, open, data,
                 target, membership, sync, late, env>>

OnStop(u) ==
  /\ u \in told
  /\ Step(u, "idle", IF open[u] THEN "stopping" ELSE "gone")
  /\ CANCELED' = (CANCELED \/ open[u])
  /\ UNCHANGED <<retries, GOOSE_USERS, ATTACK_START, told, open, data, target,
                 membership, sync, late, env>>

\* on_stop looks whether the sync task has finished, and sleeps if it has not.
Wait(u) ==
  /\ ~SyncFinished(u)
  /\ Step(u, "stopping", "waiting")
  /\ UNCHANGED <<logicOnly, ATTACK_START, data, target>>

WakeUp(u) ==
  /\ \E s \in AfterSleep("stopping") : Step(u, "waiting", s)
  /\ UNCHANGED <<logicOnly, ATTACK_START, data, target>>

Drop(u) ==
  /\ SyncFinished(u)
  /\ Step(u, "stopping", "gone")
  /\ UNCHANGED <<logicOnly, ATTACK_START, data, target>>

----------------------------------------------------------------------------
(* sync_forever.  delay_sync is part of the step to the next sync_once.    *)

syncUnchanged == <<pc, retries, GOOSE_USERS, CANCELED, ATTACK_START, told, open,
                   room_id, target, env>>

SyncBegin(u) ==
  /\ sync[u] = "ready"
  /\ sync' = [sync EXCEPT ![u] = "sending"]
  /\ late' = [late EXCEPT ![u] = IF CANCELED /\ @ < LateCap THEN @ + 1 ELSE @]
  /\ UNCHANGED <<syncUnchanged, room_messages, membership>>

\* The request of sync_once has no retry limit and no retry timeout.
SyncRetry(u) ==
  /\ "busy" \in env
  /\ sync[u] = "sending"
  /\ sync' = [sync EXCEPT ![u] = "backoff"]
  /\ UNCHANGED <<syncUnchanged, room_messages, membership, late>>

SyncResend(u) ==
  /\ sync[u] = "backoff"
  /\ sync' = [sync EXCEPT ![u] = "sending"]
  /\ UNCHANGED <<syncUnchanged, room_messages, membership, late>>

Moves(m) ==
  IF m = "joined" THEN {l \in {"left"} : "leave" \in env} ELSE {"joined"}

\* What a sync response can make of the client's rooms.
NextRooms(u) ==
  { f \in [Rooms -> Membership] :
      \A r \in Rooms : f[r] \in {membership[u][r]} \cup Moves(membership[u][r]) }

\* on_room_message, run in client u's task for the rooms of rs: it stores into
\* the session of the user at position u.  A missing session is an unwrap of
\* None; a dropped user is undefined behaviour, here a lost event or a panic.
OnRoomMessage(u, rs) ==
  LET v == Slot(u) IN
  \/ /\ Alive(v) /\ open[v]
     /\ sync' = [sync EXCEPT ![u] = "check"]
     /\ room_messages' = [room_messages EXCEPT ![v] = @ \cup ({u} \X rs)]
  \/ /\ ~(Alive(v) /\ open[v])
     /\ sync' = [sync EXCEPT ![u] = "panicked"]
     /\ UNCHANGED room_messages
  \/ /\ ~Alive(v)
     /\ sync' = [sync EXCEPT ![u] = "check"]
     /\ UNCHANGED room_messages

\* A response: the store first, then the handlers of its message events.
SyncOk(u) ==
  /\ sync[u] = "sending"
  /\ pc[u] = "spawned" => "early_sync" \in env
  /\ \E f \in NextRooms(u) :
       /\ membership' = [membership EXCEPT ![u] = f]
       /\ \E rs \in (SUBSET {r \in Rooms : f[r] = "joined"}) \ {{}} :
             OnRoomMessage(u, rs)
  /\ UNCHANGED <<syncUnchanged, late>>

\* A response without message events.
SyncQuiet(u) ==
  /\ sync[u] = "sending"
  /\ \E f \in NextRooms(u) : membership' = [membership EXCEPT ![u] = f]
  /\ sync' = [sync EXCEPT ![u] = "check"]
  /\ UNCHANGED <<syncUnchanged, room_messages, late>>

\* Errors are ignored; the next round repeats the request.
SyncErr(u) ==
  /\ sync[u] = "sending"
  /\ sync' = [sync EXCEPT ![u] = "check"]
  /\ UNCHANGED <<syncUnchanged, room_messages, membership, late>>

SyncCheck_Forever(u) ==
  /\ sync[u] = "check"
  /\ sync' = [sync EXCEPT ![u] = "ready"]
  /\ UNCHANGED <<syncUnchanged, room_messages, membership, late>>

SyncCheck(u) ==
  /\ sync[u] = "check"
  /\ sync' = [sync EXCEPT ![u] = IF CANCELED THEN "done" ELSE "ready"]
  /\ UNCHANGED <<syncUnchanged, room_messages, membership, late>>

----------------------------------------------------------------------------
(* Goose's controller, the clock and the terminal.                         *)

TellExit(u) ==
  /\ u \notin told /\ pc[u] # "new" /\ Alive(u)
  /\ told' = told \cup {u}
  /\ UNCHANGED <<pc, retries, GOOSE_USERS, CANCELED, ATTACK_START, open, data,
                 target, membership, sync, late, env>>

Expire ==
  /\ ATTACK_START = "running"
  /\ ATTACK_START' = "expired"
  /\ UNCHANGED <<pc, retries, GOOSE_USERS, CANCELED, told, open, data, target,
                 membership, sync, late, env>>

\* Every task_sleep also waits for ctrl-c.
CtrlC ==
  /\ \E u \in Users : pc[u] \in {"compose", "pause", "waiting"}
  /\ CANCELED' = TRUE
  /\ UNCHANGED <<pc, retries, GOOSE_USERS, ATTACK_START, told, open, data, target,
                 membership, sync, late, env>>

\* The load test is over: nothing is left to run.
Finished ==
  /\ \A u \in Users : ~Alive(u) /\ SyncFinished(u)
  /\ UNCHANGED vars

----------------------------------------------------------------------------
Init ==
  /\ pc = [u \in Users |-> "new"]
  /\ retries = [u \in Users |-> LoginTries]
  /\ GOOSE_USERS = << >>
  /\ CANCELED = FALSE
  /\ ATTACK_START = "unset"
  /\ told = {}
  /\ open = [u \in Users |-> FALSE]
  /\ room_id = [u \in Users |-> NoRoom]
  /\ room_messages = [u \in Users |-> {}]
  /\ target = [u \in Users |-> NoRoom]
  /\ membership = [u \in Users |-> [r \in Rooms |-> "none"]]
  /\ sync = [u \in Users |-> "none"]
  /\ late = [u \in Users |-> 0]
  /\ env \in Envs

OnStartStep(u) ==
  Start(u) \/ BeginLogin(u) \/ LoginOk(u) \/ SetSessionData(u) \/ LoginErr(u)

PickStep(u) ==
  \/ Rest(u) \/ PanicWithoutSession(u) \/ SendText(u) \/ ChangeDisplayName(u)
  \/ \E r \in Rooms : LookAtRoom(u, r) \/ PaginateRoom(u, r) \/ SendReaction(u, r)

TaskStep(u) ==
  \/ PickStep(u)
  \/ RunScheduler(u) \/ ExitScheduler(u) \/ Resume(u)
  \/ SendReceipt(u) \/ TypingDone(u) \/ SendMessage(u)
  \/ RequestDone(u)

StopStep(u) == OnStop(u) \/ Wait(u) \/ WakeUp(u) \/ Drop(u)

LogicStep(u) == OnStartStep(u) \/ TaskStep(u) \/ StopStep(u)

SyncReply(u) == SyncOk(u) \/ SyncQuiet(u) \/ SyncErr(u)
SyncStep(u) ==
  SyncBegin(u) \/ SyncReply(u) \/ SyncRetry(u) \/ SyncResend(u) \/ SyncCheck(u)

Next ==
  \/ \E u \in Users : LogicStep(u) \/ SyncStep(u) \/ TellExit(u)
  \/ Expire \/ CtrlC \/ Finished

Spec == Init /\ [][Next]_vars

\* tokio runs every task that can move.  The request a task waits for ends: an
\* attempt by its answer or its timeout, /sync not always in a way sync_once
\* accepts.  Only /sync meets a busy server here; that the server comes back to
\* answer the requests of the logic tasks is part of this assumption.
TasksRun == \A u \in Users : WF_vars(LogicStep(u)) /\ WF_vars(SyncStep(u))
\* The run time passes.
TimePasses == WF_vars(Expire)
\* The server does not answer /sync with 429 or 5xx for ever.
ServerRecovers == \A u \in Users : SF_vars(SyncReply(u))

FairSpec == Spec /\ TasksRun /\ TimePasses
RecoverSpec == Spec /\ TasksRun /\ TimePasses /\ ServerRecovers

----------------------------------------------------------------------------
TypeOK ==
  /\ pc \in [Users -> LogicStates]
  /\ retries \in [Users -> 0 .. LoginTries]
  /\ GOOSE_USERS \in Seq(Users)
  /\ CANCELED \in BOOLEAN
  /\ ATTACK_START \in {"unset", "running", "expired"}
  /\ told \subseteq Users
  /\ open \in [Users -> BOOLEAN]
  /\ room_id \in [Users -> Rooms \cup {NoRoom}]
  /\ room_messages \in [Users -> SUBSET (Users \X Rooms)]
  /\ target \in [Users -> Rooms \cup {NoRoom}]
  /\ membership \in [Users -> [Rooms -> Membership]]
  /\ sync \in [Users -> SyncStates]
  /\ late \in [Users -> 0 .. LateCap]
  /\ env \in SUBSET EnvKinds

\* The tasks of client u that are using the user at position u: a request of
\* the logic task, or the request and then the handlers of the sync task.
UsesSlot(u) ==
  \/ pc[u] \in {"login", "typing", "request"}
  \/ sync[u] \in {"sending", "backoff"}

\* No task follows a pointer of GOOSE_USERS to a user that was dropped: the
\* sync task shares the user with the logic task, and on_stop must outwait it.
\* (Users starting out of order break it, and users that unwind over a sync task:
\* from a room left under them, or from a task_sleep that was held up.)
NoUseAfterDrop ==
  env \cap {"unordered_start", "leave", "stall"} = {} =>
    \A u \in Users : UsesSlot(u) => InRange(u) /\ Alive(Slot(u))

\* on_room_message of client u stores into the session of user u and of no
\* other: a user only ever looks at and reacts to what its own client heard.
OwnMessages ==
  "unordered_start" \notin env =>
    \A u \in Users : room_messages[u] \subseteq {u} \X Rooms

\* If users start in order, no room is left, no event overtakes the session data
\* and no task_sleep is held up, only a user whose login failed panics: no user
\* unwinds while its sync task is running, and no sync task meets a missing
\* session.  Each of the four brings a user that is logged in down.
PanicsOnlyLoggedOut ==
  env \cap {"unordered_start", "leave", "early_sync", "stall"} = {} =>
    \A u \in Users : /\ pc[u] = "panicked" => sync[u] = "none"
                     /\ sync[u] # "panicked"

\* A user that went through on_stop leaves no sync task behind, whatever else
\* goes wrong: "we cannot directly abort", so it must have ended by itself.
StopDrainsSync == \A u \in Users : pc[u] = "gone" => SyncFinished(u)

\* CANCELED stops the traffic of every user at once: each sync task sends at
\* most the one request it was already about to send.
AtMostOneLateSync == \A u \in Users : late[u] <= 1

\* A user that is told to exit is dropped: it leaves the scheduler, and the
\* sync task on_stop waits for ends.
StopCompletes == \A u \in Users : (u \in told) ~> ~Alive(u)

\* Once anyone has cancelled, the sync tasks of all users end for good.
CancelDrains == CANCELED ~> [](\A u \in Users : sync[u] \in {"none", "done", "panicked"})

\* "Failed login for user {}. Skipping...": a user that could not log in takes
\* no further part in the load test, and does not bring its task down.
FailedLoginSkipped == \A u \in Users : retries[u] = 0 => pc[u] # "panicked"
============================================================================
