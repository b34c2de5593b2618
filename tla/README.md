# Matrix Goose in TLA+

Matrix Goose load-tests a Matrix homeserver with the Goose framework: Goose
users log in, sync for as long as the test runs, and chat. Under `matrix/` it
holds a copy of the Matrix Rust SDK's client whose HTTP requests are sent by a
Goose user, so that Goose measures them. This directory holds TLA+ models of
that program, the TLC runs that check them, and proofs of what matters most.

All paths are relative to the repository's `src/` (so `bin/chat.rs` is
`src/bin/chat.rs` of the repository).

    tlc -workers 2 -config MCChatSafety.cfg MCChatSession.tla
    tlapm ChatSession_proofs.tla

## 1. The system

### Components

| component | state | operations | what makes it correct |
|---|---|---|---|
| **Chat load test** `bin/chat.rs` | the globals `GOOSE_USERS` (raw pointers), `CLIENTS`, `ATTACK_START`; per user the session data `ClientData` | `on_start`, `task_scheduler` and its tasks, `on_stop`; the spawned `sync_forever`; the callback `on_room_message` | a pointer leads to the right, living user; a callback finds its session; stopping ends everything, and ends |
| **Cancellation** `lib.rs` | `CANCELED` | `task_sleep`, ctrl-c | one user's cancellation reaches all; no sleep outlives it |
| **Room requests** `matrix/room/common.rs` | `members_request_locks`, `encryption_state_request_locks`, the store's "synced" flags | `sync_members`, `active_members`, `is_encrypted` | one request at a time; waiting calls are released and told the truth; a failure leaves no trace |
| **Client core** `matrix/mod.rs`, `login_builder.rs`, `builder.rs` | session tokens, `refresh_token_lock`, sync token, server versions, filters | login, `send` (refresh and retry), `refresh_access_token`, `sync_once`, join, create | concurrent requests refresh once and retry with the new token |
| **HTTP client** `matrix/http_client.rs`, `config/request.rs` | retry counter, elapsed time | serialise, send through Goose, retry transient errors | the configured limits bound the attempts |
| **Sync** `matrix/sync.rs`, `mod.rs`, `config/sync.rs` | sync token, `sync_beat` | `process_sync`, `sync_with_result_callback`, `sync_stream`, `delay_sync` | no batch lost; handlers run after the store; loops end when told |
| **Event handlers** `matrix/event_handler/` | handlers by kind, type and room; contexts | add, remove, dispatch, drop guard | each handler sees each event of its key once; a removed one sees none |
| **Joined room** `matrix/room/joined.rs` | `typing_notice_times` | send, typing notice, receipts, redact, enable encryption | notices agree with what the server shows |
| **Room handles** `room/{mod,invited,left,member}.rs` | none of their own | join, leave, tags, direct flag | the handle's state is the store's |
| **Account** `matrix/account.rs` | none: reads and writes account data | ignore list, direct rooms, push rules, profile | two updates do not lose one |
| **Media** `matrix/media.rs`, `attachment.rs` | the store's media cache | get, remove, upload | what was cached under a key is found and removed under it |
| **Setup scripts** `bin/{register,create_room,join}.rs` | `GOOSE_USERS` sized in advance | retried requests | each user registered, each room created and joined, once |
| errors, configuration, CSV generators | - | - | data only |

The base client and store (`matrix_sdk_base`), `ruma`, `goose`, `tokio` and the
homeserver are outside the repository; the models hold what the code uses of
them and nothing else.

### How the parts interact

* Each Goose user has two tokio tasks on any threads: the *logic task* runs
  `on_start`, then `task_scheduler` again and again, then `on_stop`; the *sync
  task*, spawned by `on_start`, calls `sync_once` until `CANCELED` is set.
* Both reach the `GooseUser` through `GOOSE_USERS[goose_user_index]`, the logic
  task in each request, the sync task in each request and in `on_room_message`.
  The index is `weighted_users_index`, fixed before the user starts; the
  position is where `on_start` happened to push the pointer.
* `on_room_message` writes the session data that the tasks read. `on_stop` must
  wait for the sync task because the `GooseUser` is dropped after it.
* `CANCELED` is global: any user's `on_stop`, and ctrl-c in any sleep, stops
  the schedulers and sync tasks of all users. So does the end of the run time
  for the schedulers, but not for the sync tasks.
* A request is retried inside `http_client.rs`, as long as the server answers
  429 or 5xx and the configuration sets no limit. It sets none by default, so
  that a call ends only if the server recovers; and a request that the server has
  carried out before it answered 5xx is carried out again.
* Calls on a room share a mutex per room through a map; who finds one waits.

### What is hard

Order of start-up against the indices; a raw pointer used after its user was
dropped; callbacks before the session exists; rooms left between two steps of a
task; errors that skip a clean-up; a wait no timeout ends; check-then-act on
concurrent maps; values cached across an await. `PROJECT.json` lists each such
place with its line, and the properties that watch it.

## 2. The modules

    ChatSession     <- MCChatSession    four runs     <- ChatSession_proofs
    RoomRequests    <- MCRoomRequests   three runs    <- RoomRequests_proofs
    SharedFetch (abstract), implemented by the member half of RoomRequests
    TokenRefresh    <- MCTokenRefresh   two runs      <- TokenRefresh_proofs

    EventHandlers   <- SyncLoop         <- MCSyncLoop    two runs
    Delivery (abstract), implemented by SyncLoop      <- SyncLoop_proofs

    HttpRequests, ClientSession   <- Calls_proofs
    SetupScripts                  <- SetupScripts_proofs
    Endpoints                     <- Endpoints_proofs
    those four, and RoomMembership, AccountData, TypingNotices, MediaCache,
    SyncPacing, TaskSleep, ServerRoute
                    <- ClientParts      <- MCClientParts    one run
                    <- ClientParts_proofs (with the three proof modules above)

`A <- B`: B extends A.

### ChatSession: `bin/chat.rs`, `lib.rs` and what they use of the client

A user is its `weighted_users_index`, so `GOOSE_USERS` is a sequence of user
indices and position `u` belongs to `Slot(u)`, whoever that is. `pc[u]` is the
logic task, `sync[u]` the sync task of client `u`. Code between two awaits is
one action.

| action | code |
|---|---|
| `Start`, `BeginLogin` | `on_start`: push the pointer; build the client and send the first request (an index out of bounds if smaller users have not pushed yet) |
| `LoginOk`, `SetSessionData` | handler added and `sync_forever` spawned; then the session data set - another thread may run in between |
| `LoginErr` | one attempt fails; after the last, `on_start` returns `Ok(())` without a session |
| `RunScheduler`, `ExitScheduler`, `Resume` | `task_scheduler`: entry, break, next round after a `task_sleep` |
| `Rest` ... `SendReaction` | the tasks, up to their first await: each checks the session and the room it uses, and panics where the code unwraps |
| `SendReceipt`, `TypingDone`, `SendMessage`, `RequestDone` | the rest of the tasks of more than one await; before `SendMessage` a `task_sleep` ends |
| `OnStop`, `Wait`, `WakeUp`, `Drop` | set `CANCELED`; sleep while the sync task is not finished; leave when it is. A user without session data leaves at once |
| `SyncBegin`, `SyncRetry`, `SyncResend`, `SyncOk`, `SyncQuiet`, `SyncErr`, `SyncCheck` | the rounds of `sync_forever`: request, transient errors, the response into the store and then the handlers, the check of `CANCELED` |
| `OnRoomMessage` | the callback: stores into `Slot(u)`; panics on a missing session; on a dropped user, which is undefined behaviour, it panics or loses the event |
| `TellExit`, `Expire`, `CtrlC` | Goose's controller, the clock, the terminal |

Data are cut to what the properties tell apart: of messages, the set of
(client, room) pairs they came from; of a room, whether the store has it joined
or left. Texts, images, pagination tokens and reactions' event ids are left out.

`env` names what goes wrong in a run besides answers in time, a set of
`EnvKinds` that never changes. It is a variable and not a constant so that one
run covers several environments, and so that a theorem covers all of them; the
properties name the kinds under which they do not hold, with the reason:

| kind | what happens | what it breaks |
|---|---|---|
| `unordered_start` | users start in any order | `Slot(u) # u`: messages in the wrong session, dangling pointers |
| `early_sync` | a response with messages arrives before `set_session_data` | a panic of the sync task |
| `leave` | a room is left while tasks use it | unwrap of a left room: the user unwinds under its sync task |
| `login_error` | logins fail | the tasks of that user panic |
| `stall` | a `task_sleep` is held up between its two looks at the clock | the subtraction at `lib.rs:32` panics: a user that is logged in unwinds under its sync task |
| `busy` | `/sync` answered with 429 or 5xx | the request is retried, without bound |

`AfterSleep` are the two ways a `task_sleep` ends; the steps that end one
(`Resume`, `SendMessage`, `WakeUp`) have both. When the second can happen is the
question of `TaskSleep`. Only `/sync` meets a busy server in this module: a user
whose own request is retried without end never gets to `on_stop` either, which the
fairness below excludes.

These exceptions are not assumptions that hide the code's weaknesses: each is
the condition under which the code relies on luck or on the server, and the
model without them would claim too much.

### RoomRequests: the request deduplication of `room/common.rs`

Several callers use one client. `lock[k][r]` is the mutex the map of kind `k`
(members, encryption) holds for room `r`, named by the caller that made it.
A mutex is locked while that caller is in its request (`Leads`). Members:
lookup, insert and lock are one step (`LeadMembers`), because the map's own
mutex is held throughout. Encryption: three steps (`LookEncryption`,
`InsertEncryption`, `LockEncryption`) on a concurrent map, so calls may replace
each other's mutex. `Respond`, `Store`, `Remove` are the answer, its way into
the store, and the removal of the entry together with the drop of the guard;
`Fail` is `?`: the guard goes, the entry stays. `Gap`, `ServerEncrypts` and
`SyncEncrypted` are the world outside: a limited timeline marks the member list
missing, someone enables encryption, a sync brings that event. `ServerTurns`
makes the server busy or ends that: while it is (`busy`), requests are repeated and
nothing responds. `faults` is the environment, as `env` above. A caller's future
is never cancelled in the model; a cancelled one would leave its entry behind
exactly as `Fail` does.

`SharedFetch` is what de-duplication promises of any items: one caller at a time
fetches an item; who asks meanwhile joins, and is told when that fetch is over and
not before; who finds no fetch under way makes one, unless the item is complete
or a fetch of it has ever failed. The member half of RoomRequests implements it
(`SharesFetches`). `doing` is read off a caller's `pc`: `look` is asking, `sent`
and `store` are fetching, `remove` is fetched, `wait` is joined - or told, once
the caller it waits for is at `remove` - and `woken` is told. `complete` are the
rooms whose list is synced, `broken` those of which a request has failed.
`LeadMembers` is `Fetch`, `Join` is `Join` or `JoinLate`, `Store` is `Complete`,
`Fail` is `Fail`, `Wake` and `Remove` are `Return`, `Gap` is `Lose`; `Respond` and
the calls of `is_encrypted` stutter. `broken` is in the promise because of the
entry a failed request leaves behind (finding 3).

### TokenRefresh: `send` and `refresh_access_token` of `matrix/mod.rs`

Several callers use one client built with `handle_refresh_tokens`. Tokens are
numbered in the order the server issues them, 0 is none; `newest` and `dead` are
the server's. `lock` is tokio's mutex as the line of callers whose first holds
it: dropping the guard hands it to the next, who has yet to run, and meanwhile
`try_lock` keeps failing. `outcome` is the `Result` it guards.

| action | code |
|---|---|
| `Send`, `Answered`, `Rejected` | `send_inner` with the session's token, and its `M_UNKNOWN_TOKEN` |
| `Resend`, `RejectedAgain` | the one repetition after a refresh that was `Ok` |
| `CallRefresh` | a direct call of `refresh_access_token` |
| `Lead`, `Miss` | `try_lock` |
| `Enqueue`, `Follow` | `lock().await`, then the result found in it |
| `NoSession` | returns `RefreshTokenRequired`, stored in the lock |
| `NoRefreshToken`, `NoVersions` | `?` before the request: nothing is stored |
| `Request`, `Rotate`, `RefreshOk`, `RefreshErr` | the request, the server's part, the two ways the response is handled |
| `Repeat` | the server has issued the token and answers 5xx: `HttpClient::send` asks again, with the refresh token that was replaced |
| `Expire` | the server ends a token for reasons of its own |

`env` holds what may go wrong: `error` (a refresh is refused or does not get
through), `lost` (its answer is lost, or a 5xx, after the server has issued the
token), `busy` (the server answers everything with 429 or 5xx for a time),
`versions` (the request for the server's versions fails), `hasty` (the server
ends a token while it is still being handed to those who wait for it). Each
property says which of them it excludes. `session` is `none`, `plain` (no refresh
token) or `refreshable`, fixed: a login or `restore_session` during a refresh is
not modelled. A caller rejected late, after another has refreshed, refreshes
again, as the code does; that costs a request and breaks no property.

### EventHandlers and SyncLoop: `event_handler/`, `sync.rs`, the sync loops

`EventHandlers` is the registry. The four maps of `EventHandlerMaps` are one set
of handlers, each with its id and the key it was registered under: kind, type (or
none, for the `Any*Event` types) and room (or none). `GetHandlers` is the lookup
in the four maps, `Removed` the one in `remove`, `GivenHandle` the handle a
handler gets as an argument. A handler may need a room or a context and is
skipped where there is none; and one whose type does not fit the event's content
(`garbled`) is skipped with a warning, while the response and its token go on
(`CanRead`). Notification handlers are a number: they cannot be
removed and lie in the order of registration.

`SyncLoop` extends it. The server has a log of events; a token is the number of
events it covers; `since` is the token the loop asks with, `stored` the one in
the store. `todo` are the calls of `call_event_handlers` that the response is
still to make, computed with their order (`Rank`) from what the code's nested
loops go through: joined rooms, then left, then invited; within a room account
data, state, timeline, ephemeral events. `running` are the handlers' futures of
one such call, which run at once; `told` and `steady` are history.

| action | code |
|---|---|
| `Start` | a loop begins with the token in the store |
| `Respond`, `RequestFails` | `sync_once`: `receive_sync_response` stores the response and its token first |
| `CallEventHandlers` | the handlers of one event and kind are looked up, with the store locked |
| `DeserializeFails` | an event without a readable type: `?` leaves the rest of the response |
| `RunHandler`, `RunAndRemove` | a future ends; it may have removed its handler with the handle it was given |
| `CollectNotifications`, `RunNotice` | the notification handlers, one after the other |
| `Finish`, `Callback` | the token moves on; the callback continues or breaks |
| `Program` | any task adds or removes handlers, adds the context |

`mode` tells loops that end with an error (`sync`, `sync_with_callback`) from
those whose callback gets it (`sync_with_result_callback`, `sync_stream`). The
base client ignores a response whose token it has stored; whether it does is a
matter of the environment (`skips`).

`Delivery` is the promise: events are asked for in attempts; in an attempt no
listener is told twice of an event, nor of one it does not want; an attempt is
confirmed only if everyone who listened throughout was told of all it wants and can
read; only after an attempt has failed may events be given up; and who stops listening is
told of one more event at most. `SyncLoop` implements it with `listeners` as the
registered handlers and notification handlers, `able` as `context`, `confirmed`
as `since`, `leaving` as the removed handlers whose futures still run: `Respond`
is `Begin`; `RunHandler`, `RunAndRemove` and `RunNotice` are `Tell`; `Start` and
`Finish` are `Confirm`; `DeserializeFails` is `Fail`; registering is `Listen`,
removing `Stop`, `AddContext` is `Enable`; the rest stutters. `failed` is in the
promise because the code does give events up: after a batch that could not be
handled to its end, the store is ahead of the loop, and a loop that is started
anew asks from there.

### ClientParts: the parts of the client

Eleven components that keep state of their own but share none. Each is a module
with its own Init, Next and specification (`RequestSpec`, `SessionSpec`, ...).
`ClientParts` starts a behaviour for each (`part`) and lets the others stutter, so
that one run checks eleven specifications; `MCClientParts` gives the constants.

| module | code | state and actions |
|---|---|---|
| `HttpRequests` | `http_client.rs`, `config/request.rs` | one call of `send`: `Refuse` or `Serialise` by the endpoint's scheme, `Attempt` with its counter, `Succeed`, `Fail` with permanent and transient errors, `Wake`; `TimePasses` is the retry timeout. (`retry_limit` counts attempts, see section 4.) `Default`, `ShortRetry`, `DisableRetry`... are the setters |
| `ClientSession` | `builder.rs`, `login_builder.rs`, `send_inner` | the builder's setters, discovery and errors, `Built`; then the calls of several tasks, each reading the homeserver, the token and (through one `OnceCell`) the server's versions with awaits in between; login and `restore_session`. While the server is `overloaded` no request ends |
| `SetupScripts` | `bin/{register,create_room,join}.rs` | all users of one script at once: `Start` fills the slot in `GOOSE_USERS`, then login, the one sync of `join.rs`, `Pick` and three attempts each, which are `Granted`, `TurnedDown` or carried out with the `AnswerLost`; within an attempt, carried out with a `ServerError` and sent again. While the server is busy nothing is answered |
| `RoomMembership` | `mod.rs` (join, create), `room/{mod,invited,left,common}.rs` | one room: requests, their answers marking the room in the base client, handles checked against it, and syncs that carry the same news in any order |
| `Endpoints` | every request of `mod.rs`, `account.rs`, `media.rs`, `room/`; the naming in `send_request` | a catalogue of requests with the ids in their paths; the name under which Goose reports each |
| `AccountData` | `account.rs`, `joined.rs`, `common.rs` | a document (ignore list, direct rooms, power levels) that calls read from the store, edit and send whole, while a sync brings what the server has |
| `TypingNotices` | `joined.rs` 212-264 | `typing_notice_times` against what the server shows, in seconds; the server's receipt of a notice (`NoticeArrives`, again if it is repeated) and its answer (`NoticeAnswered`) are apart |
| `MediaCache` | `media.rs`, `attachment.rs`, `joined.rs` | uploads and messages; fetching through the cache while entries are removed |
| `SyncPacing` | `sync.rs` `delay_sync` | the time of the last sync and the pause, in ticks |
| `TaskSleep` | `lib.rs` `task_sleep` | the slices of a sleep, the difference of durations, `CANCELED` |
| `ServerRoute` | `room/common.rs` `route` | members, power levels and the ACL; the servers a link names |

What is abstract in them: in `m.direct` the rooms of a user are a set, though
the code may list one twice; sources of media are numbers and the cache is the
set of keys it has; servers, users and levels of `ServerRoute` are a small table.
The images of `MediaCache` are not encrypted; audio has no thumbnail, and files
and videos only one that was uploaded. Tags and single events that are sent
change no state of the client and are rows of `Endpoints` only.

## 3. The runs

| run | question | instance | result |
|---|---|---|---|
| `chat_safety` | are pointers, sessions and the flag safe in every interleaving? | 2 users, 1 room, 1 login attempt; environments {login errors}, {unordered start, early sync, stall} and {leave, early sync} | passes, 4.1 million states |
| `chat_stop` | does every user that is told to exit, and every sync task after a cancellation, end? | 2 users, no rooms, 2 attempts; login errors, sleeps that panic, a busy server that recovers | passes, 172 thousand states |
| `chat_failed_login` | is a user that cannot log in skipped? | 1 user, 3 attempts | **violated** |
| `chat_busy_server` | does `on_stop` end if the server stays busy? | 1 user | **violated** |
| `room_requests` | single flight, clean maps, truthful `Ok`, shared as `SharedFetch` promises, no call stuck | 3 callers, 1 room; failures, a busy server that recovers, gaps, encryption, each apart | passes, 422 thousand states |
| `room_members_leak` | does `Ok` of `active_members` mean the list is synced, after a failure? | 2 callers | **violated** |
| `room_is_encrypted` | is `false` of `is_encrypted` true? | 2 callers | **violated** |
| `token_refresh` | do concurrent rejected requests refresh, keep up with the server and return? | 3 callers, 3 tokens, all kinds of session; {error, lost}, {busy, lost} and {error, versions, hasty} | passes, 387 thousand states |
| `token_stale` | is a waiting call told how the refresh went? | 2 callers, 2 tokens | **violated** |
| `sync_delivery` | does the sync loop keep the promise of `Delivery`, and catch up? | 2 handlers of 6 registrations, 1 notification handler, 4 logs of 2 events, with content that only some handlers can read; {errors} and {skips} | passes, 400 thousand states |
| `handler_self_removal` | does a handler remove itself with the handle it is given? | the same | **violated** |
| `client_parts` | the eleven parts, each with its own question | 2 tasks each; 3 users, 2 rooms, 3 faults for the scripts | passes, 310 thousand states |

Properties of ChatSession:

* `NoUseAfterDrop` - no task is in a request or about to run handlers through a
  pointer to a dropped user. Users that start out of order break it, and those that
  unwind over a running sync task: from a room left under them, or from a
  `task_sleep` held up into its panic.
* `OwnMessages` - a session holds only what the user's own client received.
* `PanicsOnlyLoggedOut` - only users whose login failed panic, and no sync task
  does, but for the four kinds of trouble that bring down a user that is logged in:
  `unordered_start`, `leave`, `early_sync`, `stall`.
* `StopDrainsSync` - whoever left through `on_stop` has no sync task left, in
  every environment.
* `AtMostOneLateSync` - after `CANCELED`, each sync task begins at most one more
  `sync_once`, in every environment. (`late` is a history variable that counts
  them up to `LateCap` = 2, one more than the bound.)
* `StopCompletes`, `CancelDrains` - liveness of stopping, given a server that
  recovers; also when sleeps panic.

Properties of RoomRequests:

* `EntriesHaveOwners` - a map entry no call owns is the trace of a failed
  request, also where two encryption requests overwrote each other's entry.
* `MembersSynced` - `Ok` means synced, for waiting calls too, given no failure
  for the room and no gap.
* `SharesFetches` - the member half implements `SharedFetch`, also with gaps and
  failures: a call that finds a request in flight returns only after that very
  request is over, and one that finds none sends its own. So there is one member
  request per room at a time, under every fault (`MembersSingleFlight`, which is
  proved by itself too).
* `EveryCallReturns` - given a server that recovers, every call ends: a mutex that has been replaced in or
  removed from the map still wakes those who await it.

Properties of TokenRefresh:

* `RetryIsNewer` - a send is repeated only with a newer token than the one that
  was rejected, whether its own call refreshed or it waited. Excluded are
  `versions` and sessions without a refresh token, where a leader leaves a stale
  `Ok` in the lock (finding 5), and `hasty`: a newcomer rejected with the new
  token can line up behind those who still wait, and read the `Ok` meant for them.
* `HoldsNewest` - the client holds the newest token, or its answer is on the way:
  refreshes do not overlap, so no older answer is stored over a newer one.
  Excluded is `lost`.
* `EveryCallReturns` - given a server that recovers, every call ends: each early
  return drops the lock, and a second rejection is not refreshed again.

Properties of SyncLoop:

* `Delivers` - it implements `Delivery`, as above. A handler that cannot read an
  event's content misses it for good: the promise is to those who can.
* `EphemeralLast` - no handler of an ephemeral event runs before those of the
  timeline of the same room, which receipts refer to (`sync.rs:132`).
* `AskedAreGone` - a handler that removed itself with the handle it was given is
  registered no more, but for those registered for all rooms and called for an
  event in one (finding 6).
* `CatchesUp` - given a server that recovers, if no event is malformed, the loop ends or the token reaches the
  end of the log, again and again.

Properties of the parts:

* `LimitIsExact`, `LimitedCallsReturn` (HttpRequests) - a limit of N allows N
  attempts, which is N - 1 retries (the documentation of `retry_limit` counts
  otherwise, section 4), and a call gives up on a busy server no earlier, unless it
  is out of time; a call with a limit returns.
* `CheckedCallsAreAuthorised`, `SessionCallsReturn` (ClientSession) - a call that
  checks for our user id before it is sent carries the session's token to the
  session's homeserver, although it reads them apart while others log in. (A call
  that does not check may send the token to the homeserver from before the login
  named another.) Given a server that recovers, every call returns, also if whoever
  asks for the versions fails.
* `TwinsNeedLoss`, `EveryoneIsIn`, `ScriptsEnd` (SetupScripts) - a room exists
  once more than answers were lost or were a 5xx after it was made, at most; the
  loop of three tries bounds the first kind of twins, and nothing the second,
  which `HttpClient::send` makes within a try. In the end everyone is in their rooms,
  but for those a script failed; each script ends, given a server that recovers.
* `RoomConverges`, `CreateUnwraps` (RoomMembership) - answers and syncs in any
  order leave the room in the server's state; `create_room`'s unwrap fails only if
  our membership was changed from elsewhere meanwhile.
* `OneRowPerEndpoint` (Endpoints) - Goose's report has one row per endpoint the
  programs use, whatever the ids, and two endpoints never share one. The client's
  other endpoints whose ids are not masked are listed in `Splitting`.
* `NothingLost` (AccountData) - an edit is lost only if it met another, or began
  before a sync had brought the others.
* `TypingIsKnown` (TypingNotices) - a call that says we are typing and returns
  within the four seconds of a notice leaves the server showing it, whether it sent
  or saved one, and a notice taken back shows no longer than the slowest one was
  late. Nothing is claimed of a call whose answer took longer (the notice may have
  run out before it returns), after a failed request (its time stays set) or when
  two calls met.
* `RemovedIsGone` (MediaCache) - what was removed is cached again only by a call
  that asks for it afterwards or was under way; messages name only what has been
  uploaded. `remove_thumbnail` builds its key from the file's source
  (`media.rs:342`), so it claims nothing where the thumbnail has a source of its own.
* `SyncsArePaced` (SyncPacing) - no three syncs of a loop start within a second.
  Two may: the time is taken before the pause.
* `SleepsAreKept` (TaskSleep) - a sleep lasts its time, in slices of a second; one
  begins at most one slice after `CANCELED`; the subtraction panics only where
  the sleep is over anyway.
* `RouteServes` (ServerRoute) - a link names up to three servers, allowed and
  distinct: the mightiest member's first, the most populous after it.
* `PartsTypeOK` - the types, with in SetupScripts that whoever sends a request has
  its slot filled, in ClientSession that `GooseMatrixClient::new` cannot reach its
  `unreachable!` (`builder.rs:567`).

**Bounds.** Two users are what the pointer confusion, the shared flag and the
wait of one user for its own task need; a third adds no new relation, as a user
only meets others through `GOOSE_USERS` and `CANCELED`. One room can be joined,
heard from, used and left. In `chat_stop` there is no room, as tasks that need
one only differ from the others by where they panic. Three callers let two
insert while a third waits on either mutex. One room suffices as rooms share
nothing but the maps. Three callers of `send` are one that leads, one the lock
is handed to and one that comes in between; three tokens allow two refreshes, so
that a stale outcome can follow a real one. (At `MaxToken` the server refuses, as
it may.) The login attempts are 1 or 2 where only "an attempt is
left" matters and 3, as in the code, where the finding is about the last.

In SyncLoop two handlers suffice for one to be removed while the other runs, and
with one notification handler for both orders of dispatch; the six registrations
have each kind of key, need and lookup. Logs of two events allow a batch of two
and two batches of one, and the four logs hold what must be ordered (a receipt
before its message, a state event in both sections), what is outside rooms and
what cannot be read. `Modes` is `{"result"}`: the steps of the other loops are
among those of this one. Of the parts, two callers meet in every order. Two users
of the file and one without a line, two rooms of one creator and three faults let
a room be doubled and given up; a fourth fault only repeats this. `MaxTries` = 4
is above the largest limit, 3. `MaxWrites` = 2 events let an edit overtake
another, `MaxEvents` = 3 changes of our membership allow invite, join and leave.
`MaxDelay` = 4
seconds lets an answer arrive when the notice it answers may have run out. The ticks are
2 or 3 a second, enough to fall before, on and after it. `Ids` are two of each kind, for
two requests to differ in each. Six users on five servers, one an address, are
more than the three a link names.

**Fairness.** tokio polls every task that is ready and Goose runs every user that
it has begun, so the steps a task takes by itself are weakly fair: `TasksRun` in
ChatSession, `OwnStep` in RoomRequests and TokenRefresh, `Handle` and `Callback` in
SyncLoop, `TaskStep` in ClientSession, the users of a script in SetupScripts.
Nothing is fair within a task: which task the scheduler picks, and whether a
sync is answered well or not, stays open. `TimePasses`: the run time elapses once
started.

Requests are another matter. Each *attempt* ends by its answer or its timeout, but
429 and 5xx are retried, by default without limit in number or time
(`config/request.rs:28`, `http_client.rs:198-259`), so the code alone does not
make a request end. Every liveness property but `LimitedCallsReturn` therefore
assumes a server that recovers, as a named part of its specification:
`ServerRecovers` in ChatSession (strong fairness of the answer that ends the retries
of `/sync`, in `RecoverSpec` only), in RoomRequests, TokenRefresh and SyncLoop,
`SetupRecovers` in SetupScripts, `LoadEases` in ClientSession. Except in the sync
loops, whose requests merely go on for as long as they do, the busy server is a
state of the model: it may turn busy at any time, and what is assumed is that it
never stays so, and lets a request end that is pending again and again while it is
not. `chat_busy_server` shows that the assumption is needed: without it `on_stop`
waits for ever, and so would whoever waits for another's request. In ChatSession the
requests of the logic tasks are assumed to end (`TasksRun`). `LimitedCallsReturn`
assumes only that every attempt ends, as the retries of a limited call are counted.

In `CatchesUp` the server also sends what is new to who asks again and again,
rather than an error each time. The setup of a script is begun by hand and not forced.
`TellExit`, `CtrlC` and new calls are never forced.

Deadlock is checked in all runs but `client_parts`: `Finished` is the end of a
load test, and in the others callers may always call again or a loop begin anew.
The parts end where their bounds are used up or their program does (the scripts,
a sleep that panicked), so there deadlock is not checked and the liveness
properties say what must not hang.

## 4. Findings

1. `chat_failed_login`. `bin/chat.rs:198` says "Failed login for user {}.
   Skipping...". The user is not skipped: `on_start` returns `Ok(())`, the
   scheduler runs for it, and the first task that needs the server panics on
   `user_id().unwrap()`.
2. `chat_busy_server`. `on_stop` waits, says `bin/chat.rs:217`, "until timeout
   expires or sync response is received". No timeout covers the retries of a
   request, so against a server that keeps answering 429 or 5xx it never ends.
3. `room_members_leak`. After a failed member request its mutex stays in
   `members_request_locks`; from then on `sync_members` and `active_members`
   return `Ok` without the list (`matrix/room/common.rs:332`).
4. `room_is_encrypted`. A call that finds another's request in flight returns
   `false` whatever the answer (`matrix/room/common.rs:402`).
5. `token_stale`. Of concurrent calls of `refresh_access_token`, says its
   documentation (`matrix/mod.rs:1398-1400`), the others get an error if the
   first one failed. A first call that leaves through `?` (`matrix/mod.rs:1464`,
   `1476`) stores nothing, and the others get the `Ok` of an earlier refresh, or
   the initial one.
6. `handler_self_removal`. `matrix/mod.rs:764-822` shows a handler that removes
   itself with the `EventHandlerHandle` it takes as an argument. That handle has
   the event's room (`event_handler/maps.rs:90`), so a handler registered for all
   rooms is looked for under a key it does not lie under, and stays.

Met while reading, and not a property of a model: `README.md:93` says the chat
test accepts pending invites, which `bin/chat.rs` does not do; `media.rs:342`
removes a thumbnail under the file's source while `media.rs` fetches it under its
own; and `matrix/mod.rs:781-782` says that a handler that removes itself will still
execute with events of the same sync, where the lookup is made anew for every
event. Two more concern what a property is about, which states what the code does:
`config/request.rs:96` calls `retry_limit` "The number of times a request should be
retried", but `http_client.rs:203-206` counts attempts, so a limit of 1 allows no
retry (`LimitIsExact`); and `joined.rs:178-182` says that a call of `typing_notice`
while the notice is active, for four seconds, does nothing, but
`joined.rs:219` sends it again after three (`Sends`, `TypingIsKnown`).

## 5. The proofs

Every safety property that a passing run checks is a theorem here, and so are
both refinements. They hold for every number of users, every set of rooms and
callers, every number of login attempts and tokens, every log and set of
registrations, and every environment. No proof module assumes anything of the
constants beyond what their modules state.

**`ChatSession_proofs`.** The invariant is a conjunction of parts, each with a
lemma that every step preserves it:

* `TypeInv` - the types (`TypeCorrect`).
* `SessionInv` - where a user's logic task is determines whether it has a
  session and a sync task: before login neither, after `SetSessionData` both,
  after a failed login neither. `StopDrainsSync` is not inductive alone: `OnStop`
  skips the wait for a user without a session, and one must know that such a
  user has no sync task (theorem `StopDrains`).
* `LateInv` - a sync task that has begun a `sync_once` after `CANCELED` is not
  again before one: the check that follows sends it to `done` (`LateSyncBound`).
* `InOrder` - without `unordered_start`, `GOOSE_USERS` is `<<0, 1, ...>>` and
  holds every user that has started, so `Slot(u) = u` (`MessagesOwned`).
* `RoomsOK` and `NoUnwind` - without `leave`, a stored or chosen room stays
  joined; so without `stall` too, no user with a sync task unwinds
  (`NoDanglingUser`).
* `SyncInv` - then, and without `early_sync`, no sync task panics: its handlers
  run for `Slot(u) = u`, which is alive and has its session (`PanicsExplained`).

**`RoomRequests_proofs`.** `LeaderInv`: a caller in a member request is the one
whose mutex the map holds, hence there is only one (`SingleFlight`).
`EntriesHaveOwners` is inductive together with the types (`NoOrphanedEntries`).
`MembersSynced` needs two parts: `WaitInv`, a caller waits only for a mutex that
a call for the same room holds, and `PastSynced`, whoever is past a wait or a
request that has not failed finds the flag set (`OkIsSynced`). The refinement
(`Implements`: `Spec => SharesFetches`) needs no invariant beyond these. That there
is one fetch at a time follows from `LeaderInv`; that storing a list tells exactly
those who joined that fetch from `WaitInv` with `LeaderInv` (`JoinedOnes`: who
joined the request of `c` waits for `c`); that a caller which finds a free mutex in
the map may be turned away from `EntriesHaveOwners`: then a request has failed.
Each kind of step has a lemma that names the step of `SharedFetch` it is.

**`TokenRefresh_proofs`.** `LineInv`: the callers in line stand in the lock's
queue, each once, and only the first leads; so there is one refresh at a time.
`TokenInv`: the client's token and the dead one are at most the newest, the
answer on its way is the newest, and callers that refresh were rejected
(`used <= dead`). `NewestHeld` follows without more. `RetryNewer` needs
`FreshInv`, which holds where `RetryIsNewer` claims anything (`Calm`): the answer
on its way is newer than every dead token, and when nobody leads while someone
still waits and the outcome is `Ok`, the client's token is alive. A caller that
waits was rejected with a dead token, so what it repeats with is newer.

**`SyncLoop_proofs`.** The refinement `Implements` (`Spec => Delivers`) rests on
an invariant in parts. `RegistryInv`: ids are unique and below `counter`, so a
handle removes one handler. `LogInv`, `TokenInv`: tokens lie within the log,
between responses nothing is left to do, and the store is ahead of the loop only
after a failure. `TodoInv`, `ToldInv`: a call
still to be made has told nobody yet, and whoever was told wanted the event - so
none is told twice. `SteadyInv` is the heart: while a response is handled, each
event a steady listener wants was told, is running, or is still in `todo` or
`notices`; when both are empty, all were told, and `Finish` may confirm.
`SelfRemoval` needs only that those who asked were registered before (`AskedInv`),
so that no later handler has their id. `EphemeralLast` is inductive given the
rest (`ReceiptsAfterMessages`): `CallEventHandlers` takes a call of lowest `Rank`,
and that of an ephemeral event is above those of its room's timeline.

**`Calls_proofs`.** HttpRequests: `CountInv`: the counter is one ahead of the
attempts made, and a further one is made only below the limit; `GotInv`: who is
still at it was only told to come back (`AttemptsBounded`).
ClientSession: `SetUpInv`: one call at a time sets up a session, the tokens come
before the user id, and when that is there nobody changes the homeserver any more.
`HeldInv`: so what a checked call has read stays true until it is sent
(`CallsAuthorised`). `BuiltInv`: an asserted homeserver is an address and only a
name is discovered, so `new` never meets what it holds impossible; `CellInv`: who
asks for the versions heads the cell's queue, and who waits is in it
(`SessionTyped`).

**`SetupScripts_proofs`.** `UntriedInv` and `AskingInv`: a room its creator has yet
to ask for does not exist; one it asks for exists as often as answers were lost or
were a 5xx that came after it was made, and the attempts used up bound the former
(`TwinsExplained`). `DueInv`: for a user that
nothing has failed, each room is reached or remains to be asked for; when a
script's users are over nothing remains, and the next script starts from there
(`AllAreIn`, the promise of the three scripts together). `ReadyInv`: who is past the
start has a line in the file and its slot filled (`SetupTyped`).

**`Endpoints_proofs`.** The naming is worked out for paths of arbitrary ids in three
steps: where each kind of id occurs at most once in a path, all are masked
(`MaskAll`); so the name of a path of each length is its words with the masked ids
blank, cut after a message's type (`NameCut`); and `EndpointOf` reads the endpoint
from such a name, `RowOf` the row from an endpoint. That these two undo the
client's naming for every request of the catalogue (`Told`) is that no two
endpoints share a row, and that each endpoint outside `Splitting` has one
(`RowsTellEndpoints`).

**`ClientParts_proofs`.** The other seven parts, and the whole.

* RoomMembership, `MembershipInv`: while nothing changes our membership behind the
  calls, one call is in flight (`OneCall`), and what it is answered is the newest
  event (`AnswerHolds`); a store that has synced all events is in the state of the
  last one (`SyncedRoom`); before the first event there is no room, so the calls
  that presuppose one have not begun (`BeforeTheRoom`). `RoomEndsRight` and
  `CreateNeverPanics` follow.
* AccountData, `AccountInv`: as long as no two edits have met, at most one call
  is editing, and it has in hand the newest contents, or those and its edit
  (`EditsTheNewest`), so the server ends with all that was wanted (`EditsSurvive`).
* MediaCache, `MediaInv`: a key that is being fetched is not among the `dropped`
  ones (`FetchIsWanted`), without which the end of a fetch could bring back what
  was removed; posts and drafts name only sources that exist (`RemovedStaysGone`).
* ServerRoute, `RouteInv`: the members are finitely many, and whatever servers are
  left out, one of the others is the mightiest (`SomeoneIsMightiest`: kept as
  members join, because the prover has no induction over finite sets); a numbering
  of the servers by population leaves none out (`RankedIsAll`), and cutting it
  after three keeps the largest (`TakeRanks`). `RoutesServe` follows.
* SyncPacing, `PaceInv`: the last delay began after the last sync, so who is ready
  has seen a second since the sync before the last (`ThreeTakeASecond`).
* TaskSleep, `SleepInv`: slices slept to their end are time that has passed
  (`SliceInv`), and at most one begins in vain, the one that had been decided on
  (`CancelInv`): `SleepsKept`, for every number of ticks in a second.
* TypingNotices: what is on its way was stamped when it was sent (`WaitInv`), so
  once the server has it (`ShownInv`), it shows the notice at least as long as the
  client counts, and longer only by what it took to get there (`InStep`); between
  calls nothing is on its way (`IdleInv`). `TypingKnown` follows.
* The whole: a behaviour of `ClientParts` is, seen from each part, a behaviour of
  that part, because the other parts' steps leave its variables alone
  (`PartsAreParts`); so the types and the thirteen invariants, proved of each
  part alone, hold in the specification the run checks (`PartsTyped`, `PartsHold`).

**Only model-checked.** The liveness properties (`StopCompletes`, `CancelDrains`,
`EveryCallReturns` of two modules, `CatchesUp`, `LimitedCallsReturn`,
`SessionCallsReturn`, `ScriptsEnd`): they need fairness and `ENABLED`, which are out
of the prover's reach. And the violations of section 4, which are single
behaviours.

## 6. What is not modelled

* The data races themselves: `static mut` globals and two `&mut` to one
  `GooseUser` are used by two threads. A step of the model is the code between
  two awaits, so torn reads do not appear; which tasks share a user does.
* Time in ChatSession, SyncLoop and HttpRequests: sleeps and backoff are
  nondeterministic waits. `TaskSleep`, `SyncPacing` and `TypingNotices` have
  clocks of their own.
* In RoomRequests, invited rooms whose events are not visible, for which
  `sync_members` is `Ok(None)` without a request.
* End-to-end encryption and sliding sync, behind features the load test does
  not enable; wording, formatting, CSV parsing, the choice by weight.
* In SyncLoop, sync gap notices (a value nobody in the repository observes),
  limited timelines (their effect on the member list is in RoomRequests), rooms
  the store does not know, whose events get no room, and notifications of
  events that cannot be read.
* `enable_encryption`; the cached filter ids; a login during a refresh; reads of
  the store that change nothing (state events, receipts, push rules).
* Code behind features `Cargo.toml` does not enable: `e2e-encryption`, `sso-login`,
  `appservice`, `sled`, `indexeddb`, `image-proc`, `experimental-*`; and the tests
  in `matrix/mod.rs`, which are commented out.
* `SyncSettings` and the conversions between errors, plain data; the generators
  of `users.csv` and `rooms.json`, run once and offline.
* The base client, `ruma`, Goose and tokio, beyond what the modules hold of them
  and mark as external in `PROJECT.json`.

## 7. The plan

Done: the chat session, the request deduplication with its abstract
specification, the token refresh; event handlers and the sync loop with theirs;
the eleven parts; proofs of every safety property that a run checks and of both
refinements.

What is left, in the order of what it would add:

1. An abstract specification for TokenRefresh like `SharedFetch`: a refresh is
   shared by those who wait for it. Where the leader leaves a stale result behind
   (finding 5) it would have to say so.
2. ChatSession over SyncLoop: its sync task has the order of store and handlers,
   but not the registry; a composition would let other handlers than
   `on_room_message` come and go.
3. The encryption half of RoomRequests has no promise of its own: its lookup and
   insert are two steps, so several requests may be in flight (`EntriesHaveOwners`
   and `EveryCallReturns` are what remains true of it).
