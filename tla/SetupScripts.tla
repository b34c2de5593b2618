---------------------------- MODULE SetupScripts ----------------------------
(***************************************************************************)
(* The programs that prepare a homeserver for the load test, run one after *)
(* the other: bin/register.rs, bin/create_room.rs and bin/join.rs.  Each   *)
(* runs one transaction per user, all users at once; each request is tried *)
(* three times.  A request may be refused or, worse, be carried out and    *)
(* its answer lost.  Within one try, HttpClient::send repeats it for as    *)
(* long as the server answers with 429 or 5xx: that changes nothing unless *)
(* the server has carried the request out before it says so.               *)
(***************************************************************************)
EXTENDS Naturals, FiniteSets

CONSTANTS
  GooseUsers,   \* the users goose starts (--users)
  CsvUsers,     \* those that users.csv has a line for
  PlannedRooms, \* the rooms of rooms.json
  Creator,      \* who creates a room
  Invitees,     \* the set of users it lists
  MaxFaults     \* requests that go wrong, over the three scripts

ASSUME SetupAssumption ==
  /\ CsvUsers \subseteq GooseUsers
  /\ Creator \in [PlannedRooms -> CsvUsers]
  /\ Invitees \in [PlannedRooms -> SUBSET CsvUsers]
  /\ MaxFaults \in Nat

Scripts == {"register", "create_room", "join", "end"}
Retries == 3
NoTarget == "no target"

VARIABLES
  script,   \* the script that runs
  slots,    \* GOOSE_USERS: "absent" before setup, "null", then "user"
  place,    \* where a user's transaction is
  todo,     \* what it has yet to create or join
  target,   \* what it asks for
  retries,  \* the attempts it has left for that
  accounts, \* the users the server knows
  created,  \* how often it has created each room
  members,  \* pairs of a user and a room that it joined
  invited,  \* pairs of a user and a room that it may join
  lost,     \* history: answers to requests for a room that were lost
  repeated, \* history: and those that were carried out and answered with 5xx
  troubled, \* history: users whose script failed them, or gave up
  faults,   \* requests that went wrong
  serverBusy  \* whether the server answers everything with 429 or 5xx

server == <<accounts, created, members, invited>>
outcome == <<lost, repeated, troubled>>
setupVars == <<script, slots, place, todo, target, retries, server, outcome, faults, serverBusy>>

Targets == {"account"} \cup PlannedRooms

----------------------------------------------------------------------------
ToPlace(u, p) == place' = [place EXCEPT ![u] = p]
Trouble(u) == troubled' = troubled \cup {u}
Fault == faults < MaxFaults /\ faults' = faults + 1

\* test_start: a null pointer for each user, and the files are read.
Setup ==
  /\ script # "end" /\ \A u \in GooseUsers : place[u] = "off"
  /\ slots' = [u \in GooseUsers |-> "null"]
  /\ place' = [u \in GooseUsers |-> "start"]
  /\ UNCHANGED <<script, todo, target, retries, server, outcome, faults, serverBusy>>

RoomsOf(u) == { r \in PlannedRooms : Creator[r] = u }

\* The transaction begins.  A user without a line in the file panics.
Start(u) ==
  /\ place[u] = "start"
  /\ IF u \in CsvUsers
     THEN /\ slots' = [slots EXCEPT ![u] = "user"]
          /\ CASE script = "register" ->
                    ToPlace(u, "next") /\ todo' = [todo EXCEPT ![u] = {"account"}]
               [] script = "create_room" /\ RoomsOf(u) = {} ->
                    ToPlace(u, "over") /\ UNCHANGED todo
               [] OTHER -> ToPlace(u, "login") /\ UNCHANGED todo
          /\ UNCHANGED troubled
     ELSE ToPlace(u, "over") /\ Trouble(u) /\ UNCHANGED <<slots, todo>>
  /\ UNCHANGED <<script, target, retries, server, lost, repeated, faults, serverBusy>>

LogsIn(u) ==
  /\ place[u] = "login" /\ u \in accounts /\ ~serverBusy
  /\ IF script = "create_room"
     THEN ToPlace(u, "next") /\ todo' = [todo EXCEPT ![u] = RoomsOf(u)]
     ELSE ToPlace(u, "sync") /\ UNCHANGED todo
  /\ UNCHANGED <<script, slots, target, retries, server, outcome, faults, serverBusy>>

LoginFails(u) ==
  /\ place[u] = "login"
  /\ \/ u \notin accounts /\ ~serverBusy /\ UNCHANGED faults
     \/ Fault
  /\ ToPlace(u, "over") /\ Trouble(u)
  /\ UNCHANGED <<script, slots, todo, target, retries, server, lost, repeated, serverBusy>>

\* The only sync tells the client its invitations.
SyncOnce(u) ==
  /\ place[u] = "sync" /\ ~serverBusy
  /\ ToPlace(u, "next")
  /\ todo' = [todo EXCEPT ![u] = { r \in PlannedRooms : <<u, r>> \in invited }]
  /\ UNCHANGED <<script, slots, target, retries, server, outcome, faults, serverBusy>>

\* Its error is ignored: the client then knows of none.
SyncFails(u) ==
  /\ place[u] = "sync"
  /\ Fault
  /\ ToPlace(u, "next") /\ Trouble(u)
  /\ UNCHANGED <<script, slots, todo, target, retries, server, lost, repeated, serverBusy>>

Pick(u) ==
  /\ place[u] = "next"
  /\ IF todo[u] = {}
     THEN ToPlace(u, "over") /\ UNCHANGED <<todo, target, retries>>
     ELSE \E r \in todo[u] :
            /\ ToPlace(u, "try")
            /\ todo' = [todo EXCEPT ![u] = @ \ {r}]
            /\ target' = [target EXCEPT ![u] = r]
            /\ retries' = [retries EXCEPT ![u] = Retries]
  /\ UNCHANGED <<script, slots, server, outcome, faults, serverBusy>>

\* What the server does when it grants the request.
CarriedOut(u) ==
  CASE script = "register" ->
         /\ u \notin accounts
         /\ accounts' = accounts \cup {u}
         /\ UNCHANGED <<created, members, invited>>
    [] script = "create_room" ->
         LET r == target[u] IN
         /\ created' = [created EXCEPT ![r] = @ + 1]
         /\ members' = members \cup {<<u, r>>}
         /\ invited' = invited \cup { <<v, r>> : v \in Invitees[r] }
         /\ UNCHANGED accounts
    [] script = "join" ->
         /\ members' = members \cup {<<u, target[u]>>}
         /\ UNCHANGED <<accounts, created, invited>>

FailedAttempt_Endless(u) ==
  /\ retries[u] > 1
  /\ UNCHANGED <<retries, place, target, troubled>>

\* Trying again, or skipping it after the third attempt.
FailedAttempt(u) ==
  /\ retries' = [retries EXCEPT ![u] = @ - 1]
  /\ IF retries[u] > 1
     THEN UNCHANGED <<place, target, troubled>>
     ELSE /\ ToPlace(u, "next") /\ Trouble(u)
          /\ target' = [target EXCEPT ![u] = NoTarget]

Granted_NoBreak(u) ==
  /\ place[u] = "try" /\ ~serverBusy
  /\ CarriedOut(u)
  /\ FailedAttempt(u)
  /\ UNCHANGED <<script, slots, todo, lost, repeated, faults, serverBusy>>

Granted_Return(u) ==
  /\ place[u] = "try" /\ ~serverBusy
  /\ CarriedOut(u)
  /\ ToPlace(u, "over")
  /\ target' = [target EXCEPT ![u] = NoTarget]
  /\ UNCHANGED <<script, slots, todo, retries, outcome, faults, serverBusy>>

Granted(u) ==
  /\ place[u] = "try" /\ ~serverBusy
  /\ CarriedOut(u)
  /\ ToPlace(u, "next")
  /\ target' = [target EXCEPT ![u] = NoTarget]
  /\ UNCHANGED <<script, slots, todo, retries, outcome, faults, serverBusy>>

TurnedDown(u) ==
  /\ place[u] = "try"
  /\ \/ script = "register" /\ u \in accounts /\ ~serverBusy /\ UNCHANGED faults
     \/ Fault
  /\ FailedAttempt(u)
  /\ UNCHANGED <<script, slots, todo, server, lost, repeated, serverBusy>>

\* One more for the room that the user asks for, if it asks for one.
OneMore(count, u) == [r \in PlannedRooms |-> count[r] + (IF target[u] = r THEN 1 ELSE 0)]

\* The server does it and answers with 5xx: HttpClient::send takes that for a
\* passing failure and repeats the request, within the same try.
ServerError(u) ==
  /\ place[u] = "try"
  /\ Fault
  /\ CarriedOut(u)
  /\ repeated' = OneMore(repeated, u)
  /\ UNCHANGED <<script, slots, place, todo, target, retries, lost, troubled, serverBusy>>

\* The server does it, and no answer arrives in time: this try has failed.
AnswerLost(u) ==
  /\ place[u] = "try"
  /\ Fault
  /\ CarriedOut(u)
  /\ FailedAttempt(u)
  /\ lost' = OneMore(lost, u)
  /\ UNCHANGED <<script, slots, todo, repeated, serverBusy>>

ServerTurns ==
  /\ serverBusy' = ~serverBusy
  /\ UNCHANGED <<script, slots, place, todo, target, retries, server, outcome, faults>>

NextScript ==
  /\ \A u \in GooseUsers : place[u] = "over"
  /\ script' = CASE script = "register" -> "create_room"
                 [] script = "create_room" -> "join"
                 [] OTHER -> "end"
  /\ place' = [u \in GooseUsers |-> "off"]
  /\ slots' = [u \in GooseUsers |-> "absent"]
  /\ UNCHANGED <<todo, target, retries, server, outcome, faults, serverBusy>>

Answer(u) ==
  LogsIn(u) \/ LoginFails(u) \/ SyncOnce(u) \/ SyncFails(u)
  \/ Granted(u) \/ TurnedDown(u) \/ AnswerLost(u) \/ ServerError(u)

Transaction(u) == Start(u) \/ Pick(u) \/ Answer(u)

SetupInit ==
  /\ script = "register"
  /\ slots = [u \in GooseUsers |-> "absent"]
  /\ place = [u \in GooseUsers |-> "off"]
  /\ todo = [u \in GooseUsers |-> {}]
  /\ target = [u \in GooseUsers |-> NoTarget]
  /\ retries = [u \in GooseUsers |-> 0]
  /\ accounts = {} /\ members = {} /\ invited = {}
  /\ created = [r \in PlannedRooms |-> 0]
  /\ lost = [r \in PlannedRooms |-> 0] /\ repeated = [r \in PlannedRooms |-> 0]
  /\ troubled = {} /\ faults = 0
  /\ serverBusy = FALSE

SetupNext == Setup \/ NextScript \/ ServerTurns \/ \E u \in GooseUsers : Transaction(u)

SetupSpec == SetupInit /\ [][SetupNext]_setupVars

\* The requests of the scripts are retried for as long as the server is busy,
\* without a limit.  What the code cannot bring about is assumed: the server
\* never stays busy, and answers someone if it is asked again and again while it
\* is not.
SetupRecovers ==
  /\ WF_setupVars(serverBusy /\ ServerTurns)
  /\ SF_setupVars(~serverBusy /\ \E u \in GooseUsers : Answer(u))

\* Goose runs the users of a script to the end of their transactions, in
\* whatever order.
SetupFairness ==
  /\ WF_setupVars(NextScript \/ \E u \in GooseUsers : Start(u) \/ Pick(u))
  /\ SetupRecovers

----------------------------------------------------------------------------
\* The scripts' state; and whoever sends a request has its slot in
\* GOOSE_USERS filled, which the HTTP client dereferences.
SetupTypeOK ==
  /\ script \in Scripts
  /\ slots \in [GooseUsers -> {"absent", "null", "user"}]
  /\ place \in [GooseUsers -> {"off", "start", "login", "sync", "next", "try", "over"}]
  /\ todo \in [GooseUsers -> SUBSET Targets]
  /\ target \in [GooseUsers -> Targets \cup {NoTarget}]
  /\ retries \in [GooseUsers -> 0 .. Retries]
  /\ accounts \subseteq CsvUsers
  /\ members \subseteq CsvUsers \X PlannedRooms
  /\ invited \subseteq CsvUsers \X PlannedRooms
  /\ created \in [PlannedRooms -> Nat] /\ lost \in [PlannedRooms -> Nat]
  /\ repeated \in [PlannedRooms -> Nat] /\ serverBusy \in BOOLEAN
  /\ troubled \subseteq GooseUsers /\ faults \in 0 .. MaxFaults
  /\ \A u \in GooseUsers : place[u] \in {"login", "sync", "try"} => slots[u] = "user"

\* A room exists twice only after the server made it and its answer was lost, or
\* was a 5xx that HttpClient::send answers by asking again.  The loop of three
\* tries bounds the first kind of twins, and nothing bounds the second.
TwinsNeedLoss ==
  \A r \in PlannedRooms :
    created[r] <= lost[r] + repeated[r] + 1 /\ created[r] <= Retries + repeated[r]

\* After the three scripts everyone is in the rooms of rooms.json, but for the
\* users one of the scripts failed and the rooms of such creators.
EveryoneIsIn ==
  script = "end" =>
    \A r \in PlannedRooms : \A u \in Invitees[r] \cup {Creator[r]} :
      {u, Creator[r]} \cap troubled = {} => <<u, r>> \in members

\* A script that has begun ends, whatever goes wrong, if the server recovers.
ScriptsEnd == []<>(\A u \in GooseUsers : place[u] = "off")
============================================================================
