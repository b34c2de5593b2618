------------------------- MODULE SetupScripts_proofs -------------------------
(* Proofs about SetupScripts, for every set of users and rooms and every   *)
(* number of failing requests.                                             *)
EXTENDS SetupScripts, TLAPS

\* The types of what creating a room touches.
TypeInv ==
  /\ place \in [GooseUsers -> {"off", "start", "login", "sync", "next", "try", "over"}]
  /\ todo \in [GooseUsers -> SUBSET Targets]
  /\ target \in [GooseUsers -> Targets \cup {NoTarget}]
  /\ retries \in [GooseUsers -> 0 .. Retries]
  /\ created \in [PlannedRooms -> Nat] /\ lost \in [PlannedRooms -> Nat]
  /\ repeated \in [PlannedRooms -> Nat]

\* A room that its creator has yet to ask for does not exist.
UntriedInv ==
  /\ script = "register" => \A r \in PlannedRooms : created[r] = 0
  /\ script = "create_room" =>
       \A u \in GooseUsers : \A r \in RoomsOf(u) :
         place[u] \in {"off", "start", "login"} \/ (place[u] \in {"next", "try"} /\ r \in todo[u])
         => created[r] = 0

\* Who asks for a room is its creator, and each time it exists already is an
\* attempt used up whose answer was lost, or a repeat within one.
AskingInv ==
  script = "create_room" =>
    \A u \in GooseUsers :
      /\ place[u] \in {"next", "try"} => todo[u] \subseteq RoomsOf(u)
      /\ place[u] = "try" =>
           /\ target[u] \in RoomsOf(u) \ todo[u]
           /\ created[target[u]] <= lost[target[u]] + repeated[target[u]]
           /\ created[target[u]] + retries[u] <= Retries + repeated[target[u]]

\* An attempt is made only while one is left; create_room.rs does not sync, and
\* after the last script nothing runs.
PlaceInv ==
  /\ script \in Scripts
  /\ \A u \in GooseUsers :
       /\ place[u] = "try" => retries[u] # 0
       /\ place[u] = "sync" => script # "create_room"
       /\ place[u] # "off" => script # "end"

ScriptsInv == TypeInv /\ UntriedInv /\ AskingInv /\ PlaceInv /\ TwinsNeedLoss

USE DEF Retries

LEMMA RoomsOfFacts ==
  /\ \A u : RoomsOf(u) \subseteq PlannedRooms
  /\ \A u, v, r : r \in RoomsOf(u) /\ r \in RoomsOf(v) => u = v
BY DEF RoomsOf

LEMMA InitScriptsInv == SetupInit => ScriptsInv
<1> SUFFICES ASSUME SetupInit PROVE ScriptsInv
  OBVIOUS
<1>1. TypeInv
  BY DEF SetupInit, TypeInv
<1>2. \A r \in PlannedRooms : created[r] = 0 /\ lost[r] = 0 /\ repeated[r] = 0
  BY DEF SetupInit
<1>3. script = "register" /\ \A u \in GooseUsers : place[u] = "off"
  BY DEF SetupInit
<1>4. UntriedInv /\ AskingInv /\ PlaceInv /\ TwinsNeedLoss
  BY <1>2, <1>3 DEF UntriedInv, AskingInv, PlaceInv, TwinsNeedLoss, Scripts
<1>5. QED
  BY <1>1, <1>4 DEF ScriptsInv

----------------------------------------------------------------------------
(* Steps that create nothing and try nothing.                              *)

LEMMA SetupPreserves ==
  ASSUME ScriptsInv, Setup
  PROVE  ScriptsInv'
<1>1. /\ script # "end" /\ \A u \in GooseUsers : place[u] = "off"
      /\ place' = [u \in GooseUsers |-> "start"]
      /\ UNCHANGED <<script, todo, target, retries, created, lost, repeated>>
  BY DEF Setup, server, outcome
<1>2. TypeInv'
  BY <1>1 DEF ScriptsInv, TypeInv
<1>3. UntriedInv' /\ AskingInv' /\ PlaceInv' /\ TwinsNeedLoss'
  BY <1>1 DEF ScriptsInv, UntriedInv, AskingInv, PlaceInv, TwinsNeedLoss, RoomsOf
<1>4. QED
  BY <1>2, <1>3 DEF ScriptsInv

LEMMA NextScriptPreserves ==
  ASSUME ScriptsInv, NextScript
  PROVE  ScriptsInv'
<1>1. /\ \A u \in GooseUsers : place[u] = "over"
      /\ place' = [u \in GooseUsers |-> "off"]
      /\ script' = "create_room" => script = "register"
      /\ script' \in Scripts \ {"register"}
      /\ UNCHANGED <<todo, target, retries, created, lost, repeated>>
  BY DEF NextScript, server, outcome, Scripts
<1>2. TypeInv'
  BY <1>1 DEF ScriptsInv, TypeInv
<1>3. UntriedInv'
  BY <1>1, RoomsOfFacts DEF ScriptsInv, UntriedInv, RoomsOf
<1>4. AskingInv' /\ PlaceInv' /\ TwinsNeedLoss'
  BY <1>1 DEF ScriptsInv, AskingInv, PlaceInv, TwinsNeedLoss
<1>5. QED
  BY <1>2, <1>3, <1>4 DEF ScriptsInv

\* A user that comes no nearer to a request than the list of what it will ask for.
LEMMA QuietStep ==
  ASSUME ScriptsInv, NEW u \in GooseUsers,
         place[u] # "off",
         NEW p \in {"login", "sync", "next", "over"}, place' = [place EXCEPT ![u] = p],
         p = "sync" => script # "create_room",
         NEW s \in SUBSET Targets, todo' \in {todo, [todo EXCEPT ![u] = s]},
         UNCHANGED <<script, retries, created, lost, repeated>>,
         target' \in {target, [target EXCEPT ![u] = NoTarget]},
         script = "create_room" /\ p \in {"login", "next"} =>
           \A r \in RoomsOf(u) : p = "login" \/ r \in todo'[u] => created[r] = 0,
         script = "create_room" /\ p = "next" => todo'[u] \subseteq RoomsOf(u)
  PROVE  ScriptsInv'
<1>1. TypeInv'
  BY DEF ScriptsInv, TypeInv
<1>2. /\ place'[u] = p
      /\ \A v \in GooseUsers \ {u} : place'[v] = place[v] /\ todo'[v] = todo[v] /\ target'[v] = target[v]
  BY DEF ScriptsInv, TypeInv
<1>3. UntriedInv'
  BY <1>2 DEF ScriptsInv, UntriedInv, RoomsOf
<1>4. AskingInv'
  BY <1>2 DEF ScriptsInv, AskingInv, RoomsOf
<1>5. PlaceInv' /\ TwinsNeedLoss'
  BY <1>2 DEF ScriptsInv, PlaceInv, TwinsNeedLoss
<1>6. QED
  BY <1>1, <1>3, <1>4, <1>5 DEF ScriptsInv

LEMMA StartPreserves ==
  ASSUME ScriptsInv, NEW u \in GooseUsers, Start(u)
  PROVE  ScriptsInv'
<1>1. /\ place[u] = "start" /\ UNCHANGED <<script, target, retries, created, lost, repeated>>
  BY DEF Start, server, outcome
<1>2. script = "create_room" => \A r \in RoomsOf(u) : created[r] = 0
  BY <1>1 DEF ScriptsInv, UntriedInv
<1>3. CASE u \in CsvUsers /\ script = "register"
  <2>1. place' = [place EXCEPT ![u] = "next"] /\ todo' = [todo EXCEPT ![u] = {"account"}]
    BY <1>3 DEF Start, ToPlace
  <2>2. {"account"} \in SUBSET Targets
    BY DEF Targets
  <2>3. script # "create_room"
    BY <1>3
  <2>4. todo' \in {todo, [todo EXCEPT ![u] = {"account"}]} /\ target' \in {target, [target EXCEPT ![u] = NoTarget]}
    BY <1>1, <2>1
  <2>5. QED
    BY <1>1, <2>1, <2>2, <2>3, <2>4, QuietStep
<1>4. CASE ~(u \in CsvUsers /\ script = "register")
  <2>1. PICK p \in {"login", "over"} : place' = [place EXCEPT ![u] = p] /\ todo' = todo
    BY <1>4 DEF Start, ToPlace
  <2>2. target' \in {target, [target EXCEPT ![u] = NoTarget]} /\ {} \in SUBSET Targets
        /\ todo' \in {todo, [todo EXCEPT ![u] = {}]}
    BY <1>1, <2>1
  <2>3. p \in {"login", "sync", "next", "over"} /\ p # "next"
    BY <2>1
  <2>4. QED
    BY <1>1, <1>2, <2>1, <2>2, <2>3, QuietStep
<1>5. QED
  BY <1>3, <1>4

LEMMA LoginPreserves ==
  ASSUME ScriptsInv, NEW u \in GooseUsers, LogsIn(u) \/ LoginFails(u)
  PROVE  ScriptsInv'
<1>1. place[u] = "login" /\ UNCHANGED <<script, target, retries, created, lost, repeated>>
  BY DEF LogsIn, LoginFails, server, outcome
<1>2. script = "create_room" => \A r \in RoomsOf(u) : created[r] = 0
  BY <1>1 DEF ScriptsInv, UntriedInv
<1>3. RoomsOf(u) \in SUBSET Targets /\ target' \in {target, [target EXCEPT ![u] = NoTarget]}
  BY <1>1, RoomsOfFacts DEF Targets
<1>4. CASE LogsIn(u) /\ script = "create_room"
  <2>1. place' = [place EXCEPT ![u] = "next"] /\ todo' = [todo EXCEPT ![u] = RoomsOf(u)]
    BY <1>4 DEF LogsIn, ToPlace
  <2>2. todo'[u] = RoomsOf(u) /\ todo' \in {todo, [todo EXCEPT ![u] = RoomsOf(u)]}
    BY <2>1 DEF ScriptsInv, TypeInv
  <2>3. QED
    BY <1>1, <1>2, <1>3, <2>1, <2>2, QuietStep
<1>5. CASE ~(LogsIn(u) /\ script = "create_room")
  <2>1. PICK p \in {"sync", "over"} :
          /\ place' = [place EXCEPT ![u] = p] /\ todo' = todo
          /\ p = "sync" => script # "create_room"
    BY <1>5 DEF LogsIn, LoginFails, ToPlace
  <2>2. p \in {"login", "sync", "next", "over"} /\ p \notin {"login", "next"}
        /\ todo' \in {todo, [todo EXCEPT ![u] = RoomsOf(u)]}
    BY <2>1
  <2>3. QED
    BY <1>1, <1>3, <2>1, <2>2, QuietStep
<1>6. QED
  BY <1>4, <1>5

\* Only join.rs syncs.
LEMMA SyncPreserves ==
  ASSUME ScriptsInv, NEW u \in GooseUsers, SyncOnce(u) \/ SyncFails(u)
  PROVE  ScriptsInv'
<1>1. /\ place[u] = "sync" /\ UNCHANGED <<script, target, retries, created, lost, repeated>>
      /\ place' = [place EXCEPT ![u] = "next"]
  BY DEF SyncOnce, SyncFails, ToPlace, server, outcome
<1>2. PICK s \in SUBSET Targets : todo' \in {todo, [todo EXCEPT ![u] = s]}
  BY DEF SyncOnce, SyncFails, Targets
<1>3. target' \in {target, [target EXCEPT ![u] = NoTarget]}
  BY <1>1
<1>4. script # "create_room"
  BY <1>1 DEF ScriptsInv, PlaceInv
<1>5. QED
  BY <1>1, <1>2, <1>3, <1>4, QuietStep

----------------------------------------------------------------------------
(* Requests.                                                               *)

LEMMA PickPreserves ==
  ASSUME ScriptsInv, NEW u \in GooseUsers, Pick(u)
  PROVE  ScriptsInv'
<1>1. place[u] = "next" /\ UNCHANGED <<script, created, lost, repeated>>
  BY DEF Pick, server, outcome
<1>2. CASE todo[u] = {}
  <2>1. place' = [place EXCEPT ![u] = "over"] /\ UNCHANGED <<todo, target, retries>>
    BY <1>2 DEF Pick, ToPlace
  <2>2. /\ {} \in SUBSET Targets /\ todo' \in {todo, [todo EXCEPT ![u] = {}]}
        /\ target' \in {target, [target EXCEPT ![u] = NoTarget]}
    BY <2>1
  <2>3. QED
    BY <1>1, <2>1, <2>2, QuietStep
<1>3. CASE todo[u] # {}
  <2>1. PICK r \in todo[u] :
          /\ place' = [place EXCEPT ![u] = "try"] /\ todo' = [todo EXCEPT ![u] = @ \ {r}]
          /\ target' = [target EXCEPT ![u] = r] /\ retries' = [retries EXCEPT ![u] = Retries]
    BY <1>3 DEF Pick, ToPlace
  <2>2. TypeInv'
    BY <1>1, <2>1 DEF ScriptsInv, TypeInv
  <2>3. /\ place'[u] = "try" /\ todo'[u] = todo[u] \ {r} /\ target'[u] = r /\ retries'[u] = 3
        /\ \A v \in GooseUsers \ {u} :
             /\ place'[v] = place[v] /\ todo'[v] = todo[v]
             /\ target'[v] = target[v] /\ retries'[v] = retries[v]
    BY <2>1 DEF ScriptsInv, TypeInv
  <2>4. script = "create_room" => r \in RoomsOf(u) /\ created[r] = 0 /\ lost[r] \in Nat
                                    /\ repeated[r] \in Nat
    BY <1>1, <2>1, RoomsOfFacts DEF ScriptsInv, TypeInv, AskingInv, UntriedInv
  <2>5. UntriedInv'
    BY <1>1, <2>3 DEF ScriptsInv, UntriedInv, RoomsOf
  <2>6. AskingInv'
    <3>1. ASSUME script = "create_room", NEW v \in GooseUsers, v # u
          PROVE  /\ place'[v] \in {"next", "try"} => todo'[v] \subseteq RoomsOf(v)
                 /\ place'[v] = "try" =>
                      /\ target'[v] \in RoomsOf(v) \ todo'[v]
                      /\ created[target'[v]] <= lost[target'[v]] + repeated[target'[v]]
                      /\ created[target'[v]] + retries'[v] <= Retries + repeated[target'[v]]
      BY <3>1, <2>3 DEF ScriptsInv, AskingInv
    <3>2. ASSUME script = "create_room"
          PROVE  /\ todo'[u] \subseteq RoomsOf(u)
                 /\ target'[u] \in RoomsOf(u) \ todo'[u]
                 /\ created[target'[u]] <= lost[target'[u]] + repeated[target'[u]]
                 /\ created[target'[u]] + retries'[u] <= Retries + repeated[target'[u]]
      BY <3>2, <1>1, <2>3, <2>4 DEF ScriptsInv, AskingInv
    <3>3. QED
      BY <1>1, <3>1, <3>2 DEF AskingInv, RoomsOf
  <2>7. PlaceInv' /\ TwinsNeedLoss'
    BY <1>1, <2>3 DEF ScriptsInv, PlaceInv, TwinsNeedLoss
  <2>8. QED
    BY <2>2, <2>5, <2>6, <2>7 DEF ScriptsInv
<1>4. QED
  BY <1>2, <1>3

\* An attempt after which the user turns to the next target, or tries again
\* with one attempt less.
Turns(u) ==
  \/ /\ place' = [place EXCEPT ![u] = "next"]
     /\ target' = [target EXCEPT ![u] = NoTarget]
     /\ retries' \in {retries, [retries EXCEPT ![u] = @ - 1]}
  \/ /\ retries[u] > 1
     /\ UNCHANGED <<place, target>>
     /\ retries' = [retries EXCEPT ![u] = @ - 1]

LEMMA FailedTurns ==
  ASSUME NEW u \in GooseUsers, FailedAttempt(u)
  PROVE  Turns(u)
BY DEF FailedAttempt, Turns, ToPlace

\* At most the user's target comes into being once more; where that is not
\* accounted for by a lost answer, the user goes on to the next.
LEMMA AttemptStep ==
  ASSUME ScriptsInv, NEW u \in GooseUsers, place[u] = "try", Turns(u),
         UNCHANGED <<script, todo, repeated>>,
         created' \in [PlannedRooms -> Nat], lost' \in [PlannedRooms -> Nat],
         script # "create_room" => created' = created /\ \A r \in PlannedRooms : lost'[r] >= lost[r],
         script = "create_room" =>
           /\ \A r \in PlannedRooms \ {target[u]} : created'[r] = created[r] /\ lost'[r] = lost[r]
           /\ created'[target[u]] <= created[target[u]] + 1
           /\ created'[target[u]] <= lost'[target[u]] + repeated[target[u]] + 1
           /\ place'[u] = "try" =>
                created'[target[u]] <= lost'[target[u]] + repeated[target[u]]
  PROVE  ScriptsInv'
<1>1. /\ retries[u] \in 1 .. 3
      /\ place'[u] \in {"next", "try"}
      /\ place'[u] = "try" => target'[u] = target[u] /\ retries'[u] = retries[u] - 1 /\ retries'[u] \in 1 .. 3
      /\ \A v \in GooseUsers \ {u} :
           place'[v] = place[v] /\ target'[v] = target[v] /\ retries'[v] = retries[v]
  BY DEF ScriptsInv, TypeInv, PlaceInv, Turns
<1>2. TypeInv'
  <2>1. retries[u] - 1 \in 0 .. Retries
    BY <1>1
  <2>2. place' \in [GooseUsers -> {"off", "start", "login", "sync", "next", "try", "over"}]
        /\ target' \in [GooseUsers -> Targets \cup {NoTarget}]
    BY DEF ScriptsInv, TypeInv, Turns
  <2>3. retries' \in [GooseUsers -> 0 .. Retries]
    BY <2>1 DEF ScriptsInv, TypeInv, Turns
  <2>4. QED
    BY <2>2, <2>3 DEF ScriptsInv, TypeInv
<1>3. PlaceInv'
  BY <1>1 DEF ScriptsInv, PlaceInv
<1>4. CASE script # "create_room"
  <2>1. UntriedInv' /\ AskingInv'
    BY <1>4 DEF ScriptsInv, UntriedInv, AskingInv
  <2>2. TwinsNeedLoss'
    <3>1. ASSUME NEW r \in PlannedRooms PROVE created'[r] <= lost'[r] + repeated[r] + 1 /\ created'[r] <= Retries + repeated[r]
      <4>1. created[r] <= lost[r] + repeated[r] + 1 /\ created[r] <= 3 + repeated[r] /\ created'[r] = created[r]
            /\ lost'[r] >= lost[r] /\ repeated[r] \in Nat /\ lost[r] \in Nat /\ lost'[r] \in Nat /\ created[r] \in Nat
        BY <1>4 DEF ScriptsInv, TwinsNeedLoss, TypeInv
      <4>2. QED
        BY <4>1
    <3>2. QED
      BY <3>1 DEF TwinsNeedLoss
  <2>3. QED
    BY <1>2, <1>3, <2>1, <2>2 DEF ScriptsInv
<1>5. CASE script = "create_room"
  <2> DEFINE q == target[u]
  <2>1. /\ q \in RoomsOf(u) \ todo[u] /\ q \in PlannedRooms
        /\ created[q] + retries[u] <= 3 + repeated[q] /\ todo[u] \subseteq RoomsOf(u)
    BY <1>5, RoomsOfFacts DEF ScriptsInv, AskingInv
  <2>2. \A v \in GooseUsers \ {u} : q \notin RoomsOf(v)
    BY <2>1, RoomsOfFacts
  <2>3. /\ created[q] \in Nat /\ created'[q] \in Nat /\ lost'[q] \in Nat /\ repeated[q] \in Nat
        /\ created'[q] <= created[q] + 1 /\ created'[q] <= lost'[q] + repeated[q] + 1
        /\ \A r \in PlannedRooms \ {q} : created'[r] = created[r] /\ lost'[r] = lost[r]
    BY <1>5, <2>1 DEF ScriptsInv, TypeInv
  <2>4. TwinsNeedLoss'
    <3>1. created'[q] <= 3 + repeated[q]
      BY <1>1, <2>1, <2>3
    <3>2. QED
      BY <2>3, <3>1 DEF ScriptsInv, TwinsNeedLoss
  <2>5. ASSUME NEW v \in GooseUsers, NEW r \in RoomsOf(v),
               place'[v] \in {"off", "start", "login"}
               \/ (place'[v] \in {"next", "try"} /\ r \in todo[v])
        PROVE  created'[r] = 0
    <3>1. r \in PlannedRooms /\ r # q
      BY <1>1, <2>1, <2>2, <2>5, RoomsOfFacts
    <3>2. created[r] = 0
      BY <1>1, <1>5, <2>5 DEF ScriptsInv, UntriedInv
    <3>3. QED
      BY <2>3, <3>1, <3>2
  <2>6. UntriedInv'
    BY <1>5, <2>5 DEF UntriedInv, RoomsOf
  <2>7. ASSUME NEW v \in GooseUsers, v # u
        PROVE  /\ place'[v] \in {"next", "try"} => todo[v] \subseteq RoomsOf(v)
               /\ place'[v] = "try" =>
                    /\ target'[v] \in RoomsOf(v) \ todo[v]
                    /\ created'[target'[v]] <= lost'[target'[v]] + repeated[target'[v]]
                    /\ created'[target'[v]] + retries'[v] <= Retries + repeated[target'[v]]
    <3>1. /\ place[v] \in {"next", "try"} => todo[v] \subseteq RoomsOf(v)
          /\ place[v] = "try" =>
               /\ target[v] \in RoomsOf(v) \ todo[v]
               /\ created[target[v]] <= lost[target[v]] + repeated[target[v]]
               /\ created[target[v]] + retries[v] <= Retries + repeated[target[v]]
      BY <1>5 DEF ScriptsInv, AskingInv
    <3>2. ASSUME place[v] = "try" PROVE target[v] \in PlannedRooms \ {q}
      BY <3>1, <3>2, <2>2, <2>7, RoomsOfFacts
    <3>3. QED
      BY <1>1, <2>3, <2>7, <3>1, <3>2
  <2>8. ASSUME place'[u] = "try"
        PROVE  /\ target'[u] \in RoomsOf(u) \ todo[u]
               /\ created'[target'[u]] <= lost'[target'[u]] + repeated[target'[u]]
               /\ created'[target'[u]] + retries'[u] <= Retries + repeated[target'[u]]
    <3>1. target'[u] = q /\ retries'[u] = retries[u] - 1 /\ retries[u] \in 1 .. 3
      BY <1>1, <2>8
    <3>2. created'[q] <= lost'[q] + repeated[q]
      BY <1>5, <2>8
    <3>3. created'[q] + (retries[u] - 1) <= 3 + repeated[q]
      BY <2>1, <2>3, <3>1
    <3>4. QED
      BY <2>1, <3>1, <3>2, <3>3
  <2>9. AskingInv'
    BY <1>5, <2>1, <2>7, <2>8 DEF AskingInv, RoomsOf
  <2>10. QED
    BY <1>2, <1>3, <2>4, <2>6, <2>9 DEF ScriptsInv
<1>6. QED
  BY <1>4, <1>5

LEMMA CarriedOutFacts ==
  ASSUME ScriptsInv, NEW u \in GooseUsers, place[u] = "try", CarriedOut(u)
  PROVE  /\ created' \in [PlannedRooms -> Nat]
         /\ script # "create_room" => created' = created
         /\ script = "create_room" =>
              /\ target[u] \in PlannedRooms
              /\ created' = [created EXCEPT ![target[u]] = @ + 1]
<1>1. CASE script = "create_room"
  <2>1. target[u] \in PlannedRooms
    BY <1>1, RoomsOfFacts DEF ScriptsInv, AskingInv
  <2>2. created' = [created EXCEPT ![target[u]] = @ + 1]
    BY <1>1 DEF CarriedOut
  <2>3. created[target[u]] + 1 \in Nat
    BY <2>1 DEF ScriptsInv, TypeInv
  <2>4. QED
    BY <1>1, <2>1, <2>2, <2>3 DEF ScriptsInv, TypeInv
<1>2. CASE script \in {"register", "join"}
  BY <1>2 DEF CarriedOut, ScriptsInv, TypeInv
<1>3. script \in {"register", "create_room", "join"}
  BY DEF ScriptsInv, PlaceInv, Scripts
<1>4. QED
  BY <1>1, <1>2, <1>3

\* The room that is asked for is counted once more, and no other.
LEMMA OneMoreFacts ==
  ASSUME NEW count \in [PlannedRooms -> Nat], NEW u
  PROVE  /\ OneMore(count, u) \in [PlannedRooms -> Nat]
         /\ \A r \in PlannedRooms :
              /\ OneMore(count, u)[r] >= count[r]
              /\ r # target[u] => OneMore(count, u)[r] = count[r]
              /\ r = target[u] => OneMore(count, u)[r] = count[r] + 1
BY DEF OneMore

LEMMA GrantedPreserves ==
  ASSUME ScriptsInv, NEW u \in GooseUsers, Granted(u)
  PROVE  ScriptsInv'
<1>1. /\ place[u] = "try" /\ CarriedOut(u) /\ UNCHANGED <<script, todo, retries, lost, repeated>>
      /\ place' = [place EXCEPT ![u] = "next"] /\ target' = [target EXCEPT ![u] = NoTarget]
  BY DEF Granted, outcome, ToPlace
<1>2. /\ created' \in [PlannedRooms -> Nat]
      /\ script # "create_room" => created' = created
      /\ script = "create_room" =>
           target[u] \in PlannedRooms /\ created' = [created EXCEPT ![target[u]] = @ + 1]
  BY <1>1, CarriedOutFacts
<1>3. Turns(u) /\ place'[u] = "next"
  BY <1>1 DEF Turns, ScriptsInv, TypeInv
<1>4. /\ lost \in [PlannedRooms -> Nat] /\ created \in [PlannedRooms -> Nat]
      /\ repeated \in [PlannedRooms -> Nat]
  BY DEF ScriptsInv, TypeInv
<1>5. ASSUME script = "create_room"
      PROVE  /\ \A r \in PlannedRooms \ {target[u]} : created'[r] = created[r] /\ lost'[r] = lost[r]
             /\ created'[target[u]] <= created[target[u]] + 1
             /\ created'[target[u]] <= lost'[target[u]] + repeated[target[u]] + 1
  <2>1. created[target[u]] <= lost[target[u]] + repeated[target[u]]
    BY <1>1, <1>5 DEF ScriptsInv, AskingInv
  <2>2. QED
    BY <1>1, <1>2, <1>4, <1>5, <2>1
<1>6. \A r \in PlannedRooms : lost'[r] >= lost[r]
  BY <1>1, <1>4
<1>7. QED
  BY <1>1, <1>2, <1>3, <1>4, <1>5, <1>6, AttemptStep

LEMMA TurnedDownPreserves ==
  ASSUME ScriptsInv, NEW u \in GooseUsers, TurnedDown(u)
  PROVE  ScriptsInv'
<1>1. /\ place[u] = "try" /\ FailedAttempt(u) /\ UNCHANGED <<script, todo, created, lost, repeated>>
  BY DEF TurnedDown, server, outcome
<1>2. Turns(u)
  BY <1>1, FailedTurns
<1>3. /\ lost \in [PlannedRooms -> Nat] /\ created \in [PlannedRooms -> Nat]
      /\ repeated \in [PlannedRooms -> Nat]
  BY DEF ScriptsInv, TypeInv
<1>4. ASSUME script = "create_room"
      PROVE  created'[target[u]] <= lost'[target[u]] + repeated[target[u]] /\ target[u] \in PlannedRooms
  BY <1>1, <1>4, RoomsOfFacts DEF ScriptsInv, AskingInv
<1>5. ASSUME script = "create_room"
      PROVE  /\ created'[target[u]] <= created[target[u]] + 1
             /\ created'[target[u]] <= lost'[target[u]] + repeated[target[u]] + 1
  BY <1>1, <1>3, <1>4, <1>5
<1>6. \A r \in PlannedRooms : lost'[r] >= lost[r] /\ created'[r] = created[r] /\ lost'[r] = lost[r]
  BY <1>1, <1>3
<1>7. QED
  BY <1>1, <1>2, <1>3, <1>4, <1>5, <1>6, AttemptStep

LEMMA AnswerLostPreserves ==
  ASSUME ScriptsInv, NEW u \in GooseUsers, AnswerLost(u)
  PROVE  ScriptsInv'
<1>1. /\ place[u] = "try" /\ CarriedOut(u) /\ FailedAttempt(u) /\ UNCHANGED <<script, todo, repeated>>
      /\ lost' = OneMore(lost, u)
  BY DEF AnswerLost
<1>2. /\ created' \in [PlannedRooms -> Nat]
      /\ script # "create_room" => created' = created
      /\ script = "create_room" =>
           target[u] \in PlannedRooms /\ created' = [created EXCEPT ![target[u]] = @ + 1]
  BY <1>1, CarriedOutFacts
<1>3. Turns(u)
  BY <1>1, FailedTurns
<1>4. /\ lost \in [PlannedRooms -> Nat] /\ created \in [PlannedRooms -> Nat]
      /\ repeated \in [PlannedRooms -> Nat]
  BY DEF ScriptsInv, TypeInv
<1>5. /\ lost' \in [PlannedRooms -> Nat]
      /\ \A r \in PlannedRooms : /\ lost'[r] >= lost[r]
                                 /\ r # target[u] => lost'[r] = lost[r]
                                 /\ r = target[u] => lost'[r] = lost[r] + 1
  BY <1>1, <1>4, OneMoreFacts
<1>6. ASSUME script = "create_room"
      PROVE  /\ \A r \in PlannedRooms \ {target[u]} : created'[r] = created[r] /\ lost'[r] = lost[r]
             /\ created'[target[u]] <= created[target[u]] + 1
             /\ created'[target[u]] <= lost'[target[u]] + repeated[target[u]] + 1
             /\ created'[target[u]] <= lost'[target[u]] + repeated[target[u]]
  <2>1. created[target[u]] <= lost[target[u]] + repeated[target[u]]
    BY <1>1, <1>6 DEF ScriptsInv, AskingInv
  <2>2. QED
    BY <1>2, <1>4, <1>5, <1>6, <2>1
<1>7. QED
  BY <1>1, <1>2, <1>3, <1>4, <1>5, <1>6, AttemptStep

\* A repeat within one try: the room it makes is excused, and no try is used.
LEMMA ServerErrorPreserves ==
  ASSUME ScriptsInv, NEW u \in GooseUsers, ServerError(u)
  PROVE  ScriptsInv'
<1>1. /\ place[u] = "try" /\ CarriedOut(u) /\ repeated' = OneMore(repeated, u)
      /\ UNCHANGED <<script, place, todo, target, retries, lost>>
  BY DEF ServerError
<1>2. /\ created' \in [PlannedRooms -> Nat]
      /\ script # "create_room" => created' = created
      /\ script = "create_room" =>
           target[u] \in PlannedRooms /\ created' = [created EXCEPT ![target[u]] = @ + 1]
  BY <1>1, CarriedOutFacts
<1>3. /\ lost \in [PlannedRooms -> Nat] /\ created \in [PlannedRooms -> Nat]
      /\ repeated \in [PlannedRooms -> Nat] /\ retries \in [GooseUsers -> 0 .. Retries]
  BY DEF ScriptsInv, TypeInv
<1>4. /\ repeated' \in [PlannedRooms -> Nat]
      /\ \A r \in PlannedRooms : /\ repeated'[r] >= repeated[r]
                                 /\ r = target[u] => repeated'[r] = repeated[r] + 1
  BY <1>1, <1>3, OneMoreFacts
<1>5. ASSUME NEW r \in PlannedRooms
      PROVE  /\ created[r] \in Nat /\ created'[r] \in Nat /\ lost[r] \in Nat
             /\ repeated[r] \in Nat /\ repeated'[r] \in Nat
             /\ created'[r] - created[r] <= repeated'[r] - repeated[r]
             /\ r # target[u] => created'[r] = created[r]
  <2>1. /\ created[r] \in Nat /\ created'[r] \in Nat /\ lost[r] \in Nat
        /\ repeated[r] \in Nat /\ repeated'[r] \in Nat /\ repeated'[r] >= repeated[r]
    BY <1>2, <1>3, <1>4
  <2>2. CASE script # "create_room" \/ r # target[u]
    BY <1>2, <1>3, <2>1, <2>2
  <2>3. CASE script = "create_room" /\ r = target[u]
    <3>1. created'[r] = created[r] + 1 /\ repeated'[r] = repeated[r] + 1
      BY <1>2, <1>3, <1>4, <2>3
    <3>2. QED
      BY <2>1, <2>3, <3>1
  <2>4. QED
    BY <2>2, <2>3
<1>6. TypeInv' /\ PlaceInv'
  BY <1>1, <1>2, <1>4 DEF ScriptsInv, TypeInv, PlaceInv
<1>7. TwinsNeedLoss'
  <2>1. ASSUME NEW r \in PlannedRooms
        PROVE  created'[r] <= lost[r] + repeated'[r] + 1 /\ created'[r] <= 3 + repeated'[r]
    BY <1>5 DEF ScriptsInv, TwinsNeedLoss
  <2>2. QED
    BY <1>1, <2>1 DEF TwinsNeedLoss
<1>8. UntriedInv'
  <2>1. script = "create_room" => target[u] \in RoomsOf(u) \ todo[u]
    BY <1>1 DEF ScriptsInv, AskingInv
  <2>2. ASSUME script = "create_room", NEW v \in GooseUsers, NEW r \in RoomsOf(v),
               place[v] \in {"off", "start", "login"}
               \/ (place[v] \in {"next", "try"} /\ r \in todo[v])
        PROVE  created'[r] = 0
    <3>1. r # target[u] /\ r \in PlannedRooms
      BY <1>1, <2>1, <2>2, RoomsOfFacts
    <3>2. QED
      BY <1>5, <2>2, <3>1 DEF ScriptsInv, UntriedInv
  <2>3. script = "register" => \A r \in PlannedRooms : created'[r] = 0
    BY <1>2 DEF ScriptsInv, UntriedInv
  <2>4. QED
    BY <1>1, <2>2, <2>3 DEF UntriedInv, RoomsOf
<1>9. AskingInv'
  <2>1. ASSUME script = "create_room", NEW v \in GooseUsers, place[v] = "try"
        PROVE  /\ target[v] \in RoomsOf(v) \ todo[v]
               /\ created'[target[v]] <= lost[target[v]] + repeated'[target[v]]
               /\ created'[target[v]] + retries[v] <= Retries + repeated'[target[v]]
    <3>1. /\ target[v] \in RoomsOf(v) \ todo[v]
          /\ created[target[v]] <= lost[target[v]] + repeated[target[v]]
          /\ created[target[v]] + retries[v] <= Retries + repeated[target[v]]
      BY <2>1 DEF ScriptsInv, AskingInv
    <3>2. target[v] \in PlannedRooms /\ retries[v] \in Nat
      BY <1>3, <3>1, RoomsOfFacts
    <3>3. QED
      BY <1>5, <3>1, <3>2
  <2>2. QED
    BY <1>1, <2>1 DEF ScriptsInv, AskingInv, RoomsOf
<1>10. QED
  BY <1>6, <1>7, <1>8, <1>9 DEF ScriptsInv

----------------------------------------------------------------------------
LEMMA StepScriptsInv == ScriptsInv /\ [SetupNext]_setupVars => ScriptsInv'
<1> SUFFICES ASSUME ScriptsInv, [SetupNext]_setupVars PROVE ScriptsInv'
  OBVIOUS
<1>1. ASSUME NEW u \in GooseUsers, Transaction(u) PROVE ScriptsInv'
  BY <1>1, StartPreserves, LoginPreserves, SyncPreserves, PickPreserves, GrantedPreserves,
     TurnedDownPreserves, AnswerLostPreserves, ServerErrorPreserves DEF Transaction, Answer
<1>2. CASE UNCHANGED setupVars
  BY <1>2 DEF ScriptsInv, TypeInv, UntriedInv, AskingInv, PlaceInv, TwinsNeedLoss, RoomsOf,
     setupVars, server, outcome
<1>3. CASE ServerTurns
  BY <1>3 DEF ScriptsInv, TypeInv, UntriedInv, AskingInv, PlaceInv, TwinsNeedLoss, RoomsOf,
     ServerTurns, server, outcome
<1>4. QED
  BY <1>1, <1>2, <1>3, SetupPreserves, NextScriptPreserves DEF SetupNext

\* create_room.rs (bin/create_room.rs, the loop of three tries) makes a room once,
\* and again only where the server made it but its answer did not arrive, or was
\* a 5xx on which http_client.rs repeats the request within the try.  The loop
\* bounds the twins of the first kind; those of the second have no bound.
THEOREM TwinsExplained == SetupSpec => []TwinsNeedLoss
<1>1. ScriptsInv => TwinsNeedLoss
  BY DEF ScriptsInv
<1>2. QED
  BY <1>1, InitScriptsInv, StepScriptsInv, PTL DEF SetupSpec

----------------------------------------------------------------------------
(* Who is in which room in the end.                                        *)

\* The room exists, its creator is in it and those it lists may join it.
Done(r) == <<Creator[r], r>> \in members /\ \A v \in Invitees[r] : <<v, r>> \in invited

\* The user's transaction has come to its requests, and nothing has failed it.
Due(u) == place[u] \in {"next", "try", "over"} /\ u \notin troubled

\* It has yet to ask for the room, or is asking.
Remains(u, r) ==
  \/ place[u] \in {"next", "try"} /\ r \in todo[u]
  \/ place[u] = "try" /\ target[u] = r

DueInv ==
  /\ script = "create_room" =>
       \A u \in GooseUsers : \A r \in RoomsOf(u) : Due(u) => Done(r) \/ Remains(u, r)
  /\ script = "join" =>
       \A u \in GooseUsers, r \in PlannedRooms :
         Due(u) /\ <<u, r>> \in invited => <<u, r>> \in members \/ Remains(u, r)
  /\ script \in {"join", "end"} =>
       \A r \in PlannedRooms : Creator[r] \notin troubled => Done(r)
  /\ script = "end" =>
       \A u \in GooseUsers, r \in PlannedRooms :
         u \notin troubled /\ <<u, r>> \in invited => <<u, r>> \in members

\* What a user does takes nothing from the others, and nothing it has reached.
LEMMA DueStep ==
  ASSUME ScriptsInv, DueInv, NEW u \in GooseUsers, place[u] # "off", UNCHANGED script,
         members \subseteq members', invited \subseteq invited', troubled \subseteq troubled',
         script = "join" => invited' = invited,
         \A v \in GooseUsers \ {u} :
           place'[v] = place[v] /\ todo'[v] = todo[v] /\ target'[v] = target[v],
         script = "create_room" =>
           \A r \in RoomsOf(u) : Due(u)' => Done(r)' \/ Remains(u, r)',
         script = "join" =>
           \A r \in PlannedRooms : Due(u)' /\ <<u, r>> \in invited =>
             <<u, r>> \in members' \/ Remains(u, r)'
  PROVE  DueInv'
<1>1. script # "end"
  BY DEF ScriptsInv, PlaceInv
<1>2. \A r \in PlannedRooms : Done(r) => Done(r)'
  BY DEF Done
<1>3. \A v \in GooseUsers \ {u} : Due(v)' => Due(v)
  BY DEF Due
<1>4. \A v \in GooseUsers \ {u}, r \in PlannedRooms : Remains(v, r) => Remains(v, r)'
  BY DEF Remains
<1>5. ASSUME script = "create_room", NEW v \in GooseUsers, NEW r \in RoomsOf(v), Due(v)'
      PROVE  Done(r)' \/ Remains(v, r)'
  <2>1. CASE v = u
    BY <1>5, <2>1
  <2>2. CASE v # u
    BY <1>2, <1>3, <1>4, <1>5, <2>2, RoomsOfFacts DEF DueInv
  <2>3. QED
    BY <2>1, <2>2
<1>6. ASSUME script = "join", NEW v \in GooseUsers, NEW r \in PlannedRooms,
             Due(v)', <<v, r>> \in invited
      PROVE  <<v, r>> \in members' \/ Remains(v, r)'
  <2>1. CASE v = u
    BY <1>6, <2>1
  <2>2. CASE v # u
    BY <1>3, <1>4, <1>6, <2>2 DEF DueInv
  <2>3. QED
    BY <2>1, <2>2
<1>7. ASSUME script = "join", NEW r \in PlannedRooms, Creator[r] \notin troubled'
      PROVE  Done(r)'
  BY <1>2, <1>7 DEF DueInv
<1>8. QED
  BY <1>1, <1>5, <1>6, <1>7 DEF DueInv, RoomsOf

\* Until its requests, and when the script has failed it, nothing is due.
LEMMA EntryDue ==
  ASSUME ScriptsInv, DueInv, NEW u \in GooseUsers,
         Start(u) \/ LogsIn(u) \/ LoginFails(u) \/ SyncOnce(u) \/ SyncFails(u)
  PROVE  DueInv'
<1>1. /\ place[u] \in {"start", "login", "sync"} /\ UNCHANGED <<script, target, members, invited>>
      /\ troubled \subseteq troubled'
  BY DEF Start, LogsIn, LoginFails, SyncOnce, SyncFails, server, outcome, Trouble
<1>2. \A v \in GooseUsers \ {u} : place'[v] = place[v] /\ todo'[v] = todo[v] /\ target'[v] = target[v]
  BY DEF Start, LogsIn, LoginFails, SyncOnce, SyncFails, server, outcome, ToPlace, ScriptsInv, TypeInv
<1>3. ASSUME script = "create_room", NEW r \in RoomsOf(u), Due(u)' PROVE Remains(u, r)'
  <2>1. ~Start(u)
    BY <1>3 DEF Start, ToPlace, Trouble, Due, ScriptsInv, TypeInv
  <2>2. ~LoginFails(u) /\ ~SyncFails(u)
    BY <1>3 DEF LoginFails, SyncFails, Trouble, Due
  <2>3. ~SyncOnce(u)
    BY <1>3 DEF SyncOnce, ScriptsInv, PlaceInv
  <2>4. place' = [place EXCEPT ![u] = "next"] /\ todo' = [todo EXCEPT ![u] = RoomsOf(u)]
    BY <1>3, <2>1, <2>2, <2>3 DEF LogsIn, ToPlace
  <2>5. QED
    BY <1>3, <2>4 DEF Remains, ScriptsInv, TypeInv
<1>4. ASSUME script = "join", NEW r \in PlannedRooms, Due(u)', <<u, r>> \in invited
      PROVE  Remains(u, r)'
  <2>1. ~Start(u) /\ ~LogsIn(u)
    BY <1>4 DEF Start, LogsIn, ToPlace, Trouble, Due, ScriptsInv, TypeInv
  <2>2. ~LoginFails(u) /\ ~SyncFails(u)
    BY <1>4 DEF LoginFails, SyncFails, Trouble, Due
  <2>3. /\ place' = [place EXCEPT ![u] = "next"]
        /\ todo' = [todo EXCEPT ![u] = { q \in PlannedRooms : <<u, q>> \in invited }]
    BY <2>1, <2>2 DEF SyncOnce, ToPlace
  <2>4. QED
    BY <1>4, <2>3 DEF Remains, ScriptsInv, TypeInv
<1>5. QED
  BY <1>1, <1>2, <1>3, <1>4, DueStep

LEMMA PickDue ==
  ASSUME ScriptsInv, DueInv, NEW u \in GooseUsers, Pick(u)
  PROVE  DueInv'
<1>1. place[u] = "next" /\ UNCHANGED <<script, members, invited, troubled>>
  BY DEF Pick, server, outcome
<1>2. \A v \in GooseUsers \ {u} : place'[v] = place[v] /\ todo'[v] = todo[v] /\ target'[v] = target[v]
  BY DEF Pick, ToPlace, ScriptsInv, TypeInv
<1>3. ASSUME NEW r \in PlannedRooms, Remains(u, r) PROVE Remains(u, r)'
  <2>1. r \in todo[u]
    BY <1>1, <1>3 DEF Remains
  <2>2. PICK q \in todo[u] :
          /\ place' = [place EXCEPT ![u] = "try"] /\ todo' = [todo EXCEPT ![u] = @ \ {q}]
          /\ target' = [target EXCEPT ![u] = q]
    BY <2>1 DEF Pick, ToPlace
  <2>3. place'[u] = "try" /\ todo'[u] = todo[u] \ {q} /\ target'[u] = q
    BY <2>2 DEF ScriptsInv, TypeInv
  <2>4. QED
    BY <2>1, <2>3 DEF Remains
<1>4. Due(u)' => Due(u)
  BY <1>1 DEF Due
<1>5. \A r \in PlannedRooms : Done(r) => Done(r)'
  BY <1>1 DEF Done
<1>6. ASSUME script = "create_room", NEW r \in RoomsOf(u), Due(u)'
      PROVE  Done(r)' \/ Remains(u, r)'
  BY <1>3, <1>4, <1>5, <1>6, RoomsOfFacts DEF DueInv
<1>7. ASSUME script = "join", NEW r \in PlannedRooms, Due(u)', <<u, r>> \in invited
      PROVE  <<u, r>> \in members' \/ Remains(u, r)'
  BY <1>1, <1>3, <1>4, <1>7 DEF DueInv
<1>8. QED
  BY <1>1, <1>2, <1>6, <1>7, DueStep

\* What a request that is carried out achieves.
LEMMA CarriedOutDone ==
  ASSUME ScriptsInv, NEW u \in GooseUsers, place[u] = "try", CarriedOut(u)
  PROVE  /\ members \subseteq members' /\ invited \subseteq invited'
         /\ script = "join" => invited' = invited /\ <<u, target[u]>> \in members'
         /\ script = "create_room" => \A r : r = target[u] => Done(r)'
<1>1. script = "create_room" => Creator[target[u]] = u
  BY DEF ScriptsInv, AskingInv, RoomsOf
<1>2. CASE script = "create_room"
  BY <1>1, <1>2 DEF CarriedOut, Done
<1>3. CASE script \in {"register", "join"}
  BY <1>3 DEF CarriedOut
<1>4. script \in {"register", "create_room", "join"}
  BY DEF ScriptsInv, PlaceInv, Scripts
<1>5. QED
  BY <1>2, <1>3, <1>4

LEMMA GrantedDue ==
  ASSUME ScriptsInv, DueInv, NEW u \in GooseUsers, Granted(u)
  PROVE  DueInv'
<1>1. /\ place[u] = "try" /\ CarriedOut(u) /\ UNCHANGED <<script, todo, troubled>>
      /\ place' = [place EXCEPT ![u] = "next"] /\ target' = [target EXCEPT ![u] = NoTarget]
  BY DEF Granted, ToPlace, outcome
<1>2. /\ members \subseteq members' /\ invited \subseteq invited'
      /\ script = "join" => invited' = invited /\ <<u, target[u]>> \in members'
      /\ script = "create_room" => \A r : r = target[u] => Done(r)'
  BY <1>1, CarriedOutDone
<1>3. place'[u] = "next" /\ \A v \in GooseUsers \ {u} :
        place'[v] = place[v] /\ todo'[v] = todo[v] /\ target'[v] = target[v]
  BY <1>1 DEF ScriptsInv, TypeInv
<1>4. Due(u)' => Due(u)
  BY <1>1 DEF Due
<1>5. \A r \in PlannedRooms : Remains(u, r) => r = target[u] \/ Remains(u, r)'
  BY <1>1, <1>3 DEF Remains
<1>6. \A r \in PlannedRooms : Done(r) => Done(r)'
  BY <1>2 DEF Done
<1>7. ASSUME script = "create_room", NEW r \in RoomsOf(u), Due(u)'
      PROVE  Done(r)' \/ Remains(u, r)'
  BY <1>2, <1>4, <1>5, <1>6, <1>7, RoomsOfFacts DEF DueInv
<1>8. ASSUME script = "join", NEW r \in PlannedRooms, Due(u)', <<u, r>> \in invited
      PROVE  <<u, r>> \in members' \/ Remains(u, r)'
  BY <1>2, <1>4, <1>5, <1>8 DEF DueInv
<1>9. QED
  BY <1>1, <1>2, <1>3, <1>7, <1>8, DueStep

\* Who gives up is troubled, and who does not still asks.
LEMMA FailedDue ==
  ASSUME ScriptsInv, DueInv, NEW u \in GooseUsers, TurnedDown(u) \/ AnswerLost(u)
  PROVE  DueInv'
<1>1. place[u] = "try" /\ FailedAttempt(u) /\ UNCHANGED <<script, todo>>
  BY DEF TurnedDown, AnswerLost
<1>2. /\ members \subseteq members' /\ invited \subseteq invited'
      /\ script = "join" => invited' = invited
  <2>1. CASE TurnedDown(u)
    BY <2>1 DEF TurnedDown, server, outcome
  <2>2. CASE AnswerLost(u)
    BY <1>1, <2>2, CarriedOutDone DEF AnswerLost
  <2>3. QED
    BY <2>1, <2>2
<1>3. /\ troubled \subseteq troubled'
      /\ \A v \in GooseUsers \ {u} :
           place'[v] = place[v] /\ todo'[v] = todo[v] /\ target'[v] = target[v]
  BY <1>1 DEF FailedAttempt, ToPlace, Trouble, ScriptsInv, TypeInv
<1>4. Due(u)' => Due(u) /\ UNCHANGED <<place, target>>
  BY <1>1 DEF FailedAttempt, Trouble, Due
<1>5. \A r \in PlannedRooms : Due(u)' /\ Remains(u, r) => Remains(u, r)'
  BY <1>1, <1>4 DEF Remains
<1>6. \A r \in PlannedRooms : Done(r) => Done(r)'
  BY <1>2 DEF Done
<1>7. ASSUME script = "create_room", NEW r \in RoomsOf(u), Due(u)'
      PROVE  Done(r)' \/ Remains(u, r)'
  BY <1>4, <1>5, <1>6, <1>7, RoomsOfFacts DEF DueInv
<1>8. ASSUME script = "join", NEW r \in PlannedRooms, Due(u)', <<u, r>> \in invited
      PROVE  <<u, r>> \in members' \/ Remains(u, r)'
  BY <1>2, <1>4, <1>5, <1>8 DEF DueInv
<1>9. QED
  BY <1>1, <1>2, <1>3, <1>7, <1>8, DueStep

\* A repeat leaves the user where it is, and the server knows no less.
LEMMA RepeatDue ==
  ASSUME ScriptsInv, DueInv, NEW u \in GooseUsers, ServerError(u)
  PROVE  DueInv'
<1>1. place[u] = "try" /\ CarriedOut(u) /\ UNCHANGED <<script, place, todo, target, troubled>>
  BY DEF ServerError
<1>2. /\ members \subseteq members' /\ invited \subseteq invited'
      /\ script = "join" => invited' = invited
  BY <1>1, CarriedOutDone
<1>3. /\ \A r \in PlannedRooms : Done(r) => Done(r)'
      /\ \A r \in PlannedRooms : Remains(u, r) => Remains(u, r)'
      /\ Due(u)' => Due(u)
  BY <1>1, <1>2 DEF Done, Remains, Due
<1>4. ASSUME script = "create_room", NEW r \in RoomsOf(u), Due(u)'
      PROVE  Done(r)' \/ Remains(u, r)'
  BY <1>3, <1>4, RoomsOfFacts DEF DueInv
<1>5. ASSUME script = "join", NEW r \in PlannedRooms, Due(u)', <<u, r>> \in invited
      PROVE  <<u, r>> \in members' \/ Remains(u, r)'
  BY <1>2, <1>3, <1>5 DEF DueInv
<1>6. QED
  BY <1>1, <1>2, <1>4, <1>5, DueStep

\* A script ends when all its users are over: then nothing remains.
LEMMA ScriptDue ==
  ASSUME ScriptsInv, DueInv, Setup \/ NextScript
  PROVE  DueInv'
<1>1. UNCHANGED <<members, invited, troubled>> /\ \A r : Done(r)' <=> Done(r)
  BY DEF Setup, NextScript, server, outcome, Done
<1>2. \A u \in GooseUsers : ~Due(u)'
  BY DEF Setup, NextScript, Due
<1>3. CASE Setup
  BY <1>1, <1>2, <1>3 DEF Setup, DueInv, RoomsOf
<1>4. CASE NextScript
  <2>1. \A u \in GooseUsers : place[u] = "over"
    BY <1>4 DEF NextScript
  <2>2. \A u \in GooseUsers : \A r : ~Remains(u, r) /\ (Due(u) <=> u \notin troubled)
    BY <2>1 DEF Remains, Due
  <2>3. ASSUME script = "create_room", NEW r \in PlannedRooms, Creator[r] \notin troubled
        PROVE  Done(r)
    <3>1. Creator[r] \in GooseUsers /\ r \in RoomsOf(Creator[r])
      BY SetupAssumption DEF RoomsOf
    <3>2. QED
      BY <2>2, <2>3, <3>1 DEF DueInv
  <2>4. CASE script = "register"
    BY <1>2, <1>4, <2>4 DEF NextScript, DueInv, RoomsOf
  <2>5. CASE script = "create_room"
    BY <1>1, <1>2, <1>4, <2>3, <2>5 DEF NextScript, DueInv, RoomsOf
  <2>6. CASE script = "join"
    BY <1>1, <1>2, <1>4, <2>2, <2>6 DEF NextScript, DueInv, RoomsOf
  <2>7. CASE script = "end"
    BY <1>1, <1>2, <1>4, <2>7 DEF NextScript, DueInv, RoomsOf
  <2>8. QED
    BY <2>4, <2>5, <2>6, <2>7 DEF ScriptsInv, PlaceInv, Scripts
<1>5. QED
  BY <1>3, <1>4

LEMMA StepDue == ScriptsInv /\ DueInv /\ [SetupNext]_setupVars => DueInv'
<1> SUFFICES ASSUME ScriptsInv, DueInv, [SetupNext]_setupVars PROVE DueInv'
  OBVIOUS
<1>1. ASSUME NEW u \in GooseUsers, Transaction(u) PROVE DueInv'
  BY <1>1, EntryDue, PickDue, GrantedDue, FailedDue, RepeatDue DEF Transaction, Answer
<1>2. CASE UNCHANGED setupVars \/ ServerTurns
  BY <1>2 DEF DueInv, Due, Done, Remains, RoomsOf, setupVars, ServerTurns, server, outcome
<1>3. QED
  BY <1>1, <1>2, ScriptDue DEF SetupNext

\* What the three scripts are for (bin/register.rs, bin/create_room.rs,
\* bin/join.rs): in the end everyone is in the rooms of rooms.json, unless a
\* script failed them or the room's creator.
THEOREM AllAreIn == SetupSpec => []EveryoneIsIn
<1>1. SetupInit => DueInv
  BY DEF SetupInit, DueInv
<1>2. ScriptsInv /\ DueInv => EveryoneIsIn
  <2> SUFFICES ASSUME DueInv, script = "end", NEW r \in PlannedRooms,
                      NEW u \in Invitees[r] \cup {Creator[r]},
                      u \notin troubled, Creator[r] \notin troubled
               PROVE  <<u, r>> \in members
    BY DEF EveryoneIsIn
  <2>1. Done(r)
    BY DEF DueInv
  <2>2. CASE u = Creator[r]
    BY <2>1, <2>2 DEF Done
  <2>3. CASE u \in Invitees[r]
    <3>1. u \in GooseUsers
      BY <2>3, SetupAssumption
    <3>2. <<u, r>> \in invited
      BY <2>1, <2>3 DEF Done
    <3>3. QED
      BY <3>1, <3>2 DEF DueInv
  <2>4. QED
    BY <2>2, <2>3
<1>3. QED
  BY <1>1, <1>2, InitScriptsInv, StepScriptsInv, StepDue, PTL DEF SetupSpec

----------------------------------------------------------------------------
(* The types of the rest, which the scripts' files and slots decide.       *)

\* Who has come past the start has a line in users.csv and its slot filled;
\* and nobody has anything left to do when it is not at its requests, so join.rs
\* asks only for what its sync told.
ReadyInv ==
  /\ slots \in [GooseUsers -> {"absent", "null", "user"}]
  /\ \A u \in GooseUsers :
       /\ place[u] \in {"login", "sync", "next", "try"} => slots[u] = "user" /\ u \in CsvUsers
       /\ place[u] \notin {"next", "try"} => todo[u] = {}
       /\ script = "join" =>
            /\ todo[u] \subseteq PlannedRooms
            /\ place[u] = "try" => target[u] \in PlannedRooms

\* What the server knows is of users and rooms of the files.
ServerInv ==
  /\ accounts \subseteq CsvUsers
  /\ members \subseteq CsvUsers \X PlannedRooms
  /\ invited \subseteq CsvUsers \X PlannedRooms
  /\ troubled \subseteq GooseUsers /\ faults \in 0 .. MaxFaults
  /\ serverBusy \in {TRUE, FALSE}

LEMMA InitReadyInv == SetupInit => ReadyInv /\ ServerInv
<1> SUFFICES ASSUME SetupInit PROVE ReadyInv /\ ServerInv
  OBVIOUS
<1>1. serverBusy \in {TRUE, FALSE}
  BY Zenon DEF SetupInit
<1>2. ReadyInv
  BY DEF SetupInit, ReadyInv
<1>3. /\ accounts = {} /\ members = {} /\ invited = {} /\ troubled = {}
      /\ faults \in 0 .. MaxFaults
  BY SetupAssumption DEF SetupInit
<1>4. QED
  BY <1>1, <1>2, <1>3 DEF ServerInv

\* One user moves to another place, with what is left to do there.
LEMMA ReadyStep ==
  ASSUME ScriptsInv, ReadyInv, NEW u \in GooseUsers, UNCHANGED script,
         \A v \in GooseUsers \ {u} :
           place'[v] = place[v] /\ todo'[v] = todo[v] /\ target'[v] = target[v],
         slots' \in {slots, [slots EXCEPT ![u] = "user"]},
         place'[u] \in {"login", "sync", "next", "try"} => slots'[u] = "user" /\ u \in CsvUsers,
         place'[u] \notin {"next", "try"} => todo'[u] = {},
         script = "join" =>
           /\ todo'[u] \subseteq PlannedRooms
           /\ place'[u] = "try" => target'[u] \in PlannedRooms
  PROVE  ReadyInv'
<1>1. \A v \in GooseUsers \ {u} : slots'[v] = slots[v]
  BY DEF ReadyInv
<1>2. slots' \in [GooseUsers -> {"absent", "null", "user"}]
  BY DEF ReadyInv
<1>3. QED
  BY <1>1, <1>2 DEF ReadyInv

\* Up to the requests.
LEMMA EntryReady ==
  ASSUME ScriptsInv, ReadyInv, NEW u \in GooseUsers,
         Start(u) \/ LogsIn(u) \/ LoginFails(u) \/ SyncOnce(u) \/ SyncFails(u)
  PROVE  ReadyInv'
<1>1. /\ todo[u] = {} /\ UNCHANGED <<script, target>>
      /\ place[u] \in {"login", "sync"} => slots[u] = "user" /\ u \in CsvUsers
  BY DEF ReadyInv, Start, LogsIn, LoginFails, SyncOnce, SyncFails
<1> DEFINE Entered(p, s) == place' = [place EXCEPT ![u] = p] /\ todo' = [todo EXCEPT ![u] = s]
<1>2. /\ todo \in [GooseUsers -> SUBSET Targets]
      /\ place \in [GooseUsers -> {"off", "start", "login", "sync", "next", "try", "over"}]
      /\ slots \in [GooseUsers -> {"absent", "null", "user"}]
  BY DEF ScriptsInv, TypeInv, ReadyInv
<1>3. todo = [todo EXCEPT ![u] = {}]
  BY <1>1, <1>2
<1>4. ASSUME NEW p \in {"login", "sync", "next", "over"}, NEW s, Entered(p, s),
             p # "next" => s = {}, script = "join" => s \subseteq PlannedRooms,
             slots' \in {slots, [slots EXCEPT ![u] = "user"]},
             p # "over" => slots'[u] = "user" /\ u \in CsvUsers
      PROVE  ReadyInv'
  <2>1. /\ place'[u] = p /\ todo'[u] = s
        /\ \A v \in GooseUsers \ {u} : place'[v] = place[v] /\ todo'[v] = todo[v] /\ target'[v] = target[v]
    BY <1>1, <1>2, <1>4
  <2>2. QED
    BY <1>1, <1>4, <2>1, ReadyStep
<1>5. CASE Start(u)
  <2>1. CASE u \in CsvUsers
    <3>1. slots' = [slots EXCEPT ![u] = "user"] /\ slots'[u] = "user"
      BY <1>2, <1>5, <2>1 DEF Start
    <3>2. CASE script = "register"
      <4>1. Entered("next", {"account"})
        BY <1>5, <2>1, <3>2 DEF Start, ToPlace
      <4>2. QED
        BY <1>4, <2>1, <3>1, <3>2, <4>1
    <3>3. CASE script # "register"
      <4>1. Entered("over", {}) \/ Entered("login", {})
        BY <1>3, <1>5, <2>1, <3>3 DEF Start, ToPlace
      <4>2. QED
        BY <1>4, <2>1, <3>1, <4>1
    <3>4. QED
      BY <3>2, <3>3
  <2>2. CASE u \notin CsvUsers
    <3>1. Entered("over", {}) /\ UNCHANGED slots
      BY <1>3, <1>5, <2>2 DEF Start, ToPlace
    <3>2. QED
      BY <1>4, <3>1
  <2>3. QED
    BY <2>1, <2>2
<1>6. CASE LogsIn(u)
  <2>1. UNCHANGED slots /\ slots[u] = "user" /\ u \in CsvUsers
    BY <1>1, <1>6 DEF LogsIn
  <2>2. \/ script = "create_room" /\ Entered("next", RoomsOf(u))
        \/ Entered("sync", {})
    BY <1>3, <1>6 DEF LogsIn, ToPlace
  <2>3. QED
    BY <1>4, <2>1, <2>2
<1>7. CASE LoginFails(u)
  <2>1. Entered("over", {}) /\ UNCHANGED slots
    BY <1>3, <1>7 DEF LoginFails, ToPlace
  <2>2. QED
    BY <1>4, <2>1
<1>8. CASE SyncOnce(u) \/ SyncFails(u)
  <2>1. UNCHANGED slots /\ slots[u] = "user" /\ u \in CsvUsers
    BY <1>1, <1>8 DEF SyncOnce, SyncFails
  <2>2. Entered("next", { r \in PlannedRooms : <<u, r>> \in invited }) \/ Entered("next", {})
    BY <1>3, <1>8 DEF SyncOnce, SyncFails, ToPlace
  <2>3. QED
    BY <1>4, <2>1, <2>2
<1>9. QED
  BY <1>5, <1>6, <1>7, <1>8

LEMMA RequestReady ==
  ASSUME ScriptsInv, ReadyInv, NEW u \in GooseUsers,
         Pick(u) \/ Granted(u) \/ TurnedDown(u) \/ AnswerLost(u) \/ ServerError(u)
  PROVE  ReadyInv'
<1>1. /\ place[u] \in {"next", "try"} /\ UNCHANGED <<script, slots>>
      /\ slots[u] = "user" /\ u \in CsvUsers
      /\ script = "join" =>
           /\ todo[u] \subseteq PlannedRooms
           /\ place[u] = "try" => target[u] \in PlannedRooms
  BY DEF ReadyInv, Pick, Granted, TurnedDown, AnswerLost, ServerError
<1>2. \A v \in GooseUsers \ {u} : place'[v] = place[v] /\ todo'[v] = todo[v] /\ target'[v] = target[v]
  BY DEF ScriptsInv, TypeInv, Pick, Granted, TurnedDown, AnswerLost, ServerError, FailedAttempt, ToPlace
<1>3. /\ place'[u] \notin {"next", "try"} => todo'[u] = {}
      /\ script = "join" =>
           /\ todo'[u] \subseteq PlannedRooms
           /\ place'[u] = "try" => target'[u] \in PlannedRooms
  <2>1. CASE Pick(u)
    <3>1. CASE todo[u] = {}
      <4>1. place' = [place EXCEPT ![u] = "over"] /\ UNCHANGED <<todo, target>>
        BY <2>1, <3>1 DEF Pick, ToPlace
      <4>2. place'[u] = "over" /\ todo'[u] = {}
        BY <3>1, <4>1 DEF ScriptsInv, TypeInv
      <4>3. QED
        BY <4>2
    <3>2. CASE todo[u] # {}
      <4>1. PICK r \in todo[u] : /\ place' = [place EXCEPT ![u] = "try"]
                                 /\ todo' = [todo EXCEPT ![u] = @ \ {r}]
                                 /\ target' = [target EXCEPT ![u] = r]
        BY <2>1, <3>2 DEF Pick, ToPlace
      <4>2. place'[u] = "try" /\ todo'[u] = todo[u] \ {r} /\ target'[u] = r
        BY <4>1 DEF ScriptsInv, TypeInv
      <4>3. QED
        BY <1>1, <4>1, <4>2
    <3>3. QED
      BY <3>1, <3>2
  <2>2. CASE Granted(u) \/ TurnedDown(u) \/ AnswerLost(u) \/ ServerError(u)
    <3>1. place[u] = "try" /\ UNCHANGED todo
      BY <2>2 DEF Granted, TurnedDown, AnswerLost, ServerError
    <3>2. \/ place' = [place EXCEPT ![u] = "next"]
          \/ UNCHANGED <<place, target>>
      BY <2>2 DEF Granted, TurnedDown, AnswerLost, ServerError, FailedAttempt, ToPlace
    <3>3. place'[u] = "next" \/ UNCHANGED <<place, target>>
      BY <3>2 DEF ScriptsInv, TypeInv
    <3>4. QED
      BY <1>1, <3>1, <3>3
  <2>3. QED
    BY <2>1, <2>2
<1>4. QED
  BY <1>1, <1>2, <1>3, ReadyStep

LEMMA StepReadyInv == ScriptsInv /\ ReadyInv /\ [SetupNext]_setupVars => ReadyInv'
<1> SUFFICES ASSUME ScriptsInv, ReadyInv, [SetupNext]_setupVars PROVE ReadyInv'
  OBVIOUS
<1>1. CASE Setup
  BY <1>1 DEF Setup, ReadyInv
<1>2. CASE NextScript
  <2>1. \A u \in GooseUsers : todo'[u] = {}
    BY <1>2 DEF NextScript, ReadyInv
  <2>2. QED
    BY <1>2, <2>1 DEF NextScript, ReadyInv
<1>3. CASE UNCHANGED setupVars \/ ServerTurns
  BY <1>3 DEF ReadyInv, setupVars, ServerTurns
<1>4. ASSUME NEW u \in GooseUsers, Transaction(u) PROVE ReadyInv'
  BY <1>4, EntryReady, RequestReady DEF Transaction, Answer
<1>5. QED
  BY <1>1, <1>2, <1>3, <1>4 DEF SetupNext

----------------------------------------------------------------------------
\* What the server grants is of the files, since those who ask are.
LEMMA CarriedOutTyped ==
  ASSUME ScriptsInv, ReadyInv, ServerInv, NEW u \in GooseUsers, place[u] = "try", CarriedOut(u)
  PROVE  /\ accounts' \subseteq CsvUsers
         /\ members' \subseteq CsvUsers \X PlannedRooms
         /\ invited' \subseteq CsvUsers \X PlannedRooms
<1>1. u \in CsvUsers
  BY DEF ReadyInv
<1>2. CASE script = "register"
  BY <1>1, <1>2 DEF CarriedOut, ServerInv
<1>3. CASE script = "create_room"
  <2>1. target[u] \in PlannedRooms
    BY <1>3, RoomsOfFacts DEF ScriptsInv, AskingInv
  <2>2. Invitees[target[u]] \subseteq CsvUsers
    BY <2>1, SetupAssumption
  <2>3. /\ members' = members \cup {<<u, target[u]>>} /\ UNCHANGED accounts
        /\ invited' = invited \cup { <<v, target[u]>> : v \in Invitees[target[u]] }
    BY <1>3 DEF CarriedOut
  <2>4. QED
    BY <1>1, <2>1, <2>2, <2>3 DEF ServerInv
<1>4. CASE script = "join"
  BY <1>1, <1>4 DEF CarriedOut, ServerInv, ReadyInv
<1>5. script \in {"register", "create_room", "join"}
  BY DEF ScriptsInv, PlaceInv, Scripts
<1>6. QED
  BY <1>2, <1>3, <1>4, <1>5

LEMMA StepServerInv ==
  ScriptsInv /\ ReadyInv /\ ServerInv /\ [SetupNext]_setupVars => ServerInv'
<1> SUFFICES ASSUME ScriptsInv, ReadyInv, ServerInv, [SetupNext]_setupVars PROVE ServerInv'
  OBVIOUS
<1>1. CASE Setup \/ NextScript \/ ServerTurns \/ UNCHANGED setupVars
  BY <1>1 DEF Setup, NextScript, ServerTurns, setupVars, server, outcome, ServerInv
<1>2. ASSUME NEW u \in GooseUsers, Transaction(u) PROVE ServerInv'
  <2>1. troubled' \in {troubled, troubled \cup {u}}
    BY <1>2 DEF Transaction, Answer, Start, LogsIn, LoginFails, SyncOnce, SyncFails, Pick, Granted,
         TurnedDown, AnswerLost, ServerError, FailedAttempt, Trouble, outcome
  <2>2. faults' = faults \/ Fault
    BY <1>2 DEF Transaction, Answer, Start, LogsIn, LoginFails, SyncOnce, SyncFails, Pick, Granted,
         TurnedDown, AnswerLost, ServerError, outcome
  <2>3. UNCHANGED <<accounts, members, invited>> \/ (place[u] = "try" /\ CarriedOut(u))
    BY <1>2 DEF Transaction, Answer, Start, LogsIn, LoginFails, SyncOnce, SyncFails, Pick, Granted,
         TurnedDown, AnswerLost, ServerError, server
  <2>4. troubled' \subseteq GooseUsers
    BY <2>1 DEF ServerInv
  <2>5. faults' \in 0 .. MaxFaults
    BY <2>2, SetupAssumption DEF ServerInv, Fault
  <2>6. /\ accounts' \subseteq CsvUsers
        /\ members' \subseteq CsvUsers \X PlannedRooms
        /\ invited' \subseteq CsvUsers \X PlannedRooms
    BY <2>3, CarriedOutTyped DEF ServerInv
  <2>7. serverBusy' = serverBusy
    BY <1>2 DEF Transaction, Answer, Start, LogsIn, LoginFails, SyncOnce, SyncFails, Pick, Granted,
         TurnedDown, AnswerLost, ServerError
  <2>8. QED
    BY <2>4, <2>5, <2>6, <2>7 DEF ServerInv
<1>3. QED
  BY <1>1, <1>2 DEF SetupNext

\* The scripts' state keeps its type, and whoever sends a request has its slot
\* in GOOSE_USERS filled, which the HTTP client dereferences.
THEOREM SetupTyped == SetupSpec => []SetupTypeOK
<1>1. ScriptsInv /\ ReadyInv /\ ServerInv => SetupTypeOK
  BY DEF ScriptsInv, TypeInv, PlaceInv, ReadyInv, ServerInv, SetupTypeOK
<1>2. QED
  BY <1>1, InitScriptsInv, StepScriptsInv, InitReadyInv, StepReadyInv, StepServerInv, PTL
     DEF SetupSpec
=============================================================================
