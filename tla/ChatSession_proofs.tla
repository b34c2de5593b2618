------------------------- MODULE ChatSession_proofs -------------------------
(* Proofs about ChatSession, for every number of users, set of rooms and   *)
(* number of login attempts.                                               *)
EXTENDS ChatSession, TLAPS

\* A user that has yet to log in has an attempt left: with TypeOK, inductive.
AttemptLeft ==
  \A u \in Users : pc[u] \in {"new", "building", "login"} => retries[u] >= 1
TypeInv == TypeOK /\ AttemptLeft

\* Adding elements of T to one entry of a function into the subsets of T.
LEMMA UnionIntoEntry ==
  ASSUME NEW D, NEW T, NEW f \in [D -> SUBSET T], NEW x, NEW S \in SUBSET T
  PROVE  [f EXCEPT ![x] = @ \cup S] \in [D -> SUBSET T]
<1> DEFINE g == [f EXCEPT ![x] = @ \cup S]
<1>1. g = [d \in D |-> IF d = x THEN f[x] \cup S ELSE f[d]]
  OBVIOUS
<1>2. ASSUME NEW d \in D PROVE g[d] \in SUBSET T
  <2>1. f[d] \in SUBSET T
    OBVIOUS
  <2>2. g[d] = IF d = x THEN f[d] \cup S ELSE f[d]
    OBVIOUS
  <2>3. QED
    BY <2>1, <2>2
<1>3. QED
  BY <1>1, <1>2

\* The state of every task, the flags and the pointers have their types.
LEMMA Typing == Spec => []TypeInv
<1>1. Init => TypeInv
  <2> SUFFICES ASSUME Init PROVE TypeInv
    OBVIOUS
  <2>1. pc \in [Users -> LogicStates] /\ retries \in [Users -> 0 .. LoginTries] /\ AttemptLeft
    BY LoginTriesAssumption DEF Init, LogicStates, AttemptLeft
  <2>2. membership \in [Users -> [Rooms -> Membership]]
    BY DEF Init, Membership
  <2>3. sync \in [Users -> SyncStates] /\ late \in [Users -> 0 .. LateCap]
    BY DEF Init, SyncStates, LateCap
  <2>4. GOOSE_USERS \in Seq(Users)
    BY DEF Init
  <2>5. QED
    BY <2>1, <2>2, <2>3, <2>4, EnvsAssumption DEF Init, TypeInv, TypeOK
<1>2. TypeInv /\ [Next]_vars => TypeInv'
  <2> SUFFICES ASSUME TypeInv, [Next]_vars PROVE TypeInv'
    OBVIOUS
  <2> USE DEF TypeInv, AttemptLeft, TypeOK, LogicStates, SyncStates, LateCap
  <2>1. ASSUME NEW u \in Users, OnStartStep(u) PROVE TypeInv'
    <3>1. CASE Start(u)
      BY <3>1 DEF Start, Step, data
    <3>2. CASE BeginLogin(u)
      BY <3>2 DEF BeginLogin, Step, data
    <3>3. CASE LoginOk(u)
      BY <3>3 DEF LoginOk, Step, data
    <3>4. CASE SetSessionData(u)
      BY <3>4 DEF SetSessionData, Step, data
    <3>5. CASE LoginErr(u)
      BY <3>5, LoginTriesAssumption DEF LoginErr, Step, data
    <3>6. QED
      BY <2>1, <3>1, <3>2, <3>3, <3>4, <3>5 DEF OnStartStep
  <2>2. ASSUME NEW u \in Users, PickStep(u) PROVE TypeInv'
    <3>1. CASE Rest(u) \/ PanicWithoutSession(u) \/ ChangeDisplayName(u)
      BY <3>1 DEF Rest, PanicWithoutSession, ChangeDisplayName, PickTask, Step, logicOnly, data
    <3>2. CASE SendText(u)
      BY <3>2 DEF SendText, PickTask, Step, logicOnly, data
    <3>3. ASSUME NEW r \in Rooms, LookAtRoom(u, r) \/ PaginateRoom(u, r) \/ SendReaction(u, r)
          PROVE TypeInv'
      <4>1. CASE LookAtRoom(u, r)
        BY <4>1 DEF LookAtRoom, PickTask, Step, logicOnly, data
      <4>2. CASE PaginateRoom(u, r)
        BY <4>2 DEF PaginateRoom, PickTask, Step, logicOnly, data
      <4>3. CASE SendReaction(u, r)
        BY <4>3 DEF SendReaction, PickTask, Step, logicOnly, data
      <4>4. QED
        BY <3>3, <4>1, <4>2, <4>3
    <3>4. QED
      BY <2>2, <3>1, <3>2, <3>3 DEF PickStep
  <2>3. ASSUME NEW u \in Users,
               RunScheduler(u) \/ ExitScheduler(u) \/ Resume(u) \/ SendReceipt(u)
                 \/ TypingDone(u) \/ SendMessage(u) \/ RequestDone(u)
        PROVE TypeInv'
    BY <2>3 DEF RunScheduler, ExitScheduler, Resume, SendReceipt, TypingDone, SendMessage,
                RequestDone, AfterSleep, Step, logicOnly, data
  <2>4. ASSUME NEW u \in Users, StopStep(u) PROVE TypeInv'
    BY <2>4 DEF StopStep, OnStop, Wait, WakeUp, AfterSleep, Drop, Step, logicOnly, data
  <2>5. ASSUME NEW u \in Users,
               SyncBegin(u) \/ SyncErr(u) \/ SyncRetry(u) \/ SyncResend(u) \/ SyncCheck(u)
        PROVE TypeInv'
    <3>1. sync' \in [Users -> SyncStates] /\ late' \in [Users -> 0 .. LateCap]
      <4>1. CASE SyncBegin(u)
        BY <4>1 DEF SyncBegin
      <4>2. CASE SyncErr(u) \/ SyncRetry(u) \/ SyncResend(u) \/ SyncCheck(u)
        BY <4>2 DEF SyncErr, SyncRetry, SyncResend, SyncCheck
      <4>3. QED
        BY <2>5, <4>1, <4>2
    <3>2. UNCHANGED <<syncUnchanged, room_messages, membership>>
      BY <2>5 DEF SyncBegin, SyncErr, SyncRetry, SyncResend, SyncCheck
    <3>3. QED
      BY <3>1, <3>2 DEF syncUnchanged
  <2>6. ASSUME NEW u \in Users, SyncQuiet(u) PROVE TypeInv'
    BY <2>6 DEF SyncQuiet, NextRooms, syncUnchanged
  <2>7. ASSUME NEW u \in Users, SyncOk(u) PROVE TypeInv'
    <3>1. PICK f \in NextRooms(u) :
            /\ membership' = [membership EXCEPT ![u] = f]
            /\ \E rs \in (SUBSET {r \in Rooms : f[r] = "joined"}) \ {{}} : OnRoomMessage(u, rs)
      BY <2>7 DEF SyncOk
    <3>2. membership' \in [Users -> [Rooms -> Membership]]
      BY <3>1 DEF NextRooms
    <3>3. PICK rs \in SUBSET Rooms : OnRoomMessage(u, rs)
      BY <3>1
    <3>4. room_messages' \in [Users -> SUBSET (Users \X Rooms)]
      <4>1. {u} \X rs \in SUBSET (Users \X Rooms)
        OBVIOUS
      <4>2. [room_messages EXCEPT ![Slot(u)] = @ \cup ({u} \X rs)]
              \in [Users -> SUBSET (Users \X Rooms)]
        BY <4>1, UnionIntoEntry
      <4>3. QED
        BY <3>3, <4>2 DEF OnRoomMessage
    <3>5. sync' \in [Users -> SyncStates]
      BY <3>3 DEF OnRoomMessage
    <3>6. QED
      BY <2>7, <3>2, <3>4, <3>5 DEF SyncOk, syncUnchanged
  <2>8. ASSUME NEW u \in Users, TellExit(u) PROVE TypeInv'
    BY <2>8 DEF TellExit, data
  <2>9. CASE Expire \/ CtrlC
    BY <2>9 DEF Expire, CtrlC, data
  <2>10. CASE Finished \/ UNCHANGED vars
    BY <2>10 DEF Finished, vars, data
  <2>11. QED
    BY <2>1, <2>2, <2>3, <2>4, <2>5, <2>6, <2>7, <2>8, <2>9, <2>10
       DEF Next, LogicStep, TaskStep, SyncStep, SyncReply
<1>3. QED
  BY <1>1, <1>2, PTL DEF Spec

\* The state of every task, the flags and the pointers keep their types.
THEOREM TypeCorrect == Spec => []TypeOK
<1>1. TypeInv => TypeOK
  BY DEF TypeInv
<1>2. QED
  BY <1>1, Typing, PTL

----------------------------------------------------------------------------
(* What the steps of each task leave alone.                                *)

TaskStates == {"idle", "sched", "typing", "compose", "look", "request", "pause"}

\* A task of the scheduler moves only its own user's logic task; it cannot
\* reach on_stop or the drop.
LEMMA TaskFrame ==
  ASSUME NEW u \in Users, TaskStep(u)
  PROVE  /\ UNCHANGED <<GOOSE_USERS, CANCELED, told, open, room_messages,
                        membership, sync, late>>
         /\ env' = env
         /\ pc[u] \in TaskStates
         /\ \E s \in TaskStates \cup {"panicked"} : pc' = [pc EXCEPT ![u] = s]
<1> USE DEF Step, AfterSleep, logicOnly, data, TaskStates
<1>1. CASE PickStep(u)
  <2>1. CASE Rest(u) \/ PanicWithoutSession(u) \/ SendText(u) \/ ChangeDisplayName(u)
    BY <2>1 DEF Rest, PanicWithoutSession, SendText, ChangeDisplayName, PickTask
  <2>2. ASSUME NEW r \in Rooms, LookAtRoom(u, r) \/ PaginateRoom(u, r) \/ SendReaction(u, r)
        PROVE  /\ UNCHANGED <<GOOSE_USERS, CANCELED, told, open, room_messages,
                              membership, sync, late>>
               /\ env' = env
               /\ pc[u] \in TaskStates
               /\ \E s \in TaskStates \cup {"panicked"} : pc' = [pc EXCEPT ![u] = s]
    BY <2>2 DEF LookAtRoom, PaginateRoom, SendReaction, PickTask
  <2>3. QED
    BY <1>1, <2>1, <2>2 DEF PickStep
<1>2. CASE RunScheduler(u) \/ ExitScheduler(u) \/ Resume(u) \/ SendReceipt(u)
  BY <1>2 DEF RunScheduler, ExitScheduler, Resume, SendReceipt
<1>3. CASE TypingDone(u) \/ SendMessage(u) \/ RequestDone(u)
  BY <1>3 DEF TypingDone, SendMessage, RequestDone
<1>4. QED
  BY <1>1, <1>2, <1>3 DEF TaskStep

\* A step of a sync task moves only that task, and only while it runs.
LEMMA SyncFrame ==
  ASSUME NEW u \in Users, SyncStep(u)
  PROVE  /\ UNCHANGED <<pc, GOOSE_USERS, CANCELED, told, open, room_id, target, env>>
         /\ sync[u] \in {"ready", "sending", "backoff", "check"}
         /\ \E s \in SyncStates \ {"none"} : sync' = [sync EXCEPT ![u] = s]
<1> USE DEF syncUnchanged, SyncStates
<1>1. CASE SyncBegin(u) \/ SyncRetry(u) \/ SyncResend(u) \/ SyncCheck(u) \/ SyncErr(u) \/ SyncQuiet(u)
  BY <1>1 DEF SyncBegin, SyncRetry, SyncResend, SyncCheck, SyncErr, SyncQuiet
<1>2. CASE SyncOk(u)
  <2>1. PICK rs : OnRoomMessage(u, rs)
    BY <1>2 DEF SyncOk
  <2>2. \E s \in SyncStates \ {"none"} : sync' = [sync EXCEPT ![u] = s]
    BY <2>1 DEF OnRoomMessage
  <2>3. QED
    BY <1>2, <2>2 DEF SyncOk
<1>3. QED
  BY <1>1, <1>2 DEF SyncStep, SyncReply

\* The steps of goose, the clock and the terminal move no task.
LEMMA OutsideFrame ==
  ASSUME \/ \E u \in Users : TellExit(u)
         \/ Expire \/ CtrlC \/ Finished \/ UNCHANGED vars
  PROVE  UNCHANGED <<pc, GOOSE_USERS, open, data, target, membership, sync, late,
                        env>>
         /\ (CANCELED => CANCELED')
BY DEF TellExit, Expire, CtrlC, Finished, vars, data

\* No step changes the environment of the run.
LEMMA EnvFixed == ASSUME [Next]_vars PROVE env' = env
<1>1. ASSUME NEW u \in Users, OnStartStep(u) PROVE env' = env
  BY <1>1 DEF OnStartStep, Start, BeginLogin, LoginOk, SetSessionData, LoginErr
<1>2. ASSUME NEW u \in Users, StopStep(u) PROVE env' = env
  BY <1>2 DEF StopStep, OnStop, Wait, WakeUp, Drop, logicOnly
<1>3. QED
  BY <1>1, <1>2, TaskFrame, SyncFrame, OutsideFrame DEF Next, LogicStep

----------------------------------------------------------------------------
(* A user has a sync task only from its login on, and on_stop outwaits it. *)

SessionInv ==
  \A u \in Users :
    /\ pc[u] \in {"new", "building", "login", "spawned"} => ~open[u]
    /\ ~open[u] /\ pc[u] # "spawned" => sync[u] = "none"
    /\ pc[u] = "gone" => SyncFinished(u)

LEMMA SessionInvariant == Spec => []SessionInv
<1>1. Init => SessionInv
  BY DEF Init, SessionInv
<1>2. TypeInv /\ SessionInv /\ [Next]_vars => SessionInv'
  <2> SUFFICES ASSUME TypeInv, SessionInv, [Next]_vars PROVE SessionInv'
    OBVIOUS
  <2> USE DEF SessionInv, TypeInv, TypeOK, SyncFinished
  <2>1. ASSUME NEW u \in Users, OnStartStep(u) PROVE SessionInv'
    <3>1. CASE Start(u) \/ BeginLogin(u) \/ LoginErr(u)
      BY <3>1 DEF Start, BeginLogin, LoginErr, Step
    <3>2. CASE LoginOk(u)
      BY <3>2 DEF LoginOk, Step
    <3>3. CASE SetSessionData(u)
      BY <3>3 DEF SetSessionData, Step
    <3>4. QED
      BY <2>1, <3>1, <3>2, <3>3 DEF OnStartStep
  <2>2. ASSUME NEW u \in Users, TaskStep(u) PROVE SessionInv'
    BY <2>2, TaskFrame DEF TaskStates
  <2>3. ASSUME NEW u \in Users, StopStep(u) PROVE SessionInv'
    BY <2>3 DEF StopStep, OnStop, Wait, WakeUp, AfterSleep, Drop, Step, logicOnly
  <2>4. ASSUME NEW u \in Users, SyncStep(u) PROVE SessionInv'
    BY <2>4, SyncFrame DEF SyncStates
  <2>5. ASSUME \/ \E u \in Users : TellExit(u)
               \/ Expire \/ CtrlC \/ Finished \/ UNCHANGED vars
        PROVE  SessionInv'
    BY <2>5, OutsideFrame
  <2>6. QED
    BY <2>1, <2>2, <2>3, <2>4, <2>5 DEF LogicStep, Next
<1>3. QED
  BY <1>1, <1>2, Typing, PTL DEF Spec

\* A user that went through on_stop leaves no sync task behind, in whatever
\* order users start and events, failures and cancellations come.
THEOREM StopDrains == Spec => []StopDrainsSync
<1>1. SessionInv => StopDrainsSync
  BY DEF SessionInv, StopDrainsSync
<1>2. QED
  BY <1>1, SessionInvariant, PTL

----------------------------------------------------------------------------
(* The traffic that follows a cancellation.                                *)

LateInv ==
  \A u \in Users :
    late[u] # 0 => late[u] = 1 /\ CANCELED /\ sync[u] \notin {"none", "ready"}

\* After CANCELED is set every sync task starts at most one more sync_once.
THEOREM LateSyncBound == Spec => []AtMostOneLateSync
<1>1. Init => LateInv
  BY DEF Init, LateInv
<1>2. TypeInv /\ SessionInv /\ LateInv /\ [Next]_vars => LateInv'
  <2> SUFFICES ASSUME TypeInv, SessionInv, LateInv, [Next]_vars PROVE LateInv'
    OBVIOUS
  <2> USE DEF LateInv, TypeInv, TypeOK
  <2>1. ASSUME NEW u \in Users, OnStartStep(u) PROVE LateInv'
    <3>1. CASE LoginOk(u)
      BY <3>1 DEF LoginOk, Step, SessionInv
    <3>2. CASE Start(u) \/ BeginLogin(u) \/ SetSessionData(u) \/ LoginErr(u)
      BY <3>2 DEF Start, BeginLogin, SetSessionData, LoginErr
    <3>3. QED
      BY <2>1, <3>1, <3>2 DEF OnStartStep
  <2>2. ASSUME NEW u \in Users, TaskStep(u) PROVE LateInv'
    BY <2>2, TaskFrame
  <2>3. ASSUME NEW u \in Users, StopStep(u) PROVE LateInv'
    BY <2>3 DEF StopStep, OnStop, Wait, WakeUp, Drop, logicOnly
  <2>4. ASSUME NEW u \in Users, SyncStep(u) PROVE LateInv'
    <3>1. CASE SyncBegin(u)
      BY <3>1 DEF SyncBegin, syncUnchanged, LateCap
    <3>2. CASE SyncCheck(u)
      BY <3>2 DEF SyncCheck, syncUnchanged
    <3>3. CASE SyncRetry(u) \/ SyncResend(u) \/ SyncErr(u) \/ SyncQuiet(u)
      BY <3>3 DEF SyncRetry, SyncResend, SyncErr, SyncQuiet, syncUnchanged
    <3>4. CASE SyncOk(u)
      <4>1. PICK rs : OnRoomMessage(u, rs)
        BY <3>4 DEF SyncOk
      <4>2. QED
        BY <3>4, <4>1 DEF SyncOk, OnRoomMessage, syncUnchanged
    <3>5. QED
      BY <2>4, <3>1, <3>2, <3>3, <3>4 DEF SyncStep, SyncReply
  <2>5. ASSUME \/ \E u \in Users : TellExit(u)
               \/ Expire \/ CtrlC \/ Finished \/ UNCHANGED vars
        PROVE  LateInv'
    BY <2>5, OutsideFrame
  <2>6. QED
    BY <2>1, <2>2, <2>3, <2>4, <2>5 DEF LogicStep, Next
<1>3. LateInv => AtMostOneLateSync
  <2> SUFFICES ASSUME LateInv, NEW u \in Users PROVE late[u] <= 1
    BY DEF AtMostOneLateSync
  <2>1. late[u] = 0 \/ late[u] = 1
    BY DEF LateInv
  <2>2. QED
    BY <2>1
<1>4. QED
  BY <1>1, <1>2, <1>3, Typing, SessionInvariant, PTL DEF Spec

----------------------------------------------------------------------------
(* When users start in order, position u of GOOSE_USERS is user u.         *)

InOrder ==
  /\ \A u \in Users : pc[u] = "new" <=> ~InRange(u)
  /\ \A u \in Users : InRange(u) => Slot(u) = u
OrderInv == "unordered_start" \notin env => InOrder

LEMMA OrderInvariant == Spec => []OrderInv
<1>1. Init => OrderInv
  <2> SUFFICES ASSUME Init PROVE OrderInv
    OBVIOUS
  <2>1. Len(GOOSE_USERS) = 0
    BY DEF Init
  <2>2. ASSUME NEW u \in Users PROVE ~InRange(u)
    BY <2>1, NUsersAssumption DEF InRange, Users
  <2>3. QED
    BY <2>2 DEF Init, OrderInv, InOrder
<1>2. TypeInv /\ OrderInv /\ [Next]_vars => OrderInv'
  <2> SUFFICES ASSUME TypeInv, InOrder, [Next]_vars, "unordered_start" \notin env
               PROVE  InOrder'
    BY EnvFixed DEF OrderInv
  <2> USE DEF InOrder, TypeInv, TypeOK, InRange, Slot
  <2>1. ASSUME NEW u \in Users, Start(u) PROVE InOrder'
    <3>1. \A v \in 0 .. u - 1 : v \in Users /\ v < Len(GOOSE_USERS)
      BY <2>1, NUsersAssumption DEF Start, MayStart, Users
    <3>2. Len(GOOSE_USERS) \in Nat /\ u \in Nat
      BY NUsersAssumption DEF Users
    <3>3. ~(u < Len(GOOSE_USERS))
      BY <2>1 DEF Start, Step
    <3>4. u = Len(GOOSE_USERS)
      <4>1. CASE u = 0
        BY <4>1, <3>2, <3>3
      <4>2. CASE u # 0
        <5>1. u - 1 \in 0 .. u - 1
          BY <4>2, <3>2
        <5>2. QED
          BY <5>1, <3>1, <3>2, <3>3
      <4>3. QED
        BY <4>1, <4>2
    <3>5. /\ Len(GOOSE_USERS') = u + 1
          /\ \A i \in 1 .. u : GOOSE_USERS'[i] = GOOSE_USERS[i]
          /\ GOOSE_USERS'[u + 1] = u
      BY <2>1, <3>4 DEF Start
    <3>6. ASSUME NEW v \in Users PROVE pc'[v] = "new" <=> ~(v < Len(GOOSE_USERS'))
      BY <2>1, <3>2, <3>4, <3>5, NUsersAssumption DEF Start, Step, Users
    <3>7. ASSUME NEW v \in Users, v < Len(GOOSE_USERS') PROVE GOOSE_USERS'[v + 1] = v
      <4>1. v \in Nat
        BY NUsersAssumption DEF Users
      <4>2. CASE v = u
        BY <4>2, <3>5
      <4>3. CASE v # u
        <5>1. v < Len(GOOSE_USERS) /\ v + 1 \in 1 .. u
          BY <4>1, <4>3, <3>2, <3>4, <3>5, <3>7
        <5>2. GOOSE_USERS[v + 1] = v
          BY <5>1
        <5>3. QED
          BY <5>1, <5>2, <3>5
      <4>4. QED
        BY <4>2, <4>3
    <3>8. QED
      BY <3>6, <3>7
  <2>2. ASSUME NEW u \in Users, OnStartStep(u), ~Start(u) PROVE InOrder'
    <3>1. CASE BeginLogin(u)
      BY <3>1 DEF BeginLogin, Step
    <3>2. CASE LoginOk(u) \/ SetSessionData(u) \/ LoginErr(u)
      BY <3>2 DEF LoginOk, SetSessionData, LoginErr, Step
    <3>3. QED
      BY <2>2, <3>1, <3>2 DEF OnStartStep
  <2>3. ASSUME NEW u \in Users, TaskStep(u) PROVE InOrder'
    <3>1. PICK s \in TaskStates \cup {"panicked"} : pc' = [pc EXCEPT ![u] = s]
      BY <2>3, TaskFrame
    <3>2. GOOSE_USERS' = GOOSE_USERS /\ pc[u] \in TaskStates
      BY <2>3, TaskFrame
    <3>3. pc[u] # "new" /\ s # "new"
      BY <3>1, <3>2 DEF TaskStates
    <3>4. QED
      BY <3>1, <3>2, <3>3
  <2>4. ASSUME NEW u \in Users, StopStep(u) PROVE InOrder'
    BY <2>4 DEF StopStep, OnStop, Wait, WakeUp, AfterSleep, Drop, Step, logicOnly
  <2>5. ASSUME NEW u \in Users, SyncStep(u) PROVE InOrder'
    BY <2>5, SyncFrame
  <2>6. ASSUME \/ \E u \in Users : TellExit(u)
               \/ Expire \/ CtrlC \/ Finished \/ UNCHANGED vars
        PROVE  InOrder'
    BY <2>6, OutsideFrame
  <2>7. QED
    BY <2>1, <2>2, <2>3, <2>4, <2>5, <2>6 DEF Next, LogicStep
<1>3. QED
  BY <1>1, <1>2, Typing, PTL DEF Spec

\* Started in order, a user's session holds only what its own client heard.
THEOREM MessagesOwned == Spec => []OwnMessages
<1> DEFINE Owned == \A u \in Users : room_messages[u] \subseteq {u} \X Rooms
<1>1. Init => OwnMessages
  BY DEF Init, OwnMessages
<1>2. TypeInv /\ SessionInv /\ OrderInv /\ OwnMessages /\ [Next]_vars => OwnMessages'
  <2> SUFFICES ASSUME TypeInv, SessionInv, InOrder, Owned, [Next]_vars,
                      "unordered_start" \notin env
               PROVE  Owned'
    BY EnvFixed DEF OrderInv, OwnMessages
  <2>1. ASSUME NEW u \in Users, SyncOk(u) PROVE Owned'
    <3>1. PICK rs \in SUBSET Rooms : OnRoomMessage(u, rs)
      BY <2>1 DEF SyncOk
    <3>2. Slot(u) = u
      BY <2>1 DEF SyncOk, SessionInv, InOrder
    <3>3. \/ room_messages' = [room_messages EXCEPT ![u] = @ \cup ({u} \X rs)]
          \/ room_messages' = room_messages
      BY <3>1, <3>2 DEF OnRoomMessage
    <3>4. QED
      BY <3>3 DEF TypeInv, TypeOK
  <2>2. ASSUME UNCHANGED room_messages PROVE Owned'
    BY <2>2
  <2>3. ASSUME NEW u \in Users, OnStartStep(u) \/ StopStep(u)
        PROVE  UNCHANGED room_messages
    BY <2>3 DEF OnStartStep, Start, BeginLogin, LoginOk, SetSessionData, LoginErr,
                StopStep, OnStop, Wait, WakeUp, Drop, logicOnly, data
  <2>4. ASSUME NEW u \in Users,
               SyncBegin(u) \/ SyncRetry(u) \/ SyncResend(u) \/ SyncErr(u) \/ SyncQuiet(u)
                 \/ SyncCheck(u)
        PROVE  UNCHANGED room_messages
    BY <2>4 DEF SyncBegin, SyncRetry, SyncResend, SyncErr, SyncQuiet, SyncCheck
  <2>5. ASSUME \/ \E u \in Users : TellExit(u)
               \/ Expire \/ CtrlC \/ Finished \/ UNCHANGED vars
        PROVE  UNCHANGED room_messages
    BY <2>5, OutsideFrame DEF data
  <2>6. QED
    BY <2>1, <2>2, <2>3, <2>4, <2>5, TaskFrame DEF Next, LogicStep, SyncStep, SyncReply
<1>3. QED
  BY <1>1, <1>2, Typing, SessionInvariant, OrderInvariant, PTL DEF Spec

----------------------------------------------------------------------------
(* Panics.  Without departures get_joined_room(..).unwrap() never fails:   *)
(* a room that was joined when it was chosen is joined when it is used.    *)

RoomsOK ==
  \A u \in Users :
    /\ room_id[u] # NoRoom => Joined(u, room_id[u])
    /\ pc[u] = "look" => target[u] \in Rooms /\ Joined(u, target[u])
RoomsInv == "leave" \notin env => RoomsOK

\* A joined room stays joined through every response.
LEMMA JoinedIsStable ==
  ASSUME "leave" \notin env, TypeOK, NEW u \in Users, NEW r \in Rooms, Joined(u, r),
         NEW f \in NextRooms(u)
  PROVE  f[r] = "joined"
BY DEF NextRooms, Moves, Joined

LEMMA RoomsInvariant == Spec => []RoomsInv
<1>1. Init => RoomsInv
  BY DEF Init, RoomsInv, RoomsOK
<1>2. TypeInv /\ RoomsInv /\ [Next]_vars => RoomsInv'
  <2> SUFFICES ASSUME TypeInv, RoomsOK, [Next]_vars, "leave" \notin env PROVE RoomsOK'
    BY EnvFixed DEF RoomsInv
  <2> USE DEF RoomsOK, TypeInv, TypeOK, Joined
  <2>1. ASSUME NEW u \in Users, OnStartStep(u) \/ StopStep(u)
        PROVE  RoomsOK'
    <3>1. UNCHANGED <<room_id, target, membership>>
      BY <2>1 DEF OnStartStep, Start, BeginLogin, LoginOk, SetSessionData, LoginErr,
                  StopStep, OnStop, Wait, WakeUp, Drop, data, logicOnly
    <3>2. \A v \in Users : pc'[v] = "look" => pc[v] = "look"
      BY <2>1 DEF OnStartStep, Start, BeginLogin, LoginOk, SetSessionData, LoginErr,
                  StopStep, OnStop, Wait, WakeUp, AfterSleep, Drop, Step
    <3>3. QED
      BY <3>1, <3>2
  <2>2. ASSUME NEW u \in Users, NEW r \in Rooms, LookAtRoom(u, r) PROVE RoomsOK'
    BY <2>2 DEF LookAtRoom, PickTask, Step, logicOnly, data
  <2>3. ASSUME NEW u \in Users, NEW r \in Rooms, PaginateRoom(u, r) PROVE RoomsOK'
    BY <2>3 DEF PaginateRoom, PickTask, Step, logicOnly, data
  <2>4. ASSUME NEW u \in Users, SendReceipt(u) PROVE RoomsOK'
    BY <2>4 DEF SendReceipt, Step, logicOnly, data
  <2>5. ASSUME NEW u \in Users, TaskStep(u), ~SendReceipt(u),
               \A r \in Rooms : ~LookAtRoom(u, r) /\ ~PaginateRoom(u, r)
        PROVE  RoomsOK'
    <3>1. UNCHANGED <<room_id, target, membership>>
      BY <2>5 DEF TaskStep, PickStep, Rest, PanicWithoutSession, SendText, ChangeDisplayName,
                  SendReaction, PickTask, RunScheduler, ExitScheduler, Resume, TypingDone,
                  SendMessage, RequestDone, logicOnly, data
    <3>2. \A v \in Users : pc'[v] = "look" => pc[v] = "look"
      BY <2>5 DEF TaskStep, PickStep, Rest, PanicWithoutSession, SendText, ChangeDisplayName,
                  SendReaction, PickTask, RunScheduler, ExitScheduler, Resume, TypingDone,
                  SendMessage, RequestDone, AfterSleep, Step
    <3>3. QED
      BY <3>1, <3>2
  <2>6. ASSUME NEW u \in Users, SyncStep(u) PROVE RoomsOK'
    <3>1. \/ UNCHANGED membership
          \/ \E f \in NextRooms(u) : membership' = [membership EXCEPT ![u] = f]
      BY <2>6 DEF SyncStep, SyncReply, SyncBegin, SyncRetry, SyncResend, SyncCheck, SyncErr,
                  SyncQuiet, SyncOk
    <3>2. \A v \in Users, r \in Rooms : Joined(v, r) => membership'[v][r] = "joined"
      <4> SUFFICES ASSUME NEW v \in Users, NEW r \in Rooms, Joined(v, r)
                   PROVE  membership'[v][r] = "joined"
        OBVIOUS
      <4>1. ASSUME NEW f \in NextRooms(u), membership' = [membership EXCEPT ![u] = f]
            PROVE  membership'[v][r] = "joined"
        <5>1. v = u => f[r] = "joined"
          BY JoinedIsStable
        <5>2. QED
          BY <4>1, <5>1
      <4>2. QED
        BY <3>1, <4>1
    <3>3. UNCHANGED <<pc, room_id, target>>
      BY <2>6, SyncFrame
    <3>4. QED
      BY <3>2, <3>3
  <2>7. ASSUME \/ \E u \in Users : TellExit(u)
               \/ Expire \/ CtrlC \/ Finished \/ UNCHANGED vars
        PROVE  RoomsOK'
    BY <2>7, OutsideFrame DEF data
  <2>8. QED
    BY <2>1, <2>2, <2>3, <2>4, <2>5, <2>6, <2>7 DEF Next, LogicStep
<1>3. QED
  BY <1>1, <1>2, Typing, PTL DEF Spec

Orderly == env \cap {"unordered_start", "leave", "stall"} = {}
NoUnwind == \A u \in Users : pc[u] = "panicked" => sync[u] = "none"
PanicInv == Orderly => NoUnwind

\* Where nothing is held up a task_sleep ends where its caller goes on.
LEMMA SleepsEnd == ASSUME Orderly, NEW s PROVE AfterSleep(s) = {s}
BY DEF Orderly, AfterSleep

\* Started in order, with no room ever left and no sleep held up, only a user
\* without a session unwinds.
LEMMA PanicInvariant == Spec => []PanicInv
<1> USE DEF NoUnwind, TypeInv, TypeOK
<1>1. Init => PanicInv
  BY DEF Init, PanicInv
<1>2. TypeInv /\ SessionInv /\ OrderInv /\ RoomsInv /\ PanicInv /\ [Next]_vars => PanicInv'
  <2> SUFFICES ASSUME TypeInv, SessionInv, InOrder, RoomsOK, NoUnwind, [Next]_vars, Orderly
               PROVE  NoUnwind'
    BY EnvFixed DEF OrderInv, RoomsInv, PanicInv, Orderly
  <2>1. ASSUME NEW u \in Users, OnStartStep(u) PROVE NoUnwind'
    <3>1. CASE BeginLogin(u)
      BY <3>1 DEF BeginLogin, Step, InOrder
    <3>2. CASE LoginOk(u)
      BY <3>2 DEF LoginOk, Step
    <3>3. CASE Start(u) \/ SetSessionData(u) \/ LoginErr(u)
      BY <3>3 DEF Start, SetSessionData, LoginErr, Step
    <3>4. QED
      BY <2>1, <3>1, <3>2, <3>3 DEF OnStartStep
  <2>2. ASSUME NEW u \in Users, TaskStep(u) PROVE NoUnwind'
    <3>1. CASE PanicWithoutSession(u)
      BY <3>1 DEF PanicWithoutSession, PickTask, Step, logicOnly, SessionInv
    <3>2. CASE SendText(u)
      BY <3>2 DEF SendText, PickTask, Step, logicOnly, RoomsOK
    <3>3. CASE SendReceipt(u)
      BY <3>3 DEF SendReceipt, Step, logicOnly, RoomsOK
    <3>4. CASE ~PanicWithoutSession(u) /\ ~SendText(u) /\ ~SendReceipt(u)
      <4>1. \A v \in Users : pc'[v] = "panicked" => pc[v] = "panicked"
        BY <2>2, <3>4, SleepsEnd DEF TaskStep, PickStep, Rest, ChangeDisplayName, LookAtRoom, PaginateRoom,
                    SendReaction, PickTask, RunScheduler, ExitScheduler, Resume, TypingDone,
                    SendMessage, RequestDone, Step
      <4>2. QED
        BY <2>2, <4>1, TaskFrame
    <3>5. QED
      BY <3>1, <3>2, <3>3, <3>4
  <2>3. ASSUME NEW u \in Users, StopStep(u) PROVE NoUnwind'
    BY <2>3, SleepsEnd DEF StopStep, OnStop, Wait, WakeUp, Drop, Step, logicOnly
  <2>4. ASSUME NEW u \in Users, SyncStep(u) PROVE NoUnwind'
    BY <2>4, SyncFrame
  <2>5. ASSUME \/ \E u \in Users : TellExit(u)
               \/ Expire \/ CtrlC \/ Finished \/ UNCHANGED vars
        PROVE  NoUnwind'
    BY <2>5, OutsideFrame
  <2>6. QED
    BY <2>1, <2>2, <2>3, <2>4, <2>5 DEF LogicStep, Next
<1>3. QED
  BY <1>1, <1>2, Typing, SessionInvariant, OrderInvariant, RoomsInvariant, PTL DEF Spec

\* Started in order, with no room ever left and no task_sleep held up, no task of
\* any user follows a pointer to a user that was dropped.
THEOREM NoDanglingUser == Spec => []NoUseAfterDrop
<1>1. TypeInv /\ SessionInv /\ OrderInv /\ PanicInv => NoUseAfterDrop
  <2> SUFFICES ASSUME TypeInv, SessionInv, InOrder, NoUnwind, NEW u \in Users, UsesSlot(u)
               PROVE  InRange(u) /\ Alive(Slot(u))
    BY DEF NoUseAfterDrop, OrderInv, PanicInv, Orderly
  <2>1. pc[u] \notin {"new", "gone", "panicked"}
    BY DEF UsesSlot, SessionInv, NoUnwind, SyncFinished
  <2>2. QED
    BY <2>1 DEF InOrder, Alive
<1>2. QED
  BY <1>1, Typing, SessionInvariant, OrderInvariant, PanicInvariant, PTL

\* If, besides, no event overtakes set_session_data, then the panics of users
\* that could not log in are the only ones.
THEOREM PanicsExplained == Spec => []PanicsOnlyLoggedOut
<1> DEFINE Quiet == env \cap {"unordered_start", "leave", "early_sync", "stall"} = {}
<1> DEFINE SyncSound == \A u \in Users : sync[u] # "panicked"
<1> DEFINE SyncInv == Quiet => SyncSound
<1>1. Init => SyncInv
  BY DEF Init
<1>2. TypeInv /\ SessionInv /\ OrderInv /\ PanicInv /\ SyncInv /\ [Next]_vars => SyncInv'
  <2> SUFFICES ASSUME TypeInv, SessionInv, InOrder, NoUnwind, SyncSound, [Next]_vars, Quiet
               PROVE  SyncSound'
    BY EnvFixed DEF OrderInv, PanicInv, Orderly
  <2> USE DEF TypeInv, TypeOK
  <2>1. ASSUME NEW u \in Users, SyncOk(u) PROVE SyncSound'
    <3>1. PICK rs : OnRoomMessage(u, rs)
      BY <2>1 DEF SyncOk
    <3>2. Slot(u) = u /\ Alive(u) /\ open[u]
      BY <2>1 DEF SyncOk, SessionInv, InOrder, NoUnwind, Alive, SyncFinished
    <3>3. sync' = [sync EXCEPT ![u] = "check"]
      BY <3>1, <3>2 DEF OnRoomMessage
    <3>4. QED
      BY <3>3
  <2>2. ASSUME NEW u \in Users,
               SyncBegin(u) \/ SyncRetry(u) \/ SyncResend(u) \/ SyncErr(u) \/ SyncQuiet(u)
                 \/ SyncCheck(u)
        PROVE  SyncSound'
    BY <2>2 DEF SyncBegin, SyncRetry, SyncResend, SyncErr, SyncQuiet, SyncCheck
  <2>3. ASSUME NEW u \in Users, OnStartStep(u) \/ StopStep(u) PROVE SyncSound'
    BY <2>3 DEF OnStartStep, Start, BeginLogin, LoginOk, SetSessionData, LoginErr,
                StopStep, OnStop, Wait, WakeUp, Drop, logicOnly
  <2>4. ASSUME NEW u \in Users, TaskStep(u) PROVE SyncSound'
    BY <2>4, TaskFrame
  <2>5. ASSUME \/ \E u \in Users : TellExit(u)
               \/ Expire \/ CtrlC \/ Finished \/ UNCHANGED vars
        PROVE  SyncSound'
    BY <2>5, OutsideFrame
  <2>6. QED
    BY <2>1, <2>2, <2>3, <2>4, <2>5 DEF LogicStep, Next, SyncStep, SyncReply
<1>3. SyncInv /\ PanicInv => PanicsOnlyLoggedOut
  BY DEF PanicInv, Orderly, NoUnwind, PanicsOnlyLoggedOut
<1>4. QED
  BY <1>1, <1>2, <1>3, Typing, SessionInvariant, OrderInvariant, PanicInvariant, PTL DEF Spec
============================================================================
