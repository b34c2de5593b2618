------------------------ MODULE RoomRequests_proofs ------------------------
(* Proofs about RoomRequests, for every set of callers and of rooms.       *)
EXTENDS RoomRequests, TLAPS

USE DEF world

\* The steps of Next that move no caller.
OutsideStep == ServerTurns \/ \E r \in Rooms : Gap(r) \/ ServerEncrypts(r) \/ SyncEncrypted(r)

\* A step begins a call, takes one further, or is the world's.
LEMMA StepCases ==
  ASSUME [Next]_vars
  PROVE  \/ \E c \in Callers, k \in Kinds, r \in Rooms :
              Call(c, k, r) \/ LockStep(c, k, r) \/ RequestStep(c, k, r)
         \/ \E c \in Callers, r \in Rooms : LeadStep(c, r)
         \/ OutsideStep \/ UNCHANGED vars
BY DEF Next, Proceed, OutsideStep

\* The world's steps change nothing of the calls and their mutexes.
LEMMA CallsUntouched ==
  ASSUME OutsideStep \/ UNCHANGED vars
  PROVE  UNCHANGED <<pc, call, result, on, lock, reply, failed, faults>>
BY DEF OutsideStep, ServerTurns, Gap, ServerEncrypts, SyncEncrypted, outside, vars

\* A call leads only by the encryption path through "insert" and "lock".
KindInv ==
  \A c \in Callers : pc[c] \in {"insert", "lock"} => call[c].kind = "encryption"
CallInv ==
  \A c \in Callers :
    pc[c] # "idle" \/ result[c] # "none" => call[c] \in [kind : Kinds, room : Rooms]
TypeInv == TypeOK /\ KindInv /\ CallInv

\* Releasing a mutex keeps the types.
LEMMA ReleaseTyping ==
  ASSUME TypeInv, NEW c \in Callers, NEW res \in Results, Release(c, res), call' = call,
         pc[c] # "idle"
  PROVE  /\ pc' \in [Callers -> States] /\ result' \in [Callers -> Results]
         /\ on' \in [Callers -> Callers \cup {NoCaller}] /\ reply' \in [Callers -> BOOLEAN]
         /\ KindInv' /\ CallInv'
<1> USE DEF TypeInv, TypeOK, Release
<1>1. \A x \in Callers : pc'[x] \in {pc[x], "idle"} \/ (pc[x] = "wait" /\ pc'[x] = "woken")
  BY DEF Waiters
<1>2. pc' \in [Callers -> States] /\ KindInv'
  BY <1>1 DEF KindInv, States
<1>3. CallInv'
  BY <1>1 DEF CallInv
<1>4. QED
  BY <1>2, <1>3

LEMMA Typing == Spec => []TypeInv
<1>1. Init => TypeInv
  <2> SUFFICES ASSUME Init PROVE TypeInv
    OBVIOUS
  <2>1. serverBusy \in BOOLEAN
    BY Zenon DEF Init
  <2>2. faults \in SUBSET FaultKinds
    BY FaultAssumption DEF Init
  <2>3. KindInv /\ CallInv
    BY DEF Init, KindInv, CallInv
  <2>4. QED
    BY <2>1, <2>2, <2>3 DEF Init, TypeInv, TypeOK, States, Results, Kinds, NoCall
<1>2. TypeInv /\ [Next]_vars => TypeInv'
  <2> SUFFICES ASSUME TypeInv, [Next]_vars PROVE TypeInv'
    OBVIOUS
  <2> USE DEF TypeInv, TypeOK, KindInv, CallInv, States, Results, At, Go
  <2>1. ASSUME NEW c \in Callers, NEW k \in Kinds, NEW r \in Rooms, Call(c, k, r)
        PROVE  TypeInv'
    <3>1. /\ pc' \in [Callers -> States] /\ result' \in [Callers -> Results]
          /\ call' \in [Callers -> [kind : Kinds, room : Rooms] \cup {NoCall}]
      BY <2>1 DEF Call, Return, YesNo
    <3>2. \A x \in Callers : pc'[x] \in {"insert", "lock"} => x # c /\ pc[x] = pc'[x]
      BY <2>1 DEF Call, Return
    <3>3. KindInv' /\ CallInv'
      BY <2>1, <3>2 DEF Call, Return
    <3>4. QED
      BY <2>1, <3>1, <3>3 DEF Call, store
  <2>2. ASSUME NEW c \in Callers, NEW r \in Rooms, LeadStep(c, r) PROVE TypeInv'
    <3>1. CASE LeadMembers(c, r)
      BY <3>1 DEF LeadMembers, lookUnchanged, store, Kinds
    <3>2. CASE LookEncryption(c, r)
      BY <3>2 DEF LookEncryption, lookUnchanged, store
    <3>3. CASE InsertEncryption(c, r)
      BY <3>3 DEF InsertEncryption, lookUnchanged, store, Kinds
    <3>4. CASE LockEncryption(c, r)
      BY <3>4 DEF LockEncryption, lookUnchanged, store
    <3>5. QED
      BY <2>2, <3>1, <3>2, <3>3, <3>4 DEF LeadStep
  <2>3. ASSUME NEW c \in Callers, NEW k \in Kinds, NEW r \in Rooms,
               LockStep(c, k, r) \/ RequestStep(c, k, r)
        PROVE  TypeInv'
    <3>1. CASE Join(c, k, r)
      <4>1. pc' \in [Callers -> States] /\ on' \in [Callers -> Callers \cup {NoCaller}]
        <5>1. lock[k][r] \in Callers \cup {NoCaller}
          OBVIOUS
        <5>2. on' = [on EXCEPT ![c] = lock[k][r]] \/ on' = on
          BY <3>1 DEF Join
        <5>3. on' \in [Callers -> Callers \cup {NoCaller}]
          BY <5>1, <5>2
        <5>4. QED
          BY <3>1, <5>3 DEF Join
      <4>2. \E s \in {"wait", "woken"} : pc' = [pc EXCEPT ![c] = s]
        BY <3>1 DEF Join
      <4>3. UNCHANGED <<call, result>> /\ pc[c] = "look"
        BY <3>1 DEF Join, lookUnchanged
      <4>4. KindInv' /\ CallInv'
        BY <4>2, <4>3
      <4>5. QED
        BY <3>1, <4>1, <4>4 DEF Join, lookUnchanged, store
    <3>2. CASE Wake(c, k, r)
      BY <3>2 DEF Wake, Return, Deduplicated, lookUnchanged, store
    <3>3. CASE Remove(c, k, r)
      <4>1. PICK res \in Results : Release(c, res) /\ pc[c] # "idle"
        BY <3>3 DEF Remove, YesNo
      <4>2. lock' \in [Kinds -> [Rooms -> Callers \cup {NoCaller}]]
        BY <3>3 DEF Remove
      <4>3. UNCHANGED <<call, store, server, failed, faults, serverBusy>>
        BY <3>3 DEF Remove
      <4>4. QED
        BY <4>1, <4>2, <4>3, ReleaseTyping DEF store
    <3>4. CASE Fail(c, k, r)
      <4>1. Release(c, "error") /\ "error" \in Results /\ pc[c] # "idle"
        BY <3>4 DEF Fail
      <4>2. failed' \in [Kinds -> [Rooms -> BOOLEAN]]
        BY <3>4 DEF Fail
      <4>3. UNCHANGED <<call, lock, store, server, faults, serverBusy>>
        BY <3>4 DEF Fail
      <4>4. QED
        BY <4>1, <4>2, <4>3, ReleaseTyping DEF store
    <3>5. CASE Respond(c, k, r)
      BY <3>5 DEF Respond, store
    <3>6. CASE Store(c, k, r)
      BY <3>6 DEF Store
    <3>7. QED
      BY <2>3, <3>1, <3>2, <3>3, <3>4, <3>5, <3>6 DEF LockStep, RequestStep
  <2>4. CASE OutsideStep
    <3>1. UNCHANGED outside
      BY <2>4 DEF OutsideStep, ServerTurns, Gap, ServerEncrypts, SyncEncrypted
    <3>2. ASSUME NEW r \in Rooms, Gap(r) PROVE TypeInv'
      BY <3>1, <3>2 DEF Gap, outside
    <3>3. ASSUME NEW r \in Rooms, ServerEncrypts(r) PROVE TypeInv'
      BY <3>1, <3>3 DEF ServerEncrypts, outside, store
    <3>4. ASSUME NEW r \in Rooms, SyncEncrypted(r) PROVE TypeInv'
      BY <3>1, <3>4 DEF SyncEncrypted, outside
    <3>5. CASE ServerTurns
      BY <3>1, <3>5 DEF ServerTurns, outside, store
    <3>6. QED
      BY <2>4, <3>2, <3>3, <3>4, <3>5 DEF OutsideStep
  <2>5. CASE UNCHANGED vars
    BY <2>5 DEF vars, store
  <2>6. QED
    BY StepCases, <2>1, <2>2, <2>3, <2>4, <2>5
<1>3. QED
  BY <1>1, <1>2, PTL DEF Spec

\* The callers, the maps and the store keep their types.
THEOREM TypeCorrect == Spec => []TypeOK
<1>1. TypeInv => TypeOK
  BY DEF TypeInv
<1>2. QED
  BY <1>1, Typing, PTL

----------------------------------------------------------------------------
(* The map holds the mutex of the call that leads.                         *)

LeaderInv ==
  \A c \in Callers, r \in Rooms : Leads(c, "members", r) => lock["members"][r] = c

LEMMA Leading == Spec => []LeaderInv
<1>1. Init => LeaderInv
  BY DEF Init, LeaderInv, Leads, At
<1>2. TypeInv /\ LeaderInv /\ [Next]_vars => LeaderInv'
  <2> SUFFICES ASSUME TypeInv, LeaderInv, [Next]_vars PROVE LeaderInv'
    OBVIOUS
  <2> USE DEF TypeInv, TypeOK, LeaderInv, Leads, At, Go
  <2>1. ASSUME NEW c \in Callers, NEW k \in Kinds, NEW r \in Rooms, Call(c, k, r)
        PROVE  LeaderInv'
    BY <2>1 DEF Call, Return
  <2>2. ASSUME NEW c \in Callers, NEW r \in Rooms, LeadStep(c, r) PROVE LeaderInv'
    <3>1. CASE LeadMembers(c, r)
      BY <3>1, CallerAssumption DEF LeadMembers, lookUnchanged, Kinds
    <3>2. CASE LookEncryption(c, r)
      BY <3>2 DEF LookEncryption, lookUnchanged
    <3>3. CASE InsertEncryption(c, r)
      BY <3>3 DEF InsertEncryption, lookUnchanged, Kinds
    <3>4. CASE LockEncryption(c, r)
      BY <3>4 DEF LockEncryption, lookUnchanged
    <3>5. QED
      BY <2>2, <3>1, <3>2, <3>3, <3>4 DEF LeadStep
  <2>3. ASSUME NEW c \in Callers, NEW k \in Kinds, NEW r \in Rooms,
               LockStep(c, k, r) \/ RequestStep(c, k, r)
        PROVE  LeaderInv'
    <3>1. CASE Join(c, k, r) \/ Wake(c, k, r)
      BY <3>1 DEF Join, Wake, Return, lookUnchanged
    <3>2. CASE Remove(c, k, r)
      <4>1. \A x \in Callers, q \in Rooms :
              Leads(x, "members", q)' => x # c /\ Leads(x, "members", q)
        BY <3>2 DEF Remove, Release
      <4>2. \A x \in Callers \ {c}, q \in Rooms :
              Leads(x, "members", q) => lock'["members"][q] = x
        BY <3>2 DEF Remove, Kinds
      <4>3. QED
        BY <4>1, <4>2
    <3>3. CASE Fail(c, k, r)
      BY <3>3 DEF Fail, Release
    <3>4. CASE Respond(c, k, r) \/ Store(c, k, r)
      BY <3>4 DEF Respond, Store
    <3>5. QED
      BY <2>3, <3>1, <3>2, <3>3, <3>4 DEF LockStep, RequestStep
  <2>4. CASE OutsideStep \/ UNCHANGED vars
    BY <2>4, CallsUntouched
  <2>5. QED
    BY <2>1, <2>2, <2>3, <2>4, StepCases
<1>3. QED
  BY <1>1, <1>2, Typing, PTL DEF Spec

\* sync_members de-duplicates: no two member requests are in flight for one
\* room, whatever fails and however the list goes stale.
THEOREM SingleFlight == Spec => []MembersSingleFlight
<1>1. LeaderInv => MembersSingleFlight
  BY DEF LeaderInv, MembersSingleFlight
<1>2. QED
  BY <1>1, Leading, PTL

\* Only failures leave a mutex in a map that no call in progress inserted.
THEOREM NoOrphanedEntries == Spec => []EntriesHaveOwners
<1>1. Init => EntriesHaveOwners
  BY DEF Init, EntriesHaveOwners
<1>2. TypeInv /\ EntriesHaveOwners /\ [Next]_vars => EntriesHaveOwners'
  <2> SUFFICES ASSUME TypeInv, EntriesHaveOwners, [Next]_vars PROVE EntriesHaveOwners'
    OBVIOUS
  <2> USE DEF TypeInv, TypeOK, EntriesHaveOwners, Leads, At, Go
  <2>1. ASSUME NEW c \in Callers, NEW k \in Kinds, NEW r \in Rooms, Call(c, k, r)
        PROVE  EntriesHaveOwners'
    BY <2>1 DEF Call, Return
  <2>2. ASSUME NEW c \in Callers, NEW r \in Rooms, LeadStep(c, r) PROVE EntriesHaveOwners'
    <3>1. CASE LeadMembers(c, r)
      BY <3>1 DEF LeadMembers, lookUnchanged, Kinds
    <3>2. CASE LookEncryption(c, r)
      BY <3>2 DEF LookEncryption, lookUnchanged
    <3>3. CASE InsertEncryption(c, r)
      BY <3>3 DEF InsertEncryption, lookUnchanged, Kinds
    <3>4. CASE LockEncryption(c, r)
      BY <3>4 DEF LockEncryption, lookUnchanged
    <3>5. QED
      BY <2>2, <3>1, <3>2, <3>3, <3>4 DEF LeadStep
  <2>3. ASSUME NEW c \in Callers, NEW k \in Kinds, NEW r \in Rooms,
               LockStep(c, k, r) \/ RequestStep(c, k, r)
        PROVE  EntriesHaveOwners'
    <3>1. CASE Join(c, k, r) \/ Wake(c, k, r)
      BY <3>1 DEF Join, Wake, Return, lookUnchanged
    <3>2. CASE Remove(c, k, r)
      BY <3>2, CallerAssumption DEF Remove, Release, Waiters
    <3>3. CASE Fail(c, k, r)
      BY <3>3, CallerAssumption DEF Fail, Release, Waiters
    <3>4. CASE Respond(c, k, r) \/ Store(c, k, r)
      BY <3>4 DEF Respond, Store
    <3>5. QED
      BY <2>3, <3>1, <3>2, <3>3, <3>4 DEF LockStep, RequestStep
  <2>4. CASE OutsideStep \/ UNCHANGED vars
    BY <2>4, CallsUntouched
  <2>5. QED
    BY <2>1, <2>2, <2>3, <2>4, StepCases
<1>3. QED
  BY <1>1, <1>2, Typing, PTL DEF Spec

----------------------------------------------------------------------------
(* Ok from sync_members.                                                   *)

\* A call waits only for a mutex that a call for the same room holds.
WaitInv ==
  \A c \in Callers :
    pc[c] = "wait" => on[c] \in Callers /\ Leads(on[c], call[c].kind, call[c].room)

LEMMA Waiting == Spec => []WaitInv
<1>1. Init => WaitInv
  BY DEF Init, WaitInv
<1>2. TypeInv /\ WaitInv /\ [Next]_vars => WaitInv'
  <2> SUFFICES ASSUME TypeInv, WaitInv, [Next]_vars PROVE WaitInv'
    OBVIOUS
  <2> USE DEF TypeInv, TypeOK, CallInv, WaitInv, Leads, At, Go
  <2>1. ASSUME NEW c \in Callers, NEW k \in Kinds, NEW r \in Rooms, Call(c, k, r)
        PROVE  WaitInv'
    BY <2>1 DEF Call, Return
  <2>2. ASSUME NEW c \in Callers, NEW r \in Rooms, LeadStep(c, r) PROVE WaitInv'
    <3>1. UNCHANGED <<call, on>> /\ pc[c] \in {"look", "insert", "lock"}
      BY <2>2 DEF LeadStep, LeadMembers, LookEncryption, InsertEncryption, LockEncryption,
                  lookUnchanged
    <3>2. \E s \in {"sent", "insert", "lock"} : pc' = [pc EXCEPT ![c] = s]
      BY <2>2 DEF LeadStep, LeadMembers, LookEncryption, InsertEncryption, LockEncryption
    <3>3. QED
      BY <3>1, <3>2
  <2>3. ASSUME NEW c \in Callers, NEW k \in Kinds, NEW r \in Rooms,
               LockStep(c, k, r) \/ RequestStep(c, k, r)
        PROVE  WaitInv'
    <3>1. CASE Join(c, k, r)
      <4>1. lock[k][r] \in Callers \cup {NoCaller}
        OBVIOUS
      <4>2. QED
        BY <3>1, <4>1 DEF Join, Held, lookUnchanged
    <3>2. CASE Wake(c, k, r)
      BY <3>2 DEF Wake, Return, lookUnchanged
    <3>3. CASE Remove(c, k, r)
      BY <3>3 DEF Remove, Release, Waiters
    <3>4. CASE Fail(c, k, r)
      BY <3>4 DEF Fail, Release, Waiters
    <3>5. CASE Respond(c, k, r) \/ Store(c, k, r)
      BY <3>5 DEF Respond, Store
    <3>6. QED
      BY <2>3, <3>1, <3>2, <3>3, <3>4, <3>5 DEF LockStep, RequestStep
  <2>4. CASE OutsideStep \/ UNCHANGED vars
    BY <2>4, CallsUntouched
  <2>5. QED
    BY <2>1, <2>2, <2>3, <2>4, StepCases
<1>3. QED
  BY <1>1, <1>2, Typing, PTL DEF Spec

\* A call for members that is past the request, whoever made it, or has
\* returned without an error.
Past(c) ==
  \/ pc[c] \in {"remove", "woken"} /\ call[c].kind = "members"
  \/ result[c] \in {"nothing", "response"}
SyncedOrFailed(r) == synced["members"][r] \/ failed["members"][r]
PastSynced == \A c \in Callers : Past(c) => SyncedOrFailed(call[c].room)

\* No step changes the environment of the run.
LEMMA FaultsFixed == ASSUME [Next]_vars PROVE faults' = faults
<1>1. ASSUME NEW c \in Callers, NEW k \in Kinds, NEW r \in Rooms,
             Call(c, k, r) \/ LockStep(c, k, r) \/ RequestStep(c, k, r)
      PROVE  faults' = faults
  BY <1>1 DEF Call, LockStep, RequestStep, Join, Wake, Remove, Fail, Respond, Store,
              lookUnchanged
<1>2. ASSUME NEW c \in Callers, NEW r \in Rooms, LeadStep(c, r) PROVE faults' = faults
  BY <1>2 DEF LeadStep, LeadMembers, LookEncryption, InsertEncryption, LockEncryption,
              lookUnchanged
<1>3. QED
  BY <1>1, <1>2, StepCases, CallsUntouched

\* sync_members returns Ok only with the member list synced, also to the calls
\* that awaited another's request, if none has failed and no gap comes between.
THEOREM OkIsSynced == Spec => []MembersSynced
<1> DEFINE Inv == "gap" \notin faults => PastSynced
<1>1. Init => Inv
  BY DEF Init, PastSynced, Past
<1>2. TypeInv /\ WaitInv /\ EntriesHaveOwners /\ Inv /\ [Next]_vars => Inv'
  <2> SUFFICES ASSUME TypeInv, WaitInv, EntriesHaveOwners, PastSynced, [Next]_vars,
                      "gap" \notin faults
               PROVE  PastSynced'
    BY FaultsFixed
  <2> USE DEF TypeInv, TypeOK, CallInv, PastSynced, Past, SyncedOrFailed, At, Go
  <2>1. ASSUME NEW c \in Callers, NEW k \in Kinds, NEW r \in Rooms, Call(c, k, r)
        PROVE  PastSynced'
    <3>1. CASE ~synced[k][r]
      BY <2>1, <3>1 DEF Call, Return, store
    <3>2. CASE synced[k][r]
      <4>1. /\ pc' = [pc EXCEPT ![c] = "idle"] /\ UNCHANGED <<synced, failed>>
            /\ call' = [call EXCEPT ![c] = [kind |-> k, room |-> r]]
            /\ k = "members" \/ result'[c] \in {"yes", "no"}
            /\ \A x \in Callers \ {c} : result'[x] = result[x]
        BY <2>1, <3>2 DEF Call, Return, YesNo, store
      <4>2. QED
        BY <3>2, <4>1
    <3>3. QED
      BY <3>1, <3>2
  <2>2. ASSUME NEW c \in Callers, NEW r \in Rooms, LeadStep(c, r) PROVE PastSynced'
    <3>1. UNCHANGED <<call, result, synced, failed>>
      BY <2>2 DEF LeadStep, LeadMembers, LookEncryption, InsertEncryption, LockEncryption,
                  lookUnchanged, store
    <3>2. \E s \in {"sent", "insert", "lock"} : pc' = [pc EXCEPT ![c] = s]
      BY <2>2 DEF LeadStep, LeadMembers, LookEncryption, InsertEncryption, LockEncryption
    <3>3. QED
      BY <3>1, <3>2
  <2>3. ASSUME NEW c \in Callers, NEW k \in Kinds, NEW r \in Rooms, Join(c, k, r)
        PROVE  PastSynced'
    <3>1. UNCHANGED <<call, result, synced, failed>>
      BY <2>3 DEF Join, lookUnchanged, store
    <3>2. CASE Held(k, r)
      BY <2>3, <3>1, <3>2 DEF Join
    <3>3. CASE ~Held(k, r)
      <4>1. k = "members" => failed["members"][r]
        <5>1. lock[k][r] \in Callers
          BY <2>3 DEF Join
        <5>2. k = "members" => ~Leads(lock[k][r], k, r) /\ ~At(lock[k][r], k, r, "lock")
          BY <2>3, <3>3, <5>1 DEF Join, Held, KindInv
        <5>3. lock[k][r] # NoCaller
          BY <2>3 DEF Join
        <5>4. ~failed[k][r] =>
                Leads(lock[k][r], k, r) \/ At(lock[k][r], k, r, "lock")
          BY <5>3 DEF EntriesHaveOwners
        <5>5. QED
          BY <5>2, <5>4
      <4>2. pc' = [pc EXCEPT ![c] = "woken"] /\ call[c] = [kind |-> k, room |-> r]
        BY <2>3, <3>3 DEF Join
      <4>3. call[c].kind = k /\ call[c].room = r
        BY <4>2
      <4>4. Past(c)' => SyncedOrFailed(call[c].room)
        <5>1. CASE result[c] \in {"nothing", "response"}
          BY <5>1
        <5>2. CASE result[c] \notin {"nothing", "response"} /\ k = "members"
          BY <4>1, <4>3, <5>2
        <5>3. CASE result[c] \notin {"nothing", "response"} /\ k # "members"
          BY <3>1, <4>3, <5>3
        <5>4. QED
          BY <5>1, <5>2, <5>3
      <4>5. ASSUME NEW x \in Callers, x # c PROVE Past(x)' => Past(x)
        BY <3>1, <4>2, <4>5
      <4>6. QED
        BY <3>1, <4>4, <4>5
    <3>4. QED
      BY <3>2, <3>3
  <2>4. ASSUME NEW c \in Callers, NEW k \in Kinds, NEW r \in Rooms, Wake(c, k, r)
        PROVE  PastSynced'
    <3>1. /\ UNCHANGED <<call, synced, failed>> /\ pc' = [pc EXCEPT ![c] = "idle"]
          /\ \A x \in Callers \ {c} : result'[x] = result[x]
          /\ pc[c] = "woken" /\ call[c].kind = k
          /\ result'[c] = "nothing" => k = "members"
          /\ result'[c] # "response"
      BY <2>4 DEF Wake, Return, Deduplicated, lookUnchanged, store
    <3>2. QED
      BY <3>1
  <2>5. ASSUME NEW c \in Callers, NEW k \in Kinds, NEW r \in Rooms,
               Remove(c, k, r) \/ Fail(c, k, r)
        PROVE  PastSynced'
    <3>1. /\ UNCHANGED <<call, synced>> /\ call[c] = [kind |-> k, room |-> r]
          /\ \A x \in Callers \ {c} : result'[x] = result[x]
          /\ \A q \in Rooms : failed["members"][q] => failed'["members"][q]
          /\ pc'[c] = "idle"
          /\ result'[c] \in {"nothing", "response"} => k = "members" /\ pc[c] = "remove"
      BY <2>5 DEF Remove, Fail, Release, YesNo, store, Kinds
    <3>2. k = "members" => synced["members"][r] \/ failed'["members"][r]
      BY <2>5 DEF Remove, Fail, store
    <3>3. ASSUME NEW x \in Callers \ {c}, pc'[x] \in {"remove", "woken"},
                 call[x].kind = "members"
          PROVE  SyncedOrFailed(call[x].room)'
      <4>1. CASE x \in Waiters(c)
        <5>1. call[x].kind = k /\ call[x].room = r
          <6>1. pc[x] = "wait" /\ on[x] = c
            BY <4>1 DEF Waiters
          <6>2. call[c] = [kind |-> call[x].kind, room |-> call[x].room]
            BY <6>1 DEF WaitInv, Leads
          <6>3. call[c].kind = k /\ call[c].room = r
            BY <3>1
          <6>4. QED
            BY <6>2, <6>3
        <5>2. QED
          BY <3>1, <3>2, <3>3, <5>1
      <4>2. CASE x \notin Waiters(c)
        <5>1. pc'[x] = pc[x]
          BY <2>5, <4>2 DEF Remove, Fail, Release
        <5>2. QED
          BY <3>1, <3>3, <5>1
      <4>3. QED
        BY <4>1, <4>2
    <3>4. ASSUME NEW x \in Callers \ {c}, result'[x] \in {"nothing", "response"}
          PROVE  SyncedOrFailed(call[x].room)'
      <4>1. SyncedOrFailed(call[x].room) /\ call'[x] = call[x]
        BY <3>1, <3>4
      <4>2. call[x].room \in Rooms
        BY <3>1, <3>4
      <4>3. QED
        BY <3>1, <4>1, <4>2
    <3>5. Past(c)' => SyncedOrFailed(call[c].room)'
      BY <3>1, <3>2
    <3>6. QED
      BY <3>1, <3>3, <3>4, <3>5
  <2>6. ASSUME NEW c \in Callers, NEW k \in Kinds, NEW r \in Rooms,
               Respond(c, k, r) \/ Store(c, k, r)
        PROVE  PastSynced'
    <3>1. CASE Respond(c, k, r)
      BY <3>1 DEF Respond, store
    <3>2. CASE Store(c, k, r)
      <4>1. /\ UNCHANGED <<call, result, failed>> /\ pc' = [pc EXCEPT ![c] = "remove"]
            /\ call[c].kind = k /\ call[c].room = r /\ synced'[k][r]
            /\ \A q \in Rooms : synced["members"][q] => synced'["members"][q]
        BY <3>2 DEF Store, Kinds
      <4>2. QED
        BY <4>1
    <3>3. QED
      BY <2>6, <3>1, <3>2
  <2>7. CASE OutsideStep
    BY <2>7 DEF OutsideStep, ServerTurns, Gap, ServerEncrypts, SyncEncrypted, outside, store
  <2>8. CASE UNCHANGED vars
    BY <2>8 DEF vars, store
  <2>9. QED
    BY <2>1, <2>2, <2>3, <2>4, <2>5, <2>6, <2>7, <2>8, StepCases DEF LockStep, RequestStep
<1>3. Inv => MembersSynced
  BY DEF PastSynced, Past, SyncedOrFailed, MembersSynced
<1>4. QED
  BY <1>1, <1>2, <1>3, Typing, Waiting, NoOrphanedEntries, PTL DEF Spec

----------------------------------------------------------------------------
(* The member half implements SharedFetch.                                 *)

\* What Step says, without its cases.
LEMMA StepIs ==
  ASSUME NEW c \in Callers
  PROVE  /\ pc[c] = "idle" /\ result[c] = "error" => Step(c) = "error"
         /\ pc[c] = "idle" /\ result[c] # "error" => Step(c) = "ok"
         /\ pc[c] = "look" => Step(c) = "asking"
         /\ pc[c] \in {"sent", "store"} => Step(c) = "fetching"
         /\ pc[c] = "remove" => Step(c) = "fetched"
         /\ pc[c] = "wait" /\ pc[on[c]] = "remove" => Step(c) = "told"
         /\ pc[c] = "wait" /\ pc[on[c]] # "remove" => Step(c) = "joined"
         /\ pc[c] = "woken" => Step(c) = "told"
BY DEF Step

LEMMA NextStepIs ==
  ASSUME NEW c \in Callers
  PROVE  /\ pc'[c] = "idle" /\ result'[c] = "error" => Step(c)' = "error"
         /\ pc'[c] = "idle" /\ result'[c] # "error" => Step(c)' = "ok"
         /\ pc'[c] = "look" => Step(c)' = "asking"
         /\ pc'[c] \in {"sent", "store"} => Step(c)' = "fetching"
         /\ pc'[c] = "remove" => Step(c)' = "fetched"
         /\ pc'[c] = "wait" /\ pc'[on'[c]] = "remove" => Step(c)' = "told"
         /\ pc'[c] = "wait" /\ pc'[on'[c]] # "remove" => Step(c)' = "joined"
         /\ pc'[c] = "woken" => Step(c)' = "told"
BY DEF Step

LEMMA DoingIs ==
  ASSUME NEW c \in Callers
  PROVE  /\ call[c].kind = "members" => Doing[c] = <<Step(c), call[c].room>>
         /\ call[c].kind # "members" => Doing[c] = <<>>
         /\ call'[c].kind = "members" => Doing'[c] = <<Step(c)', call'[c].room>>
         /\ call'[c].kind # "members" => Doing'[c] = <<>>
BY DEF Doing

\* A caller that did not move does what it did, unless it waits for one that did.
LEMMA Unmoved ==
  ASSUME NEW d \in Callers,
         call'[d] = call[d], result'[d] = result[d], pc'[d] = pc[d], on'[d] = on[d],
         pc[d] = "wait" => (pc'[on[d]] = "remove" <=> pc[on[d]] = "remove")
  PROVE  Doing'[d] = Doing[d]
<1>1. Step(d)' = Step(d)
  BY DEF Step
<1>2. QED
  BY <1>1, DoingIs

\* One caller turns to v, and the others go on.
LEMMA OneTurns ==
  ASSUME NEW c \in Callers, NEW v, Doing'[c] = v,
         \A d \in Callers \ {c} : Doing'[d] = Doing[d]
  PROVE  Doing' = [Doing EXCEPT ![c] = v]
BY DEF Doing

LEMMA NobodyTurns ==
  ASSUME \A d \in Callers : Doing'[d] = Doing[d]
  PROVE  Doing' = Doing
BY DEF Doing

\* A member request ends for c: who joined it is told.
LEMMA Ending ==
  ASSUME NEW c \in Callers, NEW r \in Rooms, NEW s, Doing'[c] = <<s, r>>,
         \A d \in Callers \ {c} :
           Doing'[d] = IF Doing[d] = <<"joined", r>> THEN <<"told", r>> ELSE Doing[d]
  PROVE  Sharing!End(c, s, r)
BY DEF Doing, Sharing!End, Sharing!Does

SharingInv == TypeInv /\ WaitInv /\ LeaderInv /\ EntriesHaveOwners

\* Who waits for the caller c is in a call of the same method and room.
LEMMA WaitsForSame ==
  ASSUME SharingInv, NEW c \in Callers, NEW d \in Callers, pc[d] = "wait"
  PROVE  /\ on[d] \in Callers /\ pc[on[d]] \in {"sent", "store", "remove"}
         /\ call[on[d]] = [kind |-> call[d].kind, room |-> call[d].room]
         /\ call[d].kind \in Kinds /\ call[d].room \in Rooms
BY DEF SharingInv, WaitInv, Leads, At, TypeInv, CallInv, Kinds

\* A step of a caller nobody waits for leaves the others at what they do.
LEMMA OthersStay ==
  ASSUME SharingInv, NEW c \in Callers, pc[c] \notin {"sent", "store", "remove"},
         \A d \in Callers \ {c} :
           call'[d] = call[d] /\ result'[d] = result[d] /\ pc'[d] = pc[d] /\ on'[d] = on[d]
  PROVE  \A d \in Callers \ {c} : Doing'[d] = Doing[d]
<1>1. ASSUME NEW d \in Callers \ {c} PROVE Doing'[d] = Doing[d]
  <2>1. pc[d] = "wait" => on[d] \in Callers \ {c}
    BY WaitsForSame
  <2>2. QED
    BY <2>1, Unmoved
<1>2. QED
  BY <1>1

\* Who joined the request of c for r waits for c, and for nobody else.
LEMMA JoinedOnes ==
  ASSUME SharingInv, NEW c \in Callers, NEW r \in Rooms, At(c, "members", r, "sent")
                                                      \/ At(c, "members", r, "store"),
         NEW d \in Callers
  PROVE  Doing[d] = <<"joined", r>> <=> pc[d] = "wait" /\ on[d] = c
<1>1. ASSUME Doing[d] = <<"joined", r>> PROVE pc[d] = "wait" /\ on[d] = c
  <2>1. call[d].kind = "members" /\ Step(d) = "joined" /\ call[d].room = r
    BY <1>1, DoingIs
  <2>2. pc[d] = "wait"
    BY <2>1 DEF Step
  <2>3. Leads(on[d], "members", r) /\ on[d] \in Callers
    BY <2>1, <2>2 DEF SharingInv, WaitInv
  <2>4. Leads(c, "members", r)
    BY DEF Leads
  <2>5. QED
    BY <2>2, <2>3, <2>4 DEF SharingInv, LeaderInv
<1>2. ASSUME pc[d] = "wait", on[d] = c PROVE Doing[d] = <<"joined", r>>
  <2>1. call[c] = [kind |-> "members", room |-> r] /\ pc[c] # "remove"
    BY DEF At
  <2>2. call[c] = [kind |-> call[d].kind, room |-> call[d].room]
    BY <1>2, WaitsForSame
  <2>3. call[d].kind = "members" /\ call[d].room = r
    BY <2>1, <2>2
  <2>4. Step(d) = "joined"
    BY <1>2, <2>1, StepIs
  <2>5. QED
    BY <2>3, <2>4, DoingIs
<1>3. QED
  BY <1>1, <1>2

\* A call begins: the caller finds the list complete, asks for it, or leaves.
LEMMA CallMaps ==
  ASSUME SharingInv, NEW c \in Callers, NEW k \in Kinds, NEW r \in Rooms, Call(c, k, r)
  PROVE  Sharing!Find(c, r) \/ Sharing!Ask(c, r) \/ Sharing!Leave(c)
<1>1. /\ pc[c] = "idle" /\ call'[c] = [kind |-> k, room |-> r]
      /\ UNCHANGED <<on, synced, failed>>
      /\ \A d \in Callers \ {c} :
           call'[d] = call[d] /\ result'[d] = result[d] /\ pc'[d] = pc[d]
  BY DEF Call, Return, Go, store, SharingInv, TypeInv, TypeOK
<1>2. \A d \in Callers \ {c} : Doing'[d] = Doing[d]
  BY <1>1, OthersStay
<1>3. Sharing!Free(c)
  <2>1. CASE call[c].kind = "members"
    <3>1. pc[c] # "idle" \/ result[c] # "none" => call[c].room \in Rooms
      BY DEF SharingInv, TypeInv, CallInv
    <3>2. call[c].room \in Rooms
      BY <2>1 DEF SharingInv, TypeInv, TypeOK, NoCall
    <3>3. Doing[c] \in {<<"ok", call[c].room>>, <<"error", call[c].room>>}
      BY <1>1, <2>1, DoingIs, StepIs
    <3>4. QED
      BY <3>2, <3>3 DEF Sharing!Free, Sharing!Does
  <2>2. CASE call[c].kind # "members"
    BY <2>2, DoingIs DEF Sharing!Free
  <2>3. QED
    BY <2>1, <2>2
<1>4. CASE k = "members" /\ synced[k][r]
  <2>1. pc'[c] = "idle" /\ result'[c] = "nothing"
    BY <1>4 DEF Call, Return, Go, SharingInv, TypeInv, TypeOK
  <2>2. Doing'[c] = <<"ok", r>>
    <3>1. Step(c)' = "ok"
      BY <2>1, NextStepIs
    <3>2. QED
      BY <1>1, <1>4, <3>1, DoingIs
  <2>3. Sharing!Find(c, r)
    BY <1>1, <1>2, <1>3, <1>4, <2>2, OneTurns DEF Sharing!Find, Sharing!Turn
  <2>4. QED
    BY <2>3
<1>5. CASE k = "members" /\ ~synced[k][r]
  <2>1. pc'[c] = "look"
    BY <1>5 DEF Call, Return, Go, SharingInv, TypeInv, TypeOK
  <2>2. Doing'[c] = <<"asking", r>>
    <3>1. Step(c)' = "asking"
      BY <2>1, NextStepIs
    <3>2. QED
      BY <1>1, <1>5, <3>1, DoingIs
  <2>3. Sharing!Ask(c, r)
    BY <1>1, <1>2, <1>3, <1>5, <2>2, OneTurns DEF Sharing!Ask, Sharing!Turn
  <2>4. QED
    BY <2>3
<1>6. CASE k # "members"
  <2>1. Doing'[c] = <<>>
    BY <1>1, <1>6, DoingIs
  <2>2. Sharing!Leave(c)
    BY <1>1, <1>2, <1>3, <2>1, OneTurns DEF Sharing!Leave
  <2>3. QED
    BY <2>2
<1>7. QED
  BY <1>4, <1>5, <1>6

\* What a caller in a call for the members of r does.
LEMMA MemberDoes ==
  ASSUME NEW c \in Callers, NEW r \in Rooms, call[c] = [kind |-> "members", room |-> r]
  PROVE  Doing[c] = <<Step(c), r>> /\ (call'[c] = call[c] => Doing'[c] = <<Step(c)', r>>)
BY DoingIs

\* A step in a call of is_encrypted: what nobody waits for moves nobody, and
\* who waits for it does nothing that concerns the members.
LEMMA EncryptionStutters ==
  ASSUME SharingInv, NEW c \in Callers, NEW r \in Rooms,
         call[c] = [kind |-> "encryption", room |-> r], call' = call,
         \A d \in Callers \ {c} :
           \/ pc[d] = "wait" /\ on[d] = c
           \/ result'[d] = result[d] /\ pc'[d] = pc[d] /\ on'[d] = on[d]
  PROVE  Doing' = Doing
<1>1. ASSUME NEW d \in Callers PROVE Doing'[d] = Doing[d]
  <2>1. CASE call[d].kind # "members"
    BY <2>1, DoingIs
  <2>2. CASE call[d].kind = "members"
    <3>1. d # c
      BY <2>2
    <3>2. pc[d] = "wait" => on[d] \in Callers \ {c}
      <4>1. ASSUME pc[d] = "wait" PROVE on[d] \in Callers \ {c}
        <5>1. on[d] \in Callers /\ call[on[d]] = [kind |-> call[d].kind, room |-> call[d].room]
          BY <4>1, WaitsForSame
        <5>2. call[on[d]].kind = "members" /\ call[c].kind = "encryption"
          BY <2>2, <5>1
        <5>3. QED
          BY <5>1, <5>2
      <4>2. QED
        BY <4>1
    <3>3. result'[d] = result[d] /\ pc'[d] = pc[d] /\ on'[d] = on[d]
      BY <3>1, <3>2
    <3>4. pc[d] = "wait" => (pc'[on[d]] = "remove" <=> pc[on[d]] = "remove")
      <4>1. ASSUME pc[d] = "wait" PROVE pc'[on[d]] = pc[on[d]]
        <5>1. on[d] \in Callers \ {c} /\ pc[on[d]] # "wait"
          BY <3>2, <4>1, WaitsForSame
        <5>2. QED
          BY <5>1
      <4>2. QED
        BY <4>1
    <3>5. QED
      BY <3>3, <3>4, Unmoved
  <2>3. QED
    BY <2>1, <2>2
<1>2. QED
  BY <1>1, NobodyTurns

\* The lookup and the wait: a caller joins, is told, sends its own request, or
\* returns.
LEMMA LockMaps ==
  ASSUME SharingInv, NEW c \in Callers, NEW r \in Rooms,
         Join(c, "members", r) \/ LeadMembers(c, r) \/ Wake(c, "members", r)
  PROVE  \/ Sharing!Join(c, r) \/ Sharing!JoinLate(c, r)
         \/ Sharing!Fetch(c, r) \/ Sharing!Return(c, r)
<1> USE DEF At, Go
<1>1. /\ call[c] = [kind |-> "members", room |-> r] /\ pc[c] \in {"look", "woken"}
      /\ UNCHANGED <<call, synced, failed>>
      /\ \A d \in Callers \ {c} : result'[d] = result[d] /\ pc'[d] = pc[d] /\ on'[d] = on[d]
  BY DEF Join, LeadMembers, Wake, Return, lookUnchanged, store, SharingInv, TypeInv, TypeOK
<1>2. \A d \in Callers \ {c} : Doing'[d] = Doing[d]
  BY <1>1, OthersStay
<1>3. Doing[c] = <<Step(c), r>> /\ Doing'[c] = <<Step(c)', r>>
  BY <1>1, MemberDoes
<1>4. ASSUME Join(c, "members", r) PROVE Sharing!Join(c, r) \/ Sharing!JoinLate(c, r)
  <2>1. Doing[c] = <<"asking", r>>
    BY <1>3, <1>4, StepIs DEF Join
  <2>2. CASE Held("members", r)
    <3> DEFINE d == lock["members"][r]
    <3>1. d \in Callers /\ Leads(d, "members", r)
      BY <2>2 DEF Held, SharingInv, TypeInv, TypeOK, Kinds
    <3>2. call[d] = [kind |-> "members", room |-> r] /\ pc[d] \in {"sent", "store", "remove"}
      BY <3>1 DEF Leads
    <3>3. pc'[c] = "wait" /\ on'[c] = d /\ pc'[d] = pc[d]
      BY <1>1, <1>4, <2>2, <3>1, <3>2 DEF Join, SharingInv, TypeInv, TypeOK
    <3> HIDE DEF d
    <3>4. CASE pc[d] = "remove"
      <4>1. Doing[d] = <<"fetched", r>>
        <5>1. Step(d) = "fetched"
          BY <3>1, <3>4, StepIs
        <5>2. QED
          BY <3>1, <3>2, <5>1, MemberDoes
      <4>2. Doing'[c] = <<"told", r>>
        <5>1. Step(c)' = "told"
          BY <3>3, <3>4, NextStepIs
        <5>2. QED
          BY <1>3, <5>1
      <4>3. Sharing!JoinLate(c, r)
        BY <1>1, <1>2, <2>1, <3>1, <4>1, <4>2, OneTurns
           DEF Sharing!JoinLate, Sharing!Does, Sharing!Turn
      <4>4. QED
        BY <4>3
    <3>5. CASE pc[d] # "remove"
      <4>1. Doing[d] = <<"fetching", r>>
        <5>1. Step(d) = "fetching"
          BY <3>1, <3>2, <3>5, StepIs
        <5>2. QED
          BY <3>1, <3>2, <5>1, MemberDoes
      <4>2. Doing'[c] = <<"joined", r>>
        <5>1. Step(c)' = "joined"
          BY <3>3, <3>5, NextStepIs
        <5>2. QED
          BY <1>3, <5>1
      <4>3. Sharing!Join(c, r)
        BY <1>1, <1>2, <2>1, <3>1, <4>1, <4>2, OneTurns
           DEF Sharing!Join, Sharing!Does, Sharing!Turn
      <4>4. QED
        BY <4>3
    <3>6. QED
      BY <3>4, <3>5
  <2>3. CASE ~Held("members", r)
    <3>1. failed["members"][r]
      <4>1. lock["members"][r] # NoCaller /\ lock["members"][r] \in Callers
        BY <1>4 DEF Join, SharingInv, TypeInv, TypeOK, Kinds
      <4>2. ~Leads(lock["members"][r], "members", r)
        BY <2>3, <4>1 DEF Held
      <4>3. ~At(lock["members"][r], "members", r, "lock")
        BY <4>1 DEF SharingInv, TypeInv, KindInv
      <4>4. QED
        BY <4>1, <4>2, <4>3 DEF SharingInv, EntriesHaveOwners, Kinds
    <3>2. pc'[c] = "woken"
      BY <1>4, <2>3 DEF Join, SharingInv, TypeInv, TypeOK
    <3>3. Doing'[c] = <<"told", r>>
      BY <1>3, <3>2, NextStepIs
    <3>4. Sharing!JoinLate(c, r)
      BY <1>1, <1>2, <2>1, <3>1, <3>3, OneTurns DEF Sharing!JoinLate, Sharing!Does, Sharing!Turn
    <3>5. QED
      BY <3>4
  <2>4. QED
    BY <2>2, <2>3
<1>5. ASSUME LeadMembers(c, r) PROVE Sharing!Fetch(c, r)
  <2>1. Doing[c] = <<"asking", r>>
    BY <1>3, <1>5, StepIs DEF LeadMembers
  <2>2. pc'[c] = "sent"
    BY <1>5 DEF LeadMembers, SharingInv, TypeInv, TypeOK
  <2>3. Doing'[c] = <<"fetching", r>>
    BY <1>3, <2>2, NextStepIs
  <2>4. ASSUME NEW d \in Callers, Doing[d] = <<"fetching", r>> \/ Doing[d] = <<"fetched", r>>
        PROVE  FALSE
    <3>1. call[d].kind = "members" /\ call[d].room = r /\ Step(d) \in {"fetching", "fetched"}
      BY <2>4, DoingIs
    <3>2. pc[d] \in {"sent", "store", "remove"}
      BY <3>1 DEF Step
    <3>3. call[d] = [kind |-> "members", room |-> r]
      BY <3>1 DEF SharingInv, TypeInv, TypeOK, NoCall
    <3>4. Leads(d, "members", r)
      BY <3>2, <3>3 DEF Leads
    <3>5. QED
      BY <1>5, <3>4, CallerAssumption DEF SharingInv, LeaderInv, LeadMembers
  <2>5. QED
    BY <1>1, <1>2, <2>1, <2>3, <2>4, OneTurns DEF Sharing!Fetch, Sharing!Does, Sharing!Turn
<1>6. ASSUME Wake(c, "members", r) PROVE Sharing!Return(c, r)
  <2>1. Doing[c] = <<"told", r>>
    BY <1>3, <1>6, StepIs DEF Wake
  <2>2. pc'[c] = "idle" /\ result'[c] = "nothing"
    BY <1>6 DEF Wake, Return, Deduplicated, SharingInv, TypeInv, TypeOK
  <2>3. Doing'[c] = <<"ok", r>>
    BY <1>3, <2>2, NextStepIs
  <2>4. QED
    BY <1>1, <1>2, <2>1, <2>3, OneTurns DEF Sharing!Return, Sharing!Does, Sharing!Turn
<1>7. QED
  BY <1>4, <1>5, <1>6

\* The request: its answer changes nothing yet, storing it completes the list,
\* a failure breaks it, and the end of the call returns.
LEMMA RequestMaps ==
  ASSUME SharingInv, NEW c \in Callers, NEW r \in Rooms,
         \/ Respond(c, "members", r) \/ Store(c, "members", r)
         \/ Fail(c, "members", r) \/ Remove(c, "members", r)
  PROVE  \/ Sharing!Complete(c, r) \/ Sharing!Fail(c, r) \/ Sharing!Return(c, r)
         \/ UNCHANGED Sharing!vars
<1> USE DEF At, Go
<1>1. /\ call[c] = [kind |-> "members", room |-> r] /\ UNCHANGED call
      /\ pc[c] \in {"sent", "store", "remove"}
  BY DEF Respond, Store, Fail, Remove
<1>2. Doing[c] = <<Step(c), r>> /\ Doing'[c] = <<Step(c)', r>>
  BY <1>1, MemberDoes
<1>3. ASSUME Respond(c, "members", r) PROVE UNCHANGED Sharing!vars
  <2>1. /\ pc[c] = "sent" /\ pc'[c] = "store" /\ UNCHANGED <<result, on, synced, failed>>
        /\ \A d \in Callers \ {c} : pc'[d] = pc[d]
    BY <1>3 DEF Respond, store, SharingInv, TypeInv, TypeOK
  <2>2. \A d \in Callers : pc'[d] = "remove" <=> pc[d] = "remove"
    BY <2>1
  <2>3. \A d \in Callers \ {c} : Doing'[d] = Doing[d]
    <3>1. ASSUME NEW d \in Callers \ {c} PROVE Doing'[d] = Doing[d]
      <4>1. pc[d] = "wait" => on[d] \in Callers
        BY WaitsForSame
      <4>2. QED
        BY <1>1, <2>1, <2>2, <4>1, Unmoved
    <3>2. QED
      BY <3>1
  <2>4. Doing'[c] = Doing[c]
    BY <1>2, <2>1, StepIs, NextStepIs
  <2>5. Doing' = Doing
    BY <2>3, <2>4, NobodyTurns
  <2>6. QED
    BY <2>1, <2>5 DEF Sharing!vars
<1>4. ASSUME Store(c, "members", r) PROVE Sharing!Complete(c, r)
  <2>1. /\ pc[c] = "store" /\ pc'[c] = "remove" /\ UNCHANGED <<result, on, failed>>
        /\ \A d \in Callers \ {c} : pc'[d] = pc[d]
        /\ \A q \in Rooms : synced'["members"][q] <=> synced["members"][q] \/ q = r
    BY <1>4 DEF Store, SharingInv, TypeInv, TypeOK, Kinds
  <2>2. Doing[c] = <<"fetching", r>> /\ Doing'[c] = <<"fetched", r>>
    BY <1>2, <2>1, StepIs, NextStepIs
  <2>3. ASSUME NEW d \in Callers \ {c}
        PROVE  Doing'[d] = IF Doing[d] = <<"joined", r>> THEN <<"told", r>> ELSE Doing[d]
    <3>1. Doing[d] = <<"joined", r>> <=> pc[d] = "wait" /\ on[d] = c
      BY <1>1, <2>1, JoinedOnes
    <3>2. CASE pc[d] = "wait" /\ on[d] = c
      <4>1. call[c] = [kind |-> call[d].kind, room |-> call[d].room]
        BY <3>2, WaitsForSame
      <4>2. call[d].kind = "members" /\ call[d].room = r
        BY <1>1, <4>1
      <4>3. Step(d)' = "told"
        BY <2>1, <3>2, NextStepIs
      <4>4. Doing'[d] = <<"told", r>>
        BY <1>1, <4>2, <4>3, DoingIs
      <4>5. QED
        BY <3>1, <3>2, <4>4
    <3>3. CASE ~(pc[d] = "wait" /\ on[d] = c)
      <4>1. pc[d] = "wait" => on[d] \in Callers \ {c}
        BY <3>3, WaitsForSame
      <4>2. Doing'[d] = Doing[d]
        BY <1>1, <2>1, <4>1, Unmoved
      <4>3. QED
        BY <3>1, <3>3, <4>2
    <3>4. QED
      BY <3>2, <3>3
  <2>4. Sharing!End(c, "fetched", r)
    BY <2>2, <2>3, Ending
  <2>5. QED
    BY <2>1, <2>2, <2>4 DEF Sharing!Complete, Sharing!Does
<1>5. ASSUME NEW res, Release(c, res)
      PROVE  /\ \A d \in Callers \ {c} :
                  \/ pc[d] = "wait" /\ on[d] = c /\ pc'[d] = "woken"
                  \/ /\ ~(pc[d] = "wait" /\ on[d] = c)
                     /\ pc'[d] = pc[d] /\ on'[d] = on[d]
             /\ \A d \in Callers \ {c} : result'[d] = result[d]
             /\ pc'[c] = "idle" /\ result'[c] = res
  BY <1>5 DEF Release, Waiters, SharingInv, TypeInv, TypeOK
<1>6. ASSUME NEW res, Release(c, res), NEW d \in Callers \ {c}
      PROVE  /\ pc[d] = "wait" /\ on[d] = c => Doing'[d] = <<"told", r>>
             /\ ~(pc[d] = "wait" /\ on[d] = c) => Doing'[d] = Doing[d]
  <2>1. CASE pc[d] = "wait" /\ on[d] = c
    <3>1. call[c] = [kind |-> call[d].kind, room |-> call[d].room]
      BY <2>1, WaitsForSame
    <3>2. call[d].kind = "members" /\ call[d].room = r
      BY <1>1, <3>1
    <3>3. pc'[d] = "woken"
      BY <1>5, <1>6, <2>1
    <3>4. Step(d)' = "told"
      BY <3>3, NextStepIs
    <3>5. Doing'[d] = <<"told", r>>
      BY <1>1, <3>2, <3>4, DoingIs
    <3>6. QED
      BY <2>1, <3>5
  <2>2. CASE ~(pc[d] = "wait" /\ on[d] = c)
    <3>1. pc'[d] = pc[d] /\ on'[d] = on[d] /\ result'[d] = result[d]
      BY <1>5, <1>6, <2>2
    <3>2. pc[d] = "wait" => on[d] \in Callers \ {c} /\ pc[on[d]] # "wait"
      BY <2>2, WaitsForSame
    <3>3. pc[d] = "wait" => (pc'[on[d]] = "remove" <=> pc[on[d]] = "remove")
      BY <1>5, <1>6, <3>2
    <3>4. QED
      BY <1>1, <2>2, <3>1, <3>3, Unmoved
  <2>3. QED
    BY <2>1, <2>2
<1>7. ASSUME Fail(c, "members", r) PROVE Sharing!Fail(c, r)
  <2>1. /\ pc[c] \in {"sent", "store"} /\ Release(c, "error") /\ UNCHANGED synced
        /\ \A q \in Rooms : failed'["members"][q] <=> failed["members"][q] \/ q = r
    BY <1>7 DEF Fail, store, SharingInv, TypeInv, TypeOK, Kinds
  <2>2. pc'[c] = "idle" /\ result'[c] = "error"
    BY <1>5, <2>1
  <2>3. Doing[c] = <<"fetching", r>> /\ Doing'[c] = <<"error", r>>
    BY <1>2, <2>1, <2>2, StepIs, NextStepIs
  <2>4. ASSUME NEW d \in Callers \ {c}
        PROVE  Doing'[d] = IF Doing[d] = <<"joined", r>> THEN <<"told", r>> ELSE Doing[d]
    <3>1. Doing[d] = <<"joined", r>> <=> pc[d] = "wait" /\ on[d] = c
      BY <1>1, <2>1, JoinedOnes
    <3>2. QED
      BY <1>6, <2>1, <3>1
  <2>5. Sharing!End(c, "error", r)
    BY <2>3, <2>4, Ending
  <2>6. QED
    BY <2>1, <2>3, <2>5 DEF Sharing!Fail, Sharing!Does
<1>8. ASSUME Remove(c, "members", r) PROVE Sharing!Return(c, r)
  <2>1. pc[c] = "remove" /\ Release(c, "response") /\ UNCHANGED <<synced, failed>>
    BY <1>8 DEF Remove, store
  <2>2. pc'[c] = "idle" /\ result'[c] = "response"
    BY <1>5, <2>1
  <2>3. Doing[c] = <<"fetched", r>> /\ Doing'[c] = <<"ok", r>>
    BY <1>2, <2>1, <2>2, StepIs, NextStepIs
  <2>4. ASSUME NEW d \in Callers \ {c} PROVE Doing'[d] = Doing[d]
    <3>1. CASE pc[d] = "wait" /\ on[d] = c
      <4>1. call[c] = [kind |-> call[d].kind, room |-> call[d].room]
        BY <3>1, WaitsForSame
      <4>2. call[d].kind = "members" /\ call[d].room = r
        BY <1>1, <4>1
      <4>3. Doing[d] = <<"told", r>>
        BY <2>1, <3>1, <4>2, StepIs, DoingIs
      <4>4. QED
        BY <1>6, <2>1, <3>1, <4>3
    <3>2. QED
      BY <1>6, <2>1, <3>1
  <2>5. QED
    BY <2>1, <2>3, <2>4, OneTurns DEF Sharing!Return, Sharing!Does, Sharing!Turn
<1>9. QED
  BY <1>3, <1>4, <1>7, <1>8

\* The calls of is_encrypted are none of SharedFetch's business.
LEMMA EncryptionMaps ==
  ASSUME SharingInv, NEW c \in Callers, NEW r \in Rooms,
         \/ LookEncryption(c, r) \/ InsertEncryption(c, r) \/ LockEncryption(c, r)
         \/ LockStep(c, "encryption", r) \/ RequestStep(c, "encryption", r)
  PROVE  UNCHANGED Sharing!vars
<1> USE DEF At, Go
<1>1. /\ call[c] = [kind |-> "encryption", room |-> r] /\ UNCHANGED call
      /\ \A q \in Rooms : /\ synced'["members"][q] = synced["members"][q]
                          /\ failed'["members"][q] = failed["members"][q]
  BY DEF LookEncryption, InsertEncryption, LockEncryption, LockStep, RequestStep, Join, Wake,
         Remove, Respond, Store, Fail, lookUnchanged, store, SharingInv, TypeInv, TypeOK, Kinds
<1>2. \A d \in Callers \ {c} :
        \/ pc[d] = "wait" /\ on[d] = c
        \/ result'[d] = result[d] /\ pc'[d] = pc[d] /\ on'[d] = on[d]
  <2>1. CASE Remove(c, "encryption", r) \/ Fail(c, "encryption", r)
    BY <2>1 DEF Remove, Fail, Release, Waiters, SharingInv, TypeInv, TypeOK
  <2>2. CASE \/ LookEncryption(c, r) \/ InsertEncryption(c, r) \/ LockEncryption(c, r)
             \/ Join(c, "encryption", r) \/ Wake(c, "encryption", r)
    BY <2>2 DEF LookEncryption, InsertEncryption, LockEncryption, Join, Wake, Return,
                lookUnchanged, SharingInv, TypeInv, TypeOK
  <2>3. CASE Respond(c, "encryption", r) \/ Store(c, "encryption", r)
    BY <2>3 DEF Respond, Store, SharingInv, TypeInv, TypeOK
  <2>4. QED
    BY <2>1, <2>2, <2>3 DEF LockStep, RequestStep
<1>3. Doing' = Doing
  BY <1>1, <1>2, EncryptionStutters
<1>4. QED
  BY <1>1, <1>3 DEF Sharing!vars

\* A gap loses the list; what else happens outside the calls is not seen.
LEMMA OutsideMaps ==
  ASSUME SharingInv, OutsideStep
  PROVE  (\E r \in Rooms : Sharing!Lose(r)) \/ UNCHANGED Sharing!vars
<1>1. UNCHANGED outside
  BY DEF OutsideStep, ServerTurns, Gap, ServerEncrypts, SyncEncrypted
<1>2. \A d \in Callers : Doing'[d] = Doing[d]
  <2>1. ASSUME NEW d \in Callers PROVE Doing'[d] = Doing[d]
    BY <1>1, Unmoved DEF outside
  <2>2. QED
    BY <2>1
<1>3. Doing' = Doing
  BY <1>2, NobodyTurns
<1>4. ASSUME NEW r \in Rooms, Gap(r) PROVE Sharing!Lose(r)
  <2>1. \A q \in Rooms : synced'["members"][q] <=> synced["members"][q] /\ q # r
    BY <1>4 DEF Gap, SharingInv, TypeInv, TypeOK, Kinds
  <2>2. {q \in Rooms : synced'["members"][q]} = {q \in Rooms : synced["members"][q]} \ {r}
    BY <2>1
  <2>3. QED
    BY <1>1, <1>3, <2>2 DEF Sharing!Lose, outside
<1>5. ASSUME NEW r \in Rooms, ServerEncrypts(r) \/ SyncEncrypted(r)
      PROVE  UNCHANGED Sharing!vars
  BY <1>1, <1>3, <1>5 DEF Sharing!vars, ServerEncrypts, SyncEncrypted, outside, store
<1>6. CASE ServerTurns
  BY <1>1, <1>3, <1>6 DEF Sharing!vars, ServerTurns, outside, store
<1>7. QED
  BY <1>4, <1>5, <1>6 DEF OutsideStep

\* Every step of a call is a step of SharedFetch, or none.
LEMMA StepMaps == SharingInv /\ [Next]_vars => [Sharing!Next]_(Sharing!vars)
<1> SUFFICES ASSUME SharingInv, [Next]_vars PROVE Sharing!Next \/ UNCHANGED Sharing!vars
  OBVIOUS
<1>1. ASSUME NEW c \in Callers, NEW k \in Kinds, NEW r \in Rooms, Call(c, k, r)
      PROVE  Sharing!Next
  BY <1>1, CallMaps DEF Sharing!Next
<1>2. ASSUME NEW c \in Callers, NEW r \in Rooms,
             \/ LeadMembers(c, r)
             \/ LockStep(c, "members", r) \/ RequestStep(c, "members", r)
      PROVE  Sharing!Next \/ UNCHANGED Sharing!vars
  BY <1>2, LockMaps, RequestMaps DEF LockStep, RequestStep, Sharing!Next
<1>3. ASSUME NEW c \in Callers, NEW k \in Kinds, NEW r \in Rooms,
             LeadStep(c, r) \/ LockStep(c, k, r) \/ RequestStep(c, k, r)
      PROVE  Sharing!Next \/ UNCHANGED Sharing!vars
  BY <1>2, <1>3, EncryptionMaps DEF LeadStep, Kinds
<1>4. CASE OutsideStep
  BY <1>4, OutsideMaps DEF Sharing!Next
<1>5. CASE UNCHANGED vars
  <2>1. \A d \in Callers : Doing'[d] = Doing[d]
    <3>1. ASSUME NEW d \in Callers PROVE Doing'[d] = Doing[d]
      BY <1>5, Unmoved DEF vars
    <3>2. QED
      BY <3>1
  <2>2. QED
    BY <1>5, <2>1, NobodyTurns DEF Sharing!vars, vars, store
<1>6. QED
  BY <1>1, <1>3, <1>4, <1>5, StepCases DEF Kinds

\* sync_members implements SharedFetch, with any number of callers and rooms
\* and under every fault: a call returns well only after a request was over
\* that it sent or had joined, unless the list was there or one has failed.
THEOREM Implements == Spec => SharesFetches
<1>1. Init => Sharing!Init
  <2> SUFFICES ASSUME Init PROVE Sharing!Init
    OBVIOUS
  <2>1. \A c \in Callers : call[c].kind = "none"
    BY DEF Init, NoCall
  <2>2. Doing = [c \in Callers |-> <<>>]
    BY <2>1 DEF Doing
  <2>3. /\ {r \in Rooms : synced["members"][r]} = {}
        /\ {r \in Rooms : failed["members"][r]} = {}
    BY DEF Init, Kinds
  <2>4. QED
    BY <2>2, <2>3 DEF Sharing!Init
<1>2. TypeInv /\ WaitInv /\ LeaderInv /\ EntriesHaveOwners /\ [Next]_vars
      => [Sharing!Next]_(Sharing!vars)
  BY StepMaps DEF SharingInv
<1>3. QED
  BY <1>1, <1>2, Typing, Waiting, Leading, NoOrphanedEntries, PTL
     DEF Spec, SharesFetches, Sharing!Spec
============================================================================
