--------------------------- MODULE SyncLoop_proofs ---------------------------
(* Proofs about SyncLoop: for every set of handlers, log and environment,   *)
(* the loop implements Delivery.                                            *)
EXTENDS SyncLoop, TLAPS

----------------------------------------------------------------------------
(* The inductive invariant.                                                 *)

\* An event that a listener wants, and can read.
Due(l, ev) == Wants(l, ev) /\ CanRead(l, ev)

Busy == loop \in {"dispatch", "notify"}

RegistryInv ==
  /\ RegistryTypeOK
  /\ \A p \in running : /\ p[2] \in Handlers
                        /\ p[2].id < counter
                        /\ \A h \in handlers : h.id = p[2].id => h = p[2]

LogInv == log \in Seq(Event)

TokenInv ==
  /\ Len(log) \in Nat
  /\ since \in Nat /\ stored \in Nat /\ after \in Nat
  /\ since <= stored /\ stored <= Len(log)
  /\ failed \in BOOLEAN
  /\ ~Busy => todo = {} /\ running = {} /\ notices = {} /\ told = {} /\ steady = {}
  /\ loop # "dispatch" => todo = {} /\ running = {}
  /\ loop # "notify" => notices = {}
  /\ after <= stored
  /\ Busy => since <= after
  /\ Busy /\ ~failed => after = since
  /\ ~Busy /\ ~failed => stored = since

\* What a response still has to do is what it has, and has not been done.
TodoInv ==
  /\ todo \subseteq Calls(after, stored)
  /\ \A p, q \in running : p[1] = q[1]
  /\ \A p \in running :
       /\ p \in (after + 1 .. stored) \X Handlers
       /\ Due(p[2], log[p[1]])
       /\ NeedsContext(p[2]) => context
       /\ p \notin told
       /\ [ev |-> p[1], kind |-> p[2].key.kind] \notin todo
  /\ \A f \in notices :
       /\ f \in [by : 1 .. notifiers, ev : after + 1 .. stored]
       /\ log[f.ev].notifies
       /\ <<f.ev, Notifier(f.by)>> \notin told

\* What has been told is not to be told again.
ToldInv ==
  \A q \in told : /\ q \in (1 .. Len(log)) \X AllListeners
                  /\ [ev |-> q[1], kind |-> q[2].key.kind] \notin todo
                  /\ loop = "dispatch" => q[2] \in Handlers

\* Who has listened throughout was told, or will be.
SteadyInv ==
  /\ steady \subseteq Listeners
  /\ \A l \in steady :
       /\ NeedsContext(l) => context
       /\ Busy => \A n \in after + 1 .. stored : Due(l, log[n]) =>
            \/ <<n, l>> \in told
            \/ l \in Handlers /\ <<n, l>> \in running
            \/ l \in Handlers /\ [ev |-> n, kind |-> l.key.kind] \in todo
            \/ l \notin Handlers /\ loop = "dispatch"
            \/ \E f \in notices : f.ev = n /\ l = Notifier(f.by)

IInv == RegistryInv /\ LogInv /\ TokenInv /\ TodoInv /\ ToldInv /\ SteadyInv

----------------------------------------------------------------------------
(* Kinds, and who is who.                                                   *)

LEMMA NotifierFacts ==
  /\ \A i \in Nat : Notifier(i) \notin Handlers /\ ~NeedsContext(Notifier(i))
  /\ \A i, j \in Nat : Notifier(i) = Notifier(j) => i = j
  /\ \A i \in Nat, e \in Event : Due(Notifier(i), e) <=> e.notifies
<1>1. \A h \in Handlers : h.key.kind \in HandlerKind
  BY RegistrationsAssumption DEF Handlers, Keys
<1>2. "Notification" \notin HandlerKind
  BY DEF HandlerKind
<1>3. QED
  BY <1>1, <1>2 DEF Notifier, NeedsContext, Wants, CanRead, Due, Event

LEMMA HandlerFacts ==
  ASSUME NEW h \in Handlers
  PROVE  /\ h.key.kind \in HandlerKind /\ h.key.kind # "Notification"
         /\ h = [id |-> h.id, key |-> h.key] /\ h.id \in Nat
         /\ \A e \in Event : Due(h, e) <=>
              /\ h.key.kind \in KindsOf(e)
              /\ Matches(h, h.key.kind, e.type, e.room)
              /\ h.key.needs = "room" => e.room # NoRoom
              /\ CanRead(h, e)
<1>1. h.key \in Keys
  BY RegistrationsAssumption DEF Handlers
<1>2. h.key.kind \in HandlerKind
  BY <1>1 DEF Keys
<1>3. "Notification" \notin HandlerKind
  BY DEF HandlerKind
<1>4. h = [id |-> h.id, key |-> h.key] /\ h.id \in Nat
  BY BoundsAssumption DEF Handlers
<1>5. QED
  BY <1>2, <1>3, <1>4 DEF Wants, Due, Matches

LEMMA RemovedFacts ==
  ASSUME RegistryTypeOK, NEW h \in Handlers, NEW room,
         \A g \in handlers : g.id = h.id => g = h
  PROVE  /\ Removed(h) = handlers \ {h}
         /\ Removed(GivenHandle(h, room)) \in {handlers, handlers \ {h}}
<1>1. GivenHandle(h, room).id = h.id /\ handlers \subseteq Handlers
  BY DEF GivenHandle, Handlers, RegistryTypeOK
<1>2. Removed(h) = handlers \ {h}
  BY <1>1 DEF Removed
<1>3. CASE h \in Removed(GivenHandle(h, room))
  BY <1>1, <1>3 DEF Removed
<1>4. CASE h \notin Removed(GivenHandle(h, room))
  BY <1>1, <1>4 DEF Removed
<1>5. QED
  BY <1>2, <1>3, <1>4

LEMMA LogFacts ==
  ASSUME LogInv
  PROVE  /\ Len(log) \in Nat
         /\ \A n \in 1 .. Len(log) : log[n] \in Event
BY DEF LogInv

LEMMA InitInv == Init => IInv
<1> SUFFICES ASSUME Init PROVE IInv
  OBVIOUS
<1>1. RegistryInv
  <2>1. context \in BOOLEAN
    BY Zenon DEF Init, RegistryInit
  <2>2. RegistryTypeOK
    BY <2>1, BoundsAssumption DEF Init, RegistryInit, RegistryTypeOK
  <2>3. QED
    BY <2>2 DEF Init, RegistryInv
<1>2. LogInv
  BY LogsAssumption DEF Init, LogInv
<1>2a. TokenInv
  <2>1. failed \in BOOLEAN
    BY Zenon DEF Init
  <2>2. QED
    BY <1>2, <2>1, LogFacts DEF Init, TokenInv, Busy
<1>3. TodoInv /\ ToldInv /\ SteadyInv
  BY DEF Init, TodoInv, ToldInv, SteadyInv
<1>4. QED
  BY <1>1, <1>2, <1>2a, <1>3 DEF IInv

----------------------------------------------------------------------------
(* Steps that leave the response alone.                                     *)

LEMMA StartInv == IInv /\ Start => IInv'
<1> SUFFICES ASSUME IInv, Start PROVE IInv'
  OBVIOUS
<1> USE DEF Start, registry, params, batch
<1>1. RegistryInv'
  BY DEF IInv, RegistryInv, RegistryTypeOK
<1>0. LogInv'
  BY DEF IInv, LogInv
<1>2. TokenInv'
  <2>1. failed' \in BOOLEAN
    BY Zenon
  <2>2. QED
    BY <2>1 DEF IInv, TokenInv, Busy
<1>3. TodoInv'
  BY DEF IInv, TodoInv, TokenInv, Busy, Calls, NeedsContext
<1>4. ToldInv'
  BY DEF IInv, ToldInv, TokenInv, Busy
<1>5. SteadyInv'
  BY DEF IInv, SteadyInv, TokenInv, Busy
<1>6. QED
  BY <1>0, <1>1, <1>2, <1>3, <1>4, <1>5 DEF IInv

\* RequestFails and Callback.
LEMMA IdleInv ==
  ASSUME IInv, ~Busy, ~Busy',
         UNCHANGED <<registry, params, since, stored, batch, history>>
  PROVE  IInv'
<1> USE DEF registry, params, batch, history
<1>1. RegistryInv'
  BY DEF IInv, RegistryInv, RegistryTypeOK
<1>0. LogInv'
  BY DEF IInv, LogInv
<1>2. TokenInv'
  BY DEF IInv, TokenInv, Busy
<1>3. TodoInv' /\ ToldInv' /\ SteadyInv'
  BY DEF IInv, TodoInv, ToldInv, SteadyInv, TokenInv, Busy, Calls
<1>4. QED
  BY <1>0, <1>1, <1>2, <1>3 DEF IInv

\* DeserializeFails and Finish.
LEMMA OverInv ==
  ASSUME IInv, Busy, ~Busy', todo' = {}, running' = {}, notices' = {},
         told' = {}, steady' = {}, failed' \in BOOLEAN,
         since' \in {since, stored}, ~failed' => since' = stored,
         UNCHANGED <<registry, params, stored, after>>
  PROVE  IInv'
<1> USE DEF registry, params
<1>1. RegistryInv'
  BY DEF IInv, RegistryInv, RegistryTypeOK
<1>0. LogInv'
  BY DEF IInv, LogInv
<1>2. TokenInv'
  BY DEF IInv, TokenInv, Busy
<1>3. TodoInv' /\ ToldInv' /\ SteadyInv'
  BY DEF TodoInv, ToldInv, SteadyInv
<1>4. QED
  BY <1>0, <1>1, <1>2, <1>3 DEF IInv

LEMMA RespondInv == \A n \in Nat : IInv /\ Respond(n) => IInv'
<1> SUFFICES ASSUME NEW n \in Nat, IInv, Respond(n) PROVE IInv'
  OBVIOUS
<1> USE DEF Respond, registry, params
<1>1. RegistryInv'
  BY DEF IInv, RegistryInv, RegistryTypeOK
<1>0. LogInv'
  BY DEF IInv, LogInv
<1>2. TokenInv'
  BY DEF IInv, TokenInv, Busy
<1>3. TodoInv'
  BY DEF IInv, TodoInv, TokenInv, Busy, Calls
<1>4. ToldInv'
  BY DEF ToldInv
<1>5. SteadyInv'
  <2>1. steady' \subseteq Listeners' /\ \A l \in steady' : NeedsContext(l) => context'
    BY DEF Listeners, NeedsContext
  <2>2. ASSUME NEW l \in steady', NEW m \in after' + 1 .. stored', Due(l, log[m]),
               l \in Handlers
        PROVE  [ev |-> m, kind |-> l.key.kind] \in todo'
    <3>1. m \in 1 .. Len(log) /\ log[m] \in Event
      BY <1>2, LogFacts DEF IInv, TokenInv
    <3>2. l.key.kind \in HandlerKind /\ l.key.kind \in KindsOf(log[m])
      BY <2>2, <3>1, HandlerFacts
    <3>3. QED
      BY <3>1, <3>2 DEF Calls
  <2>3. QED
    BY <2>1, <2>2 DEF SteadyInv
<1>6. QED
  BY <1>0, <1>1, <1>2, <1>3, <1>4, <1>5 DEF IInv

----------------------------------------------------------------------------
(* Steps of the dispatch.                                                   *)

LEMMA CallInv == \A c \in todo : IInv /\ CallEventHandlers(c) => IInv'
<1> SUFFICES ASSUME NEW c \in todo, IInv, CallEventHandlers(c) PROVE IInv'
  OBVIOUS
<1> USE DEF CallEventHandlers, registry, params, history
<1> DEFINE e == log[c.ev]
           called == { h \in GetHandlers(c.kind, e.type, e.room) :
                         CanRead(h, e) /\ Applicable(h, e.room) }
<1>1. /\ c \in [ev : after + 1 .. stored, kind : HandlerKind]
      /\ c.kind \in KindsOf(e)
      /\ c = [ev |-> c.ev, kind |-> c.kind]
  BY DEF IInv, TodoInv, Calls
<1>2. c.ev \in 1 .. Len(log) /\ e \in Event
  BY <1>1, LogFacts DEF IInv, TokenInv, Busy
<1>3. called \subseteq handlers /\ handlers \subseteq Handlers
  BY DEF GetHandlers, IInv, RegistryInv, RegistryTypeOK
<1>4. \A h \in Handlers : h \in called <=>
        h \in handlers /\ h.key.kind = c.kind /\ Due(h, e) /\ (NeedsContext(h) => context)
  BY <1>1, <1>2, HandlerFacts
  DEF GetHandlers, Applicable, NeedsContext, Matches
<1>5. running' = {c.ev} \X called
  OBVIOUS
<1> HIDE DEF called, e
<1>6. \A p \in running' : p = <<c.ev, p[2]>> /\ p[2] \in called
  BY <1>5
<1>0. LogInv'
  BY DEF IInv, LogInv
<1>7. RegistryInv'
  BY <1>3, <1>6 DEF IInv, RegistryInv, RegistryTypeOK
<1>8. TokenInv'
  BY DEF IInv, TokenInv, Busy
<1>9. TodoInv'
  <2>1. todo' \subseteq Calls(after, stored)' /\ notices = {}
    BY DEF IInv, TodoInv, Calls, TokenInv
  <2>2. ASSUME NEW p \in running'
        PROVE  /\ p \in (after + 1 .. stored) \X Handlers
               /\ Due(p[2], log[p[1]])
               /\ NeedsContext(p[2]) => context
               /\ p \notin told
               /\ [ev |-> p[1], kind |-> p[2].key.kind] \notin todo'
    <3>1. p = <<c.ev, p[2]>> /\ p[2] \in called /\ p[2] \in Handlers
      BY <1>3, <1>6
    <3>2. p[2].key.kind = c.kind /\ Due(p[2], log[c.ev]) /\ (NeedsContext(p[2]) => context)
      BY <3>1, <1>4 DEF e
    <3>3. [ev |-> p[1], kind |-> p[2].key.kind] = c
      BY <3>1, <3>2, <1>1
    <3>4. p \notin told
      BY <3>3 DEF IInv, ToldInv
    <3>5. QED
      BY <1>1, <3>1, <3>2, <3>3, <3>4
  <2>3. QED
    BY <2>1, <2>2 DEF TodoInv, CallEventHandlers
<1>10. ToldInv'
  BY DEF IInv, ToldInv
<1>11. SteadyInv'
  <2>1. ASSUME NEW l \in steady, NEW n \in after + 1 .. stored, Due(l, log[n]),
               l \in Handlers, [ev |-> n, kind |-> l.key.kind] = c
        PROVE  <<n, l>> \in running'
    <3>1. l \in handlers /\ (NeedsContext(l) => context)
      BY <2>1, NotifierFacts, BoundsAssumption
      DEF IInv, SteadyInv, Listeners, RegistryInv, RegistryTypeOK
    <3>2. n = c.ev /\ l.key.kind = c.kind
      BY <2>1
    <3>3. l \in called
      BY <2>1, <3>1, <3>2, <1>4 DEF e
    <3>4. QED
      BY <3>2, <3>3, <1>5
  <2>2. running = {}
    OBVIOUS
  <2>3. QED
    BY <2>1, <2>2 DEF IInv, SteadyInv, Listeners, Busy
<1>12. QED
  BY <1>0, <1>7, <1>8, <1>9, <1>10, <1>11 DEF IInv

\* A future that ends: it was running, and is told once.
LEMMA ToldStep ==
  ASSUME IInv, NEW p \in running, Told(p[1], p[2]), runUnchanged' = runUnchanged,
         UNCHANGED context
  PROVE  /\ loop = "dispatch" /\ p = <<p[1], p[2]>>
         /\ running' = running \ {p} /\ told' = told \cup {p}
         /\ LogInv' /\ TokenInv' /\ ToldInv'
         /\ (UNCHANGED notifiers => TodoInv')
<1> USE DEF runUnchanged, params
<1>a. loop = "dispatch" /\ notices = {}
  BY DEF IInv, TokenInv
<1>b. p \in (after + 1 .. stored) \X Handlers
  BY DEF IInv, TodoInv
<1>1. loop = "dispatch" /\ notices = {} /\ p = <<p[1], p[2]>> /\ p[2] \in Handlers
  BY <1>a, <1>b
<1>2. running' = running \ {p} /\ told' = told \cup {p}
  BY <1>1 DEF Told
<1>0. LogInv'
  BY DEF IInv, LogInv
<1>3. TokenInv'
  BY <1>1, <1>2 DEF IInv, TokenInv, Busy
<1>4. ToldInv'
  <2>0. after + 1 .. stored \subseteq 1 .. Len(log)
    BY DEF IInv, TokenInv
  <2>1. p \in (1 .. Len(log)) \X AllListeners
    BY <1>b, <2>0 DEF AllListeners
  <2>2. QED
    BY <2>1, <1>1, <1>2 DEF IInv, TodoInv, ToldInv
<1>5. UNCHANGED notifiers => TodoInv'
  BY <1>1, <1>2 DEF IInv, TodoInv, Calls
<1>6. QED
  BY <1>0, <1>1, <1>2, <1>3, <1>4, <1>5

LEMMA RunHandlerInv == \A p \in running : IInv /\ RunHandler(p[1], p[2]) => IInv'
<1> SUFFICES ASSUME NEW p \in running, IInv, RunHandler(p[1], p[2]) PROVE IInv'
  OBVIOUS
<1> USE DEF RunHandler, registry
<1>1. /\ running' = running \ {p} /\ told' = told \cup {p}
      /\ LogInv' /\ TokenInv' /\ ToldInv' /\ TodoInv'
  BY ToldStep
<1>2. RegistryInv'
  BY <1>1 DEF IInv, RegistryInv, RegistryTypeOK
<1>3. SteadyInv'
  BY <1>1 DEF IInv, SteadyInv, Listeners, runUnchanged, params, Busy
<1>4. QED
  BY <1>1, <1>2, <1>3 DEF IInv

LEMMA RunAndRemoveInv == \A p \in running : IInv /\ RunAndRemove(p[1], p[2]) => IInv'
<1> SUFFICES ASSUME NEW p \in running, IInv, RunAndRemove(p[1], p[2]) PROVE IInv'
  OBVIOUS
<1> USE DEF RunAndRemove, RemoveEventHandler
<1>1. /\ running' = running \ {p} /\ told' = told \cup {p}
      /\ LogInv' /\ TokenInv' /\ ToldInv' /\ TodoInv'
  BY ToldStep
<1>2. handlers' \subseteq handlers
  BY DEF Removed
<1>3. RegistryInv'
  BY <1>1, <1>2 DEF IInv, RegistryInv, RegistryTypeOK
<1>4. SteadyInv'
  BY <1>1 DEF IInv, SteadyInv, runUnchanged, params, Busy
<1>5. QED
  BY <1>1, <1>3, <1>4 DEF IInv

LEMMA CollectInv == IInv /\ CollectNotifications => IInv'
<1> SUFFICES ASSUME IInv, CollectNotifications PROVE IInv'
  OBVIOUS
<1> USE DEF CollectNotifications, registry, params, history
<1>0. LogInv'
  BY DEF IInv, LogInv
<1>1. RegistryInv'
  BY DEF IInv, RegistryInv, RegistryTypeOK
<1>2. TokenInv'
  BY DEF IInv, TokenInv, Busy
<1>3. TodoInv'
  <2>1. ASSUME NEW f \in notices'
        PROVE  <<f.ev, Notifier(f.by)>> \notin told
    BY NotifierFacts, BoundsAssumption DEF IInv, ToldInv, RegistryInv, RegistryTypeOK
  <2>2. QED
    BY <2>1 DEF TodoInv, Calls
<1>4. ToldInv'
  BY DEF IInv, ToldInv
<1>5. SteadyInv'
  <2>1. ASSUME NEW l \in steady, NEW n \in after + 1 .. stored, Due(l, log[n]),
               l \notin Handlers
        PROVE  \E f \in notices' : f.ev = n /\ l = Notifier(f.by)
    <3>1. PICK i \in 1 .. notifiers : l = Notifier(i)
      BY <2>1 DEF IInv, SteadyInv, Listeners, RegistryInv, RegistryTypeOK
    <3>2. log[n].notifies
      BY <2>1, <3>1 DEF Due, Wants, Notifier
    <3>3. [by |-> i, ev |-> n] \in notices'
      BY <3>2
    <3>4. QED
      BY <3>1, <3>3
  <2>2. todo = {} /\ running = {} /\ notices = {} /\ Busy
    BY DEF IInv, TokenInv, Busy
  <2>3. ASSUME NEW l \in steady, NEW n \in after + 1 .. stored, Due(l, log[n])
        PROVE  <<n, l>> \in told \/ \E f \in notices' : f.ev = n /\ l = Notifier(f.by)
    BY <2>1, <2>2, <2>3 DEF IInv, SteadyInv
  <2>4. steady \subseteq Listeners /\ \A l \in steady : NeedsContext(l) => context
    BY DEF IInv, SteadyInv
  <2>5. QED
    BY <2>3, <2>4 DEF SteadyInv, Listeners
<1>6. QED
  BY <1>0, <1>1, <1>2, <1>3, <1>4, <1>5 DEF IInv

LEMMA NoticeInv == \A f \in notices : IInv /\ RunNotice(f) => IInv'
<1> SUFFICES ASSUME NEW f \in notices, IInv, RunNotice(f) PROVE IInv'
  OBVIOUS
<1> USE DEF RunNotice, registry, params
<1>a. /\ f \in [by : 1 .. notifiers, ev : after + 1 .. stored]
      /\ notifiers \in 0 .. MaxNotifiers
      /\ \A g \in notices : g \in [by : 1 .. notifiers, ev : after + 1 .. stored]
  BY DEF IInv, TodoInv, RegistryInv, RegistryTypeOK
<1>0. LogInv'
  BY DEF IInv, LogInv
<1>1. RegistryInv'
  BY DEF IInv, RegistryInv, RegistryTypeOK
<1>2. TokenInv'
  BY DEF IInv, TokenInv, Busy
<1>3. TodoInv'
  <2>1. ASSUME NEW g \in notices \ {f}
        PROVE  <<g.ev, Notifier(g.by)>> # <<f.ev, Notifier(f.by)>>
    <3>1. g = [by |-> g.by, ev |-> g.ev] /\ f = [by |-> f.by, ev |-> f.ev]
      BY <1>a
    <3>2. g.by \in Nat /\ f.by \in Nat
      BY <1>a, BoundsAssumption
    <3>3. QED
      BY <3>1, <3>2, NotifierFacts
  <2>2. QED
    BY <2>1 DEF IInv, TodoInv, TokenInv, Calls
<1>4. ToldInv'
  <2>1. Notifier(f.by) \in AllListeners /\ f.ev \in 1 .. Len(log)
    BY <1>a, BoundsAssumption DEF AllListeners, IInv, TokenInv, Busy
  <2>2. todo = {}
    BY DEF IInv, TokenInv
  <2>3. QED
    BY <2>1, <2>2 DEF IInv, ToldInv
<1>5. SteadyInv'
  BY DEF IInv, SteadyInv, Listeners, Busy
<1>6. QED
  BY <1>0, <1>1, <1>2, <1>3, <1>4, <1>5 DEF IInv

----------------------------------------------------------------------------
(* Steps of the program.                                                    *)

LEMMA ProgramInv == IInv /\ Program => IInv'
<1> SUFFICES ASSUME IInv, Program PROVE IInv'
  OBVIOUS
<1> USE DEF Program, params, batch
<1>0. LogInv'
  BY DEF IInv, LogInv
<1>2. TokenInv'
  BY DEF IInv, TokenInv, Busy
<1>a. (context => context') /\ notifiers <= notifiers' /\ notifiers \in Nat
  BY BoundsAssumption DEF RegistryNext, AddEventHandler, RemoveEventHandler, AddContext,
     RegisterNotificationHandler, IInv, RegistryInv, RegistryTypeOK
<1>1. RegistryInv'
  <2>1. CASE \E key \in Registrations : AddEventHandler(key)
    <3>1. PICK key \in Registrations : AddEventHandler(key)
      BY <2>1
    <3>2. /\ [id |-> counter, key |-> key] \in Handlers
          /\ counter < counter' /\ counter' \in Nat
      BY <3>1, BoundsAssumption DEF AddEventHandler, Handlers, IInv, RegistryInv, RegistryTypeOK
    <3>3. RegistryTypeOK'
      <4>1. /\ handlers' \subseteq Handlers /\ counter' \in Nat
            /\ notifiers' \in 0 .. MaxNotifiers
        BY <3>1, <3>2 DEF AddEventHandler, IInv, RegistryInv, RegistryTypeOK
      <4>2. /\ \A h \in handlers' : h.id < counter'
            /\ \A g, h \in handlers' : g.id = h.id => g = h
        <5>1. \A h \in handlers : h.id \in Nat
          BY HandlerFacts DEF IInv, RegistryInv, RegistryTypeOK
        <5>2. \A h \in handlers : h.id < counter /\ counter \in Nat
          BY DEF IInv, RegistryInv, RegistryTypeOK
        <5>3. \A h \in handlers : h.id # counter
          BY <5>1, <5>2
        <5>4. \A g, h \in handlers' : g.id = h.id => g = h
          BY <3>1, <5>3 DEF AddEventHandler, IInv, RegistryInv, RegistryTypeOK
        <5>5. QED
          BY <3>1, <3>2, <5>1, <5>2, <5>4 DEF AddEventHandler
      <4>3. context' \in BOOLEAN
        BY <3>1, Zenon DEF AddEventHandler, IInv, RegistryInv, RegistryTypeOK
      <4>4. QED
        BY <4>1, <4>2, <4>3 DEF RegistryTypeOK
    <3>4. \A p \in running : p[2].id \in Nat
      BY HandlerFacts DEF IInv, RegistryInv
    <3>5. QED
      BY <3>1, <3>2, <3>3, <3>4 DEF AddEventHandler, IInv, RegistryInv, RegistryTypeOK
  <2>2. CASE \E h \in handlers : RemoveEventHandler(h)
    BY <2>2 DEF RemoveEventHandler, Removed, IInv, RegistryInv, RegistryTypeOK
  <2>3. CASE AddContext
    <3>1. context' \in BOOLEAN
      BY <2>3, Zenon DEF AddContext
    <3>2. QED
      BY <2>3, <3>1 DEF AddContext, IInv, RegistryInv, RegistryTypeOK
  <2>4. CASE RegisterNotificationHandler
    BY <2>4, BoundsAssumption DEF RegisterNotificationHandler, IInv, RegistryInv, RegistryTypeOK
  <2>5. QED
    BY <2>1, <2>2, <2>3, <2>4 DEF RegistryNext
<1>3. TodoInv'
  <2>0. notifiers' \in Nat
    BY <1>1, BoundsAssumption DEF RegistryInv, RegistryTypeOK
  <2>a. 1 .. notifiers \subseteq 1 .. notifiers'
    BY <1>a, <2>0
  <2>1. \A f \in notices : f \in [by : 1 .. notifiers', ev : after + 1 .. stored]
    BY <2>a DEF IInv, TodoInv
  <2>2. QED
    BY <1>a, <2>1 DEF IInv, TodoInv, Calls
<1>4. ToldInv'
  BY DEF IInv, ToldInv
<1>5. SteadyInv'
  BY <1>a DEF IInv, SteadyInv, Busy
<1>6. QED
  BY <1>0, <1>1, <1>2, <1>3, <1>4, <1>5 DEF IInv

----------------------------------------------------------------------------
LEMMA NextInv == IInv /\ [Next]_vars => IInv'
<1> SUFFICES ASSUME IInv, [Next]_vars PROVE IInv'
  OBVIOUS
<1>1. CASE UNCHANGED vars
  <2>1. /\ UNCHANGED <<registry, params, since, stored, batch, history>>
        /\ UNCHANGED <<handlers, counter, notifiers, log, since, stored, after,
                       todo, running, notices, told, steady, loop, context, failed>>
    BY <1>1 DEF vars, registry, params, batch, history
  <2>2. RegistryInv' /\ LogInv'
    BY <2>1 DEF IInv, RegistryInv, RegistryTypeOK, LogInv
  <2>3. TokenInv'
    BY <2>1 DEF IInv, TokenInv, Busy
  <2>4. TodoInv' /\ ToldInv'
    BY <2>1 DEF IInv, TodoInv, ToldInv, Calls
  <2>5. SteadyInv'
    BY <2>1 DEF IInv, SteadyInv, Listeners, Busy
  <2>6. QED
    BY <2>2, <2>3, <2>4, <2>5 DEF IInv
<1>2. CASE Start
  BY <1>2, StartInv
<1>3. CASE RequestFails
  BY <1>3, IdleInv DEF RequestFails, Busy
<1>4. CASE Handle
  <2>1. CASE \E c \in todo : CallEventHandlers(c)
    BY <2>1, CallInv
  <2>2. CASE \E c \in todo : DeserializeFails(c)
    <3>1. PICK c \in todo : DeserializeFails(c)
      BY <2>2
    <3>2. failed' \in BOOLEAN /\ failed'
      BY <3>1, Zenon DEF DeserializeFails
    <3>3. notices = {}
      BY <3>1 DEF DeserializeFails, IInv, TokenInv
    <3>4. QED
      BY <3>1, <3>2, <3>3, OverInv DEF DeserializeFails, Busy
  <2>3. CASE \E p \in running : RunHandler(p[1], p[2])
    BY <2>3, RunHandlerInv
  <2>4. CASE \E p \in running : RunAndRemove(p[1], p[2])
    BY <2>4, RunAndRemoveInv
  <2>5. CASE CollectNotifications
    BY <2>5, CollectInv
  <2>6. CASE \E f \in notices : RunNotice(f)
    BY <2>6, NoticeInv
  <2>7. CASE Finish
    <3>1. failed' \in BOOLEAN
      BY <2>7, Zenon DEF Finish
    <3>2. todo' = {} /\ running' = {} /\ notices' = {}
      BY <2>7 DEF Finish, batch, IInv, TokenInv
    <3>3. QED
      BY <2>7, <3>1, <3>2, OverInv DEF Finish, batch, Busy
  <2>8. QED
    BY <1>4, <2>1, <2>2, <2>3, <2>4, <2>5, <2>6, <2>7 DEF Handle
<1>5. CASE Callback
  BY <1>5, IdleInv DEF Callback, Busy
<1>6. CASE Program
  BY <1>6, ProgramInv
<1>7. CASE \E n \in 0 .. Len(log) : Respond(n)
  <2>1. PICK n \in 0 .. Len(log) : Respond(n)
    BY <1>7
  <2>2. QED
    BY <2>1, RespondInv
<1>8. QED
  BY <1>1, <1>2, <1>3, <1>4, <1>5, <1>6, <1>7 DEF Next

LEMMA Invariance == Spec => []IInv
<1>1. IInv /\ [Next]_vars => IInv'
  BY NextInv
<1>2. QED
  BY <1>1, InitInv, PTL DEF Spec

----------------------------------------------------------------------------
(* Type correctness.                                                        *)

PlaceInv == /\ mode \in ModeNames /\ env \in SUBSET EnvKinds
            /\ loop \in Places
            /\ asked \subseteq Nat

LEMMA PlaceNext == IInv /\ PlaceInv /\ [Next]_vars => PlaceInv'
<1> SUFFICES ASSUME IInv, PlaceInv, [Next]_vars PROVE PlaceInv'
  OBVIOUS
<1> USE DEF params, batch, history, PlaceInv, Places
<1>1. CASE \E p \in running : RunAndRemove(p[1], p[2])
  <2>1. PICK p \in running : RunAndRemove(p[1], p[2])
    BY <1>1
  <2>2. p[2].id \in Nat
    BY <2>1, HandlerFacts DEF IInv, RegistryInv
  <2>3. QED
    BY <2>1, <2>2 DEF RunAndRemove, runUnchanged
<1>2. CASE UNCHANGED vars \/ Start \/ RequestFails \/ Callback \/ Program
  BY <1>2 DEF vars, Start, RequestFails, Callback, Program
<1>3. CASE \E n \in 0 .. Len(log) : Respond(n)
  BY <1>3 DEF Respond
<1>4. CASE Handle /\ ~ \E p \in running : RunAndRemove(p[1], p[2])
  BY <1>4 DEF Handle, CallEventHandlers, DeserializeFails, RunHandler, runUnchanged,
     CollectNotifications, RunNotice, Finish
<1>5. QED
  BY <1>1, <1>2, <1>3, <1>4 DEF Next

LEMMA PlaceInvariance == Spec => []PlaceInv
<1>1. Init => PlaceInv
  BY ModesAssumption, EnvsAssumption DEF Init, PlaceInv, Places
<1>2. IInv /\ PlaceInv /\ [Next]_vars => PlaceInv'
  BY PlaceNext
<1>3. QED
  BY <1>1, <1>2, Invariance, PTL DEF Spec

LEMMA Typed == IInv /\ PlaceInv => TypeOK
<1> SUFFICES ASSUME IInv, PlaceInv PROVE TypeOK
  OBVIOUS
<1>1. RegistryTypeOK /\ log \in Seq(Event) /\ steady \subseteq Listeners
  BY DEF IInv, RegistryInv, LogInv, SteadyInv
<1>2. /\ since \in 0 .. Len(log) /\ stored \in 0 .. Len(log) /\ after \in 0 .. Len(log)
      /\ after + 1 .. stored \subseteq 1 .. Len(log)
  BY DEF IInv, TokenInv
<1>3. failed \in BOOLEAN
  BY Zenon DEF IInv, TokenInv
<1>4. todo \subseteq Calls(after, stored)
  BY DEF IInv, TodoInv
<1>5. running \subseteq (1 .. Len(log)) \X Handlers
  BY <1>2 DEF IInv, TodoInv
<1>6. notices \subseteq [by : 1 .. notifiers, ev : after + 1 .. stored]
  BY DEF IInv, TodoInv
<1>7. told \subseteq (1 .. Len(log)) \X AllListeners
  BY DEF IInv, ToldInv
<1>8. QED
  BY <1>1, <1>2, <1>3, <1>4, <1>5, <1>6, <1>7 DEF TypeOK, PlaceInv

\* The tokens stay within the server's log and in step with the response that
\* is processed; the ids of handlers are never given twice, whoever registers
\* and removes them meanwhile (matrix/event_handler/mod.rs, matrix/sync.rs).
THEOREM TypeCorrect == Spec => []TypeOK
BY Typed, Invariance, PlaceInvariance, PTL

----------------------------------------------------------------------------
(* The refinement of Delivery.                                              *)

Leaving == { p[2] : p \in running } \ handlers

LEMMA InitMaps == Init /\ IInv => Promise!Init
<1> SUFFICES ASSUME Init, IInv PROVE Promise!Init
  OBVIOUS
<1>1. Listeners = {}
  BY DEF Init, RegistryInit, Listeners
<1>2. context = FALSE /\ failed = FALSE
  BY Zenon DEF Init, RegistryInit
<1>3. QED
  BY <1>1, <1>2 DEF Init, Promise!Init

LEMMA ListenerFacts ==
  ASSUME IInv
  PROVE  /\ Listeners \subseteq AllListeners
         /\ handlers \subseteq Handlers
         /\ handlers \subseteq Listeners
         /\ \A h \in Handlers : h \in Listeners <=> h \in handlers
<1>1. handlers \subseteq Handlers /\ notifiers \in 0 .. MaxNotifiers
  BY DEF IInv, RegistryInv, RegistryTypeOK
<1>2. 1 .. notifiers \subseteq 1 .. MaxNotifiers /\ 1 .. notifiers \subseteq Nat
  BY <1>1, BoundsAssumption
<1>3. QED
  BY <1>1, <1>2, NotifierFacts DEF Listeners, AllListeners

\* The steps that Delivery does not see.
LEMMA Unseen ==
  ASSUME UNCHANGED <<log, handlers, notifiers, context, since, steady, told, failed>>,
         Leaving' = Leaving
  PROVE  UNCHANGED Promise!vars
BY DEF Promise!vars, Listeners, Leaving

LEMMA RespondMaps ==
  ASSUME IInv, NEW n \in 0 .. Len(log), Respond(n)
  PROVE  Promise!Begin
<1>1. Leaving = {} /\ Leaving' = {}
  BY DEF IInv, TokenInv, Busy, Leaving, Respond
<1>2. QED
  BY <1>1 DEF Respond, registry, params, Promise!Begin, Listeners, Leaving, NeedsContext

LEMMA FinishMaps ==
  ASSUME IInv, Finish
  PROVE  Promise!Confirm(stored)
<1> USE DEF Finish, registry, params, batch
<1>1. Leaving = {} /\ Leaving' = {} /\ todo = {} /\ running = {}
  BY DEF IInv, TokenInv, Leaving
<1>2. since \in 0 .. Len(log) /\ stored \in since .. Len(log)
  BY DEF IInv, TokenInv
<1>3. ASSUME ~failed, NEW m \in since + 1 .. stored, NEW l \in steady, Due(l, log[m])
      PROVE  <<m, l>> \in told
  <2>1. m \in after + 1 .. stored
    BY <1>3 DEF IInv, TokenInv, Busy
  <2>2. QED
    BY <2>1, <1>1, <1>3 DEF IInv, SteadyInv, Busy
<1>4. failed' = FALSE /\ UNCHANGED context
  BY Zenon
<1>5. Listeners' = Listeners
  BY DEF Listeners
<1>6. QED
  BY <1>1, <1>2, <1>3, <1>4, <1>5 DEF Promise!Confirm, Leaving, Due

LEMMA StartMaps ==
  ASSUME IInv, Start
  PROVE  Promise!Confirm(stored)
<1> USE DEF Start, registry, params, batch
<1>1. Leaving = {} /\ Leaving' = {} /\ told = {} /\ steady = {}
  BY DEF IInv, TokenInv, Busy, Leaving
<1>2. stored \in since .. Len(log)
  BY DEF IInv, TokenInv
<1>4. failed' = FALSE /\ UNCHANGED context
  BY Zenon
<1>5. Listeners' = Listeners
  BY DEF Listeners
<1>6. QED
  BY <1>1, <1>2, <1>4, <1>5 DEF Promise!Confirm, Leaving

LEMMA FailMaps ==
  ASSUME IInv, NEW c \in todo, DeserializeFails(c)
  PROVE  Promise!Fail
<1> USE DEF DeserializeFails, registry, params
<1>1. failed' = TRUE /\ UNCHANGED context
  BY Zenon
<1>2. Listeners' = Listeners
  BY DEF Listeners
<1>3. QED
  BY <1>1, <1>2 DEF Promise!Fail

\* A handler is told: it was called, so it listened or is about to leave.
LEMMA ToldMaps ==
  ASSUME IInv, NEW p \in running, Told(p[1], p[2]), runUnchanged' = runUnchanged,
         UNCHANGED <<context, notifiers>>,
         \/ UNCHANGED <<handlers, steady>>
         \/ handlers' = handlers \ {p[2]} /\ steady' = steady \ {p[2]}
  PROVE  Promise!Tell(p[1], p[2]) /\ p[1] \in 1 .. Len(log) /\ p[2] \in AllListeners
<1>1. /\ loop = "dispatch" /\ p = <<p[1], p[2]>>
      /\ running' = running \ {p} /\ told' = told \cup {p}
  BY ToldStep
<1>2. /\ p \in (after + 1 .. stored) \X Handlers
      /\ Due(p[2], log[p[1]]) /\ (NeedsContext(p[2]) => context) /\ p \notin told
  BY DEF IInv, TodoInv
<1>3. p[1] \in since + 1 .. Len(log) /\ p[1] \in 1 .. Len(log)
  BY <1>1, <1>2 DEF IInv, TokenInv, Busy
<1>4. Leaving' = Leaving \ {p[2]}
  <2>0. running \subseteq (after + 1 .. stored) \X Handlers
    BY DEF IInv, TodoInv
  <2>a. \A q \in running : q[1] = p[1]
    BY DEF IInv, TodoInv
  <2>1. \A q \in running : q = <<q[1], q[2]>> /\ q[1] = p[1]
    BY <2>0, <2>a
  <2>2. { q[2] : q \in running' } = { q[2] : q \in running } \ {p[2]}
    BY <1>1, <2>1
  <2>3. QED
    BY <2>2 DEF Leaving
<1>5. p[2] \in Listeners \cup Leaving
  BY <1>2, ListenerFacts DEF Leaving
<1>6. \/ UNCHANGED <<Listeners, steady>>
      \/ Listeners' = Listeners \ {p[2]} /\ steady' = steady \ {p[2]}
  <2>1. \A i \in 1 .. notifiers : Notifier(i) # p[2]
    BY <1>2, NotifierFacts, BoundsAssumption DEF IInv, RegistryInv, RegistryTypeOK
  <2>2. QED
    BY <2>1 DEF Listeners
<1>7. UNCHANGED <<log, context, since, failed>>
  BY DEF runUnchanged, params
<1>8. p[2] \in AllListeners
  BY <1>2 DEF AllListeners
<1>9. QED
  BY <1>1, <1>2, <1>3, <1>4, <1>5, <1>6, <1>7, <1>8 DEF Promise!Tell, Due, Leaving

LEMMA RunAndRemoveMaps ==
  ASSUME IInv, NEW p \in running, RunAndRemove(p[1], p[2])
  PROVE  Promise!Tell(p[1], p[2]) /\ p[1] \in 1 .. Len(log) /\ p[2] \in AllListeners
<1>1. p[2] \in Handlers /\ \A g \in handlers : g.id = p[2].id => g = p[2]
  BY DEF IInv, RegistryInv
<1>2. handlers' \in {handlers, handlers \ {p[2]}}
  BY <1>1, RemovedFacts DEF RunAndRemove, RemoveEventHandler, IInv, RegistryInv
<1>3. UNCHANGED <<context, notifiers>> /\ steady' = steady \cap Listeners'
  BY DEF RunAndRemove, RemoveEventHandler
<1>4. steady \subseteq Listeners
  BY DEF IInv, SteadyInv
<1>5. \A i \in 1 .. notifiers : Notifier(i) # p[2]
  BY <1>1, NotifierFacts, BoundsAssumption DEF IInv, RegistryInv, RegistryTypeOK
<1>6. \/ UNCHANGED <<handlers, steady>>
      \/ handlers' = handlers \ {p[2]} /\ steady' = steady \ {p[2]}
  BY <1>2, <1>3, <1>4, <1>5 DEF Listeners
<1>7. Told(p[1], p[2]) /\ runUnchanged' = runUnchanged
  BY DEF RunAndRemove
<1>8. QED
  BY <1>3, <1>6, <1>7, ToldMaps

LEMMA NoticeMaps ==
  ASSUME IInv, NEW f \in notices, RunNotice(f)
  PROVE  /\ Promise!Tell(f.ev, Notifier(f.by))
         /\ f.ev \in 1 .. Len(log) /\ Notifier(f.by) \in AllListeners
<1> USE DEF RunNotice, registry, params
<1>1. /\ f \in [by : 1 .. notifiers, ev : after + 1 .. stored]
      /\ log[f.ev].notifies
      /\ <<f.ev, Notifier(f.by)>> \notin told
  BY DEF IInv, TodoInv
<1>2. notifiers \in 0 .. MaxNotifiers
  BY DEF IInv, RegistryInv, RegistryTypeOK
<1>3. f.by \in Nat /\ f.by \in 1 .. MaxNotifiers /\ f.by \in 1 .. notifiers
  BY <1>1, <1>2, BoundsAssumption
<1>4. f.ev \in since + 1 .. Len(log) /\ f.ev \in 1 .. Len(log)
  BY <1>1 DEF IInv, TokenInv, Busy
<1>5. Due(Notifier(f.by), log[f.ev]) /\ ~NeedsContext(Notifier(f.by))
  BY <1>1, <1>3, <1>4, LogFacts, NotifierFacts DEF IInv
<1>6. Notifier(f.by) \in AllListeners /\ Notifier(f.by) \in Listeners
  BY <1>3 DEF AllListeners, Listeners
<1>7. Leaving = {} /\ Leaving' = {}
  BY DEF IInv, TokenInv, Leaving
<1>8. Listeners' = Listeners
  BY DEF Listeners
<1>9. QED
  BY <1>1, <1>4, <1>5, <1>6, <1>7, <1>8 DEF Promise!Tell, Due, Leaving

LEMMA ProgramMaps ==
  ASSUME IInv, Program
  PROVE  \/ \E l \in AllListeners : Promise!Listen(l) \/ Promise!Stop(l)
         \/ Promise!Enable
<1> USE DEF Program, params, batch
<1>0. /\ notifiers \in Nat /\ steady \subseteq Listeners /\ handlers \subseteq Handlers
      /\ \A i \in Nat : Notifier(i) \notin Handlers
  BY NotifierFacts, BoundsAssumption DEF IInv, RegistryInv, RegistryTypeOK, SteadyInv
<1>1. CASE \E key \in Registrations : AddEventHandler(key)
  <2>1. PICK key \in Registrations : AddEventHandler(key)
    BY <1>1
  <2> DEFINE l == [id |-> counter, key |-> key]
  <2>2. l \in Handlers
    BY <2>1, BoundsAssumption DEF AddEventHandler, Handlers, IInv, RegistryInv, RegistryTypeOK
  <2>3. \A p \in running : p[2] # l
    BY HandlerFacts DEF IInv, RegistryInv
  <2>4. Leaving' = Leaving /\ l \notin Leaving
    BY <2>1, <2>3 DEF AddEventHandler, Leaving
  <2>5. Listeners' = Listeners \cup {l} /\ steady' = steady
    BY <2>1, <1>0 DEF AddEventHandler, Listeners
  <2>6. Promise!Listen(l)
    BY <2>1, <2>4, <2>5 DEF AddEventHandler, Promise!Listen, Leaving
  <2>7. QED
    BY <2>2, <2>6 DEF AllListeners
<1>2. CASE \E h \in handlers : RemoveEventHandler(h)
  <2>1. PICK h \in handlers : RemoveEventHandler(h)
    BY <1>2
  <2>2. handlers' = handlers \ {h} /\ UNCHANGED <<context, notifiers>>
    BY <2>1, <1>0, RemovedFacts DEF RemoveEventHandler, IInv, RegistryInv, RegistryTypeOK
  <2>3. Listeners' = Listeners \ {h}
    <3>1. \A i \in 1 .. notifiers : Notifier(i) # h
      BY <1>0
    <3>2. QED
      BY <3>1, <2>2 DEF Listeners
  <2>4. steady' = steady \ {h}
    BY <2>3, <1>0
  <2>5. Leaving' \in {Leaving, Leaving \cup {h}}
    BY <2>2 DEF Leaving
  <2>6. Promise!Stop(h)
    BY <2>2, <2>3, <2>4, <2>5 DEF Promise!Stop, Leaving
  <2>7. QED
    BY <2>6, <1>0 DEF AllListeners
<1>3. CASE AddContext
  <2>1. context' = TRUE /\ UNCHANGED <<handlers, notifiers>>
    BY <1>3, Zenon DEF AddContext
  <2>2. Listeners' = Listeners /\ steady' = steady /\ Leaving' = Leaving
    BY <2>1, <1>0 DEF Listeners, Leaving
  <2>3. QED
    BY <2>1, <2>2 DEF Promise!Enable, Leaving
<1>4. CASE RegisterNotificationHandler
  <2> DEFINE l == Notifier(notifiers + 1)
  <2>1. /\ notifiers < MaxNotifiers /\ notifiers' = notifiers + 1
        /\ UNCHANGED <<handlers, context>>
    BY <1>4 DEF RegisterNotificationHandler
  <2>2. 1 .. notifiers' = (1 .. notifiers) \cup {notifiers + 1}
    BY <2>1, <1>0
  <2>3. Listeners' = Listeners \cup {l} /\ steady' = steady
    BY <2>1, <2>2, <1>0 DEF Listeners
  <2>4. Leaving' = Leaving /\ l \notin Leaving
    BY <2>1, <1>0 DEF Leaving, IInv, RegistryInv
  <2>5. Promise!Listen(l)
    BY <2>1, <2>3, <2>4 DEF Promise!Listen, Leaving
  <2>6. l \in AllListeners
    BY <2>1, <1>0, BoundsAssumption DEF AllListeners
  <2>7. QED
    BY <2>5, <2>6
<1>5. QED
  BY <1>1, <1>2, <1>3, <1>4 DEF RegistryNext

LEMMA NextMaps == IInv /\ [Next]_vars => [Promise!Next]_(Promise!vars)
<1> SUFFICES ASSUME IInv, [Next]_vars PROVE [Promise!Next]_(Promise!vars)
  OBVIOUS
<1>0. since \in 0 .. Len(log) /\ stored \in 0 .. Len(log)
  BY DEF IInv, TokenInv
<1>1. CASE UNCHANGED vars
  BY <1>1, Unseen DEF vars, registry, params, batch, history, Leaving
<1>2. CASE RequestFails \/ Callback \/ CollectNotifications
  BY <1>2, Unseen DEF RequestFails, Callback, CollectNotifications, registry, params, batch,
     history, Leaving
<1>3. CASE Start \/ Finish
  BY <1>3, <1>0, StartMaps, FinishMaps DEF Promise!Next
<1>4. CASE \E n \in 0 .. Len(log) : Respond(n)
  BY <1>4, RespondMaps DEF Promise!Next
<1>5. CASE \E c \in todo : CallEventHandlers(c)
  <2>1. PICK c \in todo : CallEventHandlers(c)
    BY <1>5
  <2>2. \A p \in running' : p[2] \in handlers
    BY <2>1 DEF CallEventHandlers, GetHandlers
  <2>3. Leaving = {} /\ Leaving' = {}
    BY <2>1, <2>2 DEF Leaving, CallEventHandlers, registry
  <2>4. QED
    BY <2>1, <2>3, Unseen DEF CallEventHandlers, registry, params, history
<1>6. CASE \E c \in todo : DeserializeFails(c)
  BY <1>6, FailMaps DEF Promise!Next
<1>7. CASE \E p \in running : RunHandler(p[1], p[2])
  <2>1. PICK p \in running : RunHandler(p[1], p[2])
    BY <1>7
  <2>2. Promise!Tell(p[1], p[2]) /\ p[1] \in 1 .. Len(log) /\ p[2] \in AllListeners
    BY <2>1, ToldMaps DEF RunHandler, registry
  <2>3. QED
    BY <2>2 DEF Promise!Next
<1>8. CASE \E p \in running : RunAndRemove(p[1], p[2])
  <2>1. PICK p \in running : RunAndRemove(p[1], p[2])
    BY <1>8
  <2>2. Promise!Tell(p[1], p[2]) /\ p[1] \in 1 .. Len(log) /\ p[2] \in AllListeners
    BY <2>1, RunAndRemoveMaps
  <2>3. QED
    BY <2>2 DEF Promise!Next
<1>9. CASE \E f \in notices : RunNotice(f)
  BY <1>9, NoticeMaps DEF Promise!Next
<1>10. CASE Program
  BY <1>10, ProgramMaps DEF Promise!Next
<1>11. QED
  BY <1>1, <1>2, <1>3, <1>4, <1>5, <1>6, <1>7, <1>8, <1>9, <1>10 DEF Next, Handle

\* The loop keeps what Delivery promises: within an attempt no listener is told
\* twice of an event, the token never passes an event that a listener wanted
\* and was not told of unless handling failed before, and a handler that was
\* removed is called once more at most, whatever is registered and removed
\* while a response is handled (matrix/mod.rs, matrix/sync.rs,
\* matrix/event_handler/mod.rs).
THEOREM Implements == Spec => Delivers
<1>1. Init /\ IInv => Promise!Init
  BY InitMaps
<1>2. IInv /\ [Next]_vars => [Promise!Next]_(Promise!vars)
  BY NextMaps
<1>3. QED
  BY <1>1, <1>2, InitInv, Invariance, PTL DEF Spec, Delivers, Promise!Spec

----------------------------------------------------------------------------
(* Handlers that remove themselves.                                         *)

AskedInv == AskedAreGone /\ \A i \in asked : i < counter

LEMMA AskedNext == IInv /\ PlaceInv /\ AskedInv /\ [Next]_vars => AskedInv'
<1> SUFFICES ASSUME IInv, PlaceInv, AskedInv, [Next]_vars PROVE AskedInv'
  OBVIOUS
<1> USE DEF AskedInv, AskedAreGone, registry, params, batch, history
<1>0. /\ counter \in Nat /\ \A h \in handlers : h.id \in Nat /\ h.id < counter
      /\ handlers \subseteq Handlers
      /\ \A p \in running : p[2].id \in Nat /\ p[2].id < counter
  BY HandlerFacts DEF IInv, RegistryInv, RegistryTypeOK
<1>1. CASE UNCHANGED <<handlers, counter, log, asked>>
  BY <1>1
<1>2. CASE \E p \in running : RunAndRemove(p[1], p[2])
  <2>1. PICK p \in running : RunAndRemove(p[1], p[2])
    BY <1>2
  <2> DEFINE n == p[1]
             h == p[2]
  <2>2. n \in 1 .. Len(log) /\ h \in Handlers /\ Wants(h, log[n])
    <3>1. p \in (after + 1 .. stored) \X Handlers /\ Wants(h, log[n])
      BY DEF IInv, TodoInv, Due
    <3>2. after + 1 .. stored \subseteq 1 .. Len(log)
      BY DEF IInv, TokenInv
    <3>3. QED
      BY <3>1, <3>2
  <2>3. /\ handlers' = Removed(GivenHandle(h, log[n].room))
        /\ asked' = asked \cup {h.id} /\ UNCHANGED <<counter, log>>
    BY <2>1 DEF RunAndRemove, RemoveEventHandler, runUnchanged
  <2>4. handlers' \subseteq handlers
    BY <2>3 DEF Removed
  <2>5. ASSUME NEW g \in handlers', g.id = h.id
        PROVE  g.key.room = NoRoom /\ log[n].room # NoRoom /\ Wants(g, log[n])
    <3>1. g = h
      BY <2>4, <2>5 DEF IInv, RegistryInv
    <3>2. h.key.room # log[n].room
      <4>1. h \in handlers /\ h \in Removed(GivenHandle(h, log[n].room))
        BY <2>3, <2>4, <2>5, <3>1
      <4>2. h.key \in Keys
        BY <2>2, RegistrationsAssumption DEF Handlers
      <4>3. SUFFICES ASSUME h.key.room = log[n].room PROVE GivenHandle(h, log[n].room) = [id |-> h.id, key |-> h.key]
        BY <4>1 DEF Removed
      <4>4. QED
        BY <4>2, <4>3 DEF GivenHandle, Keys
    <3>3. h.key.room \in {NoRoom, log[n].room}
      <4>1. log[n] \in Event
        BY <2>2, LogFacts DEF IInv
      <4>2. Matches(h, h.key.kind, log[n].type, log[n].room)
        BY <2>2, <4>1, HandlerFacts DEF Wants, Matches
      <4>3. QED
        BY <4>2 DEF Matches
    <3>4. QED
      BY <2>2, <3>1, <3>2, <3>3
  <2>6. AskedAreGone'
    <3>1. ASSUME NEW g \in handlers', g.id \in asked
          PROVE  g.key.room = NoRoom
                 /\ \E m \in 1 .. Len(log) : log[m].room # NoRoom /\ Wants(g, log[m])
      BY <3>1, <2>4
    <3>2. log' = log /\ \A i \in asked' : i \in asked \/ i = h.id
      BY <2>3
    <3>3. SUFFICES ASSUME NEW g \in handlers', g.id \in asked'
                   PROVE  g.key.room = NoRoom
                          /\ \E m \in 1 .. Len(log) : log[m].room # NoRoom /\ Wants(g, log[m])
      BY <3>2
    <3>4. CASE g.id = h.id
      <4>1. g.key.room = NoRoom /\ log[n].room # NoRoom /\ Wants(g, log[n])
        BY <2>5, <3>4
      <4>2. QED
        BY <2>2, <4>1
    <3>5. QED
      BY <3>1, <3>2, <3>3, <3>4
  <2>7. \A i \in asked' : i < counter'
    <3>1. h.id < counter
      BY <2>1, <1>0
    <3>2. QED
      BY <2>3, <3>1
  <2>8. QED
    BY <2>6, <2>7
<1>3. CASE Program
  <2>1. UNCHANGED <<log, asked>>
    BY <1>3 DEF Program
  <2>2. CASE \E key \in Registrations : AddEventHandler(key)
    <3>1. PICK key \in Registrations : AddEventHandler(key)
      BY <2>2
    <3>2. \A h \in handlers' : h \in handlers \/ h.id = counter
      BY <3>1 DEF AddEventHandler
    <3>3. counter \notin asked /\ \A i \in asked : i < counter'
      <4>1. counter' = counter + 1 /\ counter \in Nat
        BY <3>1, <1>0 DEF AddEventHandler
      <4>2. \A i \in asked : i \in Nat /\ i < counter
        BY DEF PlaceInv
      <4>3. QED
        BY <4>1, <4>2
    <3>4. QED
      BY <2>1, <3>2, <3>3
  <2>3. CASE \E h \in handlers : RemoveEventHandler(h)
    BY <2>1, <2>3 DEF RemoveEventHandler, Removed
  <2>4. CASE AddContext \/ RegisterNotificationHandler
    BY <2>1, <2>4, <1>1 DEF AddContext, RegisterNotificationHandler
  <2>5. QED
    BY <1>3, <2>2, <2>3, <2>4 DEF Program, RegistryNext
<1>4. CASE UNCHANGED vars \/ Start \/ RequestFails \/ Callback
  BY <1>1, <1>4 DEF vars, Start, RequestFails, Callback
<1>5. CASE \E n \in 0 .. Len(log) : Respond(n)
  BY <1>1, <1>5 DEF Respond
<1>6. CASE Handle /\ ~ \E p \in running : RunAndRemove(p[1], p[2])
  BY <1>1, <1>6 DEF Handle, CallEventHandlers, DeserializeFails, RunHandler, runUnchanged,
     CollectNotifications, RunNotice, Finish
<1>7. QED
  BY <1>2, <1>3, <1>4, <1>5, <1>6 DEF Next

\* A handler that was registered for the place of the event it is called with
\* and removes itself with the handle it is given is registered no more, and
\* its id names no other handler later (matrix/event_handler/maps.rs).
THEOREM SelfRemoval == Spec => []AskedAreGone
<1>1. Init => AskedInv
  BY DEF Init, RegistryInit, AskedInv, AskedAreGone
<1>2. IInv /\ PlaceInv /\ AskedInv /\ [Next]_vars => AskedInv'
  BY AskedNext
<1>3. AskedInv => AskedAreGone
  BY DEF AskedInv
<1>4. QED
  BY <1>1, <1>2, <1>3, Invariance, PlaceInvariance, PTL DEF Spec

----------------------------------------------------------------------------
(* The order of a response.                                                 *)

\* Of one room, what comes first of a response is not ephemeral if something
\* of the timeline is still to come.
LEMMA TimelineFirst ==
  ASSUME LogInv, NEW c \in todo, First(c), NEW d \in todo,
         log[c.ev] \in Event, log[d.ev] \in Event,
         log[c.ev].section = "EphemeralRoomData", log[d.ev].section = "Timeline"
  PROVE  log[d.ev].room # log[c.ev].room
<1> SUFFICES ASSUME log[d.ev].room = log[c.ev].room PROVE FALSE
  OBVIOUS
<1> DEFINE room == log[c.ev].room
           rc == Rank(c)
           rd == Rank(d)
<1>1. room \in Nat /\ ListRank(room) \in Nat
  BY RoomsAssumption DEF Event, NoRoom, ListRank
<1>2. /\ Len(rc) = 6
      /\ rc[1] = ListRank(room) /\ rc[2] = room /\ rc[3] = 7
      /\ rd[1] = ListRank(room) /\ rd[2] = room /\ rd[3] = 6
  BY DEF Rank, SectionRank
<1>3. Before(rc, rd)
  BY DEF First
<1>4. PICK i \in 1 .. Len(rc) : rc[i] < rd[i] /\ \A j \in 1 .. i - 1 : rc[j] = rd[j]
  BY <1>3 DEF Before
<1> HIDE DEF rc, rd
<1>5. i \notin {1, 2, 3}
  BY <1>1, <1>2, <1>4
<1>6. 3 \in 1 .. i - 1
  BY <1>2, <1>5
<1>7. QED
  BY <1>2, <1>4, <1>6

LEMMA EphemeralNext == IInv /\ EphemeralLast /\ [Next]_vars => EphemeralLast'
<1> SUFFICES ASSUME IInv, EphemeralLast, [Next]_vars PROVE EphemeralLast'
  OBVIOUS
<1>1. CASE log' = log /\ running' \subseteq running /\ todo' \subseteq todo
  BY <1>1 DEF EphemeralLast
<1>2. CASE running' = {}
  BY <1>2 DEF EphemeralLast
<1>3. ASSUME NEW c \in todo, CallEventHandlers(c) PROVE EphemeralLast'
  <2>1. todo' \subseteq todo /\ log' = log /\ First(c) /\ \A p \in running' : p[1] = c.ev
    BY <1>3 DEF CallEventHandlers, params
  <2>2. \A d \in todo : log[d.ev] \in Event
    <3>1. \A d \in todo : d.ev \in after + 1 .. stored
      BY DEF IInv, TodoInv, Calls
    <3>2. after + 1 .. stored \subseteq 1 .. Len(log)
      BY DEF IInv, TokenInv
    <3>3. QED
      BY <3>1, <3>2, LogFacts DEF IInv
  <2>3. LogInv
    BY DEF IInv
  <2>4. ASSUME NEW p \in running', NEW d \in todo',
               log'[p[1]].section = "EphemeralRoomData", log'[d.ev].section = "Timeline"
        PROVE  log'[d.ev].room # log'[p[1]].room
    BY <2>1, <2>2, <2>3, <2>4, TimelineFirst
  <2>5. QED
    BY <2>4 DEF EphemeralLast
<1>4. CASE \E n \in 0 .. Len(log) : Respond(n)
  BY <1>2, <1>4 DEF Respond, IInv, TokenInv, Busy
<1>5. CASE Start \/ RequestFails \/ Callback \/ Program \/ UNCHANGED vars
  BY <1>1, <1>5 DEF Start, RequestFails, Callback, Program, vars, params, batch
<1>6. CASE Handle /\ ~ \E c \in todo : CallEventHandlers(c)
  <2>1. CASE \E c \in todo : DeserializeFails(c)
    BY <1>1, <2>1 DEF DeserializeFails, params
  <2>2. CASE \E p \in running : RunHandler(p[1], p[2]) \/ RunAndRemove(p[1], p[2])
    BY <1>1, <2>2 DEF RunHandler, RunAndRemove, Told, runUnchanged, params
  <2>3. CASE CollectNotifications \/ Finish \/ \E f \in notices : RunNotice(f)
    BY <1>1, <2>3 DEF CollectNotifications, Finish, RunNotice, params, batch
  <2>4. QED
    BY <1>6, <2>1, <2>2, <2>3 DEF Handle
<1>7. QED
  BY <1>3, <1>4, <1>5, <1>6 DEF Next

\* Of one response the handlers of a room's timeline are done before those of
\* its ephemeral events begin, as sync.rs promises for read receipts.
THEOREM ReceiptsAfterMessages == Spec => []EphemeralLast
<1>1. Init => EphemeralLast
  BY DEF Init, EphemeralLast
<1>2. QED
  BY <1>1, EphemeralNext, Invariance, PTL DEF Spec
==============================================================================
