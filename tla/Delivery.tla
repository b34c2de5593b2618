------------------------------ MODULE Delivery ------------------------------
(***************************************************************************)
(* What a client that syncs promises those who listen for events.          *)
(*                                                                         *)
(* The server's events are asked for in attempts.  In an attempt a         *)
(* listener is told of an event at most once, and only of events it wants  *)
(* and can read.  An attempt is confirmed when everyone who could listen   *)
(* from its start and still does was told of all the events it wants and   *)
(* can read; then no event of the attempt is asked for again, not even for *)
(* those who could not read it.  Only after an attempt has failed may      *)
(* events be given up that someone could read and was not told of.  Who    *)
(* stops listening is told of one more event at most.                      *)
(***************************************************************************)
EXTENDS Naturals, Sequences

CONSTANTS
  Listener,       \* all there may ever be
  Wants(_, _),    \* whether a listener wants an event
  CanRead(_, _),  \* and whether it could make something of it
  NeedsCtx(_)     \* whether it can be told only when there is a context

VARIABLES
  log,        \* the server's events
  listeners,  \* who listens
  able,       \* whether there is a context
  confirmed,  \* the events up to this one will not be asked for again
  steady,     \* could listen when the attempt began, and still listens
  leaving,    \* have stopped, and may yet be told of one event
  told,       \* <<n, l>>: listener l was told of event n in this attempt
  failed      \* an attempt has failed since the last was confirmed

vars == <<log, listeners, able, confirmed, steady, leaving, told, failed>>

Init ==
  /\ listeners = {} /\ able = FALSE
  /\ confirmed = 0
  /\ steady = {} /\ leaving = {} /\ told = {}
  /\ failed = FALSE

Listen(l) ==
  /\ l \notin leaving
  /\ listeners' = listeners \cup {l}
  /\ UNCHANGED <<log, able, confirmed, steady, leaving, told, failed>>

Stop(l) ==
  /\ listeners' = listeners \ {l}
  /\ steady' = steady \ {l}
  /\ leaving' \in {leaving, leaving \cup {l}}
  /\ UNCHANGED <<log, able, confirmed, told, failed>>

Enable ==
  /\ able' = TRUE
  /\ UNCHANGED <<log, listeners, confirmed, steady, leaving, told, failed>>

Begin ==
  /\ told' = {}
  /\ steady' = { l \in listeners : NeedsCtx(l) => able }
  /\ leaving' = {}
  /\ UNCHANGED <<log, listeners, able, confirmed, failed>>

Tell(n, l) ==
  /\ n \in confirmed + 1 .. Len(log)
  /\ Wants(l, log[n]) /\ CanRead(l, log[n])
  /\ NeedsCtx(l) => able
  /\ <<n, l>> \notin told
  /\ told' = told \cup {<<n, l>>}
  /\ l \in listeners \cup leaving
  /\ leaving' = leaving \ {l}
  \* A listener may stop while it is told.
  /\ \/ UNCHANGED <<listeners, steady>>
     \/ listeners' = listeners \ {l} /\ steady' = steady \ {l}
  /\ UNCHANGED <<log, able, confirmed, failed>>

Confirm(n) ==
  /\ n \in confirmed .. Len(log)
  /\ failed \/ \A m \in confirmed + 1 .. n, l \in steady :
                 Wants(l, log[m]) /\ CanRead(l, log[m]) => <<m, l>> \in told
  /\ confirmed' = n
  /\ told' = {} /\ steady' = {} /\ failed' = FALSE
  /\ UNCHANGED <<log, listeners, able, leaving>>

Fail ==
  /\ told' = {} /\ steady' = {} /\ failed' = TRUE
  /\ UNCHANGED <<log, listeners, able, confirmed, leaving>>

Next ==
  \/ \E l \in Listener : Listen(l) \/ Stop(l)
  \/ Enable \/ Begin \/ Fail
  \/ \E n \in 1 .. Len(log), l \in Listener : Tell(n, l)
  \/ \E n \in 0 .. Len(log) : Confirm(n)

Spec == Init /\ [][Next]_vars
============================================================================
