----------------------------- MODULE SyncPacing -----------------------------
(***************************************************************************)
(* delay_sync (matrix/sync.rs) between the syncs of a loop: the one of     *)
(* bin/chat.rs, sync_with_result_callback and sync_stream.  It takes the   *)
(* time before it pauses and stores that, not the time of the next sync.   *)
(***************************************************************************)
EXTENDS Naturals, Sequences

CONSTANT
  SyncTicks  \* the clock's ticks in a second

ASSUME SyncTicksAssumption == SyncTicks \in Nat \ {0}

\* Ages are counted up to this number of ticks, which is more than a second.
Old == SyncTicks + 1

VARIABLES
  pace,     \* "syncing", "pausing" or "ready" for the next sync
  lastSync, \* the age of last_sync_time; Old where it is not set
  pause,    \* ticks left of the pause
  starts    \* history: the ages of the last three sync starts

pacingVars == <<pace, lastSync, pause, starts>>

StartSync ==
  /\ pace = "ready"
  /\ pace' = "syncing"
  /\ starts' = <<0, starts[1], starts[2]>>
  /\ UNCHANGED <<lastSync, pause>>

DelaySync_TimeInPause ==
  /\ pace = "syncing"
  /\ IF lastSync <= SyncTicks
     THEN pace' = "pausing" /\ pause' = SyncTicks /\ lastSync' = 0
     ELSE pace' = "ready" /\ pause' = 0 /\ UNCHANGED lastSync
  /\ UNCHANGED starts

\* sync_once is over, with a response or an error, and the callback if there
\* is one: delay_sync.
DelaySync ==
  /\ pace = "syncing"
  /\ IF lastSync <= SyncTicks
     THEN pace' = "pausing" /\ pause' = SyncTicks
     ELSE pace' = "ready" /\ pause' = 0
  /\ lastSync' = 0
  /\ UNCHANGED starts

PauseEnds ==
  /\ pace = "pausing" /\ pause = 0
  /\ pace' = "ready"
  /\ UNCHANGED <<lastSync, pause, starts>>

Older(age) == IF age < Old THEN age + 1 ELSE age

Tick ==
  /\ lastSync' = Older(lastSync)
  /\ pause' = IF pause = 0 THEN 0 ELSE pause - 1
  /\ starts' = [i \in 1 .. 3 |-> Older(starts[i])]
  /\ UNCHANGED pace

PacingInit ==
  /\ pace = "ready"
  /\ lastSync = Old /\ pause = 0
  /\ starts = <<Old, Old, Old>>

PacingNext == StartSync \/ DelaySync \/ PauseEnds \/ Tick

PacingSpec == PacingInit /\ [][PacingNext]_pacingVars

----------------------------------------------------------------------------
PacingTypeOK ==
  /\ pace \in {"syncing", "pausing", "ready"}
  /\ lastSync \in 0 .. Old /\ pause \in 0 .. SyncTicks
  /\ starts \in [1 .. 3 -> 0 .. Old]

\* However fast the server answers, a loop does not start three syncs within a
\* second.  (Two it may: the first pause is missing, and a pause makes the next
\* answer seem late.)
SyncsArePaced == starts[1] = 0 => starts[3] >= SyncTicks
==============================================================================
