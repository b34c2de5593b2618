------------------------------ MODULE TaskSleep ------------------------------
(***************************************************************************)
(* task_sleep (lib.rs): a sleep in slices of at most a second, which ends  *)
(* early once CANCELED is set, by on_stop of some user or by Ctrl-C in any *)
(* such sleep.  The rest of the time is a difference of durations, taken   *)
(* some time after it was found to be positive.                            *)
(***************************************************************************)
EXTENDS Naturals

CONSTANTS
  SleepTicks, \* the clock's ticks in a second
  MaxSleep,   \* ticks one sleeps
  MaxLate     \* ticks a sleep may last longer

ASSUME SleepAssumption ==
  SleepTicks \in Nat \ {0} /\ MaxSleep \in Nat /\ MaxLate \in Nat

VARIABLES
  sleeper,     \* where task_sleep is; "awake" outside
  delay,       \* its arguments
  allowCancel,
  elapsed,     \* ticks since it was called
  slice,       \* ticks left of the slice that is slept
  CANCELED,
  slices,      \* history: slices begun in this sleep
  inVain,      \* history: those of them that CANCELED did not prevent
  interrupted  \* history: whether Ctrl-C ended one of them

sleepVars == <<sleeper, delay, allowCancel, elapsed, slice, CANCELED,
               slices, inVain, interrupted>>

TaskSleep(d, allow) ==
  /\ sleeper = "awake"
  /\ sleeper' = "while"
  /\ delay' = d /\ allowCancel' = allow
  /\ elapsed' = 0 /\ slices' = 0 /\ inVain' = 0 /\ interrupted' = FALSE
  /\ UNCHANGED <<slice, CANCELED>>

CheckElapsed ==
  /\ sleeper = "while"
  /\ sleeper' = IF elapsed >= delay THEN "slept"
                ELSE IF allowCancel THEN "read" ELSE "subtract"
  /\ UNCHANGED <<delay, allowCancel, elapsed, slice, CANCELED, slices, inVain, interrupted>>

ReadCanceled_Once ==
  /\ sleeper = "read"
  /\ sleeper' = IF CANCELED /\ slices = 0 THEN "canceled" ELSE "subtract"
  /\ UNCHANGED <<delay, allowCancel, elapsed, slice, CANCELED, slices, inVain, interrupted>>

ReadCanceled ==
  /\ sleeper = "read"
  /\ sleeper' = IF CANCELED THEN "canceled" ELSE "subtract"
  /\ UNCHANGED <<delay, allowCancel, elapsed, slice, CANCELED, slices, inVain, interrupted>>

\* A negative duration panics.
Subtract ==
  /\ sleeper = "subtract"
  /\ IF elapsed > delay
     THEN sleeper' = "panicked" /\ UNCHANGED <<slice, slices, inVain>>
     ELSE /\ sleeper' = "sleeping"
          /\ slice' = IF delay - elapsed < SleepTicks THEN delay - elapsed ELSE SleepTicks
          /\ slices' = slices + 1
          /\ inVain' = IF CANCELED THEN inVain + 1 ELSE inVain
  /\ UNCHANGED <<delay, allowCancel, elapsed, CANCELED, interrupted>>

SliceEnds ==
  /\ sleeper = "sleeping" /\ slice = 0
  /\ sleeper' = "while"
  /\ UNCHANGED <<delay, allowCancel, elapsed, slice, CANCELED, slices, inVain, interrupted>>

CtrlC ==
  /\ sleeper = "sleeping" /\ slices <= MaxSleep
  /\ sleeper' = "while"
  /\ slice' = 0
  /\ CANCELED' = TRUE
  /\ interrupted' = TRUE
  /\ UNCHANGED <<delay, allowCancel, elapsed, slices, inVain>>

\* on_stop, or Ctrl-C in another sleep.
Cancel ==
  /\ ~CANCELED
  /\ CANCELED' = TRUE
  /\ UNCHANGED <<sleeper, delay, allowCancel, elapsed, slice, slices, inVain, interrupted>>

ClockTicks ==
  /\ sleeper \in {"while", "read", "subtract", "sleeping"} /\ elapsed < delay + MaxLate
  /\ elapsed' = elapsed + 1
  /\ slice' = IF slice = 0 THEN 0 ELSE slice - 1
  /\ UNCHANGED <<sleeper, delay, allowCancel, CANCELED, slices, inVain, interrupted>>

WakeUp ==
  /\ sleeper \in {"slept", "canceled"}
  /\ sleeper' = "awake"
  /\ UNCHANGED <<delay, allowCancel, elapsed, slice, CANCELED, slices, inVain, interrupted>>

SleepInit ==
  /\ sleeper = "awake"
  /\ delay = 0 /\ allowCancel = FALSE /\ elapsed = 0 /\ slice = 0
  /\ CANCELED = FALSE
  /\ slices = 0 /\ inVain = 0 /\ interrupted = FALSE

SleepNext ==
  \/ \E d \in 0 .. MaxSleep, allow \in BOOLEAN : TaskSleep(d, allow)
  \/ CheckElapsed \/ ReadCanceled \/ Subtract \/ SliceEnds \/ CtrlC
  \/ Cancel \/ ClockTicks \/ WakeUp

SleepSpec == SleepInit /\ [][SleepNext]_sleepVars

----------------------------------------------------------------------------
SleepTypeOK ==
  /\ sleeper \in {"awake", "while", "read", "subtract", "sleeping",
                  "slept", "canceled", "panicked"}
  /\ delay \in 0 .. MaxSleep /\ elapsed \in 0 .. MaxSleep + MaxLate
  /\ slice \in 0 .. SleepTicks /\ slices \in Nat /\ inVain \in 0 .. slices
  /\ allowCancel \in BOOLEAN /\ CANCELED \in BOOLEAN /\ interrupted \in BOOLEAN

\* A sleep that is not cut short lasts as long as it should and wakes once a
\* second and at its end; one that may be canceled begins at most one slice
\* after that; and the subtraction is only too late where the sleep is over.
SleepsAreKept ==
  /\ sleeper = "slept" => elapsed >= delay
  /\ sleeper = "panicked" => elapsed > delay
  /\ ~interrupted => (slices - 1) * SleepTicks < delay \/ slices = 0
  /\ allowCancel => inVain <= 1
==============================================================================
