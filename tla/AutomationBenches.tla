-------------------------- MODULE AutomationBenches --------------------------
(***************************************************************************)
(* What fires cues without a press of GO, explored side by side: the       *)
(* automation of the sheet and the scheduler, whose passes come on time or *)
(* stall.  The two share no variable; "which" is the one that moves, the   *)
(* other rests in an initial state.                                        *)
(***************************************************************************)
EXTENDS Automation, TLC

CONSTANT Firings   \* goroutines that fire a scheduled cue

VARIABLES
  which,
  now, shown, sched, version, loop, fired, firedDay, result, transport,
  at, locals, acts, quiet, told, aired, noted

\* Two ticks a second, days of six seconds, and a pass at every tick or one late.
Clock == INSTANCE Scheduler WITH
  Cues <- {"a"}, PerSecond <- 2, Day <- 6, Horizon <- 16, Gap <- 2, Times <- {0, 4},
  Notice <- 4, Ops <- {"edit", "show", "act"}, MaxOps <- 2, Faults <- TRUE,
  show <- shown, pc <- at, reg <- locals, ops <- acts, since <- noted

\* Passes that come up to five ticks apart, so that a second is slept through.
Stall == INSTANCE Scheduler WITH
  Cues <- {"a"}, PerSecond <- 2, Day <- 6, Horizon <- 11, Gap <- 5, Times <- {2, 3},
  Notice <- 4, Ops <- {"edit", "show", "act"}, MaxOps <- 1, Faults <- TRUE,
  show <- shown, pc <- at, reg <- locals, ops <- acts, since <- noted

ASSUME BenchAssumption == Clock!SchedulerAssumption /\ Stall!SchedulerAssumption

clockVars == <<now, shown, sched, version, loop, fired, firedDay, result, transport,
               at, locals, acts, quiet, told, aired, noted>>

BenchInit ==
  /\ which \in {"sheet", "clock", "stall"}
  /\ Init
  /\ IF which = "stall" THEN Stall!Init
     ELSE Clock!Init /\ (which = "sheet" => sched["a"] = [on |-> TRUE, at |-> 0])

SheetMoves == which = "sheet" /\ Next /\ UNCHANGED <<clockVars, which>>
ClockMoves == which = "clock" /\ Clock!Next /\ UNCHANGED <<vars, which>>
StallMoves == which = "stall" /\ Stall!Next /\ UNCHANGED <<vars, which>>

Benches == BenchInit /\ [][SheetMoves \/ ClockMoves \/ StallMoves]_<<vars, clockVars, which>>

\* Goroutines are interchangeable.
Symm == Permutations(Workers) \cup Permutations(Firings)

-----------------------------------------------------------------------------
\* Every scheduled second that was announced is armed or told failed; a cue airs at most
\* once for a day and a time, and never late; a retry gives way to the operator.
ClockKept ==
  /\ [](which = "clock" => Clock!TypeOK) /\ [](which = "stall" => Stall!TypeOK)
  /\ []Clock!Decided /\ []Clock!OneFire
  /\ Clock!OnceADay /\ Clock!RetryYields
  /\ [][which = "stall" => \A f \in Firings :
          at[f] = "idle" /\ at'[f] = "validate" => locals'[f].at = Stall!Second(now)]_clockVars
=============================================================================
