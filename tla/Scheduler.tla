----------------------------- MODULE Scheduler ------------------------------
(***************************************************************************)
(* The scheduler (routes/scheduler.go, and its queries in ctp/ctp.go): a   *)
(* loop that looks for cues whose second of the day has come, and one      *)
(* goroutine per armed cue that looks again and loads it, with one retry.  *)
(*                                                                         *)
(* The clock counts passes of the ticker, PerSecond of them a second, Day  *)
(* seconds a day; every cue is scheduled for each day.  A pass may be late.*)
(* The GO button's flash and the weekday mask are left out; armed cues are *)
(* due (schedules are whole seconds), so the timer and the warm slot of a  *)
(* cue armed ahead of its time do not occur.                               *)
(***************************************************************************)
EXTENDS Integers, FiniteSets

CONSTANTS
  Cues,       \* scheduled cues
  PerSecond,  \* ticks a second
  Day,        \* seconds a day
  Horizon,    \* bound: ticks
  Gap,        \* bound: ticks between two passes
  Times,      \* seconds of the day a cue may be scheduled for
  Notice,     \* ticks ahead of its time that a schedule counts as announced
  Firings,      \* fire goroutines alive at a time
  Ops,        \* what the operator does
  MaxOps,     \* bound: how often
  Faults      \* a load may fail

SchedulerAssumption ==
  /\ PerSecond \in Nat \ {0} /\ Day \in Nat \ {0} /\ Horizon \in Nat /\ Gap \in Nat
  /\ Times \subseteq 0..(Day - 1) /\ Times # {}
  /\ Notice \in Nat /\ MaxOps \in Nat /\ Faults \in BOOLEAN

VARIABLES
  now,        \* the clock, in ticks
  show,       \* Show mode
  sched,      \* [Cues -> [on, at]]: schedule_enabled, schedule_time_ms
  version,    \* CuesheetVersion
  loop,       \* runScheduler's locals
  fired, firedDay,   \* scheduleFired, scheduleFiredDay
  result,     \* last_result of each cue
  transport,  \* what markTransport compares: halts and loads
  pc, reg,    \* [Firings -> label], [Firings -> locals]
  ops,        \* operator's actions so far
  quiet,      \* [Cues -> when its schedule, Show mode or its fire last changed]
  told,       \* the cues armed or failed, with the day they were due on
  aired,      \* the fires that loaded
  since       \* [Firings -> the operator acted in its pause]

sheet == <<show, sched, version>>
keys == <<fired, firedDay>>
fires == <<pc, reg>>
history == <<quiet, told, aired, since>>
vars == <<now, sheet, loop, keys, result, transport, fires, ops, history>>

Never == -1
NoRegs == [cue |-> "none", day |-> 0, at |-> 0, attempt |-> 1, mark |-> 0]

Second(t) == (t \div PerSecond) % Day
DayOf(t) == t \div (PerSecond * Day)
At(s, d) == (d * Day + s) * PerSecond

Init ==
  /\ now = 0 /\ show = TRUE
  /\ sched \in [Cues -> [on : BOOLEAN, at : Times]]
  /\ version = 1
  /\ loop = [prev |-> Never, next |-> Never, passed |-> Never, check |-> Never,
             showWas |-> FALSE, version |-> 0]
  /\ fired = {} /\ firedDay = Never
  /\ result = [c \in Cues |-> "none"]
  /\ transport = 0
  /\ pc = [f \in Firings |-> "idle"] /\ reg = [f \in Firings |-> NoRegs]
  /\ ops = 0
  /\ quiet = [c \in Cues |-> 0] /\ told = {} /\ aired = {}
  /\ since = [f \in Firings |-> FALSE]

-----------------------------------------------------------------------------
\* NextSchedule: the first time strictly ahead, today or tomorrow.
NextSchedule ==
  LET ahead == {At(sched[c].at, d) : c \in {c \in Cues : sched[c].on},
                                     d \in {DayOf(now), DayOf(now) + 1}} \ (0..now)
  IN IF ahead = {} THEN Never ELSE CHOOSE t \in ahead : \A u \in ahead : t <= u

\* GetScheduledCuesSince: the enabled cues due after from, up to t, in whole
\* seconds; from is clamped to t's day, and one second is always looked at.
DueSince(from, t) ==
  LET first == IF from < 0 \/ DayOf(from) # DayOf(t) THEN -1 ELSE Second(from)
      after == IF first > Second(t) - 1 THEN Second(t) - 1 ELSE first
  IN {c \in Cues : sched[c].on /\ after < sched[c].at /\ sched[c].at <= Second(t)}

\* Mutant of Due: what fell due since the last pass still fires.
DueLate(t) == DueSince(loop.prev - PerSecond, t)

\* schedulerTick's window.
Due(t) == DueSince(t - PerSecond, t)

\* The refresh, once a second and when Show mode comes on: the next time
\* ahead, and the last one the clock reached.
Refreshed(l) ==
  LET check == IF show /\ ~l.showWas THEN Never ELSE l.check
  IN IF check # Never /\ now - check < PerSecond THEN l
     ELSE [l EXCEPT !.check = now,
                    !.passed = IF l.next # Never /\ l.next <= now THEN l.next ELSE @,
                    !.next = IF show THEN NextSchedule ELSE Never]

\* Two seconds ahead of a scheduled time to one and a half behind it.
Near(l) ==
  \/ l.next # Never /\ now > l.next - 2 * PerSecond
  \/ l.passed # Never /\ 2 * (now - l.passed) < 3 * PerSecond

\* The loop itself was held up for more than a second.
Stalled(l) == l.showWas /\ l.prev # Never /\ now - l.prev > PerSecond

Ticks(l) == Stalled(l) \/ Near(l) \/ ~l.showWas \/ version # l.version

\* scheduleFired, emptied when the day has changed.
FiredToday == IF firedDay = DayOf(now) THEN fired ELSE {}

\* schedulerStalled: what fell due in the gap and is not decided.
Missed(l) ==
  IF Stalled(l)
  THEN {c \in DueSince(l.prev - PerSecond, now - PerSecond) :
          <<c, DayOf(now)>> \notin FiredToday}
  ELSE {}

\* One pass of runScheduler.  What the gap made late has failed; what is due
\* now is armed, once per cue and day.
Pass ==
  /\ now > loop.prev
  /\ LET l == Refreshed(loop)
         missed == IF show THEN Missed(l) ELSE {}
         key(c) == <<c, DayOf(now)>>
         due == IF show /\ Ticks(l) THEN Due(now) ELSE {}
         armed == {c \in due \ missed : key(c) \notin FiredToday}
     IN /\ loop' = [l EXCEPT !.prev = now, !.showWas = show,
                             !.version = IF show THEN version ELSE @]
        /\ IF show /\ Ticks(l)
           THEN /\ fired' = FiredToday \cup {key(c) : c \in missed \cup armed}
                /\ firedDay' = DayOf(now)
           ELSE UNCHANGED keys
        /\ result' = [c \in Cues |-> IF c \in missed THEN "error" ELSE result[c]]
        /\ told' = told \cup {<<c, DayOf(now - PerSecond)>> : c \in missed}
                        \cup {key(c) : c \in armed}
        /\ \E worker \in [armed -> Firings] :
             /\ \A c, d \in armed : c # d => worker[c] # worker[d]
             /\ \A c \in armed : pc[worker[c]] = "idle"
             /\ pc' = [f \in Firings |->
                         IF \E c \in armed : worker[c] = f THEN "validate" ELSE pc[f]]
             /\ reg' = [f \in Firings |->
                          IF \E c \in armed : worker[c] = f
                          THEN LET c == CHOOSE c \in armed : worker[c] = f
                               IN [NoRegs EXCEPT !.cue = c, !.day = DayOf(now),
                                                 !.at = sched[c].at]
                          ELSE reg[f]]
        /\ quiet' = [c \in Cues |-> IF c \in missed THEN now ELSE quiet[c]]
  /\ UNCHANGED <<now, sheet, transport, ops, aired, since>>

\* Time passes; a pass is never later than Gap.
Clock ==
  /\ now < Horizon /\ now - loop.prev < Gap
  /\ now' = now + 1
  /\ UNCHANGED <<sheet, loop, keys, result, transport, fires, ops, history>>

-----------------------------------------------------------------------------
Goto(f, l) == pc' = [pc EXCEPT ![f] = l]

\* (The fire has ended: its cue is quiet from here.)
Finish(f) ==
  /\ Goto(f, "idle") /\ reg' = [reg EXCEPT ![f] = NoRegs]
  /\ quiet' = [quiet EXCEPT ![reg[f].cue] = now]
  /\ since' = [since EXCEPT ![f] = FALSE]

\* Show mode and the schedule are as they were armed.
Valid(f) == LET s == sched[reg[f].cue] IN show /\ s.on /\ s.at = reg[f].at

\* fireScheduledAttempt: the cue is read again ...
Validate(f) ==
  /\ pc[f] = "validate"
  /\ Goto(f, IF Valid(f) THEN "load" ELSE "forget")
  /\ UNCHANGED <<now, sheet, loop, keys, result, transport, reg, ops, history>>

\* ... and one that was disarmed may be armed again today.
Forget(f) ==
  /\ pc[f] = "forget"
  /\ fired' = fired \ {<<reg[f].cue, reg[f].day>>}
  /\ Finish(f)
  /\ UNCHANGED <<now, sheet, loop, firedDay, result, transport, ops, told, aired>>

\* The cue is loaded, tagged and played.
Load(f) ==
  /\ pc[f] = "load"
  /\ transport' = transport + 1
  /\ result' = [result EXCEPT ![reg[f].cue] = "ok"]
  /\ aired' = aired \cup {<<reg[f].cue, reg[f].day, reg[f].at>>}
  /\ Finish(f)
  /\ UNCHANGED <<now, sheet, loop, keys, ops, told>>

\* A load fails: one retry, with a mark of the transport; the second failure
\* is final.
LoadFails(f) ==
  /\ pc[f] = "load" /\ Faults
  /\ result' = [result EXCEPT ![reg[f].cue] = "error"]
  /\ IF reg[f].attempt = 1
     THEN /\ reg' = [reg EXCEPT ![f].mark = transport]
          /\ Goto(f, "pause") /\ UNCHANGED <<quiet, since>>
     ELSE Finish(f)
  /\ UNCHANGED <<now, sheet, loop, keys, transport, ops, told, aired>>

Unmarked(f) == transport = reg[f].mark

\* retryScheduled: an operator who acted meanwhile wins.
Retry(f) ==
  /\ pc[f] = "pause"
  /\ IF Unmarked(f)
     THEN /\ reg' = [reg EXCEPT ![f].attempt = 2]
          /\ Goto(f, "validate") /\ UNCHANGED <<result, quiet, since>>
     ELSE result' = [result EXCEPT ![reg[f].cue] = "error"] /\ Finish(f)
  /\ UNCHANGED <<now, sheet, loop, keys, transport, ops, told, aired>>

-----------------------------------------------------------------------------
Operator(act) == act \in Ops /\ ops < MaxOps /\ ops' = ops + 1

\* A schedule is set, moved or disabled: disabling keeps the time.
SetCueSchedule(c, on, at) ==
  /\ Operator("edit")
  /\ sched' = [sched EXCEPT ![c] = IF on THEN [on |-> TRUE, at |-> at] ELSE [@ EXCEPT !.on = FALSE]]
  /\ sched' # sched
  /\ version' = version + 1
  /\ quiet' = [quiet EXCEPT ![c] = now]
  /\ UNCHANGED <<now, show, loop, keys, result, transport, fires, told, aired, since>>

SetShowMode ==
  /\ Operator("show")
  /\ show' = ~show /\ version' = version + 1
  /\ quiet' = [c \in Cues |-> now]
  /\ UNCHANGED <<now, sched, loop, keys, result, transport, fires, told, aired, since>>

\* A cue is fired, or Stop or Panic pressed.
Act ==
  /\ Operator("act")
  /\ transport' = transport + 1
  /\ since' = [f \in Firings |-> since[f] \/ pc[f] = "pause"]
  /\ UNCHANGED <<now, sheet, loop, keys, result, fires, quiet, told, aired>>

Fire(f) == Validate(f) \/ Forget(f) \/ Load(f) \/ LoadFails(f) \/ Retry(f)

Next ==
  \/ Clock \/ Pass
  \/ \E f \in Firings : Fire(f)
  \/ \E c \in Cues, on \in BOOLEAN, at \in Times : SetCueSchedule(c, on, at)
  \/ SetShowMode \/ Act

\* Fire goroutines run on.
Spec == Init /\ [][Next]_vars /\ \A f \in Firings : WF_vars(Fire(f))

-----------------------------------------------------------------------------
Ticker == {Never} \cup 0..(Horizon + PerSecond * Day * 2)

TypeOK ==
  /\ now \in 0..Horizon /\ show \in BOOLEAN /\ version \in Nat
  /\ sched \in [Cues -> [on : BOOLEAN, at : Times]]
  /\ loop \in [prev : Ticker, next : Ticker, passed : Ticker, check : Ticker,
               showWas : BOOLEAN, version : Nat]
  /\ firedDay \in Ticker /\ fired \subseteq Cues \X {firedDay}
  /\ result \in [Cues -> {"none", "ok", "error"}]
  /\ transport \in Nat /\ ops \in 0..MaxOps
  /\ pc \in [Firings -> {"idle", "validate", "forget", "load", "pause"}]
  /\ reg \in [Firings -> [cue : Cues \cup {"none"}, day : Nat, at : Times \cup {0},
                        attempt : {1, 2}, mark : Nat]]
  /\ quiet \in [Cues -> Nat] /\ since \in [Firings -> BOOLEAN]

\* No second is missed: a cue whose second passed while its schedule stood,
\* Show mode was on and no fire of it was under way was armed or told failed.
Decided ==
  \A c \in Cues :
    LET d == DayOf(loop.prev)
        due == At(sched[c].at, d)
    IN /\ loop.prev # Never /\ show /\ sched[c].on
       /\ quiet[c] + Notice <= due /\ due + PerSecond <= loop.prev
       /\ \A f \in Firings : reg[f].cue # c
       => <<c, d>> \in told

\* A cue fires at most once for a day and a time.
OnceADay ==
  [][\A f \in Firings : Load(f) => <<reg[f].cue, reg[f].day, reg[f].at>> \notin aired]_vars

\* At most one fire of a cue is under way for a day.
OneFire ==
  \A f, g \in Firings :
    f # g /\ pc[f] # "idle" /\ pc[g] # "idle" /\ reg[f].day = reg[g].day
      => reg[f].cue # reg[g].cue

\* A retry gives way to what the operator did in its pause.
RetryYields == [][\A f \in Firings : Retry(f) /\ since[f] => pc'[f] = "idle"]_vars

=============================================================================
