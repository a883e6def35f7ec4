------------------------------ MODULE Playback ------------------------------
(***************************************************************************)
(* The playback manager (gsp/gsp.go, gsp/voices.go): one focus clip, the   *)
(* voices running beside it, one prewarmed slot, and the counters that     *)
(* later decisions are compared with (gen, halts, loads).                  *)
(*                                                                         *)
(* Requests (HTTP, OSC, QLab, HyperDeck, the chains) call the manager      *)
(* concurrently.  The manager lock is held for short sections only:        *)
(* pipelines are built, change state and are retired outside it, so a call *)
(* is a sequence of steps and each step is one locked section or one       *)
(* GStreamer state change.  pc[t] is where thread t stands; reg[t] holds   *)
(* the locals it carries to the next section.                              *)
(***************************************************************************)
EXTENDS Naturals, FiniteSets

CONSTANTS
  Pipes,      \* pipelines; each build takes one that was never built
  Cues,       \* the cues that can be fired, by sheet position
  Keep,       \* cues with Stop others off (KeepOthers)
  Cross,      \* cues with a fade-stop time (Crossfade > 0)
  Hold,       \* cues that park on their last frame
  Loop,       \* cues that loop; the others play once
  Trim,       \* cues with an out-point
  Count,      \* [Cues -> Nat]: LoopCount, 0 = forever
  Layered,    \* the wall gives each cue its own layer (KMS)
  Requests,   \* threads that call the manager
  Calls,      \* the operations requests make
  Faults,     \* builds, prerolls and streams may fail
  MaxCalls,   \* bound: calls made
  None        \* no pipeline

ASSUME PlaybackAssumption ==
  /\ Keep \cup Cross \cup Hold \cup Loop \cup Trim \subseteq Cues
  /\ Count \in [Cues -> Nat]
  /\ Cues \subseteq Nat \ {0}
  /\ Layered \in BOOLEAN /\ Faults \in BOOLEAN
  /\ Requests \cap {"bus", "trim"} = {}
  /\ None \notin Pipes
  /\ MaxCalls \in Nat

\* The GLib main loop runs every bus watch; watchTrim polls the out-points.
Enders == {"bus", "trim"}
Threads == Requests \cup Enders

VARIABLES
  focus,    \* m.clip: the clip the transport acts on
  voices,   \* m.voices: the other running clips
  warm,     \* m.warm and what it was built for
  gen,      \* m.gen: playback decisions so far
  halts,    \* m.halts: Stop and Panic calls
  loads,    \* m.loads; m.fireSeq moves with it
  gst,      \* [Pipes -> "new" | "null" | "paused" | "playing"]
  at,       \* [Pipes -> "run" | "out" | "end"]: before or past the out-point
  of,       \* [Pipes -> cue the pipeline was built for]
  fade,     \* [Pipes -> stage of its fadeOutgoing goroutine]
  eos,      \* pipelines whose end-of-stream message waits on the bus
  watch,    \* pipelines with a bus watch
  trim,     \* [Pipes -> number of watchTrim goroutines]
  pc,       \* [Threads -> label]
  reg,      \* [Threads -> locals]
  calls,    \* calls made so far
  reports,  \* ends told to the cue-end hook: <<pipeline, position>>
  wish      \* "run" | "stop": the last command, kept for HaltSticks

clipState == <<focus, voices>>
counters == <<gen, halts, loads>>
streams == <<gst, at, eos>>
watchers == <<watch, trim>>
history == <<calls, reports, wish>>
vars == <<clipState, warm, counters, streams, watchers, of, fade, pc, reg, history>>

\* clip{}: nothing loaded.
NoClip == [p |-> None, cue |-> 0, fired |-> 0, remain |-> 0, starting |-> FALSE,
           paused |-> FALSE, held |-> FALSE, fader |-> "none"]

NoWarm == [p |-> None, cue |-> 0]

NoRegs == [op |-> "none", p |-> None, gen |-> 0, cue |-> 0, kill |-> {},
           ret |-> "idle", to |-> "null"]

Init ==
  /\ focus = NoClip
  /\ voices = {}
  /\ warm = NoWarm
  /\ gen = 0 /\ halts = 0 /\ loads = 0
  /\ gst = [p \in Pipes |-> "new"]
  /\ at = [p \in Pipes |-> "run"]
  /\ of = [p \in Pipes |-> 0]
  /\ fade = [p \in Pipes |-> "none"]
  /\ eos = {} /\ watch = {}
  /\ trim = [p \in Pipes |-> 0]
  /\ pc = [t \in Threads |-> "idle"]
  /\ reg = [t \in Threads |-> NoRegs]
  /\ calls = 0
  /\ reports = {}
  /\ wish = "run"

-----------------------------------------------------------------------------
\* clipOfLocked, runningLocked.
Clips == (IF focus.p = None THEN {} ELSE {focus}) \cup voices
Running(p) == p # None /\ \E c \in Clips : c.p = p

\* startCurrentLocked: a start in progress may carry on.
StartCurrent(p, g) == \/ focus.p = p /\ gen = g
                      \/ \E v \in voices : v.p = p

\* Mutant of Newest: the first voice of the list instead of the latest.
Oldest(vs) == IF vs = {} THEN NoClip
              ELSE CHOOSE v \in vs : \A w \in vs : v.fired <= w.fired

\* The most recently fired of some voices (promoteLocked), NoClip of none.
Newest(vs) == IF vs = {} THEN NoClip
              ELSE CHOOSE v \in vs : \A w \in vs : w.fired <= v.fired

Fading == {p \in Pipes : fade[p] = "fading"}

\* Mutant of Slot: retireAll without its nil check.
SlotOrNil == {warm.p}

Slot == {warm.p} \ {None}

Goto(t, l) == pc' = [pc EXCEPT ![t] = l]

\* The thread's call is over; its locals are gone.
Finish(t) == Goto(t, "idle") /\ reg' = [reg EXCEPT ![t] = NoRegs]

Continue(t, l) == IF l = "idle" THEN Finish(t) ELSE Goto(t, l) /\ UNCHANGED reg

\* Retire the pipelines in ps once the lock is released, then go to l.
RetireThen(t, ps, l) ==
  IF ps = {} THEN Continue(t, l)
  ELSE Goto(t, "retire") /\ reg' = [reg EXCEPT ![t].kill = ps, ![t].ret = l]

\* Pipelines in ps go to NULL, which flushes their bus.
Nulled(ps) ==
  /\ gst' = [p \in Pipes |-> IF p \in ps THEN "null" ELSE gst[p]]
  /\ at' = [p \in Pipes |-> IF p \in ps THEN "run" ELSE at[p]]
  /\ eos' = eos \ ps

\* retirePipeline, for every pipeline the thread took out.
Retire(t) ==
  /\ pc[t] = "retire"
  /\ Nulled(reg[t].kill)
  /\ watch' = watch \ reg[t].kill
  /\ IF reg[t].ret = "idle" THEN Finish(t)
     ELSE Goto(t, reg[t].ret) /\ reg' = [reg EXCEPT ![t].kill = {}]
  /\ UNCHANGED <<clipState, warm, counters, trim, of, fade, history>>

\* The state change half of setStateIfCurrent; the pipeline may be retired.
ChangeState(t, from, to, l) ==
  /\ pc[t] = from
  /\ gst' = [gst EXCEPT ![reg[t].p] = to]
  /\ Goto(t, l)
  /\ UNCHANGED <<clipState, warm, counters, at, eos, watchers, of, fade, reg, history>>

\* Mutant of NullIfReplaced: the state is set with no second look.
NoSecondLook(p) == UNCHANGED streams

\* The other half: the loser of a race is sent straight back to NULL.
NullIfReplaced(p) == IF Running(p) THEN UNCHANGED streams ELSE Nulled({p})

Recheck(t, from, l) ==
  /\ pc[t] = from
  /\ NullIfReplaced(reg[t].p)
  /\ Continue(t, l)
  /\ UNCHANGED <<clipState, warm, counters, watchers, of, fade, history>>

\* Mutants of ClearIfCurrent: no voice takes over; no decision is counted.
ClearOnly(t, p, l) ==
  /\ focus' = IF focus.p = p THEN NoClip ELSE focus
  /\ gen' = IF focus.p = p THEN gen + 1 ELSE gen
  /\ voices' = {v \in voices : v.p # p}
  /\ RetireThen(t, IF Running(p) THEN {p} ELSE {}, l)
  /\ UNCHANGED <<warm, halts, loads, streams, watchers, of, fade, history>>

ClearSilently(t, p, l) ==
  /\ focus' = IF focus.p = p THEN Newest(voices) ELSE focus
  /\ voices' = IF focus.p = p THEN voices \ {Newest(voices)} ELSE {v \in voices : v.p # p}
  /\ RetireThen(t, IF Running(p) THEN {p} ELSE {}, l)
  /\ UNCHANGED <<warm, counters, streams, watchers, of, fade, history>>

\* clearIfCurrent: the focus goes and the newest voice takes over, or a voice
\* leaves the stack; a pipeline that runs no more is nobody's business here.
ClearIfCurrent(t, p, l) ==
  /\ IF focus.p = p
     THEN /\ gen' = gen + 1
          /\ focus' = Newest(voices)
          /\ voices' = voices \ {Newest(voices)}
     ELSE /\ voices' = {v \in voices : v.p # p}
          /\ UNCHANGED <<focus, gen>>
  /\ RetireThen(t, IF Running(p) THEN {p} ELSE {}, l)
  /\ UNCHANGED <<warm, halts, loads, streams, watchers, of, fade, history>>

-----------------------------------------------------------------------------
\* A request thread takes up operation op.
Begin(t, op) ==
  /\ op \in Calls /\ t \in Requests
  /\ pc[t] = "idle" /\ calls < MaxCalls
  /\ calls' = calls + 1
  /\ UNCHANGED reports

\* Mutant of Fire: the slot is not emptied when it is claimed.
ClaimKeepsSlot(t, c) ==
  /\ Begin(t, "fire")
  /\ LET hit == warm.cue = c
     IN /\ reg' = [reg EXCEPT ![t] = [NoRegs EXCEPT !.cue = c,
                     !.op = IF hit THEN "warmFire" ELSE "fire",
                     !.p = IF hit THEN warm.p ELSE None]]
        /\ Goto(t, IF hit THEN "wire" ELSE "cold")
  /\ UNCHANGED <<clipState, warm, counters, streams, watchers, of, fade, wish>>

\* loadAndPlayCue, InstallWarm: the warm slot is claimed when it was built for
\* this cue.
Fire(t, c) ==
  /\ Begin(t, "fire")
  /\ LET hit == warm.cue = c
     IN /\ warm' = IF hit THEN NoWarm ELSE warm
        /\ reg' = [reg EXCEPT ![t] = [NoRegs EXCEPT !.cue = c,
                     !.op = IF hit THEN "warmFire" ELSE "fire",
                     !.p = IF hit THEN warm.p ELSE None]]
        /\ Goto(t, IF hit THEN "wire" ELSE "cold")
  /\ UNCHANGED <<clipState, counters, streams, watchers, of, fade, wish>>

\* InstallWarm: the outputs are wired to the prewarmed pipeline, or it is
\* given up for a cold load.
Wire(t) ==
  /\ pc[t] = "wire"
  /\ \/ Goto(t, "install") /\ UNCHANGED reg
     \/ Faults /\ RetireThen(t, {reg[t].p}, "cold")
  /\ UNCHANGED <<clipState, warm, counters, streams, watchers, of, fade, history>>

\* Mutant of Cold: the slot's pipeline is retired and left in the slot.
ColdLeavesSlot(t) ==
  /\ pc[t] = "cold"
  /\ RetireThen(t, Slot, "build")
  /\ UNCHANGED <<clipState, warm, counters, streams, watchers, of, fade, history>>

\* LoadWithOpts, cold: whatever sits in the warm slot goes.
Cold(t) ==
  /\ pc[t] = "cold"
  /\ warm' = NoWarm
  /\ RetireThen(t, Slot, "build")
  /\ UNCHANGED <<clipState, counters, streams, watchers, of, fade, history>>

\* buildPipeline: a fresh pipeline, or an error the caller reports.
Build(t) ==
  /\ pc[t] = "build"
  /\ \/ \E p \in Pipes :
          /\ gst[p] = "new"
          /\ gst' = [gst EXCEPT ![p] = "null"]
          /\ of' = [of EXCEPT ![p] = reg[t].cue]
          /\ reg' = [reg EXCEPT ![t].p = p,
                       ![t].op = IF @ = "warm" THEN @ ELSE "fire"]
          /\ Goto(t, IF reg[t].op = "warm" THEN "park" ELSE "install")
     \/ Faults /\ Finish(t) /\ UNCHANGED <<gst, of>>
  /\ UNCHANGED <<clipState, warm, counters, at, eos, watchers, fade, history>>

\* swap: the new clip becomes the focus.  With KeepOthers the old focus joins
\* the voices; without it every running cue is faded away or retired.
Install(t) ==
  /\ pc[t] = "install"
  /\ LET c == reg[t].cue
         keep == Layered /\ c \in Keep
         old == IF keep THEN {} ELSE {k.p : k \in Clips}
         away == IF Layered /\ c \in Cross THEN old ELSE {}
     IN /\ focus' = [NoClip EXCEPT !.p = reg[t].p, !.cue = c, !.fired = loads + 1,
                                   !.remain = Count[c], !.starting = TRUE]
        /\ voices' = IF keep THEN Clips ELSE {}
        /\ fade' = [p \in Pipes |-> IF p \in away THEN "spawned" ELSE fade[p]]
        /\ RetireThen(t, (old \ away) \cup Slot, "watch")
  /\ warm' = NoWarm
  /\ gen' = gen + 1 /\ loads' = loads + 1
  /\ wish' = "run"
  /\ UNCHANGED <<halts, streams, watchers, of, calls, reports>>

\* watchAndPlay: the bus watch.
AddWatch(t) ==
  /\ pc[t] = "watch"
  /\ watch' = watch \cup {reg[t].p}
  /\ Goto(t, "start")
  /\ UNCHANGED <<clipState, warm, counters, streams, trim, of, fade, reg, history>>

\* What follows a start: the tail of loadAndPlayCue, or nothing.
AfterStart(t) == Continue(t, IF reg[t].op = "play" THEN "idle" ELSE "tag")

\* startPlayback, first section: superseded already, or starting.
Start(t) ==
  /\ pc[t] = "start"
  /\ IF focus.p # reg[t].p
     THEN AfterStart(t) /\ UNCHANGED focus
     ELSE /\ focus' = [focus EXCEPT !.starting = TRUE, !.fader = "none"]
          /\ reg' = [reg EXCEPT ![t].gen = gen]
          /\ Goto(t, "preroll")
  /\ UNCHANGED <<voices, warm, counters, streams, watchers, of, fade, history>>

Preroll(t) == ChangeState(t, "preroll", "paused", "commit")

\* startPlayback after the preroll: superseded, or ready to run.  The clip may
\* have become a voice meanwhile.
Commit(t) ==
  /\ pc[t] = "commit"
  /\ LET p == reg[t].p
         Ready(k) == IF k.p = p THEN [k EXCEPT !.starting = FALSE] ELSE k
     IN IF StartCurrent(p, reg[t].gen)
        THEN /\ focus' = Ready(focus)
             /\ voices' = {Ready(v) : v \in voices}
             /\ Goto(t, "run") /\ UNCHANGED reg
        ELSE AfterStart(t) /\ UNCHANGED clipState
  /\ UNCHANGED <<warm, counters, streams, watchers, of, fade, history>>

\* The preroll or the change to PLAYING failed: the clip goes, and a warm
\* start is tried again cold.
StartFails(t) ==
  /\ Faults
  /\ \/ pc[t] = "commit" /\ StartCurrent(reg[t].p, reg[t].gen)
     \/ pc[t] = "running" /\ Running(reg[t].p)
  /\ ClearIfCurrent(t, reg[t].p, IF reg[t].op = "warmFire" THEN "cold" ELSE "idle")

Run(t) == ChangeState(t, "run", "playing", "running")

\* The end of startPlayback: the recheck, and the out-point watch.
Started(t) ==
  /\ pc[t] = "running"
  /\ LET p == reg[t].p
     IN /\ NullIfReplaced(p)
        /\ trim' = IF Running(p) /\ of[p] \in Trim THEN [trim EXCEPT ![p] = @ + 1]
                   ELSE trim
  /\ AfterStart(t)
  /\ UNCHANGED <<clipState, warm, counters, watch, of, fade, history>>

\* loadAndPlayCue: SetCuePos names the active clip, whichever it is by now.
Tag(t) ==
  /\ pc[t] = "tag"
  /\ focus' = [focus EXCEPT !.cue = reg[t].cue]
  /\ Goto(t, "play")
  /\ UNCHANGED <<voices, warm, counters, streams, watchers, of, fade, reg, history>>

-----------------------------------------------------------------------------
Play(t) ==
  /\ Begin(t, "play")
  /\ Goto(t, "play")
  /\ wish' = "run"
  /\ UNCHANGED <<clipState, warm, counters, streams, watchers, of, fade, reg>>

\* Play: nothing to do without a pipeline or while one is starting.
PlayRead(t) ==
  /\ pc[t] = "play"
  /\ IF focus.p = None \/ focus.starting
     THEN Finish(t)
     ELSE /\ reg' = [reg EXCEPT ![t] = [NoRegs EXCEPT !.p = focus.p, !.op = "play"]]
          /\ Goto(t, "playIntent")
  /\ UNCHANGED <<clipState, warm, counters, streams, watchers, of, fade, history>>

\* The intent is cleared on the clip that has the focus now.
PlayIntent(t) ==
  /\ pc[t] = "playIntent"
  /\ focus' = [focus EXCEPT !.paused = FALSE, !.held = FALSE]
  /\ Goto(t, "playHow")
  /\ UNCHANGED <<voices, warm, counters, streams, watchers, of, fade, reg, history>>

\* The pipeline read before is restarted from NULL, or resumed: from its
\* in-point when it is parked at the end of its stream.
PlayHow(t) ==
  /\ pc[t] = "playHow"
  /\ LET p == reg[t].p
     IN IF gst[p] = "null"
        THEN Goto(t, "start") /\ UNCHANGED at
        ELSE /\ Goto(t, "resume")
             /\ at' = IF of[p] \in Hold /\ at[p] = "end" THEN [at EXCEPT ![p] = "run"]
                      ELSE at
  /\ UNCHANGED <<clipState, warm, counters, gst, eos, watchers, of, fade, reg, history>>

Resume(t) == ChangeState(t, "resume", "playing", "resumed")
Resumed(t) == Recheck(t, "resumed", "voicesOn")

\* resumeVoices, pauseVoices: the flags under the lock ...
ResumeVoices(t) ==
  /\ pc[t] = "voicesOn"
  /\ LET vs == {v \in voices : v.paused /\ ~v.held}
     IN /\ voices' = (voices \ vs) \cup {[v EXCEPT !.paused = FALSE] : v \in vs}
        /\ reg' = [reg EXCEPT ![t].kill = {v.p : v \in vs}, ![t].to = "playing"]
  /\ Goto(t, "setVoices")
  /\ UNCHANGED <<focus, warm, counters, streams, watchers, of, fade, history>>

PauseVoices(t) ==
  /\ pc[t] = "voicesOff"
  /\ LET vs == {v \in voices : ~v.paused}
     IN /\ voices' = (voices \ vs) \cup {[v EXCEPT !.paused = TRUE] : v \in vs}
        /\ reg' = [reg EXCEPT ![t].kill = {v.p : v \in vs}, ![t].to = "paused"]
  /\ Goto(t, "setVoices")
  /\ UNCHANGED <<focus, warm, counters, streams, watchers, of, fade, history>>

\* ... and the states after it, with no second look.
SetVoices(t) ==
  /\ pc[t] = "setVoices"
  /\ gst' = [p \in Pipes |-> IF p \in reg[t].kill THEN reg[t].to ELSE gst[p]]
  /\ IF reg[t].op = "pause" THEN Goto(t, "pauseMark") /\ UNCHANGED reg ELSE Finish(t)
  /\ UNCHANGED <<clipState, warm, counters, at, eos, watchers, of, fade, history>>

\* Pause: the pipeline read now is paused, then the voices, and at last the
\* clip that has the focus by then is marked.
Pause(t) ==
  /\ focus.p # None
  /\ Begin(t, "pause")
  /\ reg' = [reg EXCEPT ![t].op = "pause", ![t].p = focus.p]
  /\ Goto(t, "pause")
  /\ UNCHANGED <<clipState, warm, counters, streams, watchers, of, fade, wish>>

PauseFocus(t) == ChangeState(t, "pause", "paused", "pausedFocus")
PausedFocus(t) == Recheck(t, "pausedFocus", "voicesOff")

PauseMark(t) ==
  /\ pc[t] = "pauseMark"
  /\ focus' = [focus EXCEPT !.paused = TRUE, !.held = FALSE]
  /\ Finish(t)
  /\ UNCHANGED <<voices, warm, counters, streams, watchers, of, fade, history>>

\* TogglePause acts on the settled state of the pipeline it read.
Toggle(t) ==
  /\ focus.p # None
  /\ Begin(t, "toggle")
  /\ wish' = "run"
  /\ reg' = [reg EXCEPT ![t].op = "toggle", ![t].p = focus.p]
  /\ Goto(t, "toggle")
  /\ UNCHANGED <<clipState, warm, counters, streams, watchers, of, fade>>

ToggleState(t) ==
  /\ pc[t] = "toggle"
  /\ LET p == reg[t].p
         to == CASE gst[p] = "playing" -> "paused"
                 [] gst[p] = "paused" -> "playing"
                 [] OTHER -> gst[p]
     IN /\ gst' = [gst EXCEPT ![p] = to]
        /\ reg' = [reg EXCEPT ![t].to = to]
  /\ Goto(t, "toggled")
  /\ UNCHANGED <<clipState, warm, counters, at, eos, watchers, of, fade, history>>

\* A pipeline left in NULL was not set, so it is not looked at again.
Toggled(t) ==
  /\ pc[t] = "toggled"
  /\ NullIfReplaced(reg[t].p)
  /\ IF reg[t].to = "null" \/ Running(reg[t].p) THEN Goto(t, "toggleMark") /\ UNCHANGED reg
     ELSE Finish(t)
  /\ UNCHANGED <<clipState, warm, counters, watchers, of, fade, history>>

ToggleMark(t) ==
  /\ pc[t] = "toggleMark"
  /\ focus' = [focus EXCEPT !.paused = reg[t].to = "paused"]
  /\ Goto(t, IF reg[t].to = "paused" THEN "voicesOff" ELSE "voicesOn")
  /\ UNCHANGED <<voices, warm, counters, streams, watchers, of, fade, reg, history>>

-----------------------------------------------------------------------------
\* Stop and Panic first cut the crossfades registered by now (retireOutgoing)
\* and wait for those goroutines to leave the map.
Halt(t, op) ==
  /\ Begin(t, op)
  /\ reg' = [reg EXCEPT ![t].op = op, ![t].kill = Fading]
  /\ Goto(t, "cut")
  /\ UNCHANGED <<clipState, warm, counters, streams, watchers, of, fade, wish>>

Cut(t) ==
  /\ pc[t] = "cut"
  /\ reg[t].kill \cap Fading = {}
  /\ reg' = [reg EXCEPT ![t].kill = {}]
  /\ Goto(t, "stopVoices")
  /\ UNCHANGED <<clipState, warm, counters, streams, watchers, of, fade, history>>

\* FadeAndStop: a newer fade or restart takes the focus fade over.
FadeAndStop(t) ==
  /\ focus.p # None
  /\ Begin(t, "fade")
  /\ focus' = [focus EXCEPT !.fader = t]
  /\ reg' = [reg EXCEPT ![t].op = "fade", ![t].p = focus.p, ![t].gen = gen]
  /\ Goto(t, "stopVoices")
  /\ UNCHANGED <<voices, warm, counters, streams, watchers, of, fade, wish>>

\* stopVoices: at once, or (FadeAndStop, layered) each on a fade of its own.
StopVoices(t) ==
  /\ pc[t] = "stopVoices"
  /\ voices' = {}
  /\ LET vs == {v.p : v \in voices}
         away == IF reg[t].op = "fade" /\ Layered THEN vs ELSE {}
     IN /\ fade' = [p \in Pipes |-> IF p \in away THEN "spawned" ELSE fade[p]]
        /\ RetireThen(t, vs \ away, reg[t].op)
  /\ UNCHANGED <<focus, warm, counters, streams, watchers, of, history>>

\* The fade reaches black, or finds itself superseded on a tick.
FadeTick(t) ==
  /\ pc[t] = "fade"
  /\ IF focus.p = reg[t].p /\ gen = reg[t].gen /\ focus.fader = t
     THEN Goto(t, "faded") /\ UNCHANGED reg
     ELSE Finish(t)
  /\ UNCHANGED <<clipState, warm, counters, streams, watchers, of, fade, history>>

Faded(t) == pc[t] = "faded" /\ ClearIfCurrent(t, reg[t].p, "idle")

\* Mutant of PanicNow: the focus is forgotten but not retired.
PanicForgets(t) ==
  /\ pc[t] = "panic"
  /\ halts' = halts + 1
  /\ focus' = NoClip /\ gen' = gen + 1
  /\ warm' = NoWarm
  /\ RetireThen(t, Slot, "idle")
  /\ wish' = "stop"
  /\ UNCHANGED <<voices, loads, streams, watchers, of, fade, calls, reports>>

\* Panic takes the focus and the warm slot; without a pipeline only the cue
\* association goes and no decision is counted.
PanicNow(t) ==
  /\ pc[t] = "panic"
  /\ halts' = halts + 1
  /\ IF focus.p = None
     THEN focus' = [focus EXCEPT !.cue = 0, !.starting = FALSE] /\ UNCHANGED gen
     ELSE focus' = NoClip /\ gen' = gen + 1
  /\ warm' = NoWarm
  /\ RetireThen(t, ({focus.p} \ {None}) \cup Slot, "idle")
  /\ wish' = "stop"
  /\ UNCHANGED <<voices, loads, streams, watchers, of, fade, calls, reports>>

\* Stop: count the halt and read the pipeline.
StopRead(t) ==
  /\ pc[t] = "stop"
  /\ halts' = halts + 1
  /\ reg' = [reg EXCEPT ![t].p = focus.p]
  /\ Goto(t, IF focus.p = None THEN "stopEmpty" ELSE "stopNull")
  /\ UNCHANGED <<clipState, warm, gen, loads, streams, watchers, of, fade, history>>

StopNull(t) ==
  /\ pc[t] = "stopNull"
  /\ Nulled({reg[t].p})
  /\ Goto(t, "stopClear")
  /\ UNCHANGED <<clipState, warm, counters, watchers, of, fade, reg, history>>

\* The last section clears the association of whatever is the focus by now;
\* the stopped pipeline stays for a resume.
StopClear(t) ==
  /\ pc[t] \in {"stopEmpty", "stopClear"}
  /\ focus' = [focus EXCEPT !.cue = 0, !.starting = FALSE]
  /\ IF pc[t] = "stopEmpty"
     THEN Finish(t) /\ UNCHANGED <<warm, gen>>
     ELSE /\ gen' = gen + 1 /\ warm' = NoWarm
          /\ RetireThen(t, Slot, "idle")
  /\ wish' = "stop"
  /\ UNCHANGED <<voices, halts, loads, streams, watchers, of, fade, calls, reports>>

\* StopCue: the running cue at position c alone, cut or (layered) faded out;
\* the focus before any voice.
StopCue(t, c) ==
  /\ Begin(t, "stopCue")
  /\ LET onFocus == focus.p # None /\ focus.cue = c
         k == IF onFocus THEN focus ELSE Newest({v \in voices : v.cue = c})
     IN /\ k.p # None
        /\ IF onFocus
           THEN /\ focus' = Newest(voices)
                /\ voices' = voices \ {Newest(voices)}
                /\ gen' = gen + 1
           ELSE voices' = voices \ {k} /\ UNCHANGED <<focus, gen>>
        /\ \/ Layered /\ fade' = [fade EXCEPT ![k.p] = "spawned"] /\ UNCHANGED <<pc, reg>>
           \/ RetireThen(t, {k.p}, "idle") /\ UNCHANGED fade
  /\ UNCHANGED <<warm, halts, loads, streams, watchers, of, wish>>

\* fadeOutgoing: register, fade (or be cut), leave the map, retire.
FadeRegisters(p) ==
  /\ fade[p] = "spawned"
  /\ fade' = [fade EXCEPT ![p] = "fading"]
  /\ UNCHANGED <<clipState, warm, counters, streams, watchers, of, pc, reg, history>>

FadeLeaves(p) ==
  /\ fade[p] = "fading"
  /\ fade' = [fade EXCEPT ![p] = "gone"]
  /\ UNCHANGED <<clipState, warm, counters, streams, watchers, of, pc, reg, history>>

FadeRetires(p) ==
  /\ fade[p] = "gone"
  /\ fade' = [fade EXCEPT ![p] = "none"]
  /\ Nulled({p})
  /\ watch' = watch \ {p}
  /\ UNCHANGED <<clipState, warm, counters, trim, of, pc, reg, history>>

-----------------------------------------------------------------------------
\* Warm: note the generation, empty the slot, build ...
Warm(t, c) ==
  /\ Begin(t, "warm")
  /\ warm' = NoWarm
  /\ IF warm.p = None
     THEN /\ Goto(t, "build")
          /\ reg' = [reg EXCEPT ![t].op = "warm", ![t].cue = c, ![t].gen = gen]
     ELSE /\ Goto(t, "retire")
          /\ reg' = [reg EXCEPT ![t].op = "warm", ![t].cue = c, ![t].gen = gen,
                                ![t].kill = Slot, ![t].ret = "build"]
  /\ UNCHANGED <<clipState, counters, streams, watchers, of, fade, wish>>

\* ... park it prerolled ...
Park(t) == ChangeState(t, "park", "paused", "warm")

\* ... and fill the slot, unless a newer decision landed meanwhile.
FillSlot(t) ==
  /\ pc[t] = "warm"
  /\ LET mine == {reg[t].p}
     IN \/ /\ gen = reg[t].gen
           /\ warm' = [p |-> reg[t].p, cue |-> reg[t].cue]
           /\ RetireThen(t, Slot, "idle")
        \/ /\ gen # reg[t].gen \/ Faults
           /\ RetireThen(t, mine, "idle")
           /\ UNCHANGED warm
  /\ UNCHANGED <<clipState, counters, streams, watchers, of, fade, history>>

-----------------------------------------------------------------------------
\* A playing stream passes its out-point, and comes to its end.
ReachOut(p) ==
  /\ gst[p] = "playing" /\ of[p] \in Trim /\ at[p] = "run"
  /\ at' = [at EXCEPT ![p] = "out"]
  /\ UNCHANGED <<clipState, warm, counters, gst, eos, watchers, of, fade, pc, reg, history>>

ReachEnd(p) ==
  /\ gst[p] = "playing" /\ at[p] = (IF of[p] \in Trim THEN "out" ELSE "run")
  /\ at' = [at EXCEPT ![p] = "end"]
  /\ eos' = eos \cup {p}
  /\ UNCHANGED <<clipState, warm, counters, gst, watchers, of, fade, pc, reg, history>>

\* The watch and the poll look up the clip first and act after the unlock:
\* the focus and a voice have different handlers.
Handle(t, p, onFocus, onVoice) ==
  /\ Goto(t, IF focus.p = p THEN onFocus ELSE onVoice)
  /\ reg' = [reg EXCEPT ![t].p = p]

\* The main loop dispatches an end-of-stream; the watch of a pipeline that
\* runs no more unregisters.
BusEOS(p) ==
  /\ pc["bus"] = "idle" /\ p \in eos \cap watch
  /\ eos' = eos \ {p}
  /\ IF Running(p) THEN Handle("bus", p, "focusEnd", "voiceEnd") /\ UNCHANGED watch
     ELSE watch' = watch \ {p} /\ UNCHANGED <<pc, reg>>
  /\ UNCHANGED <<clipState, warm, counters, gst, at, trim, of, fade, history>>

\* A stream fails while it plays.
BusError(p) ==
  /\ Faults /\ pc["bus"] = "idle" /\ p \in watch
  /\ gst[p] = "playing" /\ Running(p)
  /\ Handle("bus", p, "focusError", "voiceError")
  /\ UNCHANGED <<clipState, warm, counters, streams, watchers, of, fade, history>>

FocusError == pc["bus"] = "focusError" /\ ClearIfCurrent("bus", reg["bus"].p, "idle")

\* voiceFailed: nothing when it is a voice no more; the watch goes anyway.
VoiceError ==
  /\ pc["bus"] = "voiceError"
  /\ LET p == reg["bus"].p
         vs == {v \in voices : v.p = p}
     IN /\ voices' = voices \ vs
        /\ watch' = watch \ {p}
        /\ RetireThen("bus", {v.p : v \in vs}, "idle")
  /\ UNCHANGED <<focus, warm, counters, streams, trim, of, fade, history>>

\* watchTrim finds the position past the out-point.
TrimHits(p) ==
  /\ pc["trim"] = "idle" /\ trim[p] > 0 /\ Running(p)
  /\ at[p] # "run" /\ gst[p] # "null"
  /\ Handle("trim", p, "focusEnd", "voiceEnd")
  /\ UNCHANGED <<clipState, warm, counters, streams, watchers, of, fade, history>>

\* Mutant of Restarts: the last pass is not the last.
RestartsAlways(n) == n \in Nat

\* loopSteps: 0 loops for ever; a count above 1 is one pass less.
Restarts(n) == n # 1
PassesLeft(n) == IF n = 0 THEN 0 ELSE n - 1

\* handleEnd: loop, hold or clear, by the clip that ended.
FocusEnd(t) ==
  /\ pc[t] = "focusEnd"
  /\ LET p == reg[t].p
         loops == of[p] \in Loop
     IN IF focus.p # p
        THEN Goto(t, "focusDone") /\ UNCHANGED <<focus, reg>>
        ELSE /\ focus' = IF loops THEN [focus EXCEPT !.remain = PassesLeft(@)] ELSE focus
             /\ reg' = [reg EXCEPT ![t].cue = focus.cue]
             /\ Goto(t, IF loops /\ Restarts(focus.remain) THEN "loop"
                        ELSE IF of[p] \in Hold THEN "hold" ELSE "clear")
  /\ UNCHANGED <<voices, warm, counters, streams, watchers, of, fade, history>>

\* Seek to the in-point and play on.
Rewind(t, from, l) ==
  /\ pc[t] = from
  /\ at' = [at EXCEPT ![reg[t].p] = "run"]
  /\ gst' = [gst EXCEPT ![reg[t].p] = "playing"]
  /\ Goto(t, l)
  /\ UNCHANGED <<clipState, warm, counters, eos, watchers, of, fade, reg, history>>

LoopFocus(t) == Rewind(t, "loop", "looped")
LoopedFocus(t) == Recheck(t, "looped", "loopMark")

LoopMark(t) ==
  /\ pc[t] = "loopMark"
  /\ focus' = [focus EXCEPT !.paused = FALSE]
  /\ Goto(t, "focusLooped")
  /\ UNCHANGED <<voices, warm, counters, streams, watchers, of, fade, reg, history>>

HoldFocus(t) == ChangeState(t, "hold", "paused", "held")
HeldFocus(t) == Recheck(t, "held", "holdMark")

\* Mutant of Report: the position is read after the teardown.
ReportLate(t) ==
  reports' = IF focus.cue = 0 THEN reports ELSE reports \cup {<<reg[t].p, focus.cue>>}

\* The cue-end hook is told the position read before the teardown.
Report(t) ==
  reports' = IF reg[t].cue = 0 THEN reports ELSE reports \cup {<<reg[t].p, reg[t].cue>>}

HoldMark(t) ==
  /\ pc[t] = "holdMark"
  /\ focus' = [focus EXCEPT !.paused = TRUE, !.held = TRUE]
  /\ Report(t)
  /\ Goto(t, "focusDone")
  /\ UNCHANGED <<voices, warm, counters, streams, watchers, of, fade, reg, calls, wish>>

ClearFocus(t) == pc[t] = "clear" /\ ClearIfCurrent(t, reg[t].p, "cleared")

Cleared(t) ==
  /\ pc[t] \in {"cleared", "voiceCleared"}
  /\ Report(t)
  /\ Goto(t, IF pc[t] = "cleared" THEN "focusDone" ELSE "voiceDone")
  /\ UNCHANGED <<clipState, warm, counters, streams, watchers, of, fade, reg, calls, wish>>

\* voiceEnd: the same for a voice, but with no second look at the state set.
VoiceEnd(t) ==
  /\ pc[t] = "voiceEnd"
  /\ LET p == reg[t].p
         c == of[p]
         vs == {v \in voices : v.p = p}
         Passed(v) == IF c \in Loop THEN [v EXCEPT !.remain = PassesLeft(@)] ELSE v
         Parked(v) == [Passed(v) EXCEPT !.paused = TRUE, !.held = TRUE]
     IN \/ /\ vs = {}
           /\ Goto(t, "voiceDone") /\ UNCHANGED <<voices, reg>>
        \/ /\ c \in Loop /\ \E v \in vs : Restarts(v.remain)
           /\ voices' = (voices \ vs) \cup {Passed(v) : v \in vs}
           /\ Goto(t, "voiceLoop") /\ UNCHANGED reg
        \/ /\ c \in Hold /\ \E v \in vs : c \in Loop => ~Restarts(v.remain)
           /\ voices' = (voices \ vs) \cup {Parked(v) : v \in vs}
           /\ Goto(t, "voiceHold") /\ UNCHANGED reg
        \/ /\ c \notin Hold /\ \E v \in vs : c \in Loop => ~Restarts(v.remain)
           /\ voices' = voices \ vs
           /\ \E v \in vs :
                reg' = [reg EXCEPT ![t].cue = v.cue, ![t].kill = {p}, ![t].ret = "voiceCleared"]
           /\ Goto(t, "retire")
  /\ UNCHANGED <<focus, warm, counters, streams, watchers, of, fade, history>>

LoopVoice(t) == Rewind(t, "voiceLoop", "voiceKept")
HoldVoice(t) == ChangeState(t, "voiceHold", "paused", "voiceKept")

\* Mutant of EndReturns: only a looping clip keeps its watch.
WatchLoopsOnly(t) ==
  /\ pc[t] \in {"focusDone", "focusLooped", "voiceDone", "voiceKept"}
  /\ watch' = IF t = "bus" /\ pc[t] # "focusLooped" THEN watch \ {reg[t].p} ELSE watch
  /\ Finish(t)
  /\ UNCHANGED <<clipState, warm, counters, streams, trim, of, fade, history>>

\* The handler returns: the watch stays while the pipeline is the focus (or
\* the voice plays on), the poll while the handler said so.
EndReturns(t) ==
  /\ pc[t] \in {"focusDone", "focusLooped", "voiceDone", "voiceKept"}
  /\ LET p == reg[t].p
         stays == IF t = "bus" /\ pc[t] \in {"focusDone", "focusLooped"} THEN focus.p = p
                  ELSE pc[t] \in {"focusLooped", "voiceKept"}
     IN /\ watch' = IF t = "bus" /\ ~stays THEN watch \ {p} ELSE watch
        /\ trim' = IF t = "trim" /\ ~stays THEN [trim EXCEPT ![p] = @ - 1] ELSE trim
  /\ Finish(t)
  /\ UNCHANGED <<clipState, warm, counters, streams, of, fade, history>>

-----------------------------------------------------------------------------
Request(t) ==
  \/ \E c \in Cues : Fire(t, c) \/ Warm(t, c) \/ StopCue(t, c)
  \/ Wire(t) \/ Cold(t) \/ Build(t) \/ Install(t) \/ AddWatch(t)
  \/ Start(t) \/ Preroll(t) \/ Commit(t) \/ StartFails(t) \/ Run(t) \/ Started(t)
  \/ Tag(t) \/ Play(t) \/ PlayRead(t) \/ PlayIntent(t) \/ PlayHow(t)
  \/ Resume(t) \/ Resumed(t) \/ ResumeVoices(t) \/ PauseVoices(t) \/ SetVoices(t)
  \/ Pause(t) \/ PauseFocus(t) \/ PausedFocus(t) \/ PauseMark(t)
  \/ Toggle(t) \/ ToggleState(t) \/ Toggled(t) \/ ToggleMark(t)
  \/ Halt(t, "stop") \/ Halt(t, "panic") \/ Cut(t) \/ StopVoices(t)
  \/ FadeAndStop(t) \/ FadeTick(t) \/ Faded(t)
  \/ PanicNow(t) \/ StopRead(t) \/ StopNull(t) \/ StopClear(t)
  \/ Park(t) \/ FillSlot(t)

End(t) ==
  \/ FocusEnd(t) \/ LoopFocus(t) \/ LoopedFocus(t) \/ LoopMark(t)
  \/ HoldFocus(t) \/ HeldFocus(t) \/ HoldMark(t) \/ ClearFocus(t) \/ Cleared(t)
  \/ VoiceEnd(t) \/ LoopVoice(t) \/ HoldVoice(t) \/ EndReturns(t)

Stream(p) ==
  \/ ReachOut(p) \/ ReachEnd(p) \/ BusEOS(p) \/ BusError(p) \/ TrimHits(p)
  \/ FadeRegisters(p) \/ FadeLeaves(p) \/ FadeRetires(p)

Next ==
  \/ \E t \in Requests : Request(t)
  \/ \E t \in Enders : End(t)
  \/ \E t \in Threads : Retire(t)
  \/ \E p \in Pipes : Stream(p)
  \/ FocusError \/ VoiceError

Spec == Init /\ [][Next]_vars

-----------------------------------------------------------------------------
Labels ==
  {"idle", "retire", "wire", "cold", "build", "install", "watch", "start", "preroll",
   "commit", "run", "running", "tag", "play", "playIntent", "playHow", "resume",
   "resumed", "voicesOn", "voicesOff", "setVoices", "pause", "pausedFocus",
   "pauseMark", "toggle", "toggled", "toggleMark", "cut", "stopVoices", "fade",
   "faded", "panic", "stop", "stopNull", "stopClear", "stopEmpty", "park", "warm",
   "focusEnd", "voiceEnd", "focusError", "voiceError", "loop", "looped", "loopMark",
   "hold", "held", "holdMark", "clear", "cleared", "voiceCleared", "voiceLoop",
   "voiceHold", "focusDone", "focusLooped", "voiceDone", "voiceKept"}

AnyPipe == Pipes \cup {None}

Clip ==
  [p : AnyPipe, cue : Cues \cup {0}, fired : Nat, remain : Nat, starting : BOOLEAN,
   paused : BOOLEAN, held : BOOLEAN, fader : Requests \cup {"none"}]

Ops == {"none", "fire", "warmFire", "warm", "play", "pause", "toggle", "stop",
        "panic", "fade"}

Regs ==
  [op : Ops, p : AnyPipe, gen : Nat, cue : Cues \cup {0}, kill : SUBSET Pipes,
   ret : Labels, to : {"null", "new", "paused", "playing"}]

TypeOK ==
  /\ focus \in Clip /\ voices \subseteq Clip
  /\ warm \in [p : AnyPipe, cue : Cues \cup {0}]
  /\ gen \in Nat /\ halts \in Nat /\ loads \in Nat
  /\ gst \in [Pipes -> {"new", "null", "paused", "playing"}]
  /\ at \in [Pipes -> {"run", "out", "end"}]
  /\ of \in [Pipes -> Cues \cup {0}]
  /\ fade \in [Pipes -> {"none", "spawned", "fading", "gone"}]
  /\ eos \subseteq Pipes /\ watch \subseteq Pipes
  /\ trim \in [Pipes -> Nat]
  /\ pc \in [Threads -> Labels]
  /\ reg \in [Threads -> Regs]
  /\ calls \in 0..MaxCalls
  /\ reports \subseteq Pipes \X Cues
  /\ wish \in {"run", "stop"}

RunPipes == {c.p : c \in Clips}
FadePipes == {p \in Pipes : fade[p] # "none"}

\* The pipelines only thread t may touch: just built, claimed, or taken out.
Holds(t) ==
  CASE pc[t] = "retire" -> reg[t].kill
    [] pc[t] \in {"wire", "install", "park", "warm"} -> {reg[t].p}
    [] OTHER -> {}

\* A pipeline has one owner: the focus, one voice, the warm slot, a fade, or
\* the thread that builds or retires it.  Nothing is retired twice, shown
\* twice or reused, however swap, clearIfCurrent, voiceEnd, StopCue, Stop,
\* Panic, Warm and InstallWarm interleave.
Exclusive ==
  /\ \A v \in voices : v.p # focus.p /\ \A w \in voices : v.p = w.p => v = w
  /\ RunPipes \cap Slot = {} /\ RunPipes \cap FadePipes = {} /\ Slot \cap FadePipes = {}
  /\ \A t \in Threads :
       /\ Holds(t) \cap (RunPipes \cup Slot \cup FadePipes) = {}
       /\ \A u \in Threads \ {t} : Holds(t) \cap Holds(u) = {}

\* "The focus cue is the most recently fired running cue" (voices.go): through
\* demotions, promotions, StopCue and ends of any clip.
FocusIsNewest ==
  focus.p # None => \A v \in voices : v.fired < focus.fired

\* The generation is what every stale timer, arm and start compares: the
\* focus never changes hands without a new one (swap, clearIfCurrent, Panic,
\* StopCue).
GenMovesWithFocus == [][focus'.p # focus.p => gen' > gen]_vars

Quiet == \A t \in Threads : pc[t] = "idle"

\* setStateIfCurrent: "two pipelines on the output" never stay.  What plays is
\* running, fading away, or about to be sent to NULL by some thread.
Rechecking == {"running", "resumed", "pausedFocus", "toggled", "looped", "held"}
OneOutput ==
  \A p \in Pipes : gst[p] = "playing" =>
    \/ Running(p) \/ fade[p] # "none"
    \/ \E t \in Threads : \/ pc[t] = "retire" /\ p \in reg[t].kill
                          \/ pc[t] \in Rechecking /\ p = reg[t].p

\* Stop and Panic end every running cue: once they returned and everything
\* settled, nothing plays until something new is fired or resumed.
HaltSticks ==
  (wish = "stop" /\ Quiet /\ FadePipes = {}) => \A p \in Pipes : gst[p] # "playing"

\* "Stop and Panic are immediate cuts" (DESIGN.md): once they returned no
\* crossfade is still on the wall.
FadesCut == (wish = "stop" /\ Quiet) => FadePipes = {}

\* Every running cue keeps its own end: a clip that plays has its bus watch ...
WatchKept ==
  \A c \in Clips : gst[c.p] = "playing" =>
    c.p \in watch \/ \E t \in Threads : pc[t] = "watch" /\ reg[t].p = c.p

\* ... and, with an out-point, somebody who polls it.
OutPointKept ==
  Quiet => \A c \in Clips :
    (gst[c.p] = "playing" /\ of[c.p] \in Trim) => trim[c.p] > 0

\* An end is told under the position of the cue the pipeline was loaded for.
TagMatches == \A r \in reports : r[2] = of[r[1]]

\* swap sets the position "with the pipeline, so no reader sees a cue-less
\* load": a fired clip that plays keeps its cue.
PlayingIsNamed ==
  Quiet => \A c \in Clips : gst[c.p] = "playing" => c.cue # 0

\* loopSteps: a finite count plays its passes and no more: no end handler sends
\* a clip round again whose count has run out.
RoundsCounted ==
  \A t \in Enders :
    (pc[t] \in {"focusEnd", "voiceEnd"} /\ pc'[t] \in {"loop", "voiceLoop"})
      => Count[of[reg[t].p]] = 0 \/ \E c \in Clips : c.p = reg[t].p /\ c.remain > 0
LoopsEnd == [][RoundsCounted]_vars

\* "Every other running cue is a voice": a voice is not a stopped clip.
VoicesRun == Quiet => \A v \in voices : gst[v.p] # "null"

\* While voices run there is a focus for the transport to act on.
StackHasFocus == voices # {} => focus.p # None

\* The slot holds a parked pipeline built for the cue it answers to.
WarmReady ==
  warm.p # None => gst[warm.p] = "paused" /\ of[warm.p] = warm.cue
=============================================================================
