---------------------------- MODULE BenchProofs ----------------------------
(***************************************************************************)
(* The instances of PlaybackBenches, with what is proved of Playback: two  *)
(* pipelines never stay on the output, a Panic is final, every clip keeps  *)
(* its watch and its poll, an end is told under its own cue, and a count   *)
(* of passes is kept.  Each instance has the conditions the theorems of    *)
(* PlaybackProofs ask for, whatever the pipelines and the two clients.     *)
(***************************************************************************)
EXTENDS PlaybackBenches, TLAPS

\* Race, Deck and Ends again, as instances of the proofs.
RaceP == INSTANCE PlaybackProofs WITH
  Cues <- {3, 8}, Keep <- {8}, Cross <- {}, Hold <- {}, Loop <- {3}, Trim <- {},
  Count <- [c \in {3, 8} |-> Count[c]], Layered <- TRUE, Faults <- TRUE, MaxCalls <- 2,
  Calls <- {"fire", "panic", "stopCue", "warm"}

DeckP == INSTANCE PlaybackProofs WITH
  Cues <- {5}, Keep <- {}, Cross <- {}, Hold <- {}, Loop <- {}, Trim <- {},
  Count <- [c \in {5} |-> 0], Layered <- FALSE, Faults <- FALSE, MaxCalls <- 3,
  Calls <- {"fire", "play", "pause", "toggle", "panic", "fade", "stopCue"}

EndsP == INSTANCE PlaybackProofs WITH
  Cues <- {6, 7}, Keep <- {}, Cross <- {7}, Hold <- {7}, Loop <- {6}, Trim <- {6},
  Count <- [c \in {6, 7} |-> Count[c]], Layered <- TRUE, Faults <- FALSE, MaxCalls <- 2,
  Calls <- {"fire", "play", "pause", "panic", "fade"}

\* The steps of a bench are those the proofs are about.
LEMMA RaceSteps == Race!Next => RaceP!Next
<1> USE DEF Race!Enders, RaceP!Enders, Race!Threads, RaceP!Threads, Race!NoClip, RaceP!NoClip,
        Race!NoWarm, RaceP!NoWarm, Race!NoRegs, RaceP!NoRegs, Race!clipState, RaceP!clipState,
        Race!counters, RaceP!counters, Race!streams, RaceP!streams, Race!watchers, RaceP!watchers,
        Race!history, RaceP!history, Race!Clips, RaceP!Clips, Race!Running, RaceP!Running,
        Race!StartCurrent, RaceP!StartCurrent, Race!Newest, RaceP!Newest, Race!Fading,
        RaceP!Fading, Race!Slot, RaceP!Slot, Race!Goto, RaceP!Goto, Race!Finish, RaceP!Finish,
        Race!Continue, RaceP!Continue, Race!RetireThen, RaceP!RetireThen, Race!Nulled,
        RaceP!Nulled, Race!Retire, RaceP!Retire, Race!ChangeState, RaceP!ChangeState,
        Race!NullIfReplaced, RaceP!NullIfReplaced, Race!Recheck, RaceP!Recheck,
        Race!ClearIfCurrent, RaceP!ClearIfCurrent, Race!Begin, RaceP!Begin, Race!Fire, RaceP!Fire,
        Race!Wire, RaceP!Wire, Race!Cold, RaceP!Cold, Race!Build, RaceP!Build, Race!Install,
        RaceP!Install, Race!AddWatch, RaceP!AddWatch, Race!AfterStart, RaceP!AfterStart,
        Race!Start, RaceP!Start, Race!Preroll, RaceP!Preroll, Race!Commit, RaceP!Commit,
        Race!StartFails, RaceP!StartFails, Race!Run, RaceP!Run, Race!Started, RaceP!Started,
        Race!Tag, RaceP!Tag, Race!Play, RaceP!Play, Race!PlayRead, RaceP!PlayRead, Race!PlayIntent,
        RaceP!PlayIntent, Race!PlayHow, RaceP!PlayHow, Race!Resume, RaceP!Resume, Race!Resumed,
        RaceP!Resumed, Race!ResumeVoices, RaceP!ResumeVoices, Race!PauseVoices, RaceP!PauseVoices,
        Race!SetVoices, RaceP!SetVoices, Race!Pause, RaceP!Pause, Race!PauseFocus,
        RaceP!PauseFocus, Race!PausedFocus, RaceP!PausedFocus, Race!PauseMark, RaceP!PauseMark,
        Race!Toggle, RaceP!Toggle, Race!ToggleState, RaceP!ToggleState, Race!Toggled,
        RaceP!Toggled, Race!ToggleMark, RaceP!ToggleMark, Race!Halt, RaceP!Halt, Race!Cut,
        RaceP!Cut, Race!FadeAndStop, RaceP!FadeAndStop, Race!StopVoices, RaceP!StopVoices,
        Race!FadeTick, RaceP!FadeTick, Race!Faded, RaceP!Faded, Race!PanicNow, RaceP!PanicNow,
        Race!StopRead, RaceP!StopRead, Race!StopNull, RaceP!StopNull, Race!StopClear,
        RaceP!StopClear, Race!StopCue, RaceP!StopCue, Race!FadeRegisters, RaceP!FadeRegisters,
        Race!FadeLeaves, RaceP!FadeLeaves, Race!FadeRetires, RaceP!FadeRetires, Race!Warm,
        RaceP!Warm, Race!Park, RaceP!Park, Race!FillSlot, RaceP!FillSlot, Race!ReachOut,
        RaceP!ReachOut, Race!ReachEnd, RaceP!ReachEnd, Race!BusEOS, RaceP!BusEOS, Race!BusError,
        RaceP!BusError, Race!Handle, RaceP!Handle, Race!FocusError, RaceP!FocusError,
        Race!VoiceError, RaceP!VoiceError, Race!TrimHits, RaceP!TrimHits, Race!Restarts,
        RaceP!Restarts, Race!PassesLeft, RaceP!PassesLeft, Race!FocusEnd, RaceP!FocusEnd,
        Race!Rewind, RaceP!Rewind, Race!LoopFocus, RaceP!LoopFocus, Race!LoopedFocus,
        RaceP!LoopedFocus, Race!LoopMark, RaceP!LoopMark, Race!HoldFocus, RaceP!HoldFocus,
        Race!HeldFocus, RaceP!HeldFocus, Race!Report, RaceP!Report, Race!HoldMark, RaceP!HoldMark,
        Race!ClearFocus, RaceP!ClearFocus, Race!Cleared, RaceP!Cleared, Race!VoiceEnd,
        RaceP!VoiceEnd, Race!LoopVoice, RaceP!LoopVoice, Race!HoldVoice, RaceP!HoldVoice,
        Race!EndReturns, RaceP!EndReturns
<1>1. ASSUME NEW t, Race!Request(t) PROVE RaceP!Request(t)
  BY <1>1, ZenonT(60) DEF Race!Request, RaceP!Request
<1>2. ASSUME NEW t, Race!End(t) PROVE RaceP!End(t)
  BY <1>2, ZenonT(60) DEF Race!End, RaceP!End
<1>3. ASSUME NEW t, Race!Retire(t) PROVE RaceP!Retire(t)
  BY <1>3, Zenon
<1>4. ASSUME NEW p, Race!Stream(p) PROVE RaceP!Stream(p)
  BY <1>4, Zenon DEF Race!Stream, RaceP!Stream
<1>5. Race!FocusError \/ Race!VoiceError => RaceP!FocusError \/ RaceP!VoiceError
  BY Zenon
<1> QED BY <1>1, <1>2, <1>3, <1>4, <1>5, Zenon DEF Race!Next, RaceP!Next

LEMMA DeckSteps == Deck!Next => DeckP!Next
<1> USE DEF Deck!Enders, DeckP!Enders, Deck!Threads, DeckP!Threads, Deck!NoClip, DeckP!NoClip,
        Deck!NoWarm, DeckP!NoWarm, Deck!NoRegs, DeckP!NoRegs, Deck!clipState, DeckP!clipState,
        Deck!counters, DeckP!counters, Deck!streams, DeckP!streams, Deck!watchers, DeckP!watchers,
        Deck!history, DeckP!history, Deck!Clips, DeckP!Clips, Deck!Running, DeckP!Running,
        Deck!StartCurrent, DeckP!StartCurrent, Deck!Newest, DeckP!Newest, Deck!Fading,
        DeckP!Fading, Deck!Slot, DeckP!Slot, Deck!Goto, DeckP!Goto, Deck!Finish, DeckP!Finish,
        Deck!Continue, DeckP!Continue, Deck!RetireThen, DeckP!RetireThen, Deck!Nulled,
        DeckP!Nulled, Deck!Retire, DeckP!Retire, Deck!ChangeState, DeckP!ChangeState,
        Deck!NullIfReplaced, DeckP!NullIfReplaced, Deck!Recheck, DeckP!Recheck,
        Deck!ClearIfCurrent, DeckP!ClearIfCurrent, Deck!Begin, DeckP!Begin, Deck!Fire, DeckP!Fire,
        Deck!Wire, DeckP!Wire, Deck!Cold, DeckP!Cold, Deck!Build, DeckP!Build, Deck!Install,
        DeckP!Install, Deck!AddWatch, DeckP!AddWatch, Deck!AfterStart, DeckP!AfterStart,
        Deck!Start, DeckP!Start, Deck!Preroll, DeckP!Preroll, Deck!Commit, DeckP!Commit,
        Deck!StartFails, DeckP!StartFails, Deck!Run, DeckP!Run, Deck!Started, DeckP!Started,
        Deck!Tag, DeckP!Tag, Deck!Play, DeckP!Play, Deck!PlayRead, DeckP!PlayRead, Deck!PlayIntent,
        DeckP!PlayIntent, Deck!PlayHow, DeckP!PlayHow, Deck!Resume, DeckP!Resume, Deck!Resumed,
        DeckP!Resumed, Deck!ResumeVoices, DeckP!ResumeVoices, Deck!PauseVoices, DeckP!PauseVoices,
        Deck!SetVoices, DeckP!SetVoices, Deck!Pause, DeckP!Pause, Deck!PauseFocus,
        DeckP!PauseFocus, Deck!PausedFocus, DeckP!PausedFocus, Deck!PauseMark, DeckP!PauseMark,
        Deck!Toggle, DeckP!Toggle, Deck!ToggleState, DeckP!ToggleState, Deck!Toggled,
        DeckP!Toggled, Deck!ToggleMark, DeckP!ToggleMark, Deck!Halt, DeckP!Halt, Deck!Cut,
        DeckP!Cut, Deck!FadeAndStop, DeckP!FadeAndStop, Deck!StopVoices, DeckP!StopVoices,
        Deck!FadeTick, DeckP!FadeTick, Deck!Faded, DeckP!Faded, Deck!PanicNow, DeckP!PanicNow,
        Deck!StopRead, DeckP!StopRead, Deck!StopNull, DeckP!StopNull, Deck!StopClear,
        DeckP!StopClear, Deck!StopCue, DeckP!StopCue, Deck!FadeRegisters, DeckP!FadeRegisters,
        Deck!FadeLeaves, DeckP!FadeLeaves, Deck!FadeRetires, DeckP!FadeRetires, Deck!Warm,
        DeckP!Warm, Deck!Park, DeckP!Park, Deck!FillSlot, DeckP!FillSlot, Deck!ReachOut,
        DeckP!ReachOut, Deck!ReachEnd, DeckP!ReachEnd, Deck!BusEOS, DeckP!BusEOS, Deck!BusError,
        DeckP!BusError, Deck!Handle, DeckP!Handle, Deck!FocusError, DeckP!FocusError,
        Deck!VoiceError, DeckP!VoiceError, Deck!TrimHits, DeckP!TrimHits, Deck!Restarts,
        DeckP!Restarts, Deck!PassesLeft, DeckP!PassesLeft, Deck!FocusEnd, DeckP!FocusEnd,
        Deck!Rewind, DeckP!Rewind, Deck!LoopFocus, DeckP!LoopFocus, Deck!LoopedFocus,
        DeckP!LoopedFocus, Deck!LoopMark, DeckP!LoopMark, Deck!HoldFocus, DeckP!HoldFocus,
        Deck!HeldFocus, DeckP!HeldFocus, Deck!Report, DeckP!Report, Deck!HoldMark, DeckP!HoldMark,
        Deck!ClearFocus, DeckP!ClearFocus, Deck!Cleared, DeckP!Cleared, Deck!VoiceEnd,
        DeckP!VoiceEnd, Deck!LoopVoice, DeckP!LoopVoice, Deck!HoldVoice, DeckP!HoldVoice,
        Deck!EndReturns, DeckP!EndReturns
<1>1. ASSUME NEW t, Deck!Request(t) PROVE DeckP!Request(t)
  BY <1>1, ZenonT(60) DEF Deck!Request, DeckP!Request
<1>2. ASSUME NEW t, Deck!End(t) PROVE DeckP!End(t)
  BY <1>2, ZenonT(60) DEF Deck!End, DeckP!End
<1>3. ASSUME NEW t, Deck!Retire(t) PROVE DeckP!Retire(t)
  BY <1>3, Zenon
<1>4. ASSUME NEW p, Deck!Stream(p) PROVE DeckP!Stream(p)
  BY <1>4, Zenon DEF Deck!Stream, DeckP!Stream
<1>5. Deck!FocusError \/ Deck!VoiceError => DeckP!FocusError \/ DeckP!VoiceError
  BY Zenon
<1> QED BY <1>1, <1>2, <1>3, <1>4, <1>5, Zenon DEF Deck!Next, DeckP!Next

LEMMA EndsSteps == Ends!Next => EndsP!Next
<1> USE DEF Ends!Enders, EndsP!Enders, Ends!Threads, EndsP!Threads, Ends!NoClip, EndsP!NoClip,
        Ends!NoWarm, EndsP!NoWarm, Ends!NoRegs, EndsP!NoRegs, Ends!clipState, EndsP!clipState,
        Ends!counters, EndsP!counters, Ends!streams, EndsP!streams, Ends!watchers, EndsP!watchers,
        Ends!history, EndsP!history, Ends!Clips, EndsP!Clips, Ends!Running, EndsP!Running,
        Ends!StartCurrent, EndsP!StartCurrent, Ends!Newest, EndsP!Newest, Ends!Fading,
        EndsP!Fading, Ends!Slot, EndsP!Slot, Ends!Goto, EndsP!Goto, Ends!Finish, EndsP!Finish,
        Ends!Continue, EndsP!Continue, Ends!RetireThen, EndsP!RetireThen, Ends!Nulled,
        EndsP!Nulled, Ends!Retire, EndsP!Retire, Ends!ChangeState, EndsP!ChangeState,
        Ends!NullIfReplaced, EndsP!NullIfReplaced, Ends!Recheck, EndsP!Recheck,
        Ends!ClearIfCurrent, EndsP!ClearIfCurrent, Ends!Begin, EndsP!Begin, Ends!Fire, EndsP!Fire,
        Ends!Wire, EndsP!Wire, Ends!Cold, EndsP!Cold, Ends!Build, EndsP!Build, Ends!Install,
        EndsP!Install, Ends!AddWatch, EndsP!AddWatch, Ends!AfterStart, EndsP!AfterStart,
        Ends!Start, EndsP!Start, Ends!Preroll, EndsP!Preroll, Ends!Commit, EndsP!Commit,
        Ends!StartFails, EndsP!StartFails, Ends!Run, EndsP!Run, Ends!Started, EndsP!Started,
        Ends!Tag, EndsP!Tag, Ends!Play, EndsP!Play, Ends!PlayRead, EndsP!PlayRead, Ends!PlayIntent,
        EndsP!PlayIntent, Ends!PlayHow, EndsP!PlayHow, Ends!Resume, EndsP!Resume, Ends!Resumed,
        EndsP!Resumed, Ends!ResumeVoices, EndsP!ResumeVoices, Ends!PauseVoices, EndsP!PauseVoices,
        Ends!SetVoices, EndsP!SetVoices, Ends!Pause, EndsP!Pause, Ends!PauseFocus,
        EndsP!PauseFocus, Ends!PausedFocus, EndsP!PausedFocus, Ends!PauseMark, EndsP!PauseMark,
        Ends!Toggle, EndsP!Toggle, Ends!ToggleState, EndsP!ToggleState, Ends!Toggled,
        EndsP!Toggled, Ends!ToggleMark, EndsP!ToggleMark, Ends!Halt, EndsP!Halt, Ends!Cut,
        EndsP!Cut, Ends!FadeAndStop, EndsP!FadeAndStop, Ends!StopVoices, EndsP!StopVoices,
        Ends!FadeTick, EndsP!FadeTick, Ends!Faded, EndsP!Faded, Ends!PanicNow, EndsP!PanicNow,
        Ends!StopRead, EndsP!StopRead, Ends!StopNull, EndsP!StopNull, Ends!StopClear,
        EndsP!StopClear, Ends!StopCue, EndsP!StopCue, Ends!FadeRegisters, EndsP!FadeRegisters,
        Ends!FadeLeaves, EndsP!FadeLeaves, Ends!FadeRetires, EndsP!FadeRetires, Ends!Warm,
        EndsP!Warm, Ends!Park, EndsP!Park, Ends!FillSlot, EndsP!FillSlot, Ends!ReachOut,
        EndsP!ReachOut, Ends!ReachEnd, EndsP!ReachEnd, Ends!BusEOS, EndsP!BusEOS, Ends!BusError,
        EndsP!BusError, Ends!Handle, EndsP!Handle, Ends!FocusError, EndsP!FocusError,
        Ends!VoiceError, EndsP!VoiceError, Ends!TrimHits, EndsP!TrimHits, Ends!Restarts,
        EndsP!Restarts, Ends!PassesLeft, EndsP!PassesLeft, Ends!FocusEnd, EndsP!FocusEnd,
        Ends!Rewind, EndsP!Rewind, Ends!LoopFocus, EndsP!LoopFocus, Ends!LoopedFocus,
        EndsP!LoopedFocus, Ends!LoopMark, EndsP!LoopMark, Ends!HoldFocus, EndsP!HoldFocus,
        Ends!HeldFocus, EndsP!HeldFocus, Ends!Report, EndsP!Report, Ends!HoldMark, EndsP!HoldMark,
        Ends!ClearFocus, EndsP!ClearFocus, Ends!Cleared, EndsP!Cleared, Ends!VoiceEnd,
        EndsP!VoiceEnd, Ends!LoopVoice, EndsP!LoopVoice, Ends!HoldVoice, EndsP!HoldVoice,
        Ends!EndReturns, EndsP!EndReturns
<1>1. ASSUME NEW t, Ends!Request(t) PROVE EndsP!Request(t)
  BY <1>1, ZenonT(60) DEF Ends!Request, EndsP!Request
<1>2. ASSUME NEW t, Ends!End(t) PROVE EndsP!End(t)
  BY <1>2, ZenonT(60) DEF Ends!End, EndsP!End
<1>3. ASSUME NEW t, Ends!Retire(t) PROVE EndsP!Retire(t)
  BY <1>3, Zenon
<1>4. ASSUME NEW p, Ends!Stream(p) PROVE EndsP!Stream(p)
  BY <1>4, Zenon DEF Ends!Stream, EndsP!Stream
<1>5. Ends!FocusError \/ Ends!VoiceError => EndsP!FocusError \/ EndsP!VoiceError
  BY Zenon
<1> QED BY <1>1, <1>2, <1>3, <1>4, <1>5, Zenon DEF Ends!Next, EndsP!Next

\* The constants of the benches are those the proofs assume.
LEMMA BenchConstants ==
  RaceP!PlaybackAssumption /\ DeckP!PlaybackAssumption /\ EndsP!PlaybackAssumption
  BY BenchAssumption DEF BenchAssumption, Race!PlaybackAssumption, RaceP!PlaybackAssumption,
     Deck!PlaybackAssumption, DeckP!PlaybackAssumption, Ends!PlaybackAssumption,
     EndsP!PlaybackAssumption

\* One running clip at a time on two of them.
LEMMA BenchesFlat == DeckP!Flat /\ EndsP!Flat
  BY DEF DeckP!Flat, EndsP!Flat

\* Each starts at rest; on some a pipeline was used up before.
LEMMA RaceRests == BenchInit /\ bench = "race" => RaceP!Rested
  BY DEF BenchInit, Worn, Fresh, RaceP!Rested, NoClip, NoWarm, NoRegs, Threads, Enders,
         RaceP!NoClip, RaceP!NoWarm, RaceP!NoRegs, RaceP!Threads, RaceP!Enders

LEMMA DeckRests == BenchInit /\ bench = "deck" => DeckP!Rested
  BY DEF BenchInit, Worn, Fresh, DeckP!Rested, NoClip, NoWarm, NoRegs, Threads, Enders,
         DeckP!NoClip, DeckP!NoWarm, DeckP!NoRegs, DeckP!Threads, DeckP!Enders

LEMMA EndsRests == BenchInit /\ bench = "ends" => EndsP!Rested
  BY DEF BenchInit, Worn, Fresh, EndsP!Rested, NoClip, NoWarm, NoRegs, Threads, Enders,
         EndsP!NoClip, EndsP!NoWarm, EndsP!NoRegs, EndsP!Threads, EndsP!Enders

-----------------------------------------------------------------------------
\* The invariants of the proofs, on the benches.
RaceInv == RaceP!IInv /\ RaceP!Counted

DeckInv == DeckP!IInv /\ DeckP!NoVoices /\ DeckP!OneOutput /\ DeckP!Silenced

EndsInv ==
  /\ EndsP!IInv /\ EndsP!NoVoices /\ EndsP!OneOutput /\ EndsP!Silenced
  /\ EndsP!Attended /\ EndsP!OutPoints /\ EndsP!Named
  /\ EndsP!Serial

\* Every step of a bench keeps its invariant.  The second client of Ends never calls, so
\* calls do not overlap there.
LEMMA RaceStays ==
  ASSUME RaceInv, bench = "race", [BenchNext]_<<vars, bench>>
  PROVE  RaceInv'
<1>1. [RaceP!Next]_(RaceP!vars)
  BY RaceSteps DEF BenchNext, vars, RaceP!vars, clipState, counters, streams, watchers, history,
     RaceP!clipState, RaceP!counters, RaceP!streams, RaceP!watchers, RaceP!history
<1>2. {3} \cap {} = {}
  OBVIOUS
<1> QED BY <1>1, <1>2, BenchConstants, RaceP!CountedNext DEF RaceInv

LEMMA DeckStays ==
  ASSUME DeckInv, bench = "deck", [BenchNext]_<<vars, bench>>
  PROVE  DeckInv'
<1>1. [DeckP!Next]_(DeckP!vars)
  BY DeckSteps DEF BenchNext, vars, DeckP!vars, clipState, counters, streams, watchers, history,
     DeckP!clipState, DeckP!counters, DeckP!streams, DeckP!watchers, DeckP!history
<1>2. "stop" \notin {"fire", "play", "pause", "toggle", "panic", "fade", "stopCue"}
  OBVIOUS
<1> QED BY <1>1, <1>2, BenchesFlat, BenchConstants, DeckP!DeckNext, DeckP!SilencedNext DEF DeckInv

LEMMA EndsStay ==
  ASSUME EndsInv, bench = "ends", [BenchNext]_<<vars, bench>>
  PROVE  EndsInv'
<1>1. [EndsP!Next]_(EndsP!vars)
  BY EndsSteps DEF BenchNext, vars, EndsP!vars, clipState, counters, streams, watchers, history,
     EndsP!clipState, EndsP!counters, EndsP!streams, EndsP!watchers, EndsP!history
<1>2. EndsP!IInv' /\ EndsP!NoVoices' /\ EndsP!OneOutput'
  BY <1>1, BenchesFlat, BenchConstants, EndsP!DeckNext DEF EndsInv
<1>3. EndsP!Silenced'
  <2>1. "stop" \notin {"fire", "play", "pause", "panic", "fade"}
    OBVIOUS
  <2> QED BY <1>1, <2>1, BenchesFlat, BenchConstants, EndsP!SilencedNext DEF EndsInv
<1>4. EndsP!Serial
  BY DEF EndsInv
<1>5. EndsP!Attended'
  BY <1>1, <1>4, BenchesFlat, BenchConstants, EndsP!AttendedNext DEF EndsInv
<1>6. EndsP!Ready /\ EndsP!NoVoices /\ EndsP!FreshUnused
  BY DEF EndsInv, EndsP!Attended
<1>7. EndsP!OutPoints'
  <2>1. {6} \cap {7} = {}
    OBVIOUS
  <2> QED BY <1>1, <1>4, <1>6, <2>1, BenchConstants, EndsP!OutPointsNext DEF EndsInv
<1>8. EndsP!Named'
  BY <1>1, <1>4, <1>6, BenchConstants, EndsP!NamedNext DEF EndsInv
<1>9. EndsP!Serial'
  <2>1. CASE OneClient
    BY <2>1, BenchAssumption DEF BenchAssumption, OneClient, EndsP!Serial
  <2>2. CASE ~OneClient
    BY <1>4, <2>2 DEF BenchNext, vars, EndsP!Serial
  <2> QED BY <2>1, <2>2
<1> QED BY <1>2, <1>3, <1>5, <1>7, <1>8, <1>9 DEF EndsInv

\* So the invariants hold of every reachable state.
LEMMA BenchInvs ==
  Benches => []((bench = "race" => RaceInv) /\ (bench = "deck" => DeckInv)
                /\ (bench = "ends" => EndsInv))
<1> DEFINE Inv == /\ bench = "race" => RaceInv
                  /\ bench = "deck" => DeckInv
                  /\ bench = "ends" => EndsInv
<1>1. BenchInit => Inv
  <2>1. BenchInit /\ bench = "race" => RaceInv
    BY RaceRests, BenchConstants, RaceP!RestedIInv, RaceP!RestedReady, RaceP!RestedSpent
       DEF RaceInv, RaceP!Counted
  <2>2. BenchInit /\ bench = "deck" => DeckInv
    BY DeckRests, BenchConstants, DeckP!RestedIInv, DeckP!RestedFlat, DeckP!RestedSilenced
       DEF DeckInv
  <2>3. BenchInit /\ bench = "ends" => EndsInv
    <3>1. BenchInit => EndsP!Serial
      BY DEF BenchInit, Fresh, Threads, EndsP!Serial
    <3> QED
      BY <3>1, EndsRests, BenchConstants, EndsP!RestedIInv, EndsP!RestedFlat, EndsP!RestedSilenced,
         EndsP!RestedAttended, EndsP!RestedOutPoints, EndsP!RestedNamed DEF EndsInv
  <2> QED BY <2>1, <2>2, <2>3
<1>2. Inv /\ [BenchNext]_<<vars, bench>> => Inv'
  <2>1. [BenchNext]_<<vars, bench>> => bench' = bench
    BY DEF BenchNext
  <2> QED BY <2>1, RaceStays, DeckStays, EndsStay
<1> QED BY <1>1, <1>2, PTL DEF Benches

-----------------------------------------------------------------------------
\* With two clients on a display without layers, every loser of a race between GO, Play,
\* Pause, Toggle, Panic and a fade sends its pipeline back to NULL: two never stay on the
\* output (setStateIfCurrent).
THEOREM DeckOutput == Benches => []OneOutputOnDeck
<1>1. (bench = "deck" => DeckInv) => OneOutputOnDeck
  BY DEF DeckInv, OneOutputOnDeck, OneOutput, DeckP!OneOutput, Running, DeckP!Running, Clips,
         DeckP!Clips, Rechecking, DeckP!Rechecking, Threads, DeckP!Threads, Enders, DeckP!Enders
<1> QED BY <1>1, BenchInvs, PTL

\* On both, a Panic or a fade that returned is final: no start, no transport call and no
\* end handler that was under way brings a clip back (Panic, clearIfCurrent).
THEOREM BenchesHalt == Benches => []HaltsStick
<1>1. (bench = "deck" => DeckInv) /\ (bench = "ends" => EndsInv) => HaltsStick
  <2>1. DeckInv => DeckP!HaltSticks
    BY BenchConstants, DeckP!SilencedSticks DEF DeckInv, DeckP!IInv
  <2>2. EndsInv => EndsP!HaltSticks
    BY BenchConstants, EndsP!SilencedSticks DEF EndsInv, EndsP!IInv
  <2> QED BY <2>1, <2>2
      DEF HaltsStick, HaltSticks, DeckP!HaltSticks, EndsP!HaltSticks, Quiet, DeckP!Quiet,
          EndsP!Quiet, Threads, DeckP!Threads, EndsP!Threads, Enders, DeckP!Enders, EndsP!Enders,
          FadePipes, DeckP!FadePipes, EndsP!FadePipes
<1> QED BY <1>1, BenchInvs, PTL

\* A clip that loops to its out-point, and one that crossfades and holds, keep their bus
\* watch through every end, and the first keeps its poll (watchAndPlay, watchTrim).
THEOREM EndsAreWatched == Benches => []EndsWatched
<1>1. (bench = "ends" => EndsInv) => EndsWatched
  <2>1. EndsInv => EndsP!WatchKept
    BY BenchConstants, EndsP!WatchedKept DEF EndsInv, EndsP!Attended, EndsP!IInv
  <2>2. EndsInv => EndsP!OutPointKept
    BY BenchConstants, EndsP!OutPointsFollowed DEF EndsInv
  <2>3. EndsInv => WatchKept
    BY <2>1 DEF WatchKept, EndsP!WatchKept, Clips, EndsP!Clips, Threads, EndsP!Threads, Enders,
       EndsP!Enders
  <2>4. EndsInv => \A c \in Clips : of[c.p] \in Trim => of[c.p] \in {6}
    <3>1. EndsInv => \A c \in Clips : of[c.p] \in {0, 6, 7}
      BY EndsP!ClipsBuilt, BenchConstants DEF EndsInv, EndsP!IInv, EndsP!TypeOK, Clips, EndsP!Clips
    <3>2. 0 \notin Trim /\ 7 \notin Trim
      BY PlaybackAssumption, BenchAssumption DEF PlaybackAssumption, BenchAssumption
    <3> QED BY <3>1, <3>2
  <2>5. EndsInv => OutPointKept
    BY <2>2, <2>4 DEF OutPointKept, EndsP!OutPointKept, Quiet, EndsP!Quiet, Clips, EndsP!Clips,
       Threads, EndsP!Threads, Enders, EndsP!Enders
  <2> QED BY <2>3, <2>5 DEF EndsWatched
<1> QED BY <1>1, BenchInvs, PTL

\* While cues replace one another an end is told under the position of the cue that ended,
\* however late after the teardown (handleEnd, the cue-end hook).
THEOREM EndsAreToldByName == Benches => []EndsNamed
<1>1. (bench = "ends" => EndsInv) => EndsNamed
  BY DEF EndsInv, EndsNamed, TagMatches, EndsP!Named, EndsP!Told
<1> QED BY <1>1, BenchInvs, PTL

\* With two clients, voices, Panics and faults, a clip with a count of passes is never
\* sent round once more (loopSteps).
THEOREM RaceCounts == Benches => LoopsEndByCount
<1>1. (bench = "race" => RaceInv) /\ [BenchNext]_<<vars, bench>>
        => [bench = "race" => RoundsCounted]_vars
  <2> SUFFICES ASSUME bench = "race", RaceInv, BenchNext, NEW t \in Enders,
                      pc[t] \in {"focusEnd", "voiceEnd"}, pc'[t] \in {"loop", "voiceLoop"}
               PROVE  Count[of[reg[t].p]] = 0 \/ \E c \in Clips : c.p = reg[t].p /\ c.remain > 0
    BY DEF RoundsCounted, vars
  <2>1. RaceP!Next /\ t \in RaceP!Enders /\ RaceP!Clips = Clips
    BY RaceSteps DEF BenchNext, Enders, RaceP!Enders, Clips, RaceP!Clips
  <2>2. {3} \cap {} = {}
    OBVIOUS
  <2>3. RaceP!RoundsCounted
    BY <2>1, <2>2, BenchConstants, RaceP!CountedRounds DEF RaceInv
  <2>4. of[reg[t].p] \in {3}
    BY <2>1, BenchConstants, RaceP!RoundsLoop DEF RaceInv
  <2> QED BY <2>1, <2>3, <2>4 DEF RaceP!RoundsCounted
<1> QED BY <1>1, BenchInvs, PTL DEF Benches, LoopsEndByCount
=============================================================================
