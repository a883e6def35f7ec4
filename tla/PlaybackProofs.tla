--------------------------- MODULE PlaybackProofs ---------------------------
(***************************************************************************)
(* What Playback promises for any pipelines, cues and callers: the types,  *)
(* one owner for every pipeline, a focus that is the newest running cue,   *)
(* and a generation that moves with it.                                    *)
(*                                                                         *)
(* The invariant is proved in parts, each through every step: the stack of *)
(* clips (Calm), the threads' places and locals (Moves), the states of     *)
(* pipelines (StreamsKept), the rest of the state (RestKept), the polls    *)
(* (Polling), the cue a load carries (Cued), and ownership (Owned).        *)
(***************************************************************************)
EXTENDS Playback, FiniteSetTheorems, TLAPS

\* Where a thread goes once what it took out is retired.
Returns == {"idle", "build", "cold", "watch", "fade", "stop", "panic", "cleared",
            "voiceCleared"}

\* Where the thread's pipeline was built or claimed and not yet installed.
Claiming == {"wire", "install", "park", "warm"}

\* What the place a thread stands at says of its locals.
Shape(t) ==
  /\ pc[t] \in Claiming \cup {"watch", "toggle"} => reg[t].p \in Pipes
  /\ pc[t] = "retire" /\ reg[t].ret = "watch" => reg[t].p \in Pipes
  /\ pc[t] \in {"cut", "stopVoices"} => reg[t].op \in {"fade", "stop", "panic"}
  /\ t \in Enders /\ pc[t] # "idle" => reg[t].p \in Pipes
  /\ reg[t].ret \in Returns
  /\ pc[t] = "setVoices" => reg[t].to \in {"playing", "paused"}

\* Every load has its own number, and the focus has the highest.
Order ==
  /\ \A v \in voices : /\ v.p # None /\ v.p # focus.p
                       /\ v.fired <= loads
                       /\ focus.p # None => v.fired < focus.fired
  /\ \A v, w \in voices : v.p = w.p \/ v.fired = w.fired => v = w
  /\ focus.p # None => focus.fired <= loads

WarmKnown == warm.p = None => warm.cue = 0

-----------------------------------------------------------------------------
\* A bounded set of clips has a latest one.
LEMMA LatestExists ==
  ASSUME NEW vs \in SUBSET Clip, vs # {}, NEW n \in Nat, \A v \in vs : v.fired <= n
  PROVE  \E v \in vs : \A w \in vs : w.fired <= v.fired
<1> DEFINE All == 0..n
           Above == {v.fired..n : v \in vs}
<1>1. \A v \in vs : v.fired \in Nat
  BY DEF Clip
<1>2. Above \subseteq SUBSET All /\ Above # {}
  BY <1>1
<1>3. IsWellFoundedOn(StrictSubsetOrdering(All), SUBSET All)
  <2>1. IsFiniteSet(All)
    BY FS_Interval
  <2>2. FiniteSubsetsOf(All) = SUBSET All
    BY <2>1, FS_FiniteSubsetsOfFinite
  <2> HIDE DEF All
  <2> QED BY <2>2, FS_StrictSubsetOrderingWellFounded
<1>4. PICK x \in Above : \A y \in Above : ~ (<<y, x>> \in StrictSubsetOrdering(All))
  <2> HIDE DEF All, Above
  <2> QED BY <1>2, <1>3, WFMin
<1>5. PICK v \in vs : x = v.fired..n
  BY <1>4
<1>6. ASSUME NEW w \in vs, v.fired < w.fired PROVE FALSE
  <2>1. w.fired..n \in Above
    OBVIOUS
  <2>2. w.fired..n \subseteq v.fired..n /\ v.fired \in v.fired..n /\ v.fired \notin w.fired..n
    BY <1>1, <1>6
  <2>3. <<w.fired..n, x>> \in StrictSubsetOrdering(All)
    BY <1>2, <1>5, <2>1, <2>2 DEF StrictSubsetOrdering
  <2> QED BY <1>4, <2>1, <2>3
<1> QED BY <1>1, <1>5, <1>6

\* promoteLocked takes the latest of the clips it is given.
LEMMA NewestIs ==
  ASSUME NEW vs \in SUBSET Clip, NEW n \in Nat, \A v \in vs : v.fired <= n
  PROVE  /\ vs = {} => Newest(vs) = NoClip
         /\ vs # {} => Newest(vs) \in vs /\ \A w \in vs : w.fired <= Newest(vs).fired
<1>1. CASE vs = {}
  BY <1>1 DEF Newest
<1>2. CASE vs # {}
  <2>1. \E v \in vs : \A w \in vs : w.fired <= v.fired
    BY <1>2, LatestExists
  <2> QED BY <1>2, <2>1 DEF Newest
<1> QED BY <1>1, <1>2

-----------------------------------------------------------------------------
\* The stack of running clips.  What every step but an installation does to
\* it: types and order are kept, no pipeline joins, and a focus that changes
\* hands moves the generation.
Calm ==
  /\ focus' \in Clip /\ voices' \in SUBSET Clip
  /\ Order'
  /\ RunPipes' \subseteq RunPipes
  /\ focus'.p # focus.p => gen' > gen

\* The empty clip.
LEMMA NoClipTyped == NoClip \in Clip /\ NoClip.p = None /\ None \in AnyPipe
  BY DEF NoClip, Clip, AnyPipe

\* The same clip with other marks.
Alike(j, k) == j \in Clip /\ j.p = k.p /\ j.fired = k.fired

\* Every mark the code puts on a clip leaves its pipeline and number alone.
LEMMA ClipAlike ==
  ASSUME NEW k \in Clip
  PROVE  /\ Alike(k, k)
         /\ \A c \in Cues \cup {0} : Alike([k EXCEPT !.cue = c], k)
         /\ \A c \in Cues \cup {0} : Alike([k EXCEPT !.cue = c, !.starting = FALSE], k)
         /\ Alike([k EXCEPT !.starting = FALSE], k)
         /\ Alike([k EXCEPT !.starting = TRUE, !.fader = "none"], k)
         /\ \A t \in Requests : Alike([k EXCEPT !.fader = t], k)
         /\ \A b \in BOOLEAN : Alike([k EXCEPT !.paused = b], k)
         /\ \A b, d \in BOOLEAN : Alike([k EXCEPT !.paused = b, !.held = d], k)
         /\ Alike([k EXCEPT !.remain = PassesLeft(k.remain)], k)
         /\ Alike([k EXCEPT !.remain = PassesLeft(k.remain), !.paused = TRUE, !.held = TRUE], k)
<1>1. PassesLeft(k.remain) \in Nat
  BY DEF Clip, PassesLeft
<1> QED BY <1>1 DEF Clip, Alike

\* A step that leaves the stack alone, or only marks the focus.
LEMMA Untouched ==
  ASSUME TypeOK, Order, UNCHANGED clipState, loads' = loads
  PROVE  Calm
  BY DEF TypeOK, Order, Calm, clipState, RunPipes, Clips

\* A step that marks the focus.
LEMMA Marked ==
  ASSUME TypeOK, Order, Alike(focus', focus), voices' = voices, loads' = loads
  PROVE  Calm
  BY DEF TypeOK, Order, Calm, Alike, RunPipes, Clips

\* A step that marks voices.
LEMMA VoicesMarked ==
  ASSUME TypeOK, Order, Alike(focus', focus), loads' = loads,
         NEW vs \in SUBSET voices, NEW f \in [vs -> Clip],
         \A v \in vs : Alike(f[v], v),
         voices' = (voices \ vs) \cup {f[v] : v \in vs}
  PROVE  Calm
<1>1. voices' \in SUBSET Clip
  BY DEF TypeOK, Alike
<1>2. \A x \in voices' : \E v \in voices : x.p = v.p /\ x.fired = v.fired
  BY DEF Alike
<1>3. Order'
  <2>1. ASSUME NEW x \in voices', NEW y \in voices', x.p = y.p \/ x.fired = y.fired
        PROVE  x = y
    <3>1. PICK v \in voices : x.p = v.p /\ x.fired = v.fired /\ x = IF v \in vs THEN f[v] ELSE v
      BY DEF Alike
    <3>2. PICK w \in voices : y.p = w.p /\ y.fired = w.fired /\ y = IF w \in vs THEN f[w] ELSE w
      BY DEF Alike
    <3>3. v = w
      BY <2>1, <3>1, <3>2 DEF Order
    <3> QED BY <3>1, <3>2, <3>3
  <2> QED BY <1>2, <2>1 DEF Order, Alike
<1>4. RunPipes' \subseteq RunPipes
  BY <1>2 DEF RunPipes, Clips, Alike
<1> QED BY <1>1, <1>3, <1>4 DEF Calm, Alike

\* Voices leave; the focus stays.
LEMMA VoicesLeave ==
  ASSUME TypeOK, Order, Alike(focus', focus), loads' = loads, voices' \subseteq voices
  PROVE  Calm
  BY DEF TypeOK, Order, Calm, Alike, RunPipes, Clips

\* The focus goes, and nobody or the newest voice takes over.
LEMMA FocusGoes ==
  ASSUME TypeOK, Order, gen' = gen + 1, loads' = loads,
         \/ focus' = NoClip /\ voices' = voices
         \/ focus' = Newest(voices) /\ voices' = voices \ {Newest(voices)}
  PROVE  Calm
<1>1. voices \in SUBSET Clip /\ loads \in Nat /\ gen \in Nat
  BY DEF TypeOK
<1>2. \A v \in voices : v.fired <= loads /\ v.fired \in Nat
  BY <1>1 DEF Order, Clip
<1>3. CASE focus' = NoClip /\ voices' = voices
  BY <1>1, <1>3, NoClipTyped DEF Calm, Order, RunPipes, Clips
<1>4. CASE focus' = Newest(voices) /\ voices' = voices \ {Newest(voices)} /\ voices = {}
  <2>1. focus' = NoClip /\ voices' = {}
    BY <1>1, <1>2, <1>4, NewestIs
  <2> QED BY <1>1, <2>1, NoClipTyped DEF Calm, Order, RunPipes, Clips
<1>5. CASE focus' = Newest(voices) /\ voices' = voices \ {Newest(voices)} /\ voices # {}
  <2>1. /\ Newest(voices) \in voices /\ \A w \in voices : w.fired <= Newest(voices).fired
        /\ focus' = Newest(voices) /\ voices' = voices \ {Newest(voices)}
    BY <1>1, <1>2, <1>5, NewestIs
  <2> DEFINE n == Newest(voices)
  <2> HIDE DEF n
  <2>2. /\ n \in voices /\ \A w \in voices : w.fired <= n.fired
        /\ focus' = n /\ voices' = voices \ {n}
    BY <2>1 DEF n
  <2>3. focus' \in Clip /\ voices' \in SUBSET Clip
    BY <1>1, <2>2
  <2>4. Order'
    BY <1>1, <1>2, <2>2 DEF Order
  <2>5. RunPipes' \subseteq RunPipes
    BY <2>2 DEF RunPipes, Clips, Order
  <2> QED BY <1>1, <2>3, <2>4, <2>5 DEF Calm
<1> QED BY <1>3, <1>4, <1>5

\* clearIfCurrent.
LEMMA ClearCalm ==
  ASSUME TypeOK, Order, NEW t, NEW p, NEW l, ClearIfCurrent(t, p, l)
  PROVE  Calm
<1>1. CASE focus.p = p
  BY <1>1, FocusGoes DEF ClearIfCurrent
<1>2. CASE focus.p # p
  BY <1>2, VoicesLeave DEF ClearIfCurrent, TypeOK, Alike
<1> QED BY <1>1, <1>2

\* What requests do to the stack ...
LEMMA RequestCalm ==
  ASSUME TypeOK, Order, NEW t \in Requests, Request(t)
  PROVE  Calm \/ Install(t)
<1> USE DEF clipState, counters
<1>0. /\ focus \in Clip /\ voices \in SUBSET Clip /\ reg[t] \in Regs
      /\ reg[t].cue \in Cues \cup {0} /\ Alike(focus, focus)
  BY DEF TypeOK, Threads, Regs, Alike
<1>1. CASE \/ \E c \in Cues : Fire(t, c) \/ Warm(t, c)
           \/ Wire(t) \/ Cold(t) \/ Build(t) \/ AddWatch(t) \/ Preroll(t) \/ Run(t)
           \/ Started(t) \/ Play(t) \/ PlayRead(t) \/ PlayHow(t) \/ Resume(t) \/ Resumed(t)
  <2>1. UNCHANGED clipState /\ loads' = loads
    BY <1>1 DEF Fire, Warm, Wire, Cold, Build, AddWatch, Preroll, Run, Started, Play, PlayRead,
                PlayHow, Resume, Resumed, ChangeState, Recheck
  <2> QED BY <2>1, Untouched
<1>2. CASE \/ SetVoices(t) \/ Pause(t) \/ PauseFocus(t) \/ PausedFocus(t) \/ Toggle(t)
           \/ ToggleState(t) \/ Toggled(t) \/ Halt(t, "stop") \/ Halt(t, "panic") \/ Cut(t)
           \/ FadeTick(t) \/ StopRead(t) \/ StopNull(t) \/ Park(t) \/ FillSlot(t)
  <2>1. UNCHANGED clipState /\ loads' = loads
    BY <1>2 DEF SetVoices, Pause, PauseFocus, PausedFocus, Toggle, ToggleState, Toggled, Halt,
                Cut, FadeTick, StopRead, StopNull, Park, FillSlot, ChangeState, Recheck
  <2> QED BY <2>1, Untouched
<1>3. CASE \/ Start(t) \/ Tag(t) \/ PlayIntent(t) \/ PauseMark(t) \/ ToggleMark(t)
           \/ FadeAndStop(t) \/ StopClear(t)
  <2>1. Alike(focus', focus) /\ voices' = voices /\ loads' = loads
    <3>1. CASE Start(t) \/ Tag(t) \/ PlayIntent(t) \/ PauseMark(t)
      BY <1>0, <3>1, ClipAlike DEF Start, Tag, PlayIntent, PauseMark
    <3>2. CASE ToggleMark(t)
      BY <1>0, <3>2, ClipAlike DEF ToggleMark
    <3>3. CASE FadeAndStop(t)
      BY <1>0, <3>3, ClipAlike DEF FadeAndStop
    <3>4. CASE StopClear(t)
      BY <1>0, <3>4, ClipAlike DEF StopClear
    <3> QED BY <1>3, <3>1, <3>2, <3>3, <3>4
  <2> QED BY <2>1, Marked
<1>4. CASE Commit(t)
  <2>1. CASE UNCHANGED clipState
    BY <1>4, <2>1, Untouched DEF Commit
  <2>2. CASE StartCurrent(reg[t].p, reg[t].gen)
    <3> DEFINE Ready(k) == IF k.p = reg[t].p THEN [k EXCEPT !.starting = FALSE] ELSE k
               f == [v \in voices |-> Ready(v)]
    <3>1. focus' = Ready(focus) /\ voices' = {Ready(v) : v \in voices} /\ loads' = loads
      BY <1>4, <2>2 DEF Commit
    <3>2. \A k \in Clip : Alike(Ready(k), k)
      BY ClipAlike
    <3>3. /\ f \in [voices -> Clip] /\ \A v \in voices : Alike(f[v], v)
          /\ voices' = (voices \ voices) \cup {f[v] : v \in voices}
      BY <1>0, <3>1, <3>2 DEF Alike
    <3>4. Alike(focus', focus)
      BY <1>0, <3>1, <3>2
    <3> HIDE DEF f, Ready
    <3> QED BY <3>1, <3>3, <3>4, VoicesMarked
  <2> QED BY <1>4, <2>1, <2>2 DEF Commit
<1>5. CASE StartFails(t) \/ Faded(t)
  BY <1>5, ClearCalm DEF StartFails, Faded
<1>6. CASE ResumeVoices(t)
  <2> DEFINE vs == {v \in voices : v.paused /\ ~v.held}
             f == [v \in vs |-> [v EXCEPT !.paused = FALSE]]
  <2>0. \A v \in vs : Alike([v EXCEPT !.paused = FALSE], v)
    BY <1>0, ClipAlike
  <2>1. /\ voices' = (voices \ vs) \cup {f[v] : v \in vs} /\ focus' = focus /\ loads' = loads
    BY <1>6 DEF ResumeVoices
  <2>2. f \in [vs -> Clip] /\ \A v \in vs : Alike(f[v], v)
    BY <1>0, <2>0 DEF Alike
  <2> HIDE DEF f
  <2> QED BY <1>0, <2>1, <2>2, VoicesMarked
<1>7. CASE PauseVoices(t)
  <2> DEFINE vs == {v \in voices : ~v.paused}
             f == [v \in vs |-> [v EXCEPT !.paused = TRUE]]
  <2>0. \A v \in vs : Alike([v EXCEPT !.paused = TRUE], v)
    BY <1>0, ClipAlike
  <2>1. /\ voices' = (voices \ vs) \cup {f[v] : v \in vs} /\ focus' = focus /\ loads' = loads
    BY <1>7 DEF PauseVoices
  <2>2. f \in [vs -> Clip] /\ \A v \in vs : Alike(f[v], v)
    BY <1>0, <2>0 DEF Alike
  <2> HIDE DEF f
  <2> QED BY <1>0, <2>1, <2>2, VoicesMarked
<1>8. CASE StopVoices(t)
  BY <1>0, <1>8, VoicesLeave DEF StopVoices
<1>9. CASE PanicNow(t)
  <2>1. CASE focus.p = None
    BY <1>0, <1>9, <2>1, ClipAlike, Marked DEF PanicNow
  <2>2. CASE focus.p # None
    BY <1>9, <2>2, FocusGoes DEF PanicNow
  <2> QED BY <2>1, <2>2
<1>10. ASSUME NEW c \in Cues, StopCue(t, c) PROVE Calm
  <2>1. CASE focus.p # None /\ focus.cue = c
    BY <1>10, <2>1, FocusGoes DEF StopCue
  <2>2. CASE ~(focus.p # None /\ focus.cue = c)
    <3>1. focus' = focus /\ voices' \subseteq voices /\ loads' = loads
      BY <1>10, <2>2 DEF StopCue
    <3> QED BY <1>0, <3>1, VoicesLeave
  <2> QED BY <2>1, <2>2
<1> QED
  BY <1>1, <1>2, <1>3, <1>4, <1>5, <1>6, <1>7, <1>8, <1>9, <1>10 DEF Request

\* ... and what the ends of clips do.
LEMMA EndCalm ==
  ASSUME TypeOK, Order, NEW t \in Enders, End(t)
  PROVE  Calm
<1> USE DEF clipState, counters
<1>0. focus \in Clip /\ voices \in SUBSET Clip /\ Alike(focus, focus)
  BY DEF TypeOK, Alike
<1>1. CASE \/ LoopFocus(t) \/ LoopedFocus(t) \/ HoldFocus(t) \/ HeldFocus(t) \/ Cleared(t)
           \/ LoopVoice(t) \/ HoldVoice(t) \/ EndReturns(t)
  <2>1. UNCHANGED clipState /\ loads' = loads
    BY <1>1 DEF LoopFocus, LoopedFocus, HoldFocus, HeldFocus, Cleared, LoopVoice, HoldVoice,
                EndReturns, Rewind, ChangeState, Recheck
  <2> QED BY <2>1, Untouched
<1>2. CASE FocusEnd(t) \/ LoopMark(t) \/ HoldMark(t)
  <2>1. Alike(focus', focus) /\ voices' = voices /\ loads' = loads
    BY <1>0, <1>2, ClipAlike DEF FocusEnd, LoopMark, HoldMark
  <2> QED BY <2>1, Marked
<1>3. CASE ClearFocus(t)
  BY <1>3, ClearCalm DEF ClearFocus
<1>4. CASE VoiceEnd(t)
  <2> DEFINE p == reg[t].p
             c == of[p]
             vs == {v \in voices : v.p = p}
             Passed(v) == IF c \in Loop THEN [v EXCEPT !.remain = PassesLeft(@)] ELSE v
             Parked(v) == [Passed(v) EXCEPT !.paused = TRUE, !.held = TRUE]
             f == [v \in vs |-> Passed(v)]
             g == [v \in vs |-> Parked(v)]
  <2>1. focus' = focus /\ loads' = loads
    BY <1>4 DEF VoiceEnd
  <2>2. \/ voices' \subseteq voices
        \/ voices' = (voices \ vs) \cup {f[v] : v \in vs}
        \/ voices' = (voices \ vs) \cup {g[v] : v \in vs}
    BY <1>4 DEF VoiceEnd
  <2>3. \A v \in Clip : Alike(Passed(v), v)
    BY ClipAlike
  <2>4. \A v \in Clip : Alike(Parked(v), v)
    BY ClipAlike
  <2>5. f \in [vs -> Clip] /\ \A v \in vs : Alike(f[v], v)
    BY <1>0, <2>3 DEF Alike
  <2>6. g \in [vs -> Clip] /\ \A v \in vs : Alike(g[v], v)
    BY <1>0, <2>4 DEF Alike
  <2> HIDE DEF f, g
  <2> QED BY <1>0, <2>1, <2>2, <2>5, <2>6, VoicesMarked, VoicesLeave
<1> QED BY <1>1, <1>2, <1>3, <1>4 DEF End

\* Nothing else touches it.
LEMMA OthersCalm ==
  ASSUME TypeOK, Order,
         \/ \E p \in Pipes : Stream(p)
         \/ \E t \in Threads : Retire(t)
         \/ FocusError \/ VoiceError
  PROVE  Calm
<1> USE DEF clipState, counters
<1>1. CASE FocusError
  BY <1>1, ClearCalm DEF FocusError
<1>2. CASE VoiceError
  <2>1. Alike(focus', focus) /\ loads' = loads /\ voices' \subseteq voices
    BY <1>2 DEF VoiceError, TypeOK, Alike
  <2> QED BY <2>1, VoicesLeave
<1>3. CASE (\E p \in Pipes : Stream(p)) \/ \E t \in Threads : Retire(t)
  <2>1. UNCHANGED clipState /\ loads' = loads
    BY <1>3 DEF Stream, ReachOut, ReachEnd, BusEOS, BusError, TrimHits, FadeRegisters, FadeLeaves,
                FadeRetires, Retire
  <2> QED BY <2>1, Untouched
<1> QED BY <1>1, <1>2, <1>3

-----------------------------------------------------------------------------
\* Places and locals.  A step of t moves t alone, to a place its locals fit.
Moves(t) ==
  /\ pc' \in [Threads -> Labels] /\ reg' \in [Threads -> Regs]
  /\ Shape(t)'
  /\ \A u \in Threads \ {t} : pc'[u] = pc[u] /\ reg'[u] = reg[u]

\* Places that ask nothing of a request's locals.
Plain ==
  Labels \ (Claiming \cup {"retire", "watch", "toggle", "cut", "stopVoices", "setVoices"})

\* The locals of a thread between calls.
LEMMA NoRegsTyped == NoRegs \in Regs /\ NoRegs.ret = "idle" /\ NoRegs.p = None
  BY DEF NoRegs, Regs, Ops, AnyPipe, Labels

\* r is typed, returns where it is told, and acts on pipeline p.
Local(r, p, l) == r \in Regs /\ r.p = p /\ r.ret = l

\* Updates keep the types of the locals.
LEMMA LocalsTyped ==
  ASSUME NEW r \in Regs
  PROVE  /\ \A g \in Nat : Local([r EXCEPT !.gen = g], r.p, r.ret)
         /\ \A o \in Ops, p \in AnyPipe :
              LET q == [r EXCEPT !.p = p, !.op = o] IN Local(q, p, r.ret) /\ q.op = o
         /\ \A o \in Ops, c \in Cues, g \in Nat :
              Local([r EXCEPT !.op = o, !.cue = c, !.gen = g], r.p, r.ret)
         /\ \A o \in Ops, c \in Cues, g \in Nat, ps \in SUBSET Pipes, l \in Labels :
              Local([r EXCEPT !.op = o, !.cue = c, !.gen = g, !.kill = ps, !.ret = l], r.p, l)
<1>1. \A g \in Nat : Local([r EXCEPT !.gen = g], r.p, r.ret)
  BY DEF Regs, Local
<1>2. \A o \in Ops, p \in AnyPipe :
       LET q == [r EXCEPT !.p = p, !.op = o] IN Local(q, p, r.ret) /\ q.op = o
  BY DEF Regs, Local
<1>3. \A o \in Ops, c \in Cues, g \in Nat :
       Local([r EXCEPT !.op = o, !.cue = c, !.gen = g], r.p, r.ret)
  BY DEF Regs, Local
<1>4. ASSUME NEW o \in Ops, NEW c \in Cues, NEW g \in Nat, NEW ps \in SUBSET Pipes,
             NEW l \in Labels
      PROVE  Local([r EXCEPT !.op = o, !.cue = c, !.gen = g, !.kill = ps, !.ret = l], r.p, l)
  <2> DEFINE q == [r EXCEPT !.op = o, !.cue = c, !.gen = g]
  <2>1. q \in Regs /\ q.p = r.p
    BY DEF Regs
  <2>2. [q EXCEPT !.kill = ps] \in Regs /\ [q EXCEPT !.kill = ps].p = r.p
    BY <2>1 DEF Regs
  <2> DEFINE k == [q EXCEPT !.kill = ps]
  <2>3. Local([k EXCEPT !.ret = l], r.p, l)
    <3> HIDE DEF k
    <3>1. k \in Regs /\ k.p = r.p
      BY <2>2 DEF k
    <3> QED BY <3>1 DEF Regs, Local
  <2> QED BY <2>3
<1> QED BY <1>1, <1>2, <1>3, <1>4

\* What place l asks of the locals r of t.
Fits(t, l, r) ==
  /\ l \in Claiming \cup {"watch", "toggle"} => r.p \in Pipes
  /\ l = "retire" /\ r.ret = "watch" => r.p \in Pipes
  /\ l \in {"cut", "stopVoices"} => r.op \in {"fade", "stop", "panic"}
  /\ t \in Enders /\ l # "idle" => r.p \in Pipes
  /\ r.ret \in Returns
  /\ l = "setVoices" => r.to \in {"playing", "paused"}

\* t goes to l with the locals r ...
LEMMA GoesFitting ==
  ASSUME TypeOK, NEW t \in Threads, NEW l \in Labels, NEW r \in Regs, Fits(t, l, r),
         Goto(t, l), reg' = [reg EXCEPT ![t] = r]
  PROVE  Moves(t)
<1>1. pc'[t] = l /\ reg'[t] = r
  BY DEF TypeOK, Goto
<1>2. Shape(t)'
  BY <1>1 DEF Shape, Fits
<1>3. /\ pc' \in [Threads -> Labels] /\ reg' \in [Threads -> Regs]
      /\ \A u \in Threads \ {t} : pc'[u] = pc[u] /\ reg'[u] = reg[u]
  BY DEF TypeOK, Goto
<1> QED BY <1>2, <1>3 DEF Moves

\* ... or with the ones it has.
LEMMA StaysFitting ==
  ASSUME TypeOK, NEW t \in Threads, NEW l \in Labels, Fits(t, l, reg[t]),
         Goto(t, l), UNCHANGED reg
  PROVE  Moves(t)
<1>1. reg' = [reg EXCEPT ![t] = reg[t]] /\ reg[t] \in Regs
  BY DEF TypeOK
<1> QED BY <1>1, GoesFitting

\* A plain place asks next to nothing ...
LEMMA PlainFits ==
  ASSUME NEW t, NEW l \in Plain, NEW r \in Regs, r.ret \in Returns,
         t \in Enders => r.p \in Pipes
  PROVE  l \in Labels /\ Fits(t, l, r)
  BY DEF Fits, Plain, Claiming

\* ... so t may go there with any locals.
LEMMA GoesWith ==
  ASSUME TypeOK, NEW t \in Threads, NEW l \in Plain, NEW r \in Regs, r.ret \in Returns,
         t \in Enders => r.p \in Pipes,
         Goto(t, l), reg' = [reg EXCEPT ![t] = r]
  PROVE  Moves(t)
  BY PlainFits, GoesFitting

\* The same with the locals t has.
LEMMA Goes ==
  ASSUME TypeOK, NEW t \in Threads, Shape(t), NEW l \in Plain, t \in Enders => reg[t].p \in Pipes,
         Goto(t, l), UNCHANGED reg
  PROVE  Moves(t)
<1>1. reg[t] \in Regs /\ reg[t].ret \in Returns
  BY DEF TypeOK, Shape
<1> QED BY <1>1, PlainFits, StaysFitting

\* A call ends.
LEMMA Finishes ==
  ASSUME TypeOK, NEW t \in Threads, Finish(t)
  PROVE  Moves(t)
  BY NoRegsTyped
  DEF TypeOK, Moves, Shape, Finish, Goto, Plain, Claiming, Returns, Labels

\* Threads return to plain places, or to add a bus watch.
LEMMA ReturnsPlain == Returns \ {"watch"} \subseteq Plain /\ {"retire", "watch"} \subseteq Labels
  BY DEF Returns, Plain, Labels, Claiming

\* A call goes on or ends.
LEMMA Continues ==
  ASSUME TypeOK, NEW t \in Threads, Shape(t), NEW l \in Plain, t \in Enders => reg[t].p \in Pipes,
         Continue(t, l)
  PROVE  Moves(t)
  BY Goes, Finishes DEF Continue

\* A thread retires some pipelines and goes on.
LEMMA RetiresThen ==
  ASSUME TypeOK, NEW t \in Threads, Shape(t), NEW ps \in SUBSET Pipes, NEW l \in Returns,
         t \in Enders \/ l = "watch" => reg[t].p \in Pipes, RetireThen(t, ps, l)
  PROVE  Moves(t)
<1>0. reg[t] \in Regs /\ reg[t].ret \in Returns
  BY DEF TypeOK, Shape
<1>1. CASE ps = {} /\ l # "watch"
  BY <1>1, Continues, ReturnsPlain DEF RetireThen
<1>2. CASE ps = {} /\ l = "watch"
  <2>1. Goto(t, l) /\ UNCHANGED reg
    BY <1>2 DEF RetireThen, Continue
  <2>2. Fits(t, l, reg[t]) /\ l \in Labels
    BY <1>0, <1>2, ReturnsPlain DEF Fits
  <2> QED BY <2>1, <2>2, StaysFitting
<1>3. CASE ps # {}
  <2> DEFINE r == [reg[t] EXCEPT !.kill = ps, !.ret = l]
  <2>1. r \in Regs /\ r.ret = l /\ r.p = reg[t].p
    <3>1. l \in Labels
      BY ReturnsPlain DEF Plain
    <3> QED BY <1>0, <3>1 DEF Regs
  <2>2. Goto(t, "retire") /\ reg' = [reg EXCEPT ![t] = r]
    BY <1>3 DEF RetireThen, TypeOK
  <2> HIDE DEF r
  <2>3. Fits(t, "retire", r)
    BY <2>1 DEF Fits, Claiming
  <2> QED BY <2>1, <2>2, <2>3, ReturnsPlain, GoesFitting
<1> QED BY <1>1, <1>2, <1>3

\* Every step of a request ...
LEMMA RequestMoves ==
  ASSUME TypeOK, Order, WarmKnown, NEW t \in Requests, Shape(t), Request(t)
  PROVE  Moves(t) /\ calls' \in 0..MaxCalls
<1> USE DEF clipState, counters, history
<1>0. /\ t \in Threads /\ t \notin Enders /\ reg[t] \in Regs
      /\ voices \in SUBSET Clip /\ focus \in Clip /\ gen \in Nat
      /\ Slot \in SUBSET Pipes /\ {focus.p} \ {None} \in SUBSET Pipes
  BY PlaybackAssumption DEF PlaybackAssumption, TypeOK, Threads, Enders, Slot, AnyPipe, Clip
<1>1. ASSUME NEW op, Begin(t, op) PROVE calls' \in 0..MaxCalls
  BY <1>1, PlaybackAssumption DEF PlaybackAssumption, Begin, TypeOK
<1>2. calls \in 0..MaxCalls
  BY DEF TypeOK
<1>c. ASSUME NEW p, NEW l \in Returns \ {"watch"}, ClearIfCurrent(t, p, l) PROVE Moves(t)
  <2> DEFINE ps == IF Running(p) THEN {p} ELSE {}
  <2>1. ps \in SUBSET Pipes
    BY <1>0 DEF Running, Clips, Order, Clip, AnyPipe
  <2>2. RetireThen(t, ps, l)
    BY <1>c DEF ClearIfCurrent
  <2> QED BY <1>0, <2>1, <2>2, RetiresThen
\* Fire, Warm and StopCue.
<1>3. ASSUME NEW c \in Cues, Fire(t, c) PROVE Moves(t) /\ calls' \in 0..MaxCalls
  <2> DEFINE hit == warm.cue = c
             r == [NoRegs EXCEPT !.cue = c, !.op = IF hit THEN "warmFire" ELSE "fire",
                                 !.p = IF hit THEN warm.p ELSE None]
  <2>1. hit => warm.p \in Pipes
    BY PlaybackAssumption DEF PlaybackAssumption, WarmKnown, TypeOK, AnyPipe
  <2>2. r \in Regs /\ r.ret = "idle" /\ (hit => r.p \in Pipes)
    BY <2>1 DEF NoRegs, Regs, Ops, AnyPipe, Labels
  <2>3. reg' = [reg EXCEPT ![t] = r] /\ Goto(t, IF hit THEN "wire" ELSE "cold") /\ Begin(t, "fire")
    BY <1>3 DEF Fire
  <2> HIDE DEF r
  <2>4. Moves(t)
    BY <1>0, <2>2, <2>3 DEF TypeOK, Moves, Shape, Goto, Claiming, Labels, Returns
  <2> QED BY <1>1, <2>3, <2>4
<1>4. ASSUME NEW c \in Cues, Warm(t, c) PROVE Moves(t) /\ calls' \in 0..MaxCalls
  <2> DEFINE r == [reg[t] EXCEPT !.op = "warm", !.cue = c, !.gen = gen]
             s == [reg[t] EXCEPT !.op = "warm", !.cue = c, !.gen = gen, !.kill = Slot,
                                 !.ret = "build"]
  <2>1. \/ Goto(t, "build") /\ reg' = [reg EXCEPT ![t] = r]
        \/ Goto(t, "retire") /\ reg' = [reg EXCEPT ![t] = s]
    <3>1. t \in DOMAIN reg
      BY <1>0 DEF TypeOK
    <3> QED BY <1>4, <3>1 DEF Warm
  <2>2. r \in Regs /\ s \in Regs /\ r.ret = reg[t].ret /\ s.ret = "build"
    <3>1. "warm" \in Ops /\ "build" \in Labels
      BY DEF Ops, Labels
    <3>2. Local(r, reg[t].p, reg[t].ret) /\ Local(s, reg[t].p, "build")
      BY <1>0, <3>1, LocalsTyped
    <3> QED BY <3>2 DEF Local
  <2>3. "build" \in Plain /\ "retire" \in Labels /\ Fits(t, "retire", s)
    BY <1>0, <2>2 DEF Plain, Labels, Claiming, Returns, Fits
  <2>4. reg[t].ret \in Returns
    BY DEF Shape
  <2> HIDE DEF r, s
  <2>5. Moves(t)
    BY <1>0, <2>1, <2>2, <2>3, <2>4, GoesWith, GoesFitting
  <2> QED BY <1>1, <1>4, <2>5 DEF Warm
<1>5. ASSUME NEW c \in Cues, StopCue(t, c) PROVE Moves(t) /\ calls' \in 0..MaxCalls
  <2> DEFINE k == IF focus.p # None /\ focus.cue = c THEN focus
                  ELSE Newest({v \in voices : v.cue = c})
  <2>1. k.p # None /\ (UNCHANGED <<pc, reg>> \/ RetireThen(t, {k.p}, "idle")) /\ Begin(t, "stopCue")
    BY <1>5 DEF StopCue
  <2>2. {v \in voices : v.cue = c} \in SUBSET Clip /\ loads \in Nat
        /\ \A w \in {v \in voices : v.cue = c} : w.fired <= loads
    BY <1>0 DEF Order, TypeOK
  <2>3. k \in Clip
    BY <1>0, <2>2, NewestIs, NoClipTyped
  <2>4. {k.p} \in SUBSET Pipes /\ "idle" \in Returns
    BY <2>1, <2>3 DEF Clip, AnyPipe, Returns
  <2> HIDE DEF k
  <2>5. CASE UNCHANGED <<pc, reg>>
    BY <1>0, <1>1, <2>1, <2>5 DEF Moves, Shape, TypeOK
  <2>6. CASE RetireThen(t, {k.p}, "idle")
    BY <1>0, <1>1, <2>1, <2>4, <2>6, RetiresThen
  <2> QED BY <2>1, <2>5, <2>6
\* Loads.
<1>6. CASE Wire(t)
  <2> DEFINE ps == {reg[t].p}
  <2>1. pc[t] = "wire" /\ ps \in SUBSET Pipes /\ "cold" \in Returns
    BY <1>6 DEF Wire, Shape, Claiming, Returns
  <2>2. calls' = calls /\ ((Goto(t, "install") /\ UNCHANGED reg) \/ RetireThen(t, ps, "cold"))
    BY <1>6 DEF Wire
  <2> HIDE DEF ps
  <2>3. CASE Goto(t, "install") /\ UNCHANGED reg
    <3>1. Fits(t, "install", reg[t]) /\ "install" \in Labels
      BY <1>0, <2>1 DEF Fits, Shape, Labels, Claiming
    <3> QED BY <1>0, <1>2, <2>2, <2>3, <3>1, StaysFitting
  <2>4. CASE RetireThen(t, ps, "cold")
    BY <1>0, <1>2, <2>1, <2>2, <2>4, RetiresThen
  <2> QED BY <2>2, <2>3, <2>4
<1>7. CASE Cold(t)
  BY <1>0, <1>2, <1>7, RetiresThen DEF Cold, Returns
<1>8. CASE Build(t)
  <2>1. CASE Finish(t)
    BY <1>0, <1>2, <1>8, <2>1, Finishes DEF Build
  <2>2. CASE ~Finish(t)
    <3>1. PICK p \in Pipes :
            /\ reg' = [reg EXCEPT ![t].p = p, ![t].op = IF @ = "warm" THEN @ ELSE "fire"]
            /\ Goto(t, IF reg[t].op = "warm" THEN "park" ELSE "install")
      BY <1>8, <2>2 DEF Build
    <3> DEFINE o == IF reg[t].op = "warm" THEN reg[t].op ELSE "fire"
               r == [reg[t] EXCEPT !.p = p, !.op = o]
    <3>2. o \in Ops /\ p \in AnyPipe
      BY <1>0 DEF Regs, Ops, AnyPipe
    <3>3. Local(r, p, reg[t].ret)
      BY <1>0, <3>2, LocalsTyped
    <3>4. reg' = [reg EXCEPT ![t] = r]
      BY <1>0, <3>1 DEF TypeOK
    <3> HIDE DEF r, o
    <3>5. r \in Regs /\ r.p \in Pipes /\ r.ret \in Returns
      BY <3>3 DEF Local, Shape
    <3>6. \A l \in {"park", "install"} : l \in Labels /\ Fits(t, l, r)
      BY <1>0, <3>5 DEF Labels, Fits
    <3>7. Moves(t)
      BY <1>0, <3>1, <3>4, <3>5, <3>6, GoesFitting
    <3> QED BY <1>2, <1>8, <3>7 DEF Build
  <2> QED BY <2>1, <2>2
<1>9. CASE Install(t)
  <2> DEFINE c == reg[t].cue
             old == IF Layered /\ c \in Keep THEN {} ELSE {k.p : k \in Clips}
             away == IF Layered /\ c \in Cross THEN old ELSE {}
  <2>1. RetireThen(t, (old \ away) \cup Slot, "watch") /\ calls' = calls
    BY <1>9 DEF Install
  <2>2. old \in SUBSET Pipes
    BY <1>0 DEF Clips, Order, Clip, AnyPipe
  <2>3. (old \ away) \cup Slot \in SUBSET Pipes /\ "watch" \in Returns
    BY <1>0, <2>2 DEF Returns
  <2>4. reg[t].p \in Pipes
    BY <1>9 DEF Install, Shape, Claiming
  <2> HIDE DEF old, away
  <2> QED BY <1>0, <1>2, <2>1, <2>3, <2>4, RetiresThen
<1>10. /\ {"start", "commit", "run", "running", "tag", "idle", "play", "playIntent", "playHow",
           "resume", "resumed"} \subseteq Plain
       /\ {"voicesOn", "voicesOff", "pause", "pausedFocus", "pauseMark", "toggled",
           "toggleMark", "fade", "faded", "stopNull", "stopClear", "stopEmpty",
           "preroll"} \subseteq Plain
  BY DEF Plain, Labels, Claiming
<1>11. AfterStart(t) => Moves(t)
  BY <1>0, <1>10, Continues DEF AfterStart
<1>12. reg \in [Threads -> Regs] /\ reg[t].ret \in Returns
  BY DEF TypeOK, Shape
<1>13. CASE AddWatch(t) \/ Preroll(t) \/ Run(t) \/ Tag(t) \/ PlayIntent(t) \/ PlayHow(t)
           \/ Resume(t) \/ PauseFocus(t) \/ ToggleMark(t) \/ StopNull(t)
  <2>1. UNCHANGED reg /\ calls' = calls
    BY <1>13 DEF AddWatch, Preroll, Run, Tag, PlayIntent, PlayHow, Resume, PauseFocus,
                 ToggleMark, StopNull, ChangeState
  <2>2. \E l \in Plain : Goto(t, l)
    BY <1>10, <1>13 DEF AddWatch, Preroll, Run, Tag, PlayIntent, PlayHow, Resume, PauseFocus,
                 ToggleMark, StopNull, ChangeState
  <2> QED BY <1>0, <1>2, <2>1, <2>2, Goes
<1>14. CASE Start(t)
  <2>1. CASE AfterStart(t)
    BY <1>2, <1>11, <1>14, <2>1 DEF Start
  <2>2. CASE reg' = [reg EXCEPT ![t].gen = gen] /\ Goto(t, "preroll")
    <3> DEFINE r == [reg[t] EXCEPT !.gen = gen]
    <3>1. Local(r, reg[t].p, reg[t].ret) /\ reg' = [reg EXCEPT ![t] = r]
      BY <1>0, <1>12, <2>2, LocalsTyped
    <3> HIDE DEF r
    <3> QED BY <1>0, <1>2, <1>10, <1>12, <1>14, <2>2, <3>1, GoesWith DEF Start, Local
  <2> QED BY <1>14, <2>1, <2>2 DEF Start
<1>15. CASE Commit(t) \/ Started(t)
  <2>1. calls' = calls /\ (AfterStart(t) \/ (Goto(t, "run") /\ UNCHANGED reg))
    BY <1>15 DEF Commit, Started
  <2> QED BY <1>0, <1>2, <1>10, <1>11, <2>1, Goes
<1>16. CASE StartFails(t) \/ Faded(t)
  <2>1. {"cold", "idle"} \subseteq Returns \ {"watch"}
    BY DEF Returns
  <2>2. \E l \in {"cold", "idle"} : ClearIfCurrent(t, reg[t].p, l)
    BY <1>16 DEF StartFails, Faded
  <2>3. calls' = calls
    BY <2>2 DEF ClearIfCurrent
  <2> QED BY <1>2, <1>c, <2>1, <2>2, <2>3
\* Play and Pause.
<1>17. CASE Play(t)
  BY <1>0, <1>1, <1>10, <1>17, Goes DEF Play
<1>18. CASE PlayRead(t)
  <2>1. CASE Finish(t)
    BY <1>0, <1>2, <1>18, <2>1, Finishes DEF PlayRead
  <2>2. CASE ~Finish(t)
    <3> DEFINE r == [NoRegs EXCEPT !.p = focus.p, !.op = "play"]
    <3>1. reg' = [reg EXCEPT ![t] = r] /\ Goto(t, "playIntent") /\ calls' = calls
      BY <1>18, <2>2 DEF PlayRead
    <3>2. focus.p \in AnyPipe /\ "play" \in Ops /\ "idle" \in Returns
      BY <1>0 DEF Clip, Ops, Returns
    <3>3. Local(r, focus.p, "idle")
      <4>1. Local(r, focus.p, NoRegs.ret)
        BY <3>2, NoRegsTyped, LocalsTyped
      <4> QED BY <4>1, NoRegsTyped
    <3> HIDE DEF r
    <3> QED BY <1>0, <1>2, <1>10, <3>1, <3>2, <3>3, GoesWith DEF Local
  <2> QED BY <2>1, <2>2
<1>19. CASE Resumed(t) \/ PausedFocus(t)
  <2>1. calls' = calls /\ (Continue(t, "voicesOn") \/ Continue(t, "voicesOff"))
    BY <1>19 DEF Resumed, PausedFocus, Recheck
  <2> QED BY <1>0, <1>2, <1>10, <2>1, Continues
<1>20. voices # {} => {v.p : v \in voices} \in SUBSET Pipes
  BY <1>0 DEF Order, Clip, AnyPipe
<1>21. CASE ResumeVoices(t) \/ PauseVoices(t)
  <2>1. PICK ps \in SUBSET Pipes, x \in {"paused", "playing"} :
          reg' = [reg EXCEPT ![t].kill = ps, ![t].to = x]
    <3>1. \A vs \in SUBSET voices : {v.p : v \in vs} \in SUBSET Pipes
      BY <1>20
    <3>2. CASE ResumeVoices(t)
      <4> DEFINE vs == {v \in voices : v.paused /\ ~v.held}
      <4>1. reg' = [reg EXCEPT ![t].kill = {v.p : v \in vs}, ![t].to = "playing"]
        BY <3>2 DEF ResumeVoices
      <4>2. vs \in SUBSET voices
        OBVIOUS
      <4> QED BY <3>1, <4>1, <4>2
    <3>3. CASE PauseVoices(t)
      <4> DEFINE vs == {v \in voices : ~v.paused}
      <4>1. reg' = [reg EXCEPT ![t].kill = {v.p : v \in vs}, ![t].to = "paused"]
        BY <3>3 DEF PauseVoices
      <4>2. vs \in SUBSET voices
        OBVIOUS
      <4> QED BY <3>1, <4>1, <4>2
    <3> QED BY <1>21, <3>2, <3>3
  <2> DEFINE r == [reg[t] EXCEPT !.kill = ps, !.to = x]
  <2>2. calls' = calls /\ Goto(t, "setVoices")
    BY <1>21 DEF ResumeVoices, PauseVoices
  <2>3. reg' = [reg EXCEPT ![t] = r]
    BY <1>0, <1>12, <2>1
  <2>4. Local(r, reg[t].p, reg[t].ret) /\ r.to = x
    BY <1>0 DEF Regs, Local
  <2> HIDE DEF r
  <2>5. Fits(t, "setVoices", r) /\ "setVoices" \in Labels /\ r \in Regs
    BY <1>0, <1>12, <2>4 DEF Fits, Labels, Claiming, Local
  <2> QED BY <1>0, <1>2, <2>2, <2>3, <2>5, GoesFitting
<1>22. CASE SetVoices(t)
  <2>1. calls' = calls /\ (Finish(t) \/ (Goto(t, "pauseMark") /\ UNCHANGED reg))
    BY <1>22 DEF SetVoices
  <2> QED BY <1>0, <1>2, <1>10, <2>1, Finishes, Goes
<1>23. CASE PauseMark(t)
  BY <1>0, <1>2, <1>23, Finishes DEF PauseMark
<1>24. focus.p \in AnyPipe /\ {"pause", "toggle", "stop", "panic", "fade"} \subseteq Ops
  BY <1>0 DEF Clip, Ops
<1>25. CASE Pause(t) \/ Toggle(t)
  <2>1. PICK o \in {"pause", "toggle"} :
          Begin(t, o) /\ reg' = [reg EXCEPT ![t].op = o, ![t].p = focus.p] /\ Goto(t, o)
    BY <1>25 DEF Pause, Toggle
  <2> DEFINE r == [reg[t] EXCEPT !.op = o, !.p = focus.p]
  <2>2. reg' = [reg EXCEPT ![t] = r]
    BY <1>0, <1>12, <2>1
  <2>3. r \in Regs /\ r.ret = reg[t].ret /\ r.p = focus.p
    BY <1>24, <1>0 DEF Regs
  <2>4. Begin(t, o) /\ Goto(t, o) /\ focus.p \in Pipes
    BY <1>24, <1>25, <2>1 DEF Pause, Toggle, AnyPipe
  <2> HIDE DEF r
  <2>5. Fits(t, o, r) /\ o \in Labels
    BY <1>0, <1>12, <2>3, <2>4 DEF Fits, Labels
  <2>6. Moves(t)
    BY <1>0, <2>2, <2>3, <2>4, <2>5, GoesFitting
  <2> QED BY <1>1, <2>1, <2>6
<1>26. CASE ToggleState(t)
  <2> DEFINE y == CASE gst[reg[t].p] = "playing" -> "paused"
                    [] gst[reg[t].p] = "paused" -> "playing"
                    [] OTHER -> gst[reg[t].p]
             r == [reg[t] EXCEPT !.to = y]
  <2>1. reg[t].p \in Pipes
    BY <1>26 DEF ToggleState, Shape
  <2>2. y \in {"null", "new", "paused", "playing"}
    BY <2>1 DEF TypeOK
  <2>3. calls' = calls /\ Goto(t, "toggled") /\ reg' = [reg EXCEPT ![t].to = y]
    BY <1>26 DEF ToggleState
  <2> HIDE DEF y
  <2>4. r \in Regs /\ r.ret = reg[t].ret /\ r.p = reg[t].p /\ reg' = [reg EXCEPT ![t] = r]
    BY <1>0, <1>12, <2>2, <2>3 DEF Regs
  <2> HIDE DEF r
  <2> QED BY <1>0, <1>2, <1>10, <1>12, <2>3, <2>4, GoesWith
<1>27. CASE Toggled(t)
  <2>1. calls' = calls /\ (Finish(t) \/ (Goto(t, "toggleMark") /\ UNCHANGED reg))
    BY <1>27 DEF Toggled
  <2> QED BY <1>0, <1>2, <1>10, <2>1, Finishes, Goes
\* Stop, Panic and the fades.
<1>28. ASSUME NEW op \in {"stop", "panic"}, Halt(t, op) PROVE Moves(t) /\ calls' \in 0..MaxCalls
  <2> DEFINE r == [reg[t] EXCEPT !.op = op, !.kill = Fading]
  <2>1. Begin(t, op) /\ Goto(t, "cut") /\ reg' = [reg EXCEPT ![t] = r]
    BY <1>0, <1>12, <1>28 DEF Halt
  <2>2. r \in Regs /\ r.ret = reg[t].ret /\ r.op = op
    BY <1>0, <1>24 DEF Regs, Fading
  <2> HIDE DEF r
  <2>3. Fits(t, "cut", r) /\ "cut" \in Labels
    BY <1>0, <1>12, <2>2 DEF Fits, Labels, Claiming
  <2> QED BY <1>0, <1>1, <2>1, <2>2, <2>3, GoesFitting
<1>29. CASE Cut(t)
  <2> DEFINE r == [reg[t] EXCEPT !.kill = {}]
  <2>1. calls' = calls /\ Goto(t, "stopVoices") /\ reg' = [reg EXCEPT ![t] = r]
    BY <1>0, <1>12, <1>29 DEF Cut
  <2>2. r \in Regs /\ r.ret = reg[t].ret /\ r.op = reg[t].op
    BY <1>0 DEF Regs
  <2>3. reg[t].op \in {"fade", "stop", "panic"}
    BY <1>29 DEF Cut, Shape
  <2> HIDE DEF r
  <2>4. Fits(t, "stopVoices", r) /\ "stopVoices" \in Labels
    BY <1>0, <1>12, <2>2, <2>3 DEF Fits, Labels, Claiming
  <2> QED BY <1>0, <1>2, <2>1, <2>2, <2>4, GoesFitting
<1>30. CASE FadeAndStop(t)
  <2> DEFINE r == [reg[t] EXCEPT !.op = "fade", !.p = focus.p, !.gen = gen]
  <2>1. Begin(t, "fade") /\ Goto(t, "stopVoices") /\ reg' = [reg EXCEPT ![t] = r]
    BY <1>0, <1>12, <1>30 DEF FadeAndStop
  <2>2. r \in Regs /\ r.ret = reg[t].ret /\ r.op = "fade"
    BY <1>0, <1>24 DEF Regs
  <2> HIDE DEF r
  <2>3. Fits(t, "stopVoices", r) /\ "stopVoices" \in Labels
    BY <1>0, <1>12, <2>2 DEF Fits, Labels, Claiming
  <2> QED BY <1>0, <1>1, <2>1, <2>2, <2>3, GoesFitting
<1>31. CASE StopVoices(t)
  <2> DEFINE vs == {v.p : v \in voices}
             away == IF reg[t].op = "fade" /\ Layered THEN vs ELSE {}
             ps == vs \ away
  <2>1. calls' = calls /\ RetireThen(t, ps, reg[t].op)
    BY <1>31 DEF StopVoices
  <2>2. reg[t].op \in Returns \ {"watch"}
    BY <1>31 DEF StopVoices, Shape, Returns
  <2>3. ps \in SUBSET Pipes
    BY <1>20
  <2> HIDE DEF ps
  <2> QED BY <1>0, <1>2, <2>1, <2>2, <2>3, RetiresThen
<1>32. CASE FadeTick(t)
  <2>1. calls' = calls /\ (Finish(t) \/ (Goto(t, "faded") /\ UNCHANGED reg))
    BY <1>32 DEF FadeTick
  <2> QED BY <1>0, <1>2, <1>10, <2>1, Finishes, Goes
<1>33. "idle" \in Returns
  BY DEF Returns
<1>34. CASE PanicNow(t)
  <2> DEFINE ps == ({focus.p} \ {None}) \cup Slot
  <2>1. calls' = calls /\ RetireThen(t, ps, "idle")
    BY <1>34 DEF PanicNow
  <2>2. ps \in SUBSET Pipes
    BY <1>0
  <2> HIDE DEF ps
  <2> QED BY <1>0, <1>2, <1>33, <2>1, <2>2, RetiresThen
<1>35. CASE StopRead(t)
  <2> DEFINE r == [reg[t] EXCEPT !.p = focus.p]
  <2>1. /\ calls' = calls /\ reg' = [reg EXCEPT ![t] = r]
        /\ \E l \in {"stopEmpty", "stopNull"} : Goto(t, l)
    BY <1>0, <1>12, <1>35 DEF StopRead
  <2>2. r \in Regs /\ r.ret = reg[t].ret
    BY <1>0, <1>24 DEF Regs
  <2> HIDE DEF r
  <2> QED BY <1>0, <1>2, <1>10, <1>12, <2>1, <2>2, GoesWith
<1>36. CASE StopClear(t)
  <2>1. calls' = calls /\ (Finish(t) \/ RetireThen(t, Slot, "idle"))
    BY <1>36 DEF StopClear
  <2> QED BY <1>0, <1>2, <1>33, <2>1, Finishes, RetiresThen
<1>37. CASE Park(t)
  <2>1. calls' = calls /\ Goto(t, "warm") /\ UNCHANGED reg /\ reg[t].p \in Pipes
    BY <1>37 DEF Park, ChangeState, Shape, Claiming
  <2>2. Fits(t, "warm", reg[t]) /\ "warm" \in Labels
    BY <1>0, <1>12, <2>1 DEF Fits, Labels
  <2> QED BY <1>0, <1>2, <2>1, <2>2, StaysFitting
<1>38. CASE FillSlot(t)
  <2> DEFINE mine == {reg[t].p}
  <2>1. calls' = calls /\ (RetireThen(t, Slot, "idle") \/ RetireThen(t, mine, "idle"))
    BY <1>38 DEF FillSlot
  <2>2. mine \in SUBSET Pipes
    BY <1>38 DEF FillSlot, Shape, Claiming
  <2> HIDE DEF mine
  <2> QED BY <1>0, <1>2, <1>33, <2>1, <2>2, RetiresThen
<1> QED
  BY <1>3, <1>4, <1>5, <1>6, <1>7, <1>8, <1>9, <1>13, <1>14, <1>15, <1>16, <1>17, <1>18, <1>19,
     <1>21, <1>22, <1>23, <1>25, <1>26, <1>27, <1>28, <1>29, <1>30, <1>31, <1>32, <1>34, <1>35,
     <1>36, <1>37, <1>38 DEF Request

\* ... a step that moves nobody ...
LEMMA StandsStill ==
  ASSUME TypeOK, NEW t \in Threads, Shape(t), UNCHANGED <<pc, reg>>
  PROVE  Moves(t)
  BY DEF TypeOK, Moves, Shape

\* ... every step of an end handler ...
LEMMA EndMoves ==
  ASSUME TypeOK, Order, NEW t \in Enders, Shape(t),
         End(t) \/ (t = "bus" /\ (FocusError \/ VoiceError))
  PROVE  Moves(t) /\ calls' \in 0..MaxCalls
<1> USE DEF clipState, counters, history
<1>0. /\ t \in Threads /\ reg \in [Threads -> Regs] /\ reg[t] \in Regs /\ voices \in SUBSET Clip
      /\ focus \in Clip /\ reg[t].ret \in Returns /\ calls \in 0..MaxCalls
      /\ t \in DOMAIN reg
  BY DEF TypeOK, Threads, Shape
<1>1. /\ {"loop", "looped", "loopMark", "hold", "held", "holdMark", "clear", "focusDone",
           "focusLooped", "voiceDone", "voiceKept", "voiceLoop", "voiceHold"} \subseteq Plain
      /\ {"idle", "cleared", "voiceCleared"} \subseteq Returns
  BY DEF Plain, Labels, Claiming, Returns
<1>2. pc[t] # "idle" /\ reg[t].p \in Pipes
  <2>1. pc[t] # "idle"
    BY DEF End, FocusEnd, LoopFocus, LoopedFocus, LoopMark, HoldFocus, HeldFocus, HoldMark,
           ClearFocus, Cleared, VoiceEnd, LoopVoice, HoldVoice, EndReturns, Rewind, Recheck,
           ChangeState, FocusError, VoiceError
  <2> QED BY <2>1 DEF Shape
<1>3. ASSUME NEW p, NEW l \in Returns, ClearIfCurrent(t, p, l) PROVE Moves(t) /\ calls' = calls
  <2> DEFINE ps == IF Running(p) THEN {p} ELSE {}
  <2>1. ps \in SUBSET Pipes
    BY <1>0 DEF Running, Clips, Order, Clip, AnyPipe
  <2>2. RetireThen(t, ps, l) /\ calls' = calls
    BY <1>3 DEF ClearIfCurrent
  <2> HIDE DEF ps
  <2> QED BY <1>0, <1>2, <2>1, <2>2, RetiresThen
<1>4. CASE FocusEnd(t)
  <2>1. CASE Goto(t, "focusDone") /\ UNCHANGED reg
    BY <1>0, <1>1, <1>2, <1>4, <2>1, Goes DEF FocusEnd
  <2>2. CASE focus.p = reg[t].p
    <3> DEFINE r == [reg[t] EXCEPT !.cue = focus.cue]
    <3>1. /\ calls' = calls /\ reg' = [reg EXCEPT ![t] = r]
          /\ \E l \in {"loop", "hold", "clear"} : Goto(t, l)
      BY <1>0, <1>4, <2>2 DEF FocusEnd
    <3>2. r \in Regs /\ r.ret = reg[t].ret /\ r.p = reg[t].p
      BY <1>0 DEF Regs, Clip
    <3> HIDE DEF r
    <3> QED BY <1>0, <1>1, <1>2, <3>1, <3>2, GoesWith
  <2> QED BY <1>4, <2>1, <2>2 DEF FocusEnd
<1>5. CASE \/ LoopFocus(t) \/ LoopMark(t) \/ HoldFocus(t) \/ HoldMark(t) \/ Cleared(t)
           \/ LoopVoice(t) \/ HoldVoice(t)
  <2>1. UNCHANGED reg /\ calls' = calls
    BY <1>5 DEF LoopFocus, LoopMark, HoldFocus, HoldMark, Cleared, LoopVoice, HoldVoice,
                ChangeState, Rewind
  <2>2. \E l \in {"looped", "focusLooped", "held", "focusDone", "voiceDone", "voiceKept"} :
          Goto(t, l)
    BY <1>5 DEF LoopFocus, LoopMark, HoldFocus, HoldMark, Cleared, LoopVoice, HoldVoice,
                ChangeState, Rewind
  <2>3. {"looped", "focusLooped", "held", "focusDone", "voiceDone", "voiceKept"} \subseteq Plain
    BY <1>1
  <2> QED BY <1>0, <1>2, <2>1, <2>2, <2>3, Goes
<1>6. CASE LoopedFocus(t) \/ HeldFocus(t)
  <2>1. calls' = calls /\ (Continue(t, "loopMark") \/ Continue(t, "holdMark"))
    BY <1>6 DEF LoopedFocus, HeldFocus, Recheck
  <2> QED BY <1>0, <1>1, <1>2, <2>1, Continues
<1>7. CASE ClearFocus(t) \/ (t = "bus" /\ FocusError)
  BY <1>0, <1>1, <1>3, <1>7 DEF ClearFocus, FocusError
<1>8. CASE VoiceEnd(t)
  <2>1. CASE \E l \in {"voiceDone", "voiceLoop", "voiceHold"} : Goto(t, l) /\ UNCHANGED reg
    <3>1. {"voiceDone", "voiceLoop", "voiceHold"} \subseteq Plain
      BY <1>1
    <3> QED BY <1>0, <1>2, <1>8, <2>1, <3>1, Goes DEF VoiceEnd
  <2>2. CASE ~ \E l \in {"voiceDone", "voiceLoop", "voiceHold"} : Goto(t, l) /\ UNCHANGED reg
    <3>1. PICK v \in voices :
            reg' = [reg EXCEPT ![t].cue = v.cue, ![t].kill = {reg[t].p}, ![t].ret = "voiceCleared"]
      BY <1>8, <2>2 DEF VoiceEnd
    <3> DEFINE r == [reg[t] EXCEPT !.cue = v.cue, !.kill = {reg[t].p}, !.ret = "voiceCleared"]
    <3>2. reg' = [reg EXCEPT ![t] = r]
      BY <1>0, <3>1
    <3>3. v.cue \in Cues \cup {0} /\ "voiceCleared" \in Labels /\ {reg[t].p} \in SUBSET Pipes
      BY <1>0, <1>2 DEF Clip, Labels
    <3>4. r \in Regs /\ r.ret = "voiceCleared" /\ r.p = reg[t].p
      BY <1>0, <3>3 DEF Regs
    <3>5. calls' = calls /\ Goto(t, "retire")
      BY <1>8, <2>2 DEF VoiceEnd
    <3> HIDE DEF r
    <3>6. Fits(t, "retire", r) /\ "retire" \in Labels
      BY <1>1, <1>2, <3>4 DEF Fits, Claiming, Labels
    <3> QED BY <1>0, <3>2, <3>4, <3>5, <3>6, GoesFitting
  <2> QED BY <2>1, <2>2
<1>9. CASE EndReturns(t)
  BY <1>0, <1>9, Finishes DEF EndReturns
<1>10. CASE t = "bus" /\ VoiceError
  <2> DEFINE ps == {v.p : v \in {v \in voices : v.p = reg[t].p}}
  <2>1. calls' = calls /\ RetireThen(t, ps, "idle")
    BY <1>10 DEF VoiceError
  <2>2. ps \in SUBSET Pipes
    BY <1>2
  <2> HIDE DEF ps
  <2> QED BY <1>0, <1>1, <1>2, <2>1, <2>2, RetiresThen
<1> QED BY <1>4, <1>5, <1>6, <1>7, <1>8, <1>9, <1>10 DEF End

\* ... every retirement ...
LEMMA RetireMoves ==
  ASSUME TypeOK, NEW t \in Threads, Shape(t), Retire(t)
  PROVE  Moves(t) /\ calls' = calls
<1>0. reg[t] \in Regs /\ reg[t].ret \in Returns /\ (t \in Enders => reg[t].p \in Pipes)
  BY DEF TypeOK, Shape, Retire
<1>1. calls' = calls
  BY DEF Retire, history
<1>2. CASE Finish(t)
  BY <1>1, <1>2, Finishes
<1>3. CASE ~Finish(t)
  <2> DEFINE r == [reg[t] EXCEPT !.kill = {}]
  <2>1. Goto(t, reg[t].ret) /\ reg' = [reg EXCEPT ![t] = r]
    BY <1>3 DEF Retire, TypeOK
  <2>2. r \in Regs /\ r.ret = reg[t].ret /\ r.p = reg[t].p
    BY <1>0 DEF Regs
  <2>3. reg[t].ret = "watch" => r.p \in Pipes
    BY <2>2 DEF Shape, Retire
  <2> HIDE DEF r
  <2>4. Fits(t, reg[t].ret, r) /\ reg[t].ret \in Labels
    BY <1>0, <2>2, <2>3 DEF Fits, Returns, Labels, Claiming
  <2> QED BY <1>0, <1>1, <2>1, <2>2, <2>4, GoesFitting
<1> QED BY <1>2, <1>3

\* The handlers the main loop and the poll may take up.
TakesUp(t) ==
  \/ UNCHANGED <<pc, reg>>
  \/ Goto(t, "focusEnd") \/ Goto(t, "voiceEnd") \/ Goto(t, "focusError") \/ Goto(t, "voiceError")

\* ... and every event of a stream or a fade.
LEMMA StreamMoves ==
  ASSUME TypeOK, NEW p \in Pipes, Stream(p), \A t \in Enders : Shape(t)
  PROVE  (\E t \in Enders : Moves(t) /\ TakesUp(t)) /\ calls' = calls
<1> USE DEF history
<1>1. CASE UNCHANGED <<pc, reg>> /\ calls' = calls
  BY <1>1, StandsStill DEF Threads, Enders, TakesUp
<1>2. ASSUME NEW t \in Enders, Handle(t, p, "focusEnd", "voiceEnd")
                               \/ Handle(t, p, "focusError", "voiceError")
      PROVE  Moves(t) /\ TakesUp(t)
  <2> DEFINE r == [reg[t] EXCEPT !.p = p]
  <2>0. t \in Threads /\ reg[t] \in Regs /\ reg[t].ret \in Returns
    BY DEF TypeOK, Threads, Shape
  <2>1. PICK k \in {"focusEnd", "voiceEnd", "focusError", "voiceError"} :
          Goto(t, k) /\ reg' = [reg EXCEPT ![t] = r]
    BY <1>2, <2>0 DEF Handle, TypeOK
  <2>2. k \in Plain /\ TakesUp(t)
    BY <2>1 DEF Plain, Labels, Claiming, TakesUp
  <2>3. r \in Regs /\ r.p = p /\ r.ret = reg[t].ret
    BY <2>0 DEF Regs, AnyPipe
  <2> HIDE DEF r
  <2> QED BY <2>0, <2>1, <2>2, <2>3, GoesWith
<1>3. CASE ReachOut(p) \/ ReachEnd(p) \/ FadeRegisters(p) \/ FadeLeaves(p) \/ FadeRetires(p)
  BY <1>1, <1>3 DEF ReachOut, ReachEnd, FadeRegisters, FadeLeaves, FadeRetires
<1>4. CASE BusEOS(p)
  <2>1. CASE Handle("bus", p, "focusEnd", "voiceEnd")
    BY <1>2, <1>4, <2>1 DEF BusEOS, Enders
  <2> QED BY <1>1, <1>4, <2>1 DEF BusEOS
<1>5. CASE BusError(p) \/ TrimHits(p)
  <2>1. calls' = calls /\ \E t \in Enders : \/ Handle(t, p, "focusError", "voiceError")
                                            \/ Handle(t, p, "focusEnd", "voiceEnd")
    BY <1>5 DEF BusError, TrimHits, Enders
  <2> QED BY <1>2, <2>1
<1> QED BY <1>3, <1>4, <1>5 DEF Stream

-----------------------------------------------------------------------------
\* The rest of the state.  The poll that stands in a handler was counted, and
\* no step makes a pipeline new again.
NewPipes == {p \in Pipes : gst[p] = "new"}

Polling == pc["trim"] # "idle" => trim[reg["trim"].p] > 0

States == {"new", "null", "paused", "playing"}

StreamsKept ==
  /\ gst' \in [Pipes -> States] /\ at' \in [Pipes -> {"run", "out", "end"}] /\ eos' \subseteq Pipes
  /\ NewPipes' \subseteq NewPipes

RestKept ==
  /\ warm' \in [p : AnyPipe, cue : Cues \cup {0}] /\ WarmKnown'
  /\ gen' \in Nat /\ halts' \in Nat /\ loads' \in Nat
  /\ of' \in [Pipes -> Cues \cup {0}]
  /\ fade' \in [Pipes -> {"none", "spawned", "fading", "gone"}]
  /\ watch' \subseteq Pipes
  /\ trim' \in [Pipes -> Nat]
  /\ reports' \subseteq Pipes \X Cues
  /\ wish' \in {"run", "stop"}

\* The ways a step changes states: not at all ...
LEMMA StreamsStay == ASSUME TypeOK, UNCHANGED streams PROVE StreamsKept
  BY DEF TypeOK, StreamsKept, States, NewPipes, streams

\* ... one pipeline to a state, perhaps sought to its in-point ...
LEMMA StreamSet ==
  ASSUME TypeOK, NEW p, NEW x \in {"null", "paused", "playing"},
         gst' = [gst EXCEPT ![p] = x], at' = at \/ at' = [at EXCEPT ![p] = "run"], eos' = eos
  PROVE  StreamsKept
<1>1. gst' \in [Pipes -> States] /\ at' \in [Pipes -> {"run", "out", "end"}] /\ eos' \subseteq Pipes
  BY DEF TypeOK, States
<1>2. NewPipes' \subseteq NewPipes
  BY DEF TypeOK, NewPipes
<1> QED BY <1>1, <1>2 DEF StreamsKept

\* ... some pipelines to NULL ...
LEMMA NulledKept == ASSUME TypeOK, NEW ps, Nulled(ps) PROVE StreamsKept
<1>1. gst' \in [Pipes -> States] /\ at' \in [Pipes -> {"run", "out", "end"}] /\ eos' \subseteq Pipes
  BY DEF TypeOK, States, Nulled
<1>2. NewPipes' \subseteq NewPipes
  BY DEF TypeOK, NewPipes, Nulled
<1> QED BY <1>1, <1>2 DEF StreamsKept

\* ... or one, when it runs no more.
LEMMA RecheckKept == ASSUME TypeOK, NEW p, NullIfReplaced(p) PROVE StreamsKept
  BY StreamsStay, NulledKept DEF NullIfReplaced

\* What a request does to the states of pipelines.
LEMMA RequestStreams ==
  ASSUME TypeOK, NEW t \in Requests, Shape(t), Request(t)
  PROVE  StreamsKept
<1> USE DEF streams
<1>1. CASE \/ \E c \in Cues : Fire(t, c) \/ Warm(t, c) \/ StopCue(t, c)
           \/ Wire(t) \/ Cold(t) \/ Install(t) \/ AddWatch(t) \/ Start(t) \/ Commit(t)
           \/ StartFails(t) \/ Tag(t) \/ Play(t) \/ PlayRead(t) \/ PlayIntent(t)
  <2>1. UNCHANGED streams
    BY <1>1 DEF Fire, Warm, StopCue, Wire, Cold, Install, AddWatch, Start, Commit, StartFails,
                Tag, Play, PlayRead, PlayIntent, ClearIfCurrent
  <2> QED BY <2>1, StreamsStay
<1>2. CASE \/ ResumeVoices(t) \/ PauseVoices(t) \/ Pause(t) \/ PauseMark(t) \/ Toggle(t)
           \/ ToggleMark(t) \/ Halt(t, "stop") \/ Halt(t, "panic") \/ Cut(t) \/ StopVoices(t)
           \/ FadeAndStop(t) \/ FadeTick(t) \/ Faded(t) \/ PanicNow(t) \/ StopRead(t)
           \/ StopClear(t) \/ FillSlot(t)
  <2>1. UNCHANGED streams
    BY <1>2 DEF ResumeVoices, PauseVoices, Pause, PauseMark, Toggle, ToggleMark, Halt, Cut,
                StopVoices, FadeAndStop, FadeTick, Faded, PanicNow, StopRead, StopClear,
                FillSlot, ClearIfCurrent
  <2> QED BY <2>1, StreamsStay
<1>3. CASE Preroll(t) \/ Run(t) \/ Resume(t) \/ PauseFocus(t) \/ Park(t)
  <2>1. \E x \in {"paused", "playing"} : gst' = [gst EXCEPT ![reg[t].p] = x] /\ UNCHANGED <<at, eos>>
    BY <1>3 DEF Preroll, Run, Resume, PauseFocus, Park, ChangeState
  <2> QED BY <2>1, StreamSet
<1>4. CASE Started(t) \/ Resumed(t) \/ PausedFocus(t) \/ Toggled(t) \/ StopNull(t)
  <2>1. NullIfReplaced(reg[t].p) \/ Nulled({reg[t].p})
    BY <1>4 DEF Started, Resumed, PausedFocus, Toggled, StopNull, Recheck
  <2> QED BY <2>1, RecheckKept, NulledKept
<1>5. CASE Build(t)
  <2>1. (UNCHANGED streams) \/ \E p \in Pipes : gst' = [gst EXCEPT ![p] = "null"] /\ UNCHANGED <<at, eos>>
    BY <1>5 DEF Build
  <2> QED BY <2>1, StreamsStay, StreamSet
<1>6. CASE PlayHow(t)
  <2>1. gst' = gst /\ eos' = eos /\ (at' = at \/ at' = [at EXCEPT ![reg[t].p] = "run"])
    BY <1>6 DEF PlayHow
  <2> QED BY <2>1 DEF TypeOK, StreamsKept, States, NewPipes
<1>7. CASE SetVoices(t)
  <2>1. reg[t].to \in {"paused", "playing"} /\ UNCHANGED <<at, eos>>
    BY <1>7 DEF SetVoices, Shape
  <2>2. gst' \in [Pipes -> States] /\ NewPipes' \subseteq NewPipes
    BY <1>7, <2>1 DEF SetVoices, TypeOK, States, NewPipes
  <2> QED BY <2>1, <2>2 DEF TypeOK, StreamsKept
<1>8. CASE ToggleState(t)
  <2> DEFINE y == CASE gst[reg[t].p] = "playing" -> "paused"
                    [] gst[reg[t].p] = "paused" -> "playing"
                    [] OTHER -> gst[reg[t].p]
  <2>1. reg[t].p \in Pipes
    BY <1>8 DEF ToggleState, Shape
  <2>2. y \in {"paused", "playing", "null"} \/ y = gst[reg[t].p]
    BY <2>1 DEF TypeOK
  <2>3. gst' = [gst EXCEPT ![reg[t].p] = y] /\ UNCHANGED <<at, eos>>
    BY <1>8 DEF ToggleState
  <2> HIDE DEF y
  <2>4. CASE y = gst[reg[t].p]
    BY <2>1, <2>3, <2>4, StreamsStay DEF TypeOK
  <2> QED BY <2>2, <2>3, <2>4, StreamSet
<1> QED BY <1>1, <1>2, <1>3, <1>4, <1>5, <1>6, <1>7, <1>8 DEF Request

\* What everything else does to them.
LEMMA OthersStreams ==
  ASSUME TypeOK,
         \/ \E t \in Enders : End(t)
         \/ \E t \in Threads : Retire(t)
         \/ \E p \in Pipes : Stream(p)
         \/ FocusError \/ VoiceError
  PROVE  StreamsKept
<1> USE DEF streams
<1>1. ASSUME NEW t \in Enders, End(t) PROVE StreamsKept
  <2>1. CASE LoopFocus(t) \/ HoldFocus(t) \/ LoopVoice(t) \/ HoldVoice(t)
    <3>1. \E x \in {"paused", "playing"} :
            /\ gst' = [gst EXCEPT ![reg[t].p] = x] /\ UNCHANGED eos
            /\ at' = at \/ at' = [at EXCEPT ![reg[t].p] = "run"]
      BY <2>1 DEF LoopFocus, HoldFocus, LoopVoice, HoldVoice, Rewind, ChangeState
    <3> QED BY <3>1, StreamSet
  <2>2. CASE LoopedFocus(t) \/ HeldFocus(t)
    BY <2>2, RecheckKept DEF LoopedFocus, HeldFocus, Recheck
  <2>3. CASE \/ FocusEnd(t) \/ LoopMark(t) \/ HoldMark(t) \/ ClearFocus(t) \/ Cleared(t)
             \/ VoiceEnd(t) \/ EndReturns(t)
    <3>1. UNCHANGED streams
      BY <2>3 DEF FocusEnd, LoopMark, HoldMark, ClearFocus, Cleared, VoiceEnd, EndReturns,
                  ClearIfCurrent
    <3> QED BY <3>1, StreamsStay
  <2> QED BY <1>1, <2>1, <2>2, <2>3 DEF End
<1>2. CASE (\E t \in Threads : Retire(t)) \/ FocusError \/ VoiceError
  <2>1. (UNCHANGED streams) \/ \E t \in Threads : Nulled(reg[t].kill)
    BY <1>2 DEF Retire, FocusError, VoiceError, ClearIfCurrent
  <2> QED BY <2>1, StreamsStay, NulledKept
<1>3. ASSUME NEW p \in Pipes, Stream(p) PROVE StreamsKept
  <2>1. CASE FadeRetires(p)
    BY <2>1, NulledKept DEF FadeRetires
  <2>2. CASE BusError(p) \/ TrimHits(p) \/ FadeRegisters(p) \/ FadeLeaves(p)
    <3>1. UNCHANGED streams
      BY <2>2 DEF BusError, TrimHits, FadeRegisters, FadeLeaves
    <3> QED BY <3>1, StreamsStay
  <2>3. CASE ReachOut(p) \/ ReachEnd(p) \/ BusEOS(p)
    <3>1. gst' = gst /\ eos' \subseteq eos \cup {p}
          /\ (at' = at \/ \E x \in {"out", "end"} : at' = [at EXCEPT ![p] = x])
      BY <2>3 DEF ReachOut, ReachEnd, BusEOS
    <3> QED BY <3>1 DEF TypeOK, StreamsKept, States, NewPipes
  <2> QED BY <1>3, <2>1, <2>2, <2>3 DEF Stream
<1> QED BY <1>1, <1>2, <1>3

\* A step that leaves the slot, the counters and the watches alone.
LEMMA RestStays ==
  ASSUME TypeOK, WarmKnown, UNCHANGED <<warm, counters, watchers, of, fade, reports>>,
         wish' \in {wish, "run", "stop"}
  PROVE  RestKept
  BY DEF TypeOK, WarmKnown, RestKept, counters, watchers

\* The empty slot.
LEMMA WarmTyped ==
  /\ NoWarm \in [p : AnyPipe, cue : Cues \cup {0}] /\ NoWarm.p = None /\ NoWarm.cue = 0
  BY DEF NoWarm, AnyPipe

\* A step that may empty the slot, count a decision and send clips to fade.
LEMMA SlotEmptied ==
  ASSUME TypeOK, WarmKnown, warm' \in {warm, NoWarm}, gen' \in {gen, gen + 1},
         halts' \in {halts, halts + 1}, loads' \in {loads, loads + 1},
         UNCHANGED <<watchers, of, reports>>, wish' \in {wish, "run", "stop"},
         fade' \in [Pipes -> {"none", "spawned", "fading", "gone"}]
  PROVE  RestKept
<1>1. warm' \in [p : AnyPipe, cue : Cues \cup {0}] /\ WarmKnown'
  BY WarmTyped DEF TypeOK, WarmKnown
<1>2. gen' \in Nat /\ halts' \in Nat /\ loads' \in Nat
  BY DEF TypeOK
<1> QED BY <1>1, <1>2 DEF TypeOK, RestKept, watchers

\* What a request does to the slot, the counters and the watches.
LEMMA RequestRest ==
  ASSUME TypeOK, WarmKnown, Order, NEW t \in Requests, Shape(t), Request(t)
  PROVE  RestKept
<1> USE DEF counters, watchers, history, clipState
<1>0. fade \in [Pipes -> {"none", "spawned", "fading", "gone"}] /\ reg[t] \in Regs
  BY DEF TypeOK, Threads
<1>1. CASE \/ Wire(t) \/ Start(t) \/ Commit(t) \/ Tag(t) \/ Play(t) \/ PlayRead(t) \/ PlayIntent(t)
           \/ ResumeVoices(t) \/ PauseVoices(t) \/ Pause(t) \/ PauseMark(t) \/ Toggle(t)
           \/ ToggleMark(t) \/ Halt(t, "stop") \/ Halt(t, "panic") \/ Cut(t) \/ FadeAndStop(t)
           \/ FadeTick(t)
  <2>1. UNCHANGED <<warm, counters, watchers, of, fade, reports>> /\ wish' \in {wish, "run", "stop"}
    BY <1>1 DEF Wire, Start, Commit, Tag, Play, PlayRead, PlayIntent, ResumeVoices, PauseVoices,
                Pause, PauseMark, Toggle, ToggleMark, Halt, Cut, FadeAndStop, FadeTick, Begin
  <2> QED BY <2>1, RestStays
<1>2. CASE \/ Preroll(t) \/ Run(t) \/ Resume(t) \/ PauseFocus(t) \/ Park(t) \/ PlayHow(t)
           \/ Resumed(t) \/ PausedFocus(t) \/ Toggled(t) \/ StopNull(t) \/ SetVoices(t)
           \/ ToggleState(t)
  <2>1. UNCHANGED <<warm, counters, watchers, of, fade, reports>> /\ wish' = wish
    BY <1>2 DEF Preroll, Run, Resume, PauseFocus, Park, PlayHow, ChangeState, Resumed,
                PausedFocus, Toggled, StopNull, Recheck, SetVoices, ToggleState
  <2> QED BY <2>1, RestStays
<1>3. CASE \/ \E c \in Cues : Warm(t, c)
           \/ Cold(t) \/ StartFails(t) \/ Faded(t) \/ PanicNow(t) \/ StopRead(t) \/ StopClear(t)
  <2>1. /\ warm' \in {warm, NoWarm} /\ gen' \in {gen, gen + 1} /\ halts' \in {halts, halts + 1}
        /\ loads' \in {loads, loads + 1} /\ UNCHANGED <<watchers, of, fade, reports>>
        /\ wish' \in {wish, "run", "stop"}
    BY <1>3 DEF Warm, Cold, StartFails, Faded, PanicNow, StopRead, StopClear, ClearIfCurrent, Begin
  <2> QED BY <1>0, <2>1, SlotEmptied
<1>4. ASSUME NEW c \in Cues, Fire(t, c) PROVE RestKept
  <2>1. /\ warm' \in {warm, NoWarm} /\ UNCHANGED <<counters, watchers, of, fade, reports, wish>>
    BY <1>4 DEF Fire, Begin
  <2> QED BY <1>0, <2>1, SlotEmptied
<1>5. ASSUME NEW c \in Cues, StopCue(t, c) PROVE RestKept
  <2>1. fade' \in [Pipes -> {"none", "spawned", "fading", "gone"}]
    BY <1>0, <1>5 DEF StopCue
  <2>2. gen' \in {gen, gen + 1} /\ UNCHANGED <<warm, halts, loads, watchers, of, reports, wish>>
    BY <1>5 DEF StopCue, Begin
  <2> QED BY <2>1, <2>2, SlotEmptied
<1>6. CASE Install(t)
  <2>1. fade' \in [Pipes -> {"none", "spawned", "fading", "gone"}]
    BY <1>0, <1>6 DEF Install
  <2>2. /\ warm' = NoWarm /\ gen' = gen + 1 /\ loads' = loads + 1 /\ wish' = "run"
        /\ UNCHANGED <<halts, watchers, of, reports>>
    BY <1>6 DEF Install
  <2> QED BY <2>1, <2>2, SlotEmptied
<1>7. CASE StopVoices(t)
  <2>1. fade' \in [Pipes -> {"none", "spawned", "fading", "gone"}]
    BY <1>0, <1>7 DEF StopVoices
  <2>2. UNCHANGED <<warm, counters, watchers, of, reports, wish>>
    BY <1>7 DEF StopVoices
  <2> QED BY <2>1, <2>2, SlotEmptied
<1>8. CASE Build(t)
  <2>1. of' \in [Pipes -> Cues \cup {0}]
    BY <1>0, <1>8 DEF Build, TypeOK, Regs
  <2>2. UNCHANGED <<warm, counters, watchers, fade, reports, wish>>
    BY <1>8 DEF Build
  <2> QED BY <2>1, <2>2 DEF TypeOK, WarmKnown, RestKept
<1>9. CASE AddWatch(t)
  <2>1. watch' \subseteq Pipes
    BY <1>9 DEF AddWatch, TypeOK, Shape
  <2>2. UNCHANGED <<warm, counters, trim, of, fade, reports, wish>>
    BY <1>9 DEF AddWatch
  <2> QED BY <2>1, <2>2 DEF TypeOK, WarmKnown, RestKept
<1>10. CASE Started(t)
  <2>0. trim' = trim \/ trim' = [trim EXCEPT ![reg[t].p] = @ + 1]
    BY <1>10 DEF Started
  <2>1. trim' \in [Pipes -> Nat]
    BY <2>0 DEF TypeOK
  <2>2. UNCHANGED <<warm, counters, watch, of, fade, reports, wish>>
    BY <1>10 DEF Started
  <2> QED BY <2>1, <2>2 DEF TypeOK, WarmKnown, RestKept
<1>11. CASE FillSlot(t)
  <2>1. warm' \in [p : AnyPipe, cue : Cues \cup {0}] /\ WarmKnown'
    <3>1. reg[t].p \in Pipes /\ reg[t].cue \in Cues \cup {0}
      BY <1>0, <1>11 DEF FillSlot, Shape, Claiming, Regs
    <3>2. warm' = warm \/ warm' = [p |-> reg[t].p, cue |-> reg[t].cue]
      BY <1>11 DEF FillSlot
    <3> QED BY <3>1, <3>2, PlaybackAssumption DEF PlaybackAssumption, TypeOK, WarmKnown, AnyPipe
  <2>2. UNCHANGED <<counters, watchers, of, fade, reports, wish>>
    BY <1>11 DEF FillSlot
  <2> QED BY <2>1, <2>2 DEF TypeOK, RestKept
<1> QED
  BY <1>1, <1>2, <1>3, <1>4, <1>5, <1>6, <1>7, <1>8, <1>9, <1>10, <1>11 DEF Request

\* What an end handler does to them.
LEMMA EndRest ==
  ASSUME TypeOK, WarmKnown, Polling, NEW t \in Enders, Shape(t),
         End(t) \/ (t = "bus" /\ (FocusError \/ VoiceError))
  PROVE  RestKept
<1> USE DEF counters, watchers, history, clipState
<1>0. /\ fade \in [Pipes -> {"none", "spawned", "fading", "gone"}] /\ reg[t] \in Regs
      /\ pc[t] # "idle" => reg[t].p \in Pipes
  BY DEF TypeOK, Threads, Shape
<1>1. CASE ClearFocus(t) \/ (t = "bus" /\ FocusError)
  <2>1. gen' \in {gen, gen + 1} /\ UNCHANGED <<warm, halts, loads, watchers, of, fade, reports, wish>>
    BY <1>1 DEF ClearFocus, FocusError, ClearIfCurrent
  <2> QED BY <1>0, <2>1, SlotEmptied
<1>2. CASE \/ FocusEnd(t) \/ LoopFocus(t) \/ LoopedFocus(t) \/ LoopMark(t) \/ HoldFocus(t)
           \/ HeldFocus(t) \/ VoiceEnd(t) \/ LoopVoice(t) \/ HoldVoice(t)
  <2>1. UNCHANGED <<warm, counters, watchers, of, fade, reports, wish>>
    BY <1>2 DEF FocusEnd, LoopFocus, LoopedFocus, LoopMark, HoldFocus, HeldFocus, VoiceEnd,
                LoopVoice, HoldVoice, Rewind, Recheck, ChangeState
  <2> QED BY <2>1, RestStays
<1>3. CASE HoldMark(t) \/ Cleared(t)
  <2>1. UNCHANGED <<warm, counters, watchers, of, fade, wish>> /\ Report(t) /\ reg[t].p \in Pipes
    BY <1>0, <1>3 DEF HoldMark, Cleared
  <2>2. reports' \subseteq Pipes \X Cues
    BY <1>0, <2>1 DEF Report, TypeOK, Regs
  <2> QED BY <2>1, <2>2 DEF TypeOK, WarmKnown, RestKept
<1>4. CASE EndReturns(t)
  <2>1. UNCHANGED <<warm, counters, of, fade, reports, wish>> /\ watch' \subseteq Pipes
    BY <1>4 DEF EndReturns, TypeOK
  <2>2. trim' \in [Pipes -> Nat]
    <3>1. CASE trim' = trim
      BY <3>1 DEF TypeOK
    <3>2. CASE t = "trim" /\ trim' = [trim EXCEPT ![reg[t].p] = @ - 1]
      <4>1. trim[reg[t].p] > 0
        BY <1>4, <3>2 DEF EndReturns, Polling
      <4>2. reg[t].p \in Pipes
        BY <1>0, <1>4 DEF EndReturns
      <4> QED BY <3>2, <4>1, <4>2 DEF TypeOK
    <3> QED BY <1>4, <3>1, <3>2 DEF EndReturns
  <2> QED BY <2>1, <2>2 DEF TypeOK, WarmKnown, RestKept
<1>5. CASE VoiceError
  <2>1. UNCHANGED <<warm, counters, trim, of, fade, reports, wish>> /\ watch' \subseteq Pipes
    BY <1>5 DEF VoiceError, TypeOK
  <2> QED BY <2>1 DEF TypeOK, WarmKnown, RestKept
<1> QED BY <1>1, <1>2, <1>3, <1>4, <1>5 DEF End

\* What everything else does to them.
LEMMA OthersRest ==
  ASSUME TypeOK, WarmKnown, (\E t \in Threads : Retire(t)) \/ \E p \in Pipes : Stream(p)
  PROVE  RestKept
<1> USE DEF counters, watchers, history
<1>1. ASSUME NEW t \in Threads, Retire(t) PROVE RestKept
  BY <1>1 DEF Retire, TypeOK, WarmKnown, RestKept
<1>2. ASSUME NEW p \in Pipes, Stream(p) PROVE RestKept
  <2>1. UNCHANGED <<warm, counters, trim, of, reports, wish>> /\ watch' \subseteq watch
    BY <1>2 DEF Stream, ReachOut, ReachEnd, BusEOS, BusError, TrimHits, FadeRegisters, FadeLeaves,
                FadeRetires
  <2>2. fade' = fade \/ \E x \in {"fading", "gone", "none"} : fade' = [fade EXCEPT ![p] = x]
    BY <1>2 DEF Stream, ReachOut, ReachEnd, BusEOS, BusError, TrimHits, FadeRegisters, FadeLeaves,
                FadeRetires
  <2>3. fade' \in [Pipes -> {"none", "spawned", "fading", "gone"}]
    BY <2>2 DEF TypeOK
  <2> QED BY <2>1, <2>3 DEF TypeOK, WarmKnown, RestKept
<1> QED BY <1>1, <1>2

\* No request takes a poll away from the handler that stands for it ...
LEMMA RequestPolling ==
  ASSUME TypeOK, Polling, Shape("trim"), NEW t \in Requests, Request(t), Moves(t)
  PROVE  Polling'
<1> USE DEF counters, watchers, history, clipState
<1>1. "trim" \in Threads \ {t} /\ (pc["trim"] # "idle" => reg["trim"].p \in Pipes)
  BY PlaybackAssumption DEF PlaybackAssumption, Threads, Enders, Shape
<1>2. pc'["trim"] = pc["trim"] /\ reg'["trim"] = reg["trim"]
  BY <1>1 DEF Moves
<1>3. CASE Started(t)
  <2>1. trim' = trim \/ trim' = [trim EXCEPT ![reg[t].p] = @ + 1]
    BY <1>3 DEF Started
  <2>2. \A p \in Pipes : trim[p] > 0 => trim'[p] > 0
    BY <2>1 DEF TypeOK
  <2> QED BY <1>1, <1>2, <2>2 DEF Polling
<1>4. CASE ~Started(t)
  <2>1. trim' = trim
    <3>1. CASE \/ \E c \in Cues : Fire(t, c) \/ Warm(t, c) \/ StopCue(t, c)
               \/ Wire(t) \/ Cold(t) \/ Build(t) \/ Install(t) \/ AddWatch(t)
               \/ Start(t) \/ Preroll(t) \/ Commit(t) \/ StartFails(t) \/ Run(t)
               \/ Tag(t) \/ Play(t) \/ PlayRead(t) \/ PlayIntent(t) \/ PlayHow(t)
               \/ Resume(t) \/ Resumed(t)
      BY <3>1 DEF Fire, Warm, StopCue, Wire, Cold, Build, Install, AddWatch, Start, Preroll, Commit,
                  StartFails, Run, Tag, Play, PlayRead, PlayIntent, PlayHow, Resume, Resumed,
                  ChangeState, Recheck, ClearIfCurrent
    <3>2. CASE \/ ResumeVoices(t) \/ PauseVoices(t) \/ SetVoices(t)
               \/ Pause(t) \/ PauseFocus(t) \/ PausedFocus(t) \/ PauseMark(t)
               \/ Toggle(t) \/ ToggleState(t) \/ Toggled(t) \/ ToggleMark(t)
               \/ Halt(t, "stop") \/ Halt(t, "panic") \/ Cut(t) \/ StopVoices(t)
               \/ FadeAndStop(t) \/ FadeTick(t) \/ Faded(t)
               \/ PanicNow(t) \/ StopRead(t) \/ StopNull(t) \/ StopClear(t)
               \/ Park(t) \/ FillSlot(t)
      BY <3>2 DEF ResumeVoices, PauseVoices, SetVoices, Pause, PauseFocus, PausedFocus, PauseMark,
                  Toggle, ToggleState, Toggled, ToggleMark, Halt, Cut, StopVoices, FadeAndStop,
                  FadeTick, Faded, PanicNow, StopRead, StopNull, StopClear, Park, FillSlot,
                  ChangeState, Recheck, ClearIfCurrent
    <3> QED BY <1>4, <3>1, <3>2 DEF Request
  <2> QED BY <1>2, <2>1 DEF Polling
<1> QED BY <1>3, <1>4

\* ... the handler gives back its own only as it returns ...
LEMMA EndPolling ==
  ASSUME TypeOK, Polling, NEW t \in Enders, Moves(t),
         End(t) \/ Retire(t) \/ (t = "bus" /\ (FocusError \/ VoiceError))
  PROVE  Polling'
<1> USE DEF counters, watchers, history, clipState
<1>1. CASE t = "bus"
  <2>1. pc'["trim"] = pc["trim"] /\ reg'["trim"] = reg["trim"]
    BY <1>1 DEF Moves, Threads, Enders
  <2>2. trim' = trim
    BY <1>1 DEF End, FocusEnd, LoopFocus, LoopedFocus, LoopMark, HoldFocus, HeldFocus, HoldMark,
           ClearFocus, Cleared, VoiceEnd, LoopVoice, HoldVoice, EndReturns, Rewind, Recheck,
           ChangeState, FocusError, VoiceError, Retire, ClearIfCurrent
  <2> QED BY <2>1, <2>2 DEF Polling
<1>2. CASE t = "trim"
  <2>0. reg \in [Threads -> Regs] /\ pc \in [Threads -> Labels] /\ t \in Threads /\ reg[t] \in Regs
    BY DEF TypeOK, Threads
  <2>1. CASE pc'[t] = "idle"
    BY <1>2, <2>1 DEF Polling
  <2>2. CASE pc'[t] # "idle"
    <3>1. pc[t] # "idle" /\ trim' = trim
      BY <1>2, <2>0, <2>2 DEF End, FocusEnd, LoopFocus, LoopedFocus, LoopMark, HoldFocus, HeldFocus,
           HoldMark, ClearFocus, Cleared, VoiceEnd, LoopVoice, HoldVoice, EndReturns, Rewind,
           Recheck, ChangeState, Retire, ClearIfCurrent, Finish, Goto
    <3>2. reg'[t].p = reg[t].p
      <4>1. CASE \/ LoopFocus(t) \/ LoopMark(t) \/ HoldFocus(t) \/ HoldMark(t) \/ Cleared(t)
                 \/ LoopVoice(t) \/ HoldVoice(t)
        BY <4>1 DEF LoopFocus, LoopMark, HoldFocus, HoldMark, Cleared, LoopVoice, HoldVoice,
                    Rewind, ChangeState
      <4>2. CASE FocusEnd(t) \/ VoiceEnd(t) \/ Retire(t)
        <5>1. CASE FocusEnd(t)
          BY <2>0, <5>1 DEF FocusEnd, Regs
        <5>2. CASE VoiceEnd(t)
          <6>1. CASE reg' # reg
            <7>1. PICK v \in voices :
                    reg' = [reg EXCEPT ![t].cue = v.cue, ![t].kill = {reg[t].p}, ![t].ret = "voiceCleared"]
              BY <5>2, <6>1 DEF VoiceEnd
            <7> DEFINE r == [reg[t] EXCEPT !.cue = v.cue, !.kill = {reg[t].p}, !.ret = "voiceCleared"]
            <7>2. reg' = [reg EXCEPT ![t] = r]
              BY <2>0, <7>1
            <7>3. r.p = reg[t].p
              BY <2>0 DEF Regs
            <7> HIDE DEF r
            <7> QED BY <2>0, <7>2, <7>3
          <6>2. CASE reg' = reg
            BY <6>2
          <6> QED BY <6>1, <6>2
        <5>3. CASE Retire(t)
          BY <2>0, <2>2, <5>3 DEF Retire, Finish, Goto, Regs
        <5> QED BY <4>2, <5>1, <5>2, <5>3
      <4>3. CASE LoopedFocus(t) \/ HeldFocus(t) \/ EndReturns(t)
        BY <2>0, <2>2, <4>3 DEF LoopedFocus, HeldFocus, EndReturns, Recheck, Continue, Finish, Goto
      <4>4. CASE ClearFocus(t)
        BY <2>0, <2>2, <4>4
        DEF ClearFocus, ClearIfCurrent, RetireThen, Continue, Finish, Goto, Regs
      <4> QED BY <1>2, <4>1, <4>2, <4>3, <4>4 DEF End
    <3> QED BY <1>2, <3>1, <3>2 DEF Polling
  <2> QED BY <2>1, <2>2
<1> QED BY <1>1, <1>2 DEF Enders

\* ... and it is taken up only where a poll runs.
LEMMA StreamPolling ==
  ASSUME TypeOK, Polling, NEW p \in Pipes, Stream(p)
  PROVE  Polling'
<1> USE DEF counters, watchers, history
<1>1. trim' = trim
  BY DEF Stream, ReachOut, ReachEnd, BusEOS, BusError, TrimHits, FadeRegisters, FadeLeaves,
         FadeRetires
<1>2. CASE TrimHits(p)
  <2>1. reg'["trim"].p = p /\ trim[p] > 0
    BY <1>2 DEF TrimHits, Handle, TypeOK, Threads, Enders, Regs
  <2> QED BY <1>1, <2>1 DEF Polling
<1>3. CASE ~TrimHits(p)
  <2>1. pc'["trim"] = pc["trim"] /\ reg'["trim"] = reg["trim"]
    BY <1>3 DEF TypeOK, Threads, Enders, Stream, ReachOut, ReachEnd, BusEOS, BusError,
           FadeRegisters, FadeLeaves, FadeRetires, Handle, Goto
  <2> QED BY <1>1, <2>1 DEF Polling
<1> QED BY <1>2, <1>3

-----------------------------------------------------------------------------
\* A load knows its cue.
LoadOps == {"fire", "warmFire", "warm"}
LoadPlaces == {"wire", "cold", "build", "install"}

Cued(t) ==
  /\ reg[t].op \in LoadOps => reg[t].cue \in Cues
  /\ pc[t] \in LoadPlaces => reg[t].op \in LoadOps
  /\ pc[t] = "retire" /\ reg[t].ret \in LoadPlaces => reg[t].op \in LoadOps

\* t goes to l with the locals r ...
LEMMA CuedSet ==
  ASSUME TypeOK, NEW t \in Threads, NEW l, NEW r, Goto(t, l), reg' = [reg EXCEPT ![t] = r],
         r.op \in LoadOps => r.cue \in Cues,
         l \in LoadPlaces \/ (l = "retire" /\ r.ret \in LoadPlaces) => r.op \in LoadOps
  PROVE  Cued(t)'
<1>1. pc'[t] = l /\ reg'[t] = r
  BY DEF TypeOK, Goto
<1> QED BY <1>1 DEF Cued

\* ... or with the ones it has.
LEMMA CuedGoes ==
  ASSUME TypeOK, NEW t \in Threads, Cued(t), NEW l, Goto(t, l), UNCHANGED reg,
         l # "retire", l \in LoadPlaces => reg[t].op \in LoadOps
  PROVE  Cued(t)'
<1>1. pc'[t] = l /\ reg'[t] = reg[t]
  BY DEF TypeOK, Goto
<1> QED BY <1>1 DEF Cued

\* A call ends.
LEMMA CuedFinish ==
  ASSUME TypeOK, NEW t \in Threads, Finish(t)
  PROVE  Cued(t)'
  BY DEF TypeOK, Finish, Goto, Cued, NoRegs, LoadOps, LoadPlaces

\* A call goes on or ends.
LEMMA CuedContinue ==
  ASSUME TypeOK, NEW t \in Threads, Cued(t), NEW l, Continue(t, l),
         l # "retire", l \in LoadPlaces => reg[t].op \in LoadOps
  PROVE  Cued(t)'
  BY CuedGoes, CuedFinish DEF Continue

\* A thread retires some pipelines and goes on.
LEMMA CuedRetires ==
  ASSUME TypeOK, NEW t \in Threads, Cued(t), NEW ps, NEW l, RetireThen(t, ps, l),
         l # "retire", l \in LoadPlaces => reg[t].op \in LoadOps
  PROVE  Cued(t)'
<1>1. CASE ps = {}
  BY <1>1, CuedContinue DEF RetireThen
<1>2. CASE ps # {}
  <2> DEFINE r == [reg[t] EXCEPT !.kill = ps, !.ret = l]
  <2>1. Goto(t, "retire") /\ reg' = [reg EXCEPT ![t] = r]
    BY <1>2 DEF RetireThen, TypeOK
  <2>2. r.op = reg[t].op /\ r.cue = reg[t].cue /\ r.ret = l
    BY DEF TypeOK, Regs
  <2> HIDE DEF r
  <2> QED BY <2>1, <2>2, CuedSet DEF Cued, LoadPlaces
<1> QED BY <1>1, <1>2

\* Every step of a request keeps its cue.
LEMMA RequestCued ==
  ASSUME TypeOK, NEW t \in Requests, Shape(t), Cued(t), Request(t)
  PROVE  Cued(t)'
<1> USE DEF clipState, counters, history
<1>0. t \in Threads /\ reg \in [Threads -> Regs] /\ reg[t] \in Regs /\ t \in DOMAIN reg
      /\ pc \in [Threads -> Labels]
  BY DEF TypeOK, Threads
<1>1. ASSUME NEW c \in Cues, Fire(t, c) PROVE Cued(t)'
  <2> DEFINE hit == warm.cue = c
             r == [NoRegs EXCEPT !.cue = c, !.op = IF hit THEN "warmFire" ELSE "fire",
                                 !.p = IF hit THEN warm.p ELSE None]
  <2>1. reg' = [reg EXCEPT ![t] = r] /\ Goto(t, IF hit THEN "wire" ELSE "cold")
    BY <1>1 DEF Fire
  <2>2. r.op \in LoadOps /\ r.cue = c
    BY DEF NoRegs, LoadOps
  <2> HIDE DEF r
  <2> QED BY <1>0, <2>1, <2>2, CuedSet
<1>2. ASSUME NEW c \in Cues, Warm(t, c) PROVE Cued(t)'
  <2> DEFINE r == [reg[t] EXCEPT !.op = "warm", !.cue = c, !.gen = gen]
             s == [reg[t] EXCEPT !.op = "warm", !.cue = c, !.gen = gen, !.kill = Slot,
                                 !.ret = "build"]
  <2>1. \/ Goto(t, "build") /\ reg' = [reg EXCEPT ![t] = r]
        \/ Goto(t, "retire") /\ reg' = [reg EXCEPT ![t] = s]
    BY <1>0, <1>2 DEF Warm
  <2>2. r.op \in LoadOps /\ r.cue = c /\ s.op \in LoadOps /\ s.cue = c
    BY <1>0 DEF Regs, LoadOps
  <2> HIDE DEF r, s
  <2> QED BY <1>0, <2>1, <2>2, CuedSet
<1>3. ASSUME NEW c \in Cues, StopCue(t, c) PROVE Cued(t)'
  <2>1. (UNCHANGED <<pc, reg>>) \/ \E ps : RetireThen(t, ps, "idle")
    BY <1>3 DEF StopCue
  <2>2. CASE UNCHANGED <<pc, reg>>
    BY <2>2 DEF Cued
  <2>3. "idle" \notin LoadPlaces
    BY DEF LoadPlaces
  <2> QED BY <1>0, <2>1, <2>2, <2>3, CuedRetires
<1>4. {"install", "cold", "build"} \subseteq LoadPlaces \ {"retire"}
      /\ {"watch", "start", "preroll", "commit", "run", "running", "tag", "idle", "play",
          "playIntent", "playHow", "resume", "resumed", "voicesOn", "voicesOff", "setVoices",
          "pause", "pausedFocus", "pauseMark", "toggle", "toggled", "toggleMark", "cut",
          "stopVoices", "fade", "faded", "panic", "stop", "stopNull", "stopClear",
          "stopEmpty", "park", "warm"} \cap (LoadPlaces \cup {"retire"}) = {}
      /\ {"play", "pause", "toggle", "stop", "panic", "fade", "none"} \cap LoadOps = {}
      /\ {"fire", "warmFire", "warm"} \subseteq LoadOps
  BY DEF LoadPlaces, LoadOps
<1>5. CASE Wire(t) \/ Cold(t)
  <2>1. reg[t].op \in LoadOps
    BY <1>4, <1>5 DEF Wire, Cold, Cued, LoadPlaces
  <2>2. (Goto(t, "install") /\ UNCHANGED reg) \/ \E ps : RetireThen(t, ps, "cold") \/ RetireThen(t, ps, "build")
    BY <1>5 DEF Wire, Cold
  <2> QED BY <1>0, <1>4, <2>1, <2>2, CuedGoes, CuedRetires
<1>6. CASE Build(t)
  <2>1. reg[t].op \in LoadOps
    BY <1>4, <1>6 DEF Build, Cued, LoadPlaces
  <2>2. CASE Finish(t)
    BY <1>0, <2>2, CuedFinish
  <2>3. CASE ~Finish(t)
    <3>1. PICK p \in Pipes :
            /\ reg' = [reg EXCEPT ![t].p = p, ![t].op = IF @ = "warm" THEN @ ELSE "fire"]
            /\ Goto(t, IF reg[t].op = "warm" THEN "park" ELSE "install")
      BY <1>6, <2>3 DEF Build
    <3> DEFINE o == IF reg[t].op = "warm" THEN reg[t].op ELSE "fire"
               r == [reg[t] EXCEPT !.p = p, !.op = o]
    <3>2. reg' = [reg EXCEPT ![t] = r]
      BY <1>0, <3>1
    <3>3. r.op \in LoadOps /\ r.cue = reg[t].cue
      BY <1>0, <1>4 DEF Regs
    <3> HIDE DEF r, o
    <3> QED BY <1>0, <2>1, <3>1, <3>2, <3>3, CuedSet DEF Cued
  <2> QED BY <2>2, <2>3
<1>7. CASE StopVoices(t)
  <2>1. \E ps : RetireThen(t, ps, reg[t].op)
    BY <1>7 DEF StopVoices
  <2>2. reg[t].op \in {"fade", "stop", "panic"}
    BY <1>7 DEF StopVoices, Shape
  <2> QED BY <1>0, <1>4, <2>1, <2>2, CuedRetires
<1>8. CASE Install(t) \/ PanicNow(t) \/ FillSlot(t) \/ StopClear(t) \/ Faded(t)
  <2>1. Finish(t) \/ \E ps : RetireThen(t, ps, "watch") \/ RetireThen(t, ps, "idle")
    BY <1>8 DEF Install, PanicNow, FillSlot, StopClear, Faded, ClearIfCurrent
  <2> QED BY <1>0, <1>4, <2>1, CuedFinish, CuedRetires
<1>9. CASE StartFails(t)
  <2>1. \E ps : RetireThen(t, ps, IF reg[t].op = "warmFire" THEN "cold" ELSE "idle")
    BY <1>9 DEF StartFails, ClearIfCurrent
  <2> QED BY <1>0, <1>4, <2>1, CuedRetires
<1>10. CASE \/ AddWatch(t) \/ Preroll(t) \/ Run(t) \/ Tag(t) \/ PlayIntent(t) \/ PlayHow(t)
            \/ Resume(t) \/ PauseFocus(t) \/ ToggleMark(t) \/ StopNull(t) \/ Park(t) \/ Play(t)
  <2>1. UNCHANGED reg
    BY <1>10 DEF AddWatch, Preroll, Run, Tag, PlayIntent, PlayHow, Resume, PauseFocus, ToggleMark,
                 StopNull, Park, Play, ChangeState
  <2>2. \E l \in {"start", "commit", "running", "play", "playHow", "resume", "resumed",
                  "pausedFocus", "voicesOff", "voicesOn", "stopClear", "warm"} : Goto(t, l)
    BY <1>10 DEF AddWatch, Preroll, Run, Tag, PlayIntent, PlayHow, Resume, PauseFocus, ToggleMark,
                 StopNull, Park, Play, ChangeState
  <2> QED BY <1>0, <1>4, <2>1, <2>2, CuedGoes
<1>11. CASE \/ Resumed(t) \/ PausedFocus(t) \/ FadeTick(t) \/ Toggled(t) \/ SetVoices(t)
            \/ PauseMark(t)
  <2>1. \/ Finish(t) \/ Continue(t, "voicesOn") \/ Continue(t, "voicesOff")
        \/ (UNCHANGED reg /\ \E l \in {"faded", "toggleMark", "pauseMark"} : Goto(t, l))
    BY <1>11 DEF Resumed, PausedFocus, FadeTick, Toggled, SetVoices, PauseMark, Recheck
  <2> QED BY <1>0, <1>4, <2>1, CuedFinish, CuedContinue, CuedGoes
<1>12. CASE Start(t) \/ Commit(t) \/ Started(t)
  <2>1. \/ AfterStart(t) \/ (UNCHANGED reg /\ Goto(t, "run"))
        \/ (reg' = [reg EXCEPT ![t].gen = gen] /\ Goto(t, "preroll"))
    BY <1>12 DEF Start, Commit, Started
  <2>2. CASE AfterStart(t)
    BY <1>0, <1>4, <2>2, CuedContinue DEF AfterStart
  <2>3. CASE UNCHANGED reg /\ Goto(t, "run")
    BY <1>0, <1>4, <2>3, CuedGoes
  <2>4. CASE reg' = [reg EXCEPT ![t].gen = gen] /\ Goto(t, "preroll")
    <3> DEFINE r == [reg[t] EXCEPT !.gen = gen]
    <3>1. reg' = [reg EXCEPT ![t] = r] /\ r.op = reg[t].op /\ r.cue = reg[t].cue
      BY <1>0, <2>4 DEF Regs
    <3> HIDE DEF r
    <3> QED BY <1>0, <1>4, <2>4, <3>1, CuedSet DEF Cued
  <2> QED BY <2>1, <2>2, <2>3, <2>4
<1>13. CASE ResumeVoices(t) \/ PauseVoices(t)
  <2>1. Goto(t, "setVoices") /\ \E ps, x : reg' = [reg EXCEPT ![t].kill = ps, ![t].to = x]
    BY <1>13 DEF ResumeVoices, PauseVoices
  <2>2. PICK ps, x : reg' = [reg EXCEPT ![t].kill = ps, ![t].to = x]
    BY <2>1
  <2> DEFINE r == [reg[t] EXCEPT !.kill = ps, !.to = x]
  <2>3. reg' = [reg EXCEPT ![t] = r] /\ r.op = reg[t].op /\ r.cue = reg[t].cue
    BY <1>0, <2>2 DEF Regs
  <2> HIDE DEF r
  <2> QED BY <1>0, <1>4, <2>1, <2>3, CuedSet DEF Cued
<1>14. CASE PlayRead(t)
  <2>1. CASE Finish(t)
    BY <1>0, <2>1, CuedFinish
  <2>2. CASE ~Finish(t)
    <3> DEFINE r == [NoRegs EXCEPT !.p = focus.p, !.op = "play"]
    <3>1. reg' = [reg EXCEPT ![t] = r] /\ Goto(t, "playIntent") /\ r.op = "play"
      BY <1>14, <2>2 DEF PlayRead, NoRegs
    <3> HIDE DEF r
    <3> QED BY <1>0, <1>4, <3>1, CuedSet
  <2> QED BY <2>1, <2>2
<1>15. CASE Pause(t) \/ Toggle(t)
  <2>1. PICK o \in {"pause", "toggle"} :
          reg' = [reg EXCEPT ![t].op = o, ![t].p = focus.p] /\ Goto(t, o)
    BY <1>15 DEF Pause, Toggle
  <2> DEFINE r == [reg[t] EXCEPT !.op = o, !.p = focus.p]
  <2>2. reg' = [reg EXCEPT ![t] = r] /\ r.op = o
    BY <1>0, <2>1 DEF Regs
  <2> HIDE DEF r
  <2> QED BY <1>0, <1>4, <2>1, <2>2, CuedSet
<1>16. CASE ToggleState(t)
  <2> DEFINE y == CASE gst[reg[t].p] = "playing" -> "paused"
                    [] gst[reg[t].p] = "paused" -> "playing"
                    [] OTHER -> gst[reg[t].p]
             r == [reg[t] EXCEPT !.to = y]
  <2>1. reg' = [reg EXCEPT ![t].to = y] /\ Goto(t, "toggled")
    BY <1>16 DEF ToggleState
  <2> HIDE DEF y
  <2>2. reg' = [reg EXCEPT ![t] = r] /\ r.op = reg[t].op /\ r.cue = reg[t].cue
    BY <1>0, <2>1 DEF Regs
  <2> HIDE DEF r
  <2> QED BY <1>0, <1>4, <2>1, <2>2, CuedSet DEF Cued
<1>17. ASSUME NEW op \in {"stop", "panic"}, Halt(t, op) PROVE Cued(t)'
  <2> DEFINE r == [reg[t] EXCEPT !.op = op, !.kill = Fading]
  <2>1. reg' = [reg EXCEPT ![t] = r] /\ Goto(t, "cut") /\ r.op = op
    BY <1>0, <1>17 DEF Halt, Regs
  <2> HIDE DEF r
  <2> QED BY <1>0, <1>4, <2>1, CuedSet
<1>18. CASE Cut(t)
  <2> DEFINE r == [reg[t] EXCEPT !.kill = {}]
  <2>1. reg' = [reg EXCEPT ![t] = r] /\ Goto(t, "stopVoices") /\ r.op = reg[t].op /\ r.cue = reg[t].cue
    BY <1>0, <1>18 DEF Cut, Regs
  <2> HIDE DEF r
  <2> QED BY <1>0, <1>4, <2>1, CuedSet DEF Cued
<1>19. CASE FadeAndStop(t)
  <2> DEFINE r == [reg[t] EXCEPT !.op = "fade", !.p = focus.p, !.gen = gen]
  <2>1. reg' = [reg EXCEPT ![t] = r] /\ Goto(t, "stopVoices") /\ r.op = "fade"
    BY <1>0, <1>19 DEF FadeAndStop, Regs
  <2> HIDE DEF r
  <2> QED BY <1>0, <1>4, <2>1, CuedSet
<1>20. CASE StopRead(t)
  <2> DEFINE r == [reg[t] EXCEPT !.p = focus.p]
  <2>1. reg' = [reg EXCEPT ![t] = r] /\ r.op = reg[t].op /\ r.cue = reg[t].cue
        /\ \E l \in {"stopEmpty", "stopNull"} : Goto(t, l)
    BY <1>0, <1>20 DEF StopRead, Regs
  <2> HIDE DEF r
  <2> QED BY <1>0, <1>4, <2>1, CuedSet DEF Cued
<1> QED
  BY <1>1, <1>2, <1>3, <1>5, <1>6, <1>7, <1>8, <1>9, <1>10, <1>11, <1>12, <1>13, <1>14, <1>15,
     <1>16, <1>17, <1>18, <1>19, <1>20 DEF Request

\* So does a retirement.
LEMMA RetireCued ==
  ASSUME TypeOK, NEW t \in Threads, Shape(t), Cued(t), Retire(t)
  PROVE  Cued(t)'
<1>1. CASE Finish(t)
  BY <1>1, CuedFinish
<1>2. CASE ~Finish(t)
  <2> DEFINE r == [reg[t] EXCEPT !.kill = {}]
  <2>1. /\ reg' = [reg EXCEPT ![t] = r] /\ Goto(t, reg[t].ret) /\ reg[t].ret # "retire"
        /\ r.op = reg[t].op /\ r.cue = reg[t].cue
    BY <1>2 DEF Retire, TypeOK, Regs, Shape, Returns
  <2> HIDE DEF r
  <2> QED BY <2>1, CuedSet DEF Cued, Retire
<1> QED BY <1>1, <1>2

-----------------------------------------------------------------------------
\* One owner for every pipeline; a new one has none.
Owned ==
  /\ RunPipes \cap Slot = {} /\ RunPipes \cap FadePipes = {} /\ Slot \cap FadePipes = {}
  /\ NewPipes \cap (RunPipes \cup Slot \cup FadePipes) = {}
  /\ \A t \in Threads :
       /\ Holds(t) \cap (RunPipes \cup Slot \cup FadePipes \cup NewPipes) = {}
       /\ \A u \in Threads \ {t} : Holds(t) \cap Holds(u) = {}

OthersHold(t) == \A u \in Threads \ {t} : Holds(u)' = Holds(u)

\* Ownership and the order of the stack are what Exclusive says.
LEMMA OwnedGivesExclusive == ASSUME Order, Owned PROVE Exclusive
  BY DEF Order, Owned, Exclusive

\* Who does not move holds what it held.
LEMMA MovesHold == ASSUME NEW t \in Threads, Moves(t) PROVE OthersHold(t)
  BY DEF Moves, OthersHold, Holds

\* A step of t that passes pipelines on among what is t's and what is nobody's.
LEMMA PassedOn ==
  ASSUME Owned, NEW t \in Threads, OthersHold(t),
         NEW all, all = RunPipes \cup Slot \cup FadePipes \cup NewPipes \cup Holds(t),
         RunPipes' \cup Slot' \cup FadePipes' \cup NewPipes' \cup Holds(t)' \subseteq all,
         RunPipes' \cap Slot' = {}, RunPipes' \cap FadePipes' = {}, Slot' \cap FadePipes' = {},
         NewPipes' \cap (RunPipes' \cup Slot' \cup FadePipes') = {},
         Holds(t)' \cap (RunPipes' \cup Slot' \cup FadePipes' \cup NewPipes') = {}
  PROVE  Owned'
<1> DEFINE R == RunPipes  S == Slot  F == FadePipes  N == NewPipes  H(u) == Holds(u)
           R1 == RunPipes'  S1 == Slot'  F1 == FadePipes'  N1 == NewPipes'  H1(u) == Holds(u)'
<1>1. \A u \in Threads \ {t} : H1(u) = H(u) /\ H(u) \cap all = {}
  BY DEF Owned, OthersHold
<1>2. \A u \in Threads : \A v \in Threads \ {u} : H(u) \cap H(v) = {}
  BY DEF Owned
<1>3. \A u \in Threads : H1(u) \cap (R1 \cup S1 \cup F1 \cup N1) = {}
  BY <1>1
<1>4. \A u \in Threads : \A v \in Threads \ {u} : H1(u) \cap H1(v) = {}
  BY <1>1, <1>2
<1> QED BY <1>3, <1>4 DEF Owned

\* A step that only takes from the stack and the slot, for t or for a fade.
LEMMA Loses ==
  ASSUME Owned, NEW t \in Threads, OthersHold(t),
         RunPipes' \subseteq RunPipes, Slot' \subseteq Slot, NewPipes' \subseteq NewPipes,
         FadePipes' \subseteq FadePipes \cup (RunPipes \ RunPipes'),
         Holds(t)' \subseteq Holds(t) \cup (RunPipes \ RunPipes') \cup (Slot \ Slot'),
         Holds(t)' \cap FadePipes' = {}
  PROVE  Owned'
<1> DEFINE all == RunPipes \cup Slot \cup FadePipes \cup NewPipes \cup Holds(t)
<1>1. Holds(t) \cap (RunPipes \cup Slot \cup FadePipes \cup NewPipes) = {}
  BY DEF Owned
<1>2. /\ RunPipes' \cup Slot' \cup FadePipes' \cup NewPipes' \cup Holds(t)' \subseteq all
      /\ RunPipes' \cap Slot' = {} /\ RunPipes' \cap FadePipes' = {} /\ Slot' \cap FadePipes' = {}
      /\ NewPipes' \cap (RunPipes' \cup Slot' \cup FadePipes') = {}
  BY DEF Owned
<1>3. Holds(t)' \cap (RunPipes' \cup Slot' \cup FadePipes' \cup NewPipes') = {}
  BY <1>1 DEF Owned
<1> QED BY <1>2, <1>3, PassedOn

\* A thread at any other place holds nothing ...
LEMMA HoldsNothing ==
  ASSUME TypeOK, NEW t \in Threads,
         Finish(t) \/ \E l : Goto(t, l) /\ l \notin Claiming \cup {"retire"}
  PROVE  Holds(t)' = {}
<1>1. pc'[t] \notin Claiming \cup {"retire"}
  BY DEF TypeOK, Finish, Goto, Claiming
<1> QED BY <1>1 DEF Holds, Claiming

\* ... and one that retires holds at most what it was given.
LEMMA HoldsRetired ==
  ASSUME TypeOK, NEW t \in Threads, NEW ps, NEW l \in Returns, RetireThen(t, ps, l)
  PROVE  Holds(t)' \subseteq ps
<1>1. CASE ps = {}
  <2>1. Finish(t) \/ (Goto(t, l) /\ l \notin Claiming \cup {"retire"})
    BY <1>1 DEF RetireThen, Continue, Returns, Claiming
  <2> QED BY <2>1, HoldsNothing
<1>2. CASE ps # {}
  <2>1. pc'[t] = "retire" /\ reg'[t].kill = ps
    BY <1>2 DEF TypeOK, RetireThen, Goto, Regs
  <2> QED BY <2>1 DEF Holds
<1> QED BY <1>1, <1>2

\* Where the fades and the slot stay and t holds nothing more.
LEMMA KeepsOwned ==
  ASSUME Owned, Calm, StreamsKept, NEW t \in Threads, OthersHold(t),
         UNCHANGED fade, warm' \in {warm, NoWarm},
         Holds(t)' \subseteq Holds(t) \cup (RunPipes \ RunPipes') \cup (Slot \ Slot')
  PROVE  Owned'
<1>1. Slot' \subseteq Slot /\ FadePipes' = FadePipes
  BY WarmTyped DEF Slot, FadePipes
<1>2. Holds(t)' \cap FadePipes' = {}
  BY <1>1 DEF Owned
<1>3. RunPipes' \subseteq RunPipes /\ NewPipes' \subseteq NewPipes
  BY DEF Calm, StreamsKept
<1> QED BY <1>1, <1>2, <1>3, Loses

\* clearIfCurrent retires what ran and runs no more.
LEMMA ClearGives ==
  ASSUME TypeOK, Order, NEW t \in Threads, NEW p, NEW l \in Returns, ClearIfCurrent(t, p, l)
  PROVE  Holds(t)' \subseteq RunPipes \ RunPipes'
<1> DEFINE ps == IF Running(p) THEN {p} ELSE {}
<1>1. Holds(t)' \subseteq ps
  BY HoldsRetired DEF ClearIfCurrent
<1>2. ps \subseteq RunPipes
  BY DEF Running, RunPipes
<1>3. p # None => p \notin RunPipes'
  <2>1. CASE focus.p = p
    <3>1. focus' = Newest(voices) /\ voices' \subseteq voices
      BY <2>1 DEF ClearIfCurrent
    <3>2. focus' = NoClip \/ focus' \in voices
      <4>1. voices \in SUBSET Clip /\ loads \in Nat /\ \A v \in voices : v.fired <= loads
        BY DEF TypeOK, Order
      <4> QED BY <3>1, <4>1, NewestIs
    <3> QED BY <2>1, <3>1, <3>2, NoClipTyped DEF RunPipes, Clips, Order
  <2>2. CASE focus.p # p
    BY <2>2 DEF ClearIfCurrent, RunPipes, Clips
  <2> QED BY <2>1, <2>2
<1> QED BY <1>1, <1>2, <1>3 DEF Running

\* What an installation does to the stack.
LEMMA InstallStack ==
  ASSUME TypeOK, Order, NEW t \in Requests, Shape(t), Cued(t), Install(t),
         reg[t].p \notin RunPipes
  PROVE  /\ focus' \in Clip /\ voices' \in SUBSET Clip /\ Order' /\ gen' > gen
         /\ RunPipes' \subseteq RunPipes \cup {reg[t].p}
         /\ ~(Layered /\ reg[t].cue \in Keep) => RunPipes' \subseteq {reg[t].p}
<1> DEFINE p == reg[t].p  c == reg[t].cue
<1>1. p \in Pipes /\ c \in Cues /\ p # None
  BY PlaybackAssumption DEF PlaybackAssumption, Install, Shape, Cued, Claiming, LoadPlaces
<1>2. focus' = [p |-> p, cue |-> c, fired |-> loads + 1, remain |-> Count[c], starting |-> TRUE,
                paused |-> FALSE, held |-> FALSE, fader |-> "none"]
  BY DEF Install, NoClip
<1>3. Count[c] \in Nat /\ loads \in Nat /\ gen \in Nat
  BY <1>1, PlaybackAssumption DEF PlaybackAssumption, TypeOK
<1>4. focus' \in Clip
  BY <1>1, <1>2, <1>3 DEF Clip, AnyPipe
<1>5. focus'.p = p /\ focus'.fired = loads + 1 /\ loads' = loads + 1 /\ gen' = gen + 1
  BY <1>2 DEF Install
<1>6. voices' = IF Layered /\ c \in Keep THEN Clips ELSE {}
  BY DEF Install
<1>7. Clips \in SUBSET Clip /\ \A v \in Clips : v.p # None /\ v.p # p /\ v.fired <= loads /\ v.fired \in Nat
  BY <1>3 DEF TypeOK, Clips, Order, RunPipes, Clip
<1>8. \A v, w \in Clips : v.p = w.p \/ v.fired = w.fired => v = w
  BY <1>7 DEF Clips, Order
<1> HIDE DEF p, c
<1>9. Order'
  BY <1>1, <1>3, <1>5, <1>6, <1>7, <1>8 DEF Order
<1>10. RunPipes' \subseteq RunPipes \cup {p} /\ (~(Layered /\ c \in Keep) => RunPipes' \subseteq {p})
  BY <1>5, <1>6 DEF RunPipes, Clips
<1> QED BY <1>3, <1>4, <1>5, <1>6, <1>7, <1>9, <1>10 DEF p, c

\* An installation hands the thread's pipeline to the stack, the old ones to it.
LEMMA InstallOwned ==
  ASSUME TypeOK, Order, Owned, NEW t \in Requests, Shape(t), Cued(t), Install(t), OthersHold(t)
  PROVE  Owned' /\ reg[t].p \notin RunPipes
<1> DEFINE p == reg[t].p
           c == reg[t].cue
           keep == Layered /\ c \in Keep
           old == IF keep THEN {} ELSE {k.p : k \in Clips}
           away == IF Layered /\ c \in Cross THEN old ELSE {}
           all == RunPipes \cup Slot \cup FadePipes \cup NewPipes \cup Holds(t)
<1>0. t \in Threads /\ Holds(t) = {p}
  BY DEF Threads, Install, Holds
<1>1. p \notin RunPipes \cup Slot \cup FadePipes \cup NewPipes
  BY <1>0 DEF Owned
<1>2. RunPipes' \subseteq RunPipes \cup {p} /\ (~keep => RunPipes' \subseteq {p})
  BY <1>1, InstallStack
<1>3. old \subseteq RunPipes /\ away \subseteq old /\ (keep => old = {})
  BY DEF RunPipes
<1>4. Holds(t)' \subseteq (old \ away) \cup Slot
  <2>1. RetireThen(t, (old \ away) \cup Slot, "watch") /\ "watch" \in Returns
    BY DEF Install, Returns
  <2> QED BY <1>0, <2>1, HoldsRetired
<1>5. FadePipes' \subseteq FadePipes \cup away
  BY DEF Install, FadePipes
<1>6. Slot' = {} /\ NewPipes' = NewPipes
  BY WarmTyped DEF Install, Slot, NewPipes, streams
<1> HIDE DEF p, keep, old, away
<1>7. RunPipes' \cup Slot' \cup FadePipes' \cup NewPipes' \cup Holds(t)' \subseteq all
  BY <1>0, <1>2, <1>3, <1>4, <1>5, <1>6
<1>8. RunPipes' \cap FadePipes' = {}
  BY <1>1, <1>2, <1>3, <1>5 DEF Owned
<1>9. NewPipes' \cap (RunPipes' \cup Slot' \cup FadePipes') = {}
  BY <1>1, <1>2, <1>3, <1>5, <1>6 DEF Owned
<1>10. Holds(t)' \cap (RunPipes' \cup Slot' \cup FadePipes' \cup NewPipes') = {}
  BY <1>1, <1>2, <1>3, <1>4, <1>5, <1>6 DEF Owned
<1> QED BY <1>0, <1>1, <1>6, <1>7, <1>8, <1>9, <1>10, PassedOn DEF p

\* A build takes a new pipeline.
LEMMA BuildOwned ==
  ASSUME TypeOK, Owned, NEW t \in Requests, Build(t), OthersHold(t)
  PROVE  Owned'
<1> DEFINE all == RunPipes \cup Slot \cup FadePipes \cup NewPipes \cup Holds(t)
<1>0. t \in Threads /\ UNCHANGED <<clipState, warm, fade>>
  BY DEF Threads, Build
<1>1. RunPipes' = RunPipes /\ Slot' = Slot /\ FadePipes' = FadePipes
  BY <1>0 DEF clipState, RunPipes, Clips, Slot, FadePipes
<1>2. CASE Finish(t) /\ UNCHANGED gst
  <2>1. Holds(t)' = {} /\ NewPipes' = NewPipes
    BY <1>0, <1>2, HoldsNothing DEF NewPipes
  <2> QED BY <1>0, <1>1, <2>1, Loses
<1>3. CASE ~(Finish(t) /\ UNCHANGED gst)
  <2>1. PICK p \in Pipes :
          /\ gst[p] = "new"
          /\ gst' = [gst EXCEPT ![p] = "null"]
          /\ reg' = [reg EXCEPT ![t].p = p, ![t].op = IF @ = "warm" THEN @ ELSE "fire"]
          /\ Goto(t, IF reg[t].op = "warm" THEN "park" ELSE "install")
    BY <1>3 DEF Build
  <2>2. reg'[t].p = p
    BY <1>0, <2>1 DEF TypeOK, Regs
  <2>3. Holds(t)' = {p}
    BY <1>0, <2>1, <2>2 DEF TypeOK, Goto, Holds
  <2>4. NewPipes' = NewPipes \ {p} /\ p \in NewPipes
    BY <2>1 DEF TypeOK, NewPipes
  <2>5. RunPipes' \cup Slot' \cup FadePipes' \cup NewPipes' \cup Holds(t)' \subseteq all
    BY <1>1, <2>3, <2>4
  <2>6. /\ Holds(t)' \cap (RunPipes' \cup Slot' \cup FadePipes' \cup NewPipes') = {}
        /\ RunPipes' \cap Slot' = {} /\ RunPipes' \cap FadePipes' = {} /\ Slot' \cap FadePipes' = {}
        /\ NewPipes' \cap (RunPipes' \cup Slot' \cup FadePipes') = {}
    BY <1>1, <2>3, <2>4 DEF Owned
  <2> QED BY <1>0, <2>5, <2>6, PassedOn
<1> QED BY <1>2, <1>3

\* A warm fills the slot, or retires what it built.
LEMMA FillOwned ==
  ASSUME TypeOK, Owned, StreamsKept, NEW t \in Requests, FillSlot(t), OthersHold(t)
  PROVE  Owned'
<1> DEFINE all == RunPipes \cup Slot \cup FadePipes \cup NewPipes \cup Holds(t)
           p == reg[t].p
<1>0. t \in Threads /\ UNCHANGED <<clipState, fade>> /\ Holds(t) = {p}
  BY DEF Threads, FillSlot, Holds
<1>1. RunPipes' = RunPipes /\ FadePipes' = FadePipes /\ NewPipes' \subseteq NewPipes
  BY <1>0 DEF clipState, RunPipes, Clips, FadePipes, StreamsKept
<1>2. "idle" \in Returns
  BY DEF Returns
<1>3. CASE RetireThen(t, {p}, "idle") /\ UNCHANGED warm
  <2>1. Holds(t)' \subseteq Holds(t) /\ Slot' = Slot
    BY <1>0, <1>2, <1>3, HoldsRetired DEF Slot
  <2>2. Holds(t)' \cap FadePipes' = {}
    BY <1>0, <1>1, <2>1 DEF Owned
  <2> QED BY <1>0, <1>1, <2>1, <2>2, Loses
<1>4. CASE RetireThen(t, Slot, "idle") /\ warm' = [p |-> p, cue |-> reg[t].cue]
  <2>1. Holds(t)' \subseteq Slot /\ Slot' \subseteq {p}
    BY <1>0, <1>2, <1>4, HoldsRetired DEF Slot
  <2> HIDE DEF p
  <2>2. RunPipes' \cup Slot' \cup FadePipes' \cup NewPipes' \cup Holds(t)' \subseteq all
    BY <1>0, <1>1, <2>1
  <2>3. /\ Holds(t)' \cap (RunPipes' \cup Slot' \cup FadePipes' \cup NewPipes') = {}
        /\ RunPipes' \cap Slot' = {} /\ RunPipes' \cap FadePipes' = {} /\ Slot' \cap FadePipes' = {}
        /\ NewPipes' \cap (RunPipes' \cup Slot' \cup FadePipes') = {}
    BY <1>0, <1>1, <2>1 DEF Owned
  <2> QED BY <1>0, <2>2, <2>3, PassedOn
<1> QED BY <1>3, <1>4 DEF FillSlot

\* StopCue takes one clip off the stack, for a fade or to retire it.
LEMMA StopCueOwned ==
  ASSUME TypeOK, Order, Owned, Calm, StreamsKept, NEW t \in Requests, NEW c \in Cues, StopCue(t, c),
         OthersHold(t)
  PROVE  Owned'
<1> DEFINE onFocus == focus.p # None /\ focus.cue = c
           k == IF onFocus THEN focus ELSE Newest({v \in voices : v.cue = c})
<1>0. t \in Threads /\ voices \in SUBSET Clip /\ loads \in Nat /\ \A v \in voices : v.fired <= loads
  BY DEF Threads, TypeOK, Order
<1>1. k.p # None
  BY DEF StopCue
<1>2. k.p \in RunPipes \ RunPipes'
  <2>1. CASE onFocus
    <3>1. focus' = Newest(voices) /\ voices' \subseteq voices
      BY <2>1 DEF StopCue
    <3>2. focus' = NoClip \/ focus' \in voices
      BY <1>0, <3>1, NewestIs
    <3> QED BY <2>1, <3>1, <3>2, NoClipTyped DEF RunPipes, Clips, Order
  <2>2. CASE ~onFocus
    <3>1. {v \in voices : v.cue = c} \in SUBSET Clip /\ \A w \in {v \in voices : v.cue = c} : w.fired <= loads
      BY <1>0
    <3>2. k = Newest({v \in voices : v.cue = c}) /\ focus' = focus /\ voices' = voices \ {k}
      BY <2>2 DEF StopCue
    <3>3. k \in voices
      BY <1>0, <1>1, <3>1, <3>2, NewestIs, NoClipTyped
    <3> HIDE DEF k
    <3> QED BY <3>2, <3>3 DEF RunPipes, Clips, Order
  <2> QED BY <2>1, <2>2
<1>3. \/ fade' = [fade EXCEPT ![k.p] = "spawned"] /\ UNCHANGED <<pc, reg>>
      \/ RetireThen(t, {k.p}, "idle") /\ UNCHANGED fade
  BY DEF StopCue
<1>4. PICK q \in RunPipes \ RunPipes' :
        \/ fade' = [fade EXCEPT ![q] = "spawned"] /\ UNCHANGED <<pc, reg>>
        \/ RetireThen(t, {q}, "idle") /\ UNCHANGED fade
  BY <1>2, <1>3
<1>5. warm' = warm
  BY DEF StopCue
<1>6. Slot' = Slot /\ RunPipes' \subseteq RunPipes /\ NewPipes' \subseteq NewPipes
  BY <1>5 DEF Slot, Calm, StreamsKept
<1>7. CASE fade' = [fade EXCEPT ![q] = "spawned"] /\ UNCHANGED <<pc, reg>>
  <2>1. FadePipes' \subseteq FadePipes \cup {q} /\ Holds(t)' = Holds(t)
    BY <1>7 DEF FadePipes, TypeOK, Holds
  <2>2. Holds(t)' \cap FadePipes' = {}
    BY <1>0, <1>4, <2>1 DEF Owned
  <2> QED BY <1>0, <1>4, <1>6, <2>1, <2>2, Loses
<1>8. CASE RetireThen(t, {q}, "idle") /\ UNCHANGED fade
  <2>1. "idle" \in Returns
    BY DEF Returns
  <2>2. Holds(t)' \subseteq {q}
    BY <1>0, <1>8, <2>1, HoldsRetired
  <2> QED BY <1>0, <1>4, <1>5, <1>8, <2>2, KeepsOwned
<1> QED BY <1>4, <1>7, <1>8

\* stopVoices takes every voice, for fades or to retire them.
LEMMA StopVoicesOwned ==
  ASSUME TypeOK, Order, Owned, StreamsKept, NEW t \in Requests, Shape(t), StopVoices(t), OthersHold(t)
  PROVE  Owned'
<1> DEFINE vs == {v.p : v \in voices}
           away == IF reg[t].op = "fade" /\ Layered THEN vs ELSE {}
<1>0. t \in Threads /\ UNCHANGED <<focus, warm>> /\ voices' = {}
  BY DEF Threads, StopVoices
<1>1. vs \subseteq RunPipes \ RunPipes' /\ RunPipes' \subseteq RunPipes
  BY <1>0 DEF RunPipes, Clips, Order
<1>2. FadePipes' \subseteq FadePipes \cup away /\ Slot' = Slot /\ NewPipes' \subseteq NewPipes
  BY <1>0 DEF StopVoices, FadePipes, Slot, StreamsKept
<1>3. Holds(t)' \subseteq vs \ away
  <2>1. RetireThen(t, vs \ away, reg[t].op) /\ reg[t].op \in Returns
    BY DEF StopVoices, Shape, Returns
  <2> QED BY <1>0, <2>1, HoldsRetired
<1>4. away \subseteq vs
  OBVIOUS
<1> HIDE DEF vs, away
<1>5. Holds(t)' \cap FadePipes' = {}
  BY <1>1, <1>2, <1>3 DEF Owned
<1> QED BY <1>0, <1>1, <1>2, <1>3, <1>4, <1>5, Loses

\* Every step of a request passes pipelines on.
LEMMA RequestOwned ==
  ASSUME TypeOK, Order, WarmKnown, Owned, NEW t \in Requests, Shape(t), Cued(t), Request(t),
         Calm \/ Install(t), StreamsKept, OthersHold(t)
  PROVE  Owned'
<1> USE DEF clipState, counters
<1>0. t \in Threads /\ "idle" \in Returns /\ "build" \in Returns /\ "cold" \in Returns
  BY DEF Threads, Returns
<1>1. CASE Install(t) \/ Build(t) \/ FillSlot(t) \/ StopVoices(t) \/ \E c \in Cues : StopCue(t, c)
  <2>1. CASE Install(t)
    BY <2>1, InstallOwned
  <2>2. CASE Build(t)
    BY <2>2, BuildOwned
  <2>3. CASE FillSlot(t)
    BY <2>3, FillOwned
  <2>4. CASE StopVoices(t)
    BY <2>4, StopVoicesOwned
  <2>5. ASSUME NEW c \in Cues, StopCue(t, c) PROVE Owned'
    <3>1. CASE Calm
      BY <2>5, <3>1, StopCueOwned
    <3>2. CASE Install(t)
      BY <3>2, InstallOwned
    <3> QED BY <3>1, <3>2
  <2> QED BY <1>1, <2>1, <2>2, <2>3, <2>4, <2>5
<1>2. SUFFICES ASSUME ~Install(t), ~Build(t), ~FillSlot(t), ~StopVoices(t),
                      \A c \in Cues : ~StopCue(t, c)
               PROVE  Owned'
  BY <1>1
<1>3. Calm
  BY <1>2
<1>4. CASE \/ StartFails(t) \/ Faded(t)
  <2>1. UNCHANGED <<warm, fade>> /\ \E l \in Returns : ClearIfCurrent(t, reg[t].p, l)
    BY <1>0, <1>4 DEF StartFails, Faded, ClearIfCurrent
  <2>2. Holds(t)' \subseteq RunPipes \ RunPipes'
    BY <1>0, <2>1, ClearGives
  <2> QED BY <1>0, <1>3, <2>1, <2>2, KeepsOwned
<1>5. CASE \/ AddWatch(t) \/ Preroll(t) \/ Run(t) \/ Tag(t) \/ PlayIntent(t) \/ PlayHow(t)
           \/ Resume(t) \/ PauseFocus(t) \/ ToggleMark(t) \/ StopNull(t) \/ Play(t) \/ FadeTick(t)
           \/ Toggled(t) \/ SetVoices(t) \/ PauseMark(t) \/ ResumeVoices(t) \/ PauseVoices(t)
           \/ PlayRead(t) \/ Pause(t) \/ Toggle(t) \/ ToggleState(t) \/ Halt(t, "stop")
           \/ Halt(t, "panic") \/ Cut(t) \/ FadeAndStop(t) \/ StopRead(t)
  <2>1. UNCHANGED <<warm, fade>>
    BY <1>5 DEF AddWatch, Preroll, Run, Tag, PlayIntent, PlayHow, Resume, PauseFocus, ToggleMark,
                StopNull, Play, FadeTick, Toggled, SetVoices, PauseMark, ResumeVoices, PauseVoices,
                PlayRead, Pause, Toggle, ToggleState, Halt, Cut, FadeAndStop, StopRead, ChangeState
  <2>2. Finish(t) \/ \E l : Goto(t, l) /\ l \notin Claiming \cup {"retire"}
    BY <1>5 DEF AddWatch, Preroll, Run, Tag, PlayIntent, PlayHow, Resume, PauseFocus, ToggleMark,
                StopNull, Play, FadeTick, Toggled, SetVoices, PauseMark, ResumeVoices, PauseVoices,
                PlayRead, Pause, Toggle, ToggleState, Halt, Cut, FadeAndStop, StopRead, ChangeState,
                Claiming
  <2>3. Holds(t)' = {}
    BY <1>0, <2>2, HoldsNothing
  <2> QED BY <1>0, <1>3, <2>1, <2>3, KeepsOwned
<1>6. CASE \/ Resumed(t) \/ PausedFocus(t) \/ Start(t) \/ Commit(t) \/ Started(t)
  <2>1. UNCHANGED <<warm, fade>>
    BY <1>6 DEF Resumed, PausedFocus, Start, Commit, Started, Recheck
  <2>2. Finish(t) \/ \E l : Goto(t, l) /\ l \notin Claiming \cup {"retire"}
    BY <1>6 DEF Resumed, PausedFocus, Start, Commit, Started, Recheck, AfterStart, Continue, Claiming
  <2>3. Holds(t)' = {}
    BY <1>0, <2>2, HoldsNothing
  <2> QED BY <1>0, <1>3, <2>1, <2>3, KeepsOwned
<1>7. Slot \ {None} = Slot /\ (warm' = NoWarm => Slot' = {})
  BY WarmTyped DEF Slot
<1>8. CASE \/ Cold(t) \/ StopClear(t)
  <2>1. /\ UNCHANGED fade /\ warm' \in {warm, NoWarm}
        /\ \/ Finish(t)
           \/ warm' = NoWarm /\ \E l \in Returns : RetireThen(t, Slot, l)
    BY <1>0, <1>8 DEF Cold, StopClear
  <2>2. CASE Finish(t)
    BY <1>0, <1>3, <2>1, <2>2, HoldsNothing, KeepsOwned
  <2>3. CASE warm' = NoWarm /\ \E l \in Returns : RetireThen(t, Slot, l)
    <3>1. Holds(t)' \subseteq Slot \ Slot'
      BY <1>0, <1>7, <2>3, HoldsRetired
    <3> QED BY <1>0, <1>3, <2>1, <3>1, KeepsOwned
  <2> QED BY <2>1, <2>2, <2>3
<1>9. CASE PanicNow(t)
  <2> DEFINE ps == ({focus.p} \ {None}) \cup Slot
  <2>1. UNCHANGED fade /\ warm' = NoWarm /\ RetireThen(t, ps, "idle")
    BY <1>9 DEF PanicNow
  <2>2. Holds(t)' \subseteq ps
    BY <1>0, <2>1, HoldsRetired
  <2>3. {focus.p} \ {None} \subseteq RunPipes \ RunPipes'
    BY <1>9, NoClipTyped DEF PanicNow, RunPipes, Clips, Order
  <2> QED BY <1>0, <1>3, <1>7, <2>1, <2>2, <2>3, KeepsOwned
<1>10. ASSUME NEW c \in Cues, Warm(t, c) PROVE Owned'
  <2>1. UNCHANGED fade /\ warm' = NoWarm
    BY <1>10 DEF Warm
  <2>2. Holds(t)' \subseteq Slot
    <3>1. CASE Goto(t, "build")
      BY <1>0, <3>1, HoldsNothing DEF Claiming
    <3>2. CASE ~Goto(t, "build")
      <4>1. pc' = [pc EXCEPT ![t] = "retire"]
            /\ reg' = [reg EXCEPT ![t].op = "warm", ![t].cue = c, ![t].gen = gen, ![t].kill = Slot,
                                  ![t].ret = "build"]
        BY <1>10, <3>2 DEF Warm, Goto
      <4>2. pc'[t] = "retire" /\ reg'[t].kill = Slot
        BY <1>0, <4>1 DEF TypeOK, Regs
      <4> QED BY <4>2 DEF Holds
    <3> QED BY <3>1, <3>2
  <2> QED BY <1>0, <1>3, <1>7, <2>1, <2>2, KeepsOwned
<1>11. ASSUME NEW c \in Cues, Fire(t, c) PROVE Owned'
  <2> DEFINE hit == warm.cue = c
             r == [NoRegs EXCEPT !.cue = c, !.op = IF hit THEN "warmFire" ELSE "fire",
                                 !.p = IF hit THEN warm.p ELSE None]
  <2>1. /\ UNCHANGED fade /\ warm' = (IF hit THEN NoWarm ELSE warm)
        /\ reg' = [reg EXCEPT ![t] = r] /\ Goto(t, IF hit THEN "wire" ELSE "cold")
    BY <1>11 DEF Fire
  <2>2. CASE ~hit
    <3>1. Holds(t)' = {}
      BY <1>0, <2>1, <2>2, HoldsNothing DEF Claiming
    <3> QED BY <1>0, <1>3, <2>1, <2>2, <3>1, KeepsOwned
  <2>3. CASE hit
    <3>1. r.p = warm.p /\ warm.p # None
      BY <2>3, PlaybackAssumption DEF PlaybackAssumption, NoRegs, WarmKnown
    <3>2. pc'[t] = "wire" /\ reg'[t] = r
      BY <1>0, <2>1, <2>3 DEF TypeOK, Goto
    <3> HIDE DEF r
    <3>3. Holds(t)' = {warm.p} /\ warm.p \in Slot
      BY <3>1, <3>2 DEF Holds, Slot
    <3> QED BY <1>0, <1>3, <1>7, <2>1, <2>3, <3>3, KeepsOwned
  <2> QED BY <2>2, <2>3
<1>12. CASE Wire(t) \/ Park(t)
  <2>1. UNCHANGED <<warm, fade>> /\ Holds(t) = {reg[t].p}
    BY <1>12 DEF Wire, Park, ChangeState, Holds
  <2>2. Holds(t)' \subseteq Holds(t)
    <3>1. CASE \E l \in {"install", "warm"} : Goto(t, l) /\ UNCHANGED reg
      <4>1. pc'[t] \in {"install", "warm"} /\ reg'[t] = reg[t]
        BY <1>0, <3>1 DEF TypeOK, Goto
      <4> QED BY <2>1, <4>1 DEF Holds
    <3>2. CASE RetireThen(t, {reg[t].p}, "cold")
      BY <1>0, <2>1, <3>2, HoldsRetired
    <3> QED BY <1>12, <3>1, <3>2 DEF Wire, Park, ChangeState
  <2> QED BY <1>0, <1>3, <2>1, <2>2, KeepsOwned
<1> QED
  BY <1>2, <1>4, <1>5, <1>6, <1>8, <1>9, <1>10, <1>11, <1>12 DEF Request

\* So does every step of an end handler ...
LEMMA EndOwned ==
  ASSUME TypeOK, Order, Owned, Calm, StreamsKept, NEW t \in Enders, Shape(t), OthersHold(t),
         End(t) \/ (t = "bus" /\ (FocusError \/ VoiceError))
  PROVE  Owned'
<1>0. t \in Threads /\ "idle" \in Returns /\ "cleared" \in Returns
  BY DEF Threads, Returns
<1>1. UNCHANGED <<warm, fade>>
  BY DEF End, FocusEnd, LoopFocus, LoopedFocus, LoopMark, HoldFocus, HeldFocus, HoldMark,
         ClearFocus, Cleared, VoiceEnd, LoopVoice, HoldVoice, EndReturns, Rewind, Recheck,
         ChangeState, FocusError, VoiceError, ClearIfCurrent
<1>2. CASE ClearFocus(t) \/ (t = "bus" /\ FocusError)
  <2>1. \E l \in Returns : ClearIfCurrent(t, reg[t].p, l)
    BY <1>0, <1>2 DEF ClearFocus, FocusError
  <2> QED BY <1>0, <1>1, <2>1, ClearGives, KeepsOwned
<1>3. CASE VoiceEnd(t)
  <2>1. CASE \E l \in {"voiceDone", "voiceLoop", "voiceHold"} : Goto(t, l)
    BY <1>0, <1>1, <2>1, HoldsNothing, KeepsOwned DEF Claiming
  <2>2. CASE ~ \E l \in {"voiceDone", "voiceLoop", "voiceHold"} : Goto(t, l)
    <3> DEFINE p == reg[t].p  vs == {v \in voices : v.p = p}
    <3>1. PICK v \in vs :
            reg' = [reg EXCEPT ![t].cue = v.cue, ![t].kill = {p}, ![t].ret = "voiceCleared"]
      BY <1>3, <2>2 DEF VoiceEnd
    <3>2. Goto(t, "retire") /\ focus' = focus /\ voices' = voices \ vs
      BY <1>3, <2>2 DEF VoiceEnd
    <3>3. pc'[t] = "retire" /\ reg'[t].kill = {p}
      BY <1>0, <3>1, <3>2 DEF TypeOK, Goto, Regs
    <3>4. p \in RunPipes \ RunPipes'
      BY <3>1, <3>2 DEF RunPipes, Clips, Order
    <3>5. Holds(t)' = {p}
      BY <3>3 DEF Holds
    <3> QED BY <1>0, <1>1, <3>4, <3>5, KeepsOwned
  <2> QED BY <2>1, <2>2
<1>4. CASE t = "bus" /\ VoiceError
  <2> DEFINE vs == {v \in voices : v.p = reg[t].p}
             ps == {v.p : v \in vs}
  <2>1. RetireThen(t, ps, "idle") /\ focus' = focus /\ voices' = voices \ vs
    BY <1>4 DEF VoiceError
  <2>2. ps \subseteq RunPipes \ RunPipes'
    BY <2>1 DEF RunPipes, Clips, Order
  <2>3. Holds(t)' \subseteq ps
    BY <1>0, <2>1, HoldsRetired
  <2> QED BY <1>0, <1>1, <2>2, <2>3, KeepsOwned
<1>5. CASE \/ FocusEnd(t) \/ LoopFocus(t) \/ LoopedFocus(t) \/ LoopMark(t) \/ HoldFocus(t)
           \/ HeldFocus(t) \/ HoldMark(t) \/ Cleared(t) \/ LoopVoice(t) \/ HoldVoice(t)
           \/ EndReturns(t)
  <2>1. Finish(t) \/ \E l : Goto(t, l) /\ l \notin Claiming \cup {"retire"}
    BY <1>5 DEF FocusEnd, LoopFocus, LoopedFocus, LoopMark, HoldFocus, HeldFocus, HoldMark, Cleared,
                LoopVoice, HoldVoice, EndReturns, Rewind, Recheck, ChangeState, Continue, Claiming
  <2> QED BY <1>0, <1>1, <2>1, HoldsNothing, KeepsOwned
<1> QED BY <1>2, <1>3, <1>4, <1>5 DEF End

\* ... a retirement lets go ...
LEMMA RetireOwned ==
  ASSUME TypeOK, Owned, Calm, StreamsKept, NEW t \in Threads, Shape(t), OthersHold(t), Retire(t)
  PROVE  Owned'
<1>1. Finish(t) \/ (Goto(t, reg[t].ret) /\ reg[t].ret \notin Claiming \cup {"retire"})
  BY DEF Retire, Shape, Returns, Claiming
<1>2. UNCHANGED <<warm, fade>>
  BY DEF Retire
<1> QED BY <1>1, <1>2, HoldsNothing, KeepsOwned

\* ... and streams and fades take nothing.
LEMMA StreamOwned ==
  ASSUME TypeOK, Owned, Calm, StreamsKept, NEW p \in Pipes, Stream(p),
         NEW t \in Enders, OthersHold(t), TakesUp(t)
  PROVE  Owned'
<1>0. t \in Threads
  BY DEF Threads
<1>1. Holds(t)' \subseteq Holds(t)
  <2>1. CASE UNCHANGED <<pc, reg>>
    BY <2>1 DEF Holds
  <2>2. CASE ~UNCHANGED <<pc, reg>>
    <3>1. \E l : Goto(t, l) /\ l \notin Claiming \cup {"retire"}
      BY <2>2 DEF TakesUp, Claiming
    <3> QED BY <1>0, <3>1, HoldsNothing
  <2> QED BY <2>1, <2>2
<1>2. warm' = warm /\ (fade' = fade \/ \E x \in {"fading", "gone", "none"} :
                                        fade' = [fade EXCEPT ![p] = x] /\ fade[p] # "none")
  BY DEF Stream, ReachOut, ReachEnd, BusEOS, BusError, TrimHits, FadeRegisters, FadeLeaves,
         FadeRetires
<1>3. Slot' = Slot /\ FadePipes' \subseteq FadePipes
  BY <1>2 DEF Slot, FadePipes, TypeOK
<1>4. RunPipes' \subseteq RunPipes /\ NewPipes' \subseteq NewPipes
  BY DEF Calm, StreamsKept
<1>5. Holds(t)' \cap FadePipes' = {}
  BY <1>0, <1>1, <1>3 DEF Owned
<1> QED BY <1>0, <1>1, <1>3, <1>4, <1>5, Loses

-----------------------------------------------------------------------------
\* The inductive invariant.
IInv ==
  /\ TypeOK /\ Order /\ WarmKnown /\ Polling /\ Owned
  /\ \A t \in Threads : Shape(t)
  /\ \A t \in Requests : Cued(t)

\* Nothing is loaded and nobody is under way.  At first no pipeline was built;
\* a manager at rest may have used some up.
Rested ==
  /\ focus = NoClip /\ voices = {} /\ warm = NoWarm
  /\ gen = 0 /\ halts = 0 /\ loads = 0
  /\ gst \in [Pipes -> {"new", "null"}]
  /\ at = [p \in Pipes |-> "run"]
  /\ of = [p \in Pipes |-> 0]
  /\ fade = [p \in Pipes |-> "none"]
  /\ eos = {} /\ watch = {}
  /\ trim = [p \in Pipes |-> 0]
  /\ pc = [t \in Threads |-> "idle"]
  /\ reg = [t \in Threads |-> NoRegs]
  /\ calls = 0 /\ reports = {} /\ wish = "run"

LEMMA InitRests == Init => Rested
  BY DEF Init, Rested

\* The invariant holds at rest, and so at first ...
LEMMA RestedIInv == ASSUME Rested PROVE IInv
<1> USE PlaybackAssumption DEF PlaybackAssumption
<1>1. TypeOK
  <2>1. /\ focus \in Clip /\ voices \subseteq Clip /\ warm \in [p : AnyPipe, cue : Cues \cup {0}]
    BY NoClipTyped, WarmTyped DEF Rested
  <2>2. pc \in [Threads -> Labels] /\ reg \in [Threads -> Regs]
    BY NoRegsTyped DEF Rested, Labels
  <2> QED BY <2>1, <2>2 DEF Rested, TypeOK
<1>2. Order /\ WarmKnown /\ Polling
  BY NoClipTyped, WarmTyped DEF Rested, Order, WarmKnown, Polling, Threads, Enders
<1>3. Owned
  <2>1. RunPipes = {} /\ Slot = {} /\ FadePipes = {}
    BY NoClipTyped, WarmTyped DEF Rested, RunPipes, Clips, Slot, FadePipes
  <2>2. \A t \in Threads : Holds(t) = {}
    BY DEF Rested, Holds
  <2> QED BY <2>1, <2>2 DEF Owned
<1>4. \A t \in Threads : Shape(t) /\ Cued(t)
  BY DEF Rested, Shape, Cued, Claiming, Returns, NoRegs, LoadOps, LoadPlaces
<1> QED BY <1>1, <1>2, <1>3, <1>4 DEF IInv, Threads

LEMMA InitIInv == ASSUME Init PROVE IInv
  BY InitRests, RestedIInv

\* The types of the next state, put together from its parts.
LEMMA TypesNext ==
  ASSUME focus' \in Clip, voices' \in SUBSET Clip, NEW t, Moves(t), calls' \in 0..MaxCalls,
         StreamsKept, RestKept
  PROVE  TypeOK' /\ WarmKnown'
  BY DEF TypeOK, Moves, StreamsKept, States, RestKept

\* ... through every step of a request ...
LEMMA RequestIInv ==
  ASSUME IInv, NEW t \in Requests, Request(t)
  PROVE  IInv' /\ (focus'.p # focus.p => gen' > gen)
<1>0. /\ TypeOK /\ Order /\ WarmKnown /\ Polling /\ Owned
      /\ t \in Threads /\ Shape(t) /\ Cued(t) /\ Shape("trim")
  BY DEF IInv, Threads, Enders
<1>1. Moves(t) /\ calls' \in 0..MaxCalls
  BY <1>0, RequestMoves
<1>2. OthersHold(t)
  BY <1>0, <1>1, MovesHold
<1>3. Calm \/ Install(t)
  BY <1>0, RequestCalm
<1>4. StreamsKept /\ RestKept
  BY <1>0, RequestStreams, RequestRest
<1>5. Owned'
  BY <1>0, <1>2, <1>3, <1>4, RequestOwned
<1>6. focus' \in Clip /\ voices' \in SUBSET Clip /\ Order' /\ (focus'.p # focus.p => gen' > gen)
  <2>1. CASE Calm
    BY <2>1 DEF Calm
  <2>2. CASE Install(t)
    BY <1>0, <1>2, <2>2, InstallOwned, InstallStack
  <2> QED BY <1>3, <2>1, <2>2
<1>7. TypeOK' /\ WarmKnown'
  BY <1>1, <1>4, <1>6, TypesNext
<1>8. Polling' /\ Cued(t)'
  BY <1>0, <1>1, RequestPolling, RequestCued
<1>9. (\A u \in Threads : Shape(u)') /\ \A u \in Requests : Cued(u)'
  <2>1. \A u \in Threads \ {t} : pc'[u] = pc[u] /\ reg'[u] = reg[u]
    BY <1>1 DEF Moves
  <2>2. \A u \in Threads \ {t} : Shape(u)'
    BY <2>1 DEF IInv, Shape
  <2>3. \A u \in Requests \ {t} : Cued(u)'
    BY <2>1 DEF IInv, Cued, Threads
  <2> QED BY <1>1, <1>8, <2>2, <2>3 DEF Moves
<1> QED BY <1>5, <1>6, <1>7, <1>8, <1>9 DEF IInv

\* ... and of everything else ...
LEMMA OthersIInv ==
  ASSUME IInv,
         \/ \E t \in Enders : End(t)
         \/ \E t \in Threads : Retire(t)
         \/ \E p \in Pipes : Stream(p)
         \/ FocusError \/ VoiceError
  PROVE  IInv' /\ (focus'.p # focus.p => gen' > gen)
<1>0. /\ TypeOK /\ Order /\ WarmKnown /\ Polling /\ Owned /\ calls \in 0..MaxCalls
      /\ Enders \subseteq Threads /\ Requests \cap Enders = {} /\ "bus" \in Enders
      /\ \A t \in Threads : Shape(t)
  BY PlaybackAssumption DEF PlaybackAssumption, IInv, Threads, Enders, TypeOK
<1>1. Calm
  BY <1>0, EndCalm, OthersCalm
<1>2. StreamsKept
  BY <1>0, OthersStreams
<1>3. RestKept
  BY <1>0, EndRest, OthersRest
<1>4. PICK t \in Threads :
        /\ Moves(t) /\ calls' \in 0..MaxCalls /\ Polling' /\ Owned'
        /\ t \in Requests => Cued(t)'
  <2>1. ASSUME NEW t \in Enders, End(t) \/ (t = "bus" /\ (FocusError \/ VoiceError))
        PROVE  Moves(t) /\ calls' \in 0..MaxCalls /\ Polling' /\ Owned'
    <3>1. Moves(t) /\ calls' \in 0..MaxCalls
      BY <1>0, <2>1, EndMoves
    <3> QED BY <1>0, <1>1, <1>2, <2>1, <3>1, MovesHold, EndPolling, EndOwned
  <2>2. ASSUME NEW t \in Threads, Retire(t)
        PROVE  Moves(t) /\ calls' \in 0..MaxCalls /\ Polling' /\ Owned' /\ (t \in Requests => Cued(t)')
    <3>1. Moves(t) /\ calls' = calls
      BY <1>0, <2>2, RetireMoves
    <3>2. Polling'
      <4>1. CASE t \in Enders
        BY <1>0, <2>2, <3>1, <4>1, EndPolling
      <4>2. CASE t \notin Enders
        BY <2>2, <3>1, <4>2, <1>0 DEF Polling, Moves, Enders, Retire
      <4> QED BY <4>1, <4>2
    <3>3. Owned'
      BY <1>0, <1>1, <1>2, <2>2, <3>1, MovesHold, RetireOwned
    <3>4. t \in Requests => Cued(t)'
      BY <1>0, <2>2, RetireCued DEF IInv
    <3> QED BY <1>0, <3>1, <3>2, <3>3, <3>4
  <2>3. ASSUME NEW p \in Pipes, Stream(p)
        PROVE  \E t \in Enders : Moves(t) /\ calls' \in 0..MaxCalls /\ Polling' /\ Owned'
    <3>1. PICK t \in Enders : Moves(t) /\ TakesUp(t) /\ calls' = calls
      BY <1>0, <2>3, StreamMoves
    <3>2. Polling' /\ Owned'
      BY <1>0, <1>1, <1>2, <2>3, <3>1, MovesHold, StreamPolling, StreamOwned
    <3> QED BY <1>0, <3>1, <3>2
  <2> QED BY <1>0, <2>1, <2>2, <2>3
<1>5. TypeOK' /\ WarmKnown'
  BY <1>1, <1>2, <1>3, <1>4, TypesNext DEF Calm
<1>6. (\A u \in Threads : Shape(u)') /\ \A u \in Requests : Cued(u)'
  <2>1. \A u \in Threads \ {t} : pc'[u] = pc[u] /\ reg'[u] = reg[u]
    BY <1>4 DEF Moves
  <2>2. \A u \in Threads \ {t} : Shape(u)'
    BY <2>1 DEF IInv, Shape
  <2>3. \A u \in Requests \ {t} : Cued(u)'
    BY <2>1 DEF IInv, Cued, Threads
  <2> QED BY <1>4, <2>2, <2>3 DEF Moves
<1> QED BY <1>1, <1>4, <1>5, <1>6 DEF IInv, Calm

\* ... and when nothing happens.
LEMMA StutterIInv == ASSUME IInv, UNCHANGED vars PROVE IInv'
<1> USE DEF vars, clipState, counters, streams, watchers, history
<1>1. TypeOK' /\ Order' /\ WarmKnown' /\ Polling'
  BY DEF IInv, TypeOK, Order, WarmKnown, Polling
<1>2. Owned'
  <2>1. RunPipes' = RunPipes /\ Slot' = Slot /\ FadePipes' = FadePipes /\ NewPipes' = NewPipes
    BY DEF RunPipes, Clips, Slot, FadePipes, NewPipes
  <2>2. \A t \in Threads : Holds(t)' = Holds(t)
    BY DEF Holds
  <2> QED BY <2>1, <2>2 DEF IInv, Owned
<1>3. \A t \in Threads : Shape(t)'
  BY DEF IInv, Shape
<1>4. \A t \in Requests : Cued(t)'
  BY DEF IInv, Cued
<1> QED BY <1>1, <1>2, <1>3, <1>4 DEF IInv

\* A step keeps the invariant, and counts a focus that changes hands.
LEMMA NextIInv ==
  ASSUME IInv, Next
  PROVE  IInv' /\ (focus'.p # focus.p => gen' > gen)
  BY RequestIInv, OthersIInv DEF Next

\* The invariant holds of every reachable state.
THEOREM Inductive == Spec => []IInv
<1>1. IInv /\ [Next]_vars => IInv'
  BY NextIInv, StutterIInv
<1> QED BY InitIInv, <1>1, PTL DEF Spec

-----------------------------------------------------------------------------
\* Every variable keeps its type, whatever is fired, stopped or faulty.
THEOREM TypeCorrect == Spec => []TypeOK
<1>1. IInv => TypeOK
  BY DEF IInv
<1> QED BY Inductive, <1>1, PTL

\* A pipeline has one owner, for any number of pipelines, cues and callers:
\* swap, clearIfCurrent, voiceEnd, voiceFailed, StopCue, Stop, Panic, Warm,
\* InstallWarm and the fades hand it on and never share it.
THEOREM OneOwner == Spec => []Exclusive
<1>1. IInv => Exclusive
  BY OwnedGivesExclusive DEF IInv
<1> QED BY Inductive, <1>1, PTL

\* The focus is the most recently fired running cue.
THEOREM NewestLeads == Spec => []FocusIsNewest
<1>1. IInv => FocusIsNewest
  BY DEF IInv, Order, FocusIsNewest
<1> QED BY Inductive, <1>1, PTL

\* The focus never changes hands without a new generation.
THEOREM GenerationMoves == Spec => GenMovesWithFocus
<1>1. IInv /\ [Next]_vars => [focus'.p # focus.p => gen' > gen]_vars
  BY NextIInv
<1> QED BY Inductive, <1>1, PTL DEF Spec, GenMovesWithFocus

-----------------------------------------------------------------------------
(***************************************************************************)
(* What the threads of Playback do to the pipelines they remember, for any *)
(* pipelines, cues and callers: the warm slot, the transport, the ends of  *)
(* clips, their out-points and their loops.                                *)
(*                                                                         *)
(* Threads keep pipelines in their locals long after somebody else retired *)
(* them and set states on them with no lock held.  That a Play, a Pause or *)
(* an end handler never reaches the slot is not a matter of one section:   *)
(* it holds because what is new, built for the slot or in the slot has     *)
(* never run (Hidden), and because a thread only notes what runs, fades,   *)
(* or is its own (Apart).                                                  *)
(*                                                                         *)
(* The other theorems name the condition they need.  Lone: voices lose     *)
(* their focus only to a second client's Panic.  Flat: one running clip at *)
(* a time (voices are set to PLAYING with no second look).  Serial: calls  *)
(* do not overlap, a condition on the behaviour, since clients may.        *)
(***************************************************************************)


\* Where a pipeline built for the slot stands before it fills it.
Parking == {"park", "warm"}

\* The pipelines no clip was ever made of.
Hidden ==
  NewPipes \cup Slot \cup {reg[t].p : t \in {u \in Threads : pc[u] \in Parking}}

\* The pipelines thread t may still set the state of.  A call that ends once
\* it retired something forgets its own pipeline.
Reaches(t) ==
  reg[t].kill \cup
  (IF pc[t] = "retire" /\ reg[t].ret = "idle" THEN {} ELSE {reg[t].p} \ {None})

\* Only who builds for the slot reaches a hidden pipeline, and only its own.
Apart ==
  \A t \in Threads : \A p \in Reaches(t) \cap Hidden : pc[t] \in Parking /\ p = reg[t].p

\* The slot, and what is about to fill it.
Parked ==
  /\ WarmReady
  /\ \A t \in Threads :
       /\ pc[t] \in Parking => of[reg[t].p] = reg[t].cue
       /\ pc[t] = "warm" => gst[reg[t].p] = "paused"

-----------------------------------------------------------------------------
\* What a step of t that does not park or fill may do: to the pipelines ...
Touches(t) ==
  /\ \A p \in Pipes \ NewPipes : /\ of'[p] = of[p]
                                 /\ gst'[p] = gst[p] \/ p \in Reaches(t) \cup FadePipes
  /\ warm' \in {warm, NoWarm}

\* ... to the locals of t ...
Notes(t) == Reaches(t)' \subseteq Reaches(t) \cup RunPipes \cup FadePipes \cup Holds(t)'

\* ... and on the way to the slot: only a build enters it, with a new pipeline.
Enters(t) ==
  pc'[t] \in Parking =>
    pc'[t] = "park" /\ reg'[t].p \in NewPipes /\ of'[reg'[t].p] = reg'[t].cue

\* Nobody but t moves.
Alone(t) == \A u \in Threads \ {t} : pc'[u] = pc[u] /\ reg'[u] = reg[u]

\* Where a thread parks, it holds what it parks.
LEMMA ParkingHolds ==
  ASSUME NEW t \in Threads, pc[t] \in Parking
  PROVE  Holds(t) = {reg[t].p}
  BY DEF Holds, Parking

\* Hidden pipelines do not run, do not fade, and nobody else holds them.
LEMMA HiddenOwned ==
  ASSUME Owned
  PROVE  /\ Hidden \cap (RunPipes \cup FadePipes) = {}
         /\ \A t \in Threads : \A p \in Holds(t) \cap Hidden : pc[t] \in Parking /\ p = reg[t].p
<1>1. Hidden \cap (RunPipes \cup FadePipes) = {}
  BY ParkingHolds DEF Owned, Hidden
<1>2. ASSUME NEW t \in Threads, NEW p \in Holds(t) \cap Hidden
      PROVE  pc[t] \in Parking /\ p = reg[t].p
  <2>1. p \notin NewPipes \cup Slot
    BY <1>2 DEF Owned
  <2>2. PICK u \in Threads : pc[u] \in Parking /\ p = reg[u].p
    BY <1>2, <2>1 DEF Hidden
  <2>3. Holds(u) = {p}
    BY <2>2, ParkingHolds
  <2>4. u = t
    BY <1>2, <2>3 DEF Owned
  <2> QED BY <2>2, <2>4
<1> QED BY <1>1, <1>2

\* Nothing becomes hidden.
LEMMA HiddenShrinks ==
  ASSUME NEW t \in Threads, Alone(t), Enters(t), StreamsKept, warm' \in {warm, NoWarm}
  PROVE  Hidden' \subseteq Hidden
<1>1. NewPipes' \subseteq NewPipes /\ Slot' \subseteq Slot
  BY WarmTyped DEF StreamsKept, Slot
<1>2. ASSUME NEW u \in Threads, pc'[u] \in Parking PROVE reg'[u].p \in Hidden
  <2>1. CASE u = t
    BY <1>2, <2>1 DEF Enters, Hidden
  <2>2. CASE u # t
    BY <1>2, <2>2 DEF Alone, Hidden
  <2> QED BY <2>1, <2>2
<1> QED BY <1>1, <1>2 DEF Hidden

\* A step that notes only what it may keeps threads apart from the slot ...
LEMMA ApartKept ==
  ASSUME Owned, Owned', Apart, NEW t \in Threads, Alone(t), pc[t] \notin Parking,
         Hidden' \subseteq Hidden, Notes(t)
  PROVE  Apart'
<1>1. ASSUME NEW p \in Reaches(t)' \cap Hidden' PROVE pc'[t] \in Parking /\ p = reg'[t].p
  <2>1. p \in Hidden /\ p \notin Reaches(t) \cup RunPipes \cup FadePipes
    BY <1>1, HiddenOwned DEF Apart
  <2>2. p \in Holds(t)' \cap Hidden'
    BY <1>1, <2>1 DEF Notes
  <2>3. p \notin NewPipes' \cup Slot'
    BY <2>2 DEF Owned
  <2>4. PICK u \in Threads : pc'[u] \in Parking /\ p = reg'[u].p
    BY <2>2, <2>3 DEF Hidden
  <2>5. Holds(u)' = {p}
    BY <2>4 DEF Holds, Parking
  <2>6. u = t
    BY <2>2, <2>5 DEF Owned
  <2> QED BY <2>4, <2>6
<1>2. ASSUME NEW u \in Threads \ {t}, NEW p \in Reaches(u)' \cap Hidden'
      PROVE  pc'[u] \in Parking /\ p = reg'[u].p
  <2>1. p \in Reaches(u) \cap Hidden
    BY <1>2 DEF Alone, Reaches
  <2> QED BY <1>2, <2>1 DEF Alone, Apart
<1> QED BY <1>1, <1>2 DEF Apart

\* ... and one that sets no state beyond its reach leaves the slot ready.
LEMMA ParkedKept ==
  ASSUME TypeOK, Owned, Apart, Parked, NEW t \in Threads, Alone(t), pc[t] \notin Parking,
         \A u \in Threads : Shape(u), Touches(t), Enters(t)
  PROVE  Parked'
<1>1. ASSUME NEW p \in Pipes, p \in Hidden \ NewPipes
      PROVE  of'[p] = of[p] /\ gst'[p] = gst[p]
  <2>1. p \notin Reaches(t) \cup FadePipes
    BY <1>1, HiddenOwned DEF Apart
  <2> QED BY <1>1, <2>1 DEF Touches
<1>2. WarmReady'
  <2>1. CASE warm' = NoWarm
    BY <2>1, WarmTyped DEF WarmReady
  <2>2. CASE warm' = warm /\ warm.p # None
    <3>1. warm.p \in Pipes /\ warm.p \in Hidden \ NewPipes
      BY <2>2 DEF TypeOK, AnyPipe, Hidden, Slot, Owned
    <3> QED BY <1>1, <2>2, <3>1 DEF Parked, WarmReady
  <2>3. CASE warm' = warm /\ warm.p = None
    BY <2>3 DEF WarmReady
  <2> QED BY <2>1, <2>2, <2>3 DEF Touches
<1>3. ASSUME NEW u \in Threads \ {t}, pc'[u] \in Parking
      PROVE  of'[reg'[u].p] = reg'[u].cue /\ (pc'[u] = "warm" => gst'[reg'[u].p] = "paused")
  <2>1. pc[u] \in Parking /\ pc'[u] = pc[u] /\ reg'[u] = reg[u]
    BY <1>3 DEF Alone
  <2>2. reg[u].p \in Pipes /\ reg[u].p \in Hidden
    BY <2>1 DEF Shape, Claiming, Parking, Hidden
  <2>3. reg[u].p \notin NewPipes
    BY <2>1, ParkingHolds DEF Owned
  <2> QED BY <1>1, <2>1, <2>2, <2>3 DEF Parked
<1>4. pc'[t] \in Parking => of'[reg'[t].p] = reg'[t].cue /\ pc'[t] # "warm"
  BY DEF Enters
<1> QED BY <1>2, <1>3, <1>4 DEF Parked, Parking

\* The slot's side of the invariant.
Ready == Apart /\ Parked

\* The invariant of the whole carries over to the next state with the slot.
LEMMA ReadyKept ==
  ASSUME IInv, Owned', Ready, NEW t \in Threads, Alone(t), pc[t] \notin Parking,
         StreamsKept, Touches(t), Notes(t), Enters(t)
  PROVE  Ready'
  BY HiddenShrinks, ApartKept, ParkedKept DEF IInv, Ready, Touches

\* A warm build is prerolled ...
LEMMA ParkReady ==
  ASSUME IInv, Ready, NEW t \in Requests, Park(t), StreamsKept
  PROVE  Ready'
<1> DEFINE p == reg[t].p
<1>0. /\ t \in Threads /\ pc[t] = "park" /\ gst' = [gst EXCEPT ![p] = "paused"]
      /\ pc' = [pc EXCEPT ![t] = "warm"] /\ UNCHANGED <<warm, of, reg>>
  BY DEF Park, ChangeState, Goto, Threads
<1>1. pc'[t] = "warm" /\ \A u \in Threads \ {t} : pc'[u] = pc[u]
  BY <1>0 DEF IInv, TypeOK
<1>2. p \in Pipes /\ Holds(t) = {p}
  BY <1>0, ParkingHolds DEF IInv, Shape, Claiming, Parking
<1>3. \A q \in Pipes : q # p => gst'[q] = gst[q]
  BY <1>0 DEF IInv, TypeOK
<1>4. gst'[p] = "paused"
  BY <1>0, <1>2 DEF IInv, TypeOK
<1>5. Hidden' \subseteq Hidden
  <2>1. NewPipes' \subseteq NewPipes /\ Slot' = Slot
    BY <1>0 DEF StreamsKept, Slot
  <2>2. \A u \in Threads : pc'[u] \in Parking => pc[u] \in Parking /\ reg'[u].p = reg[u].p
    BY <1>0, <1>1 DEF Parking
  <2> QED BY <2>1, <2>2 DEF Hidden
<1>6. Apart'
  <2>1. \A u \in Threads : Reaches(u)' = Reaches(u)
    BY <1>0, <1>1 DEF Reaches
  <2>2. \A u \in Threads : pc[u] \in Parking => pc'[u] \in Parking
    BY <1>1 DEF Parking
  <2> QED BY <1>0, <1>5, <2>1, <2>2 DEF Ready, Apart
<1>7. WarmReady'
  <2>1. warm.p # None => warm.p \in Pipes /\ warm.p # p
    BY <1>0, <1>2 DEF IInv, TypeOK, AnyPipe, Owned, Slot
  <2> QED BY <1>0, <1>3, <2>1 DEF Ready, Parked, WarmReady
<1>8. ASSUME NEW u \in Threads, pc'[u] \in Parking
      PROVE  of'[reg'[u].p] = reg'[u].cue /\ (pc'[u] = "warm" => gst'[reg'[u].p] = "paused")
  <2>1. CASE u = t
    BY <1>0, <1>4, <2>1 DEF Ready, Parked, Parking
  <2>2. CASE u # t
    <3>1. pc[u] \in Parking /\ pc'[u] = pc[u]
      BY <1>1, <1>8, <2>2
    <3>2. reg[u].p \in Pipes /\ Holds(u) = {reg[u].p}
      BY <3>1, ParkingHolds DEF IInv, Shape, Claiming, Parking
    <3>3. reg[u].p # p
      BY <1>0, <1>2, <2>2, <3>2 DEF IInv, Owned
    <3> QED BY <1>0, <1>3, <3>1, <3>2, <3>3 DEF Ready, Parked
  <2> QED BY <2>1, <2>2
<1> QED BY <1>6, <1>7, <1>8 DEF Ready, Parked, Parking

\* ... and fills the slot, or goes.
LEMMA FillReady ==
  ASSUME IInv, Owned', Ready, NEW t \in Requests, FillSlot(t), Alone(t), StreamsKept
  PROVE  Ready'
<1> DEFINE p == reg[t].p
<1>0. /\ t \in Threads /\ pc[t] = "warm" /\ UNCHANGED <<gst, of>>
      /\ \E ps : RetireThen(t, ps, "idle")
  BY DEF FillSlot, streams, Threads
<1>1. p \in Pipes /\ of[p] = reg[t].cue /\ gst[p] = "paused"
  BY <1>0 DEF IInv, Shape, Claiming, Ready, Parked, Parking
<1>2. warm' = warm \/ warm' = [p |-> p, cue |-> reg[t].cue]
  BY DEF FillSlot
<1>3. pc'[t] \notin Parking /\ Reaches(t)' \subseteq Holds(t)'
  <2>1. PICK ps : RetireThen(t, ps, "idle")
    BY <1>0
  <2>2. CASE ps = {}
    <3>1. pc'[t] = "idle" /\ reg'[t] = NoRegs
      BY <1>0, <2>1, <2>2 DEF RetireThen, Continue, Finish, Goto, IInv, TypeOK
    <3> QED BY <3>1 DEF Parking, Reaches, NoRegs
  <2>3. CASE ps # {}
    <3>1. pc'[t] = "retire" /\ reg'[t].ret = "idle"
      BY <1>0, <2>1, <2>3 DEF RetireThen, Goto, IInv, TypeOK, Regs
    <3> QED BY <3>1 DEF Parking, Reaches, Holds
  <2> QED BY <2>2, <2>3
<1>4. Hidden' \subseteq Hidden
  <2>1. NewPipes' \subseteq NewPipes /\ Slot' \subseteq Slot \cup {p}
    BY <1>2 DEF StreamsKept, Slot
  <2>2. p \in Hidden
    BY <1>0 DEF Hidden, Parking
  <2>3. \A u \in Threads : pc'[u] \in Parking => reg'[u].p \in Hidden
    BY <1>3 DEF Alone, Hidden
  <2> QED BY <2>1, <2>2, <2>3 DEF Hidden
<1>5. Apart'
  <2>1. Reaches(t)' \cap Hidden' = {}
    <3>1. \A u \in Threads : pc'[u] \in Parking => u # t /\ Holds(u)' = {reg'[u].p}
      BY <1>3 DEF Holds, Parking
    <3>2. Holds(t)' \cap Hidden' = {}
      BY <1>0, <3>1 DEF Hidden, Owned
    <3> QED BY <1>3, <3>2
  <2>2. \A u \in Threads \ {t} : Reaches(u)' = Reaches(u)
    BY DEF Alone, Reaches
  <2> QED BY <1>4, <2>1, <2>2 DEF Ready, Apart, Alone
<1>6. Parked'
  BY <1>0, <1>1, <1>2, <1>3 DEF Ready, Parked, WarmReady, Alone, Parking
<1> QED BY <1>5, <1>6 DEF Ready

-----------------------------------------------------------------------------
\* Ways to note nothing new: the same locals ...
LEMMA NotesSame ==
  ASSUME NEW t, pc[t] # "retire", reg'[t] = reg[t]
  PROVE  Notes(t)
  BY DEF Notes, Reaches

\* ... none ...
LEMMA NotesFinish ==
  ASSUME TypeOK, NEW t \in Threads, Finish(t)
  PROVE  Notes(t)
<1>1. reg'[t] = NoRegs
  BY DEF Finish, TypeOK
<1> QED BY <1>1 DEF Notes, Reaches, NoRegs

\* ... the same or none ...
LEMMA NotesContinue ==
  ASSUME TypeOK, NEW t \in Threads, pc[t] # "retire", NEW l, Continue(t, l)
  PROVE  Notes(t)
  BY NotesSame, NotesFinish DEF Continue

\* ... what the thread is about to retire ...
LEMMA NotesRetires ==
  ASSUME TypeOK, NEW t \in Threads, pc[t] # "retire", NEW ps, NEW l, RetireThen(t, ps, l)
  PROVE  Notes(t)
<1>1. CASE ps = {}
  BY <1>1, NotesContinue DEF RetireThen
<1>2. CASE ps # {}
  <2>1. pc'[t] = "retire" /\ reg'[t].kill = ps /\ reg'[t].p = reg[t].p
    BY <1>2 DEF TypeOK, RetireThen, Goto, Regs
  <2> QED BY <2>1 DEF Notes, Reaches, Holds
<1> QED BY <1>1, <1>2

\* ... or other locals that name what runs, what fades, or nothing more.
LEMMA NotesSet ==
  ASSUME NEW t, pc[t] # "retire",
         reg'[t].kill \subseteq reg[t].kill \cup RunPipes \cup FadePipes,
         reg'[t].p \in {None, reg[t].p} \cup RunPipes
  PROVE  Notes(t)
  BY DEF Notes, Reaches

\* What a request notes.
LEMMA RequestNotes ==
  ASSUME TypeOK, Order, WarmKnown, NEW t \in Requests, Request(t), pc[t] \notin Parking
  PROVE  Notes(t)
<1>0. /\ t \in Threads /\ reg[t] \in Regs
      /\ focus.p # None => focus.p \in RunPipes
      /\ \A v \in voices : v.p \in RunPipes
      /\ \A r : reg' = [reg EXCEPT ![t] = r] => reg'[t] = r
  BY DEF TypeOK, Threads, RunPipes, Clips
<1>1. CASE \/ AddWatch(t) \/ Preroll(t) \/ Run(t) \/ Tag(t) \/ Play(t) \/ PlayIntent(t)
           \/ PlayHow(t) \/ Resume(t) \/ PauseFocus(t) \/ ToggleMark(t) \/ StopNull(t)
  <2>1. pc[t] # "retire" /\ reg' = reg
    BY <1>1 DEF AddWatch, Preroll, Run, Tag, Play, PlayIntent, PlayHow, Resume, PauseFocus,
                ToggleMark, StopNull, ChangeState, Begin
  <2> QED BY <2>1, NotesSame
<1>2. CASE \/ Started(t) \/ Resumed(t) \/ PausedFocus(t) \/ Toggled(t) \/ PauseMark(t)
           \/ Commit(t) \/ SetVoices(t) \/ FadeTick(t)
  <2>1. pc[t] # "retire" /\ (reg' = reg \/ \E l : Continue(t, l))
    BY <1>2 DEF Started, Resumed, PausedFocus, Toggled, PauseMark, Commit, SetVoices, FadeTick,
                Recheck, AfterStart, Continue
  <2> QED BY <1>0, <2>1, NotesSame, NotesContinue
<1>3. CASE \/ Wire(t) \/ Cold(t) \/ Install(t) \/ StartFails(t) \/ StopVoices(t) \/ Faded(t)
           \/ PanicNow(t) \/ StopClear(t) \/ \E c \in Cues : StopCue(t, c)
  <2>1. pc[t] # "retire" /\ (reg' = reg \/ Finish(t) \/ \E ps, l : RetireThen(t, ps, l))
    BY <1>3 DEF Wire, Cold, Install, StartFails, StopVoices, Faded, PanicNow, StopClear, StopCue,
                ClearIfCurrent, Begin
  <2> QED BY <1>0, <2>1, NotesSame, NotesFinish, NotesRetires
<1>4. CASE Start(t)
  <2>1. CASE AfterStart(t)
    BY <1>0, <1>4, <2>1, NotesContinue DEF Start, AfterStart
  <2>2. CASE reg' = [reg EXCEPT ![t].gen = gen]
    <3>1. reg'[t].kill = reg[t].kill /\ reg'[t].p = reg[t].p
      BY <1>0, <2>2 DEF TypeOK, Regs
    <3> QED BY <1>4, <3>1, NotesSet DEF Start
  <2> QED BY <1>4, <2>1, <2>2 DEF Start
<1>5. CASE PlayRead(t)
  <2>1. CASE Finish(t)
    BY <1>0, <2>1, NotesFinish
  <2>2. CASE focus.p # None /\ reg' = [reg EXCEPT ![t] = [NoRegs EXCEPT !.p = focus.p, !.op = "play"]]
    <3>1. reg'[t].kill = {} /\ reg'[t].p = focus.p
      BY <1>0, <2>2 DEF TypeOK, NoRegs
    <3> QED BY <1>0, <1>5, <2>2, <3>1, NotesSet DEF PlayRead
  <2> QED BY <1>5, <2>1, <2>2 DEF PlayRead
<1>6. CASE ResumeVoices(t) \/ PauseVoices(t)
  <2>1. PICK vs \in SUBSET voices, x \in {"paused", "playing"} :
          reg' = [reg EXCEPT ![t].kill = {v.p : v \in vs}, ![t].to = x] /\ pc[t] # "retire"
    BY <1>6 DEF ResumeVoices, PauseVoices
  <2>2. reg'[t].kill = {v.p : v \in vs} /\ reg'[t].p = reg[t].p
    BY <1>0, <2>1 DEF TypeOK, Regs
  <2>3. reg'[t].kill \subseteq RunPipes
    BY <1>0, <2>2
  <2> QED BY <2>1, <2>2, <2>3, NotesSet
<1>7. CASE Pause(t) \/ Toggle(t) \/ FadeAndStop(t) \/ StopRead(t)
  <2>1. pc[t] # "retire" /\ reg'[t].kill = reg[t].kill /\ reg'[t].p = focus.p
    BY <1>0, <1>7 DEF Pause, Toggle, FadeAndStop, StopRead, Begin, TypeOK, Regs
  <2> QED BY <1>0, <2>1, NotesSet
<1>8. CASE ToggleState(t) \/ Cut(t) \/ Halt(t, "stop") \/ Halt(t, "panic")
  <2>1. /\ pc[t] # "retire" /\ reg'[t].p = reg[t].p
        /\ reg'[t].kill = reg[t].kill \/ reg'[t].kill = {} \/ reg'[t].kill = Fading
    BY <1>0, <1>8 DEF ToggleState, Cut, Halt, Begin, TypeOK, Regs
  <2>2. Fading \subseteq FadePipes
    BY DEF Fading, FadePipes
  <2> QED BY <2>1, <2>2, NotesSet
<1>9. CASE Build(t)
  <2>1. CASE Finish(t)
    BY <1>0, <2>1, NotesFinish
  <2>2. CASE ~Finish(t)
    <3>1. PICK p \in Pipes :
            /\ reg' = [reg EXCEPT ![t].p = p, ![t].op = IF @ = "warm" THEN @ ELSE "fire"]
            /\ Goto(t, IF reg[t].op = "warm" THEN "park" ELSE "install")
      BY <1>9, <2>2 DEF Build
    <3>2. reg'[t].kill = reg[t].kill /\ reg'[t].p = p
      BY <1>0, <3>1 DEF TypeOK, Regs
    <3>3. Holds(t)' = {p}
      BY <1>0, <3>1, <3>2 DEF TypeOK, Goto, Holds
    <3> QED BY <1>9, <3>2, <3>3 DEF Build, Notes, Reaches
  <2> QED BY <2>1, <2>2
<1>10. ASSUME NEW c \in Cues, Warm(t, c) PROVE Notes(t)
  <2>1. pc[t] = "idle" /\ reg'[t].p = reg[t].p
    BY <1>0, <1>10 DEF Warm, Begin, TypeOK, Regs
  <2>2. reg'[t].kill = reg[t].kill \/ (pc'[t] = "retire" /\ reg'[t].kill = Slot)
    BY <1>0, <1>10 DEF Warm, Goto, TypeOK, Regs
  <2> QED BY <2>1, <2>2 DEF Notes, Reaches, Holds
<1>11. ASSUME NEW c \in Cues, Fire(t, c) PROVE Notes(t)
  <2> DEFINE hit == warm.cue = c
             r == [NoRegs EXCEPT !.cue = c, !.op = IF hit THEN "warmFire" ELSE "fire",
                                 !.p = IF hit THEN warm.p ELSE None]
  <2>1. pc[t] = "idle" /\ reg' = [reg EXCEPT ![t] = r] /\ Goto(t, IF hit THEN "wire" ELSE "cold")
    BY <1>11 DEF Fire, Begin
  <2>2. r.kill = {} /\ (~hit => r.p = None)
    BY DEF NoRegs
  <2>3. reg'[t] = r /\ (hit => pc'[t] = "wire")
    BY <1>0, <2>1 DEF TypeOK, Goto
  <2> HIDE DEF r
  <2> QED BY <2>2, <2>3 DEF Notes, Reaches, Holds
<1>12. CASE Park(t) \/ FillSlot(t)
  BY <1>12 DEF Park, FillSlot, ChangeState, Parking
<1> QED
  BY <1>1, <1>2, <1>3, <1>4, <1>5, <1>6, <1>7, <1>8, <1>9, <1>10, <1>11, <1>12 DEF Request

\* What the ends of clips and the retirements note ...
LEMMA EndNotes ==
  ASSUME TypeOK, NEW t \in Threads, Retire(t) \/ End(t) \/ (t = "bus" /\ (FocusError \/ VoiceError))
  PROVE  Notes(t)
<1>0. reg[t] \in Regs
  BY DEF TypeOK
<1>1. CASE Retire(t)
  <2>1. CASE reg[t].ret = "idle"
    BY <1>1, <2>1, NotesFinish DEF Retire
  <2>2. CASE reg[t].ret # "idle"
    <3>1. reg'[t].kill = {} /\ reg'[t].p = reg[t].p
      BY <1>0, <1>1, <2>2 DEF Retire, TypeOK, Regs
    <3> QED BY <1>1, <2>2, <3>1 DEF Retire, Notes, Reaches
  <2> QED BY <2>1, <2>2
<1>2. CASE \/ LoopFocus(t) \/ LoopMark(t) \/ HoldFocus(t) \/ HoldMark(t) \/ Cleared(t)
           \/ LoopVoice(t) \/ HoldVoice(t)
  <2>1. pc[t] # "retire" /\ reg' = reg
    BY <1>2 DEF LoopFocus, LoopMark, HoldFocus, HoldMark, Cleared, LoopVoice, HoldVoice, Rewind,
                ChangeState
  <2> QED BY <2>1, NotesSame
<1>3. CASE LoopedFocus(t) \/ HeldFocus(t) \/ EndReturns(t)
  <2>1. pc[t] # "retire" /\ \E l : Continue(t, l)
    BY <1>3 DEF LoopedFocus, HeldFocus, EndReturns, Recheck, Continue
  <2> QED BY <2>1, NotesContinue
<1>4. CASE ClearFocus(t) \/ (t = "bus" /\ (FocusError \/ VoiceError))
  <2>1. pc[t] # "retire" /\ \E ps, l : RetireThen(t, ps, l)
    BY <1>4 DEF ClearFocus, FocusError, VoiceError, ClearIfCurrent
  <2> QED BY <2>1, NotesRetires
<1>5. CASE FocusEnd(t)
  <2>1. reg'[t].kill = reg[t].kill /\ reg'[t].p = reg[t].p
    BY <1>0, <1>5 DEF FocusEnd, TypeOK, Regs
  <2> QED BY <1>5, <2>1, NotesSet DEF FocusEnd
<1>6. CASE VoiceEnd(t)
  <2>1. pc[t] # "retire" /\ reg'[t].p = reg[t].p
    <3>1. \/ reg' = reg
          \/ \E c, ps : reg' = [reg EXCEPT ![t].cue = c, ![t].kill = ps, ![t].ret = "voiceCleared"]
      BY <1>6 DEF VoiceEnd
    <3>2. pc[t] # "retire"
      BY <1>6 DEF VoiceEnd
    <3>3. ASSUME NEW c, NEW ps,
                 reg' = [reg EXCEPT ![t].cue = c, ![t].kill = ps, ![t].ret = "voiceCleared"]
          PROVE  reg'[t].p = reg[t].p
      <4> DEFINE r == [reg[t] EXCEPT !.cue = c, !.kill = ps, !.ret = "voiceCleared"]
      <4>1. reg' = [reg EXCEPT ![t] = r]
        BY <3>3 DEF TypeOK
      <4>2. r.p = reg[t].p
        BY <1>0 DEF Regs
      <4> HIDE DEF r
      <4> QED BY <4>1, <4>2 DEF TypeOK
    <3> QED BY <3>1, <3>2, <3>3
  <2>2. reg'[t].kill = reg[t].kill \/ Holds(t)' = reg'[t].kill
    <3>1. CASE UNCHANGED reg
      BY <3>1
    <3>2. CASE Goto(t, "retire")
      BY <3>2 DEF Goto, TypeOK, Holds
    <3> QED BY <1>6, <3>1, <3>2 DEF VoiceEnd
  <2> QED BY <2>1, <2>2 DEF Notes, Reaches
<1> QED BY <1>1, <1>2, <1>3, <1>4, <1>5, <1>6 DEF End

\* ... and what a stream hands to a handler, if anything.
LEMMA StreamNotes ==
  ASSUME TypeOK, NEW p \in Pipes, Stream(p)
  PROVE  \/ UNCHANGED <<pc, reg>>
         \/ \E t \in Enders : Alone(t) /\ Notes(t) /\ pc[t] \notin Parking /\ pc'[t] \notin Parking
<1>1. ASSUME NEW t \in Enders, pc[t] = "idle", Running(p),
             \E l, m \in {"focusEnd", "voiceEnd", "focusError", "voiceError"} : Handle(t, p, l, m)
      PROVE  Alone(t) /\ Notes(t) /\ pc[t] \notin Parking /\ pc'[t] \notin Parking
  <2>0. t \in Threads /\ reg[t] \in Regs
    BY DEF TypeOK, Threads
  <2>1. PICK l \in {"focusEnd", "voiceEnd", "focusError", "voiceError"} :
          pc' = [pc EXCEPT ![t] = l] /\ reg' = [reg EXCEPT ![t].p = p]
    BY <1>1 DEF Handle, Goto
  <2>2. Alone(t) /\ pc'[t] \notin Parking /\ pc[t] \notin Parking
    BY <1>1, <2>0, <2>1 DEF TypeOK, Alone, Parking
  <2>3. reg'[t].kill = reg[t].kill /\ reg'[t].p = p
    BY <2>0, <2>1 DEF TypeOK, Regs
  <2>4. p \in RunPipes
    BY <1>1 DEF Running, RunPipes
  <2> QED BY <1>1, <2>2, <2>3, <2>4, NotesSet
<1>2. CASE ReachOut(p) \/ ReachEnd(p) \/ FadeRegisters(p) \/ FadeLeaves(p) \/ FadeRetires(p)
  BY <1>2 DEF ReachOut, ReachEnd, FadeRegisters, FadeLeaves, FadeRetires
<1>3. CASE BusEOS(p) \/ BusError(p) \/ TrimHits(p)
  BY <1>1, <1>3 DEF BusEOS, BusError, TrimHits, Enders
<1> QED BY <1>2, <1>3 DEF Stream

-----------------------------------------------------------------------------
\* A step that leads anywhere else does not park.
Elsewhere(t) ==
  \/ UNCHANGED pc
  \/ Finish(t)
  \/ \E l : l \notin Parking /\ (Goto(t, l) \/ Continue(t, l))
  \/ \E ps, l : l \notin Parking /\ RetireThen(t, ps, l)

\* A thread that goes anywhere else does not enter the slot.
LEMMA ElsewhereEnters ==
  ASSUME TypeOK, NEW t \in Threads, pc[t] \notin Parking, Elsewhere(t)
  PROVE  Enters(t)
<1>1. pc'[t] \notin Parking
  BY DEF Elsewhere, RetireThen, Continue, Finish, Goto, TypeOK, Parking
<1> QED BY <1>1 DEF Enters

\* A request that stands there parks or fills.
LEMMA ParkingSteps ==
  ASSUME NEW t, Request(t), pc[t] \in Parking
  PROVE  Park(t) \/ FillSlot(t)
<1>1. CASE \/ \E c \in Cues : Fire(t, c) \/ Warm(t, c) \/ StopCue(t, c)
           \/ Wire(t) \/ Cold(t) \/ Build(t) \/ Install(t) \/ AddWatch(t) \/ Start(t)
           \/ Preroll(t) \/ Commit(t) \/ StartFails(t) \/ Run(t) \/ Started(t) \/ Tag(t)
  BY <1>1 DEF Fire, Warm, StopCue, Wire, Cold, Build, Install, AddWatch, Start, Preroll, Commit,
              StartFails, Run, Started, Tag, Begin, ChangeState, Parking
<1>2. CASE \/ Play(t) \/ PlayRead(t) \/ PlayIntent(t) \/ PlayHow(t) \/ Resume(t) \/ Resumed(t)
           \/ ResumeVoices(t) \/ PauseVoices(t) \/ SetVoices(t) \/ Pause(t) \/ PauseFocus(t)
           \/ PausedFocus(t) \/ PauseMark(t) \/ Toggle(t) \/ ToggleState(t) \/ Toggled(t)
           \/ ToggleMark(t)
  BY <1>2 DEF Play, PlayRead, PlayIntent, PlayHow, Resume, Resumed, ResumeVoices, PauseVoices,
              SetVoices, Pause, PauseFocus, PausedFocus, PauseMark, Toggle, ToggleState, Toggled,
              ToggleMark, Begin, ChangeState, Recheck, Parking
<1>3. CASE \/ Halt(t, "stop") \/ Halt(t, "panic") \/ Cut(t) \/ StopVoices(t) \/ FadeAndStop(t)
           \/ FadeTick(t) \/ Faded(t) \/ PanicNow(t) \/ StopRead(t) \/ StopNull(t) \/ StopClear(t)
  BY <1>3 DEF Halt, Cut, StopVoices, FadeAndStop, FadeTick, Faded, PanicNow, StopRead, StopNull,
              StopClear, Begin, Parking
<1> QED BY <1>1, <1>2, <1>3 DEF Request

\* How a request comes to park.
LEMMA RequestEnters ==
  ASSUME TypeOK, NEW t \in Requests, Shape(t), Request(t), pc[t] \notin Parking
  PROVE  Enters(t)
<1>0. t \in Threads /\ reg[t] \in Regs
  BY DEF TypeOK, Threads
<1>1. CASE Build(t)
  <2>1. CASE Finish(t)
    BY <1>0, <2>1, ElsewhereEnters DEF Elsewhere
  <2>2. CASE ~Finish(t)
    <3>1. PICK p \in Pipes :
            /\ gst[p] = "new" /\ of' = [of EXCEPT ![p] = reg[t].cue]
            /\ reg' = [reg EXCEPT ![t].p = p, ![t].op = IF @ = "warm" THEN @ ELSE "fire"]
            /\ Goto(t, IF reg[t].op = "warm" THEN "park" ELSE "install")
      BY <1>1, <2>2 DEF Build
    <3>2. reg'[t].p = p /\ reg'[t].cue = reg[t].cue
      BY <1>0, <3>1 DEF TypeOK, Regs
    <3>3. pc'[t] \in {"park", "install"} /\ of'[p] = reg[t].cue
      BY <1>0, <3>1 DEF TypeOK, Goto
    <3> QED BY <3>1, <3>2, <3>3 DEF Enters, Parking, NewPipes
  <2> QED BY <2>1, <2>2
<1>2. CASE \/ \E c \in Cues : Fire(t, c) \/ Warm(t, c) \/ StopCue(t, c)
           \/ Wire(t) \/ Cold(t) \/ Install(t) \/ AddWatch(t) \/ Start(t) \/ Preroll(t)
           \/ Commit(t) \/ StartFails(t) \/ Run(t) \/ Started(t) \/ Tag(t) \/ Play(t)
  <2>1. Elsewhere(t)
    BY <1>2 DEF Fire, Warm, StopCue, Wire, Cold, Install, AddWatch, Start, Preroll, Commit,
                StartFails, Run, Started, Tag, Play, AfterStart, ChangeState, ClearIfCurrent,
                Elsewhere, Parking
  <2> QED BY <1>0, <2>1, ElsewhereEnters
<1>3. CASE \/ PlayRead(t) \/ PlayIntent(t) \/ PlayHow(t) \/ Resume(t) \/ Resumed(t)
           \/ ResumeVoices(t) \/ PauseVoices(t) \/ SetVoices(t) \/ Pause(t) \/ PauseFocus(t)
           \/ PausedFocus(t) \/ PauseMark(t) \/ Toggle(t) \/ ToggleState(t) \/ Toggled(t)
           \/ ToggleMark(t)
  <2>1. Elsewhere(t)
    BY <1>3 DEF PlayRead, PlayIntent, PlayHow, Resume, Resumed, ResumeVoices, PauseVoices,
                SetVoices, Pause, PauseFocus, PausedFocus, PauseMark, Toggle, ToggleState,
                Toggled, ToggleMark, Recheck, ChangeState, Elsewhere, Parking
  <2> QED BY <1>0, <2>1, ElsewhereEnters
<1>4. CASE \/ Halt(t, "stop") \/ Halt(t, "panic") \/ Cut(t) \/ FadeAndStop(t)
           \/ FadeTick(t) \/ Faded(t) \/ PanicNow(t) \/ StopRead(t) \/ StopNull(t) \/ StopClear(t)
  <2>1. Elsewhere(t)
    BY <1>4 DEF Halt, Cut, FadeAndStop, FadeTick, Faded, PanicNow, StopRead,
                StopNull, StopClear, ClearIfCurrent, Elsewhere, Parking
  <2> QED BY <1>0, <2>1, ElsewhereEnters
<1>5. CASE StopVoices(t)
  <2>1. reg[t].op \notin Parking
    BY <1>5 DEF StopVoices, Shape, Parking
  <2>2. Elsewhere(t)
    BY <1>5, <2>1 DEF StopVoices, Elsewhere
  <2> QED BY <1>0, <2>2, ElsewhereEnters
<1>6. CASE Park(t) \/ FillSlot(t)
  BY <1>6 DEF Park, FillSlot, ChangeState, Parking
<1> QED BY <1>1, <1>2, <1>3, <1>4, <1>5, <1>6 DEF Request

\* The ways to touch nothing that is hidden: no state at all ...
LEMMA TouchesNone ==
  ASSUME NEW t, UNCHANGED <<gst, of>>, warm' \in {warm, NoWarm}
  PROVE  Touches(t)
  BY DEF Touches

\* ... or the states of what the thread reaches.
LEMMA TouchesOwn ==
  ASSUME TypeOK, NEW t, pc[t] # "retire", Shape(t), UNCHANGED <<of, warm>>,
         \/ gst' = gst
         \/ \E x : gst' = [gst EXCEPT ![reg[t].p] = x]
         \/ Nulled({reg[t].p})
         \/ NullIfReplaced(reg[t].p)
         \/ \E x : gst' = [p \in Pipes |-> IF p \in reg[t].kill THEN x ELSE gst[p]]
  PROVE  Touches(t)
<1>1. \A p \in Pipes : gst'[p] = gst[p] \/ p \in reg[t].kill \cup {reg[t].p}
  BY DEF TypeOK, Nulled, NullIfReplaced, streams
<1>2. \A p \in Pipes : p # None
  BY PlaybackAssumption DEF PlaybackAssumption
<1> QED BY <1>1, <1>2 DEF Touches, Reaches

\* What a request touches.
LEMMA RequestTouches ==
  ASSUME TypeOK, NEW t \in Requests, Shape(t), Request(t), pc[t] \notin Parking
  PROVE  Touches(t)
<1> USE DEF streams
<1>1. CASE \/ \E c \in Cues : Fire(t, c) \/ Warm(t, c) \/ StopCue(t, c)
           \/ Wire(t) \/ Cold(t) \/ Install(t) \/ AddWatch(t) \/ Start(t) \/ Commit(t)
           \/ StartFails(t) \/ Tag(t) \/ Play(t) \/ PlayRead(t) \/ PlayIntent(t) \/ PlayHow(t)
  <2>1. UNCHANGED <<gst, of>> /\ warm' \in {warm, NoWarm}
    BY <1>1 DEF Fire, Warm, StopCue, Wire, Cold, Install, AddWatch, Start, Commit, StartFails,
                Tag, Play, PlayRead, PlayIntent, PlayHow, ClearIfCurrent
  <2> QED BY <2>1, TouchesNone
<1>2. CASE \/ ResumeVoices(t) \/ PauseVoices(t) \/ Pause(t) \/ PauseMark(t) \/ Toggle(t)
           \/ ToggleMark(t) \/ Halt(t, "stop") \/ Halt(t, "panic") \/ Cut(t) \/ StopVoices(t)
           \/ FadeAndStop(t) \/ FadeTick(t) \/ Faded(t) \/ PanicNow(t) \/ StopRead(t) \/ StopClear(t)
  <2>1. UNCHANGED <<gst, of>> /\ warm' \in {warm, NoWarm}
    BY <1>2 DEF ResumeVoices, PauseVoices, Pause, PauseMark, Toggle, ToggleMark, Halt, Cut,
                StopVoices, FadeAndStop, FadeTick, Faded, PanicNow, StopRead, StopClear,
                ClearIfCurrent
  <2> QED BY <2>1, TouchesNone
<1>3. CASE \/ Preroll(t) \/ Run(t) \/ Resume(t) \/ PauseFocus(t) \/ ToggleState(t)
           \/ Started(t) \/ Resumed(t) \/ PausedFocus(t) \/ Toggled(t) \/ StopNull(t)
           \/ SetVoices(t)
  <2>1. pc[t] # "retire" /\ UNCHANGED <<of, warm>>
    BY <1>3 DEF Preroll, Run, Resume, PauseFocus, ToggleState, Started, Resumed, PausedFocus,
                Toggled, StopNull, SetVoices, Recheck, ChangeState
  <2>2. \/ \E x : gst' = [gst EXCEPT ![reg[t].p] = x]
        \/ Nulled({reg[t].p})
        \/ NullIfReplaced(reg[t].p)
        \/ \E x : gst' = [p \in Pipes |-> IF p \in reg[t].kill THEN x ELSE gst[p]]
    BY <1>3 DEF Preroll, Run, Resume, PauseFocus, ToggleState, Started, Resumed, PausedFocus,
                Toggled, StopNull, SetVoices, Recheck, ChangeState
  <2> QED BY <2>1, <2>2, TouchesOwn
<1>4. CASE Build(t)
  <2>1. (UNCHANGED <<gst, of>>) \/
        \E p \in Pipes : \E c : /\ gst[p] = "new" /\ gst' = [gst EXCEPT ![p] = "null"]
                               /\ of' = [of EXCEPT ![p] = c]
    BY <1>4 DEF Build
  <2>2. \A q \in Pipes \ NewPipes : of'[q] = of[q] /\ gst'[q] = gst[q]
    BY <2>1 DEF TypeOK, NewPipes
  <2> QED BY <1>4, <2>2 DEF Build, Touches
<1>5. CASE Park(t) \/ FillSlot(t)
  BY <1>5 DEF Park, FillSlot, ChangeState, Parking
<1> QED BY <1>1, <1>2, <1>3, <1>4, <1>5 DEF Request

\* What the ends of clips and the retirements touch, and where they lead.
LEMMA EndTouches ==
  ASSUME TypeOK, NEW t \in Threads, Shape(t),
         Retire(t) \/ End(t) \/ (t = "bus" /\ (FocusError \/ VoiceError))
  PROVE  Touches(t) /\ Enters(t) /\ pc[t] \notin Parking
<1> USE DEF streams
<1>1. CASE Retire(t)
  <2>1. \A p \in Pipes : /\ of'[p] = of[p]
                         /\ gst'[p] = gst[p] \/ p \in reg[t].kill
    BY <1>1 DEF Retire, Nulled
  <2>2. Touches(t)
    BY <1>1, <2>1 DEF Retire, Touches, Reaches
  <2>3. Elsewhere(t)
    BY <1>1 DEF Retire, Elsewhere, Shape, Returns, Parking
  <2> QED BY <1>1, <2>2, <2>3, ElsewhereEnters DEF Retire, Parking
<1>2. CASE \/ LoopFocus(t) \/ LoopedFocus(t) \/ HoldFocus(t) \/ HeldFocus(t)
           \/ LoopVoice(t) \/ HoldVoice(t)
  <2>1. pc[t] \notin Parking \cup {"retire"} /\ UNCHANGED <<of, warm>> /\ Elsewhere(t)
    BY <1>2 DEF LoopFocus, LoopedFocus, HoldFocus, HeldFocus, LoopVoice, HoldVoice, Recheck,
                Rewind, ChangeState, Elsewhere, Parking
  <2>2. \/ \E x : gst' = [gst EXCEPT ![reg[t].p] = x]
        \/ NullIfReplaced(reg[t].p)
    BY <1>2 DEF LoopFocus, LoopedFocus, HoldFocus, HeldFocus, LoopVoice, HoldVoice, Recheck,
                Rewind, ChangeState
  <2> QED BY <2>1, <2>2, TouchesOwn, ElsewhereEnters
<1>3. CASE \/ FocusEnd(t) \/ LoopMark(t) \/ HoldMark(t) \/ ClearFocus(t) \/ Cleared(t)
           \/ VoiceEnd(t) \/ EndReturns(t) \/ (t = "bus" /\ (FocusError \/ VoiceError))
  <2>1. UNCHANGED <<gst, of, warm>> /\ pc[t] \notin Parking
    BY <1>3 DEF FocusEnd, LoopMark, HoldMark, ClearFocus, Cleared, VoiceEnd, EndReturns,
                FocusError, VoiceError, ClearIfCurrent, Parking
  <2>2. Elsewhere(t)
    BY <1>3 DEF FocusEnd, LoopMark, HoldMark, ClearFocus, Cleared, VoiceEnd, EndReturns,
                FocusError, VoiceError, ClearIfCurrent, Elsewhere, Parking
  <2> QED BY <2>1, <2>2, TouchesNone, ElsewhereEnters
<1> QED BY <1>1, <1>2, <1>3 DEF End

\* What a stream or a fade touches.
LEMMA StreamTouches ==
  ASSUME TypeOK, NEW p \in Pipes, Stream(p)
  PROVE  /\ UNCHANGED <<of, warm>>
         /\ \A q \in Pipes : gst'[q] = gst[q] \/ q \in FadePipes
<1> USE DEF streams
<1>1. CASE FadeRetires(p)
  BY <1>1 DEF FadeRetires, Nulled, FadePipes
<1>2. CASE \/ ReachOut(p) \/ ReachEnd(p) \/ BusEOS(p) \/ BusError(p) \/ TrimHits(p)
           \/ FadeRegisters(p) \/ FadeLeaves(p)
  BY <1>2 DEF ReachOut, ReachEnd, BusEOS, BusError, TrimHits, FadeRegisters, FadeLeaves
<1> QED BY <1>1, <1>2 DEF Stream

\* Where nobody moves, only fades change states.
LEMMA StillReady ==
  ASSUME IInv, Ready, UNCHANGED <<pc, reg, warm, of>>, NewPipes' \subseteq NewPipes,
         \A p \in Pipes : gst'[p] = gst[p] \/ p \in FadePipes
  PROVE  Ready'
<1>1. Apart'
  <2>1. Hidden' \subseteq Hidden /\ \A t \in Threads : Reaches(t)' = Reaches(t)
    BY DEF Hidden, Slot, Reaches
  <2> QED BY <2>1 DEF Ready, Apart
<1>2. WarmReady'
  <2>1. warm.p # None => warm.p \in Pipes \ FadePipes
    BY DEF IInv, TypeOK, AnyPipe, Owned, Slot
  <2> QED BY <2>1 DEF Ready, Parked, WarmReady
<1>3. \A t \in Threads : pc[t] = "warm" => gst'[reg[t].p] = "paused"
  <2>1. ASSUME NEW t \in Threads, pc[t] = "warm" PROVE reg[t].p \in Pipes \ FadePipes
    BY <2>1, ParkingHolds DEF IInv, Shape, Claiming, Parking, Owned
  <2> QED BY <2>1 DEF Ready, Parked
<1> QED BY <1>1, <1>2, <1>3 DEF Ready, Parked

-----------------------------------------------------------------------------
\* The slot's side holds at rest ...
LEMMA RestedReady == ASSUME Rested PROVE Ready
<1>1. \A t \in Threads : pc[t] = "idle" /\ reg[t] = NoRegs
  BY DEF Rested
<1>2. Apart
  BY <1>1 DEF Apart, Reaches, NoRegs
<1>3. Parked
  BY <1>1, WarmTyped DEF Rested, Parked, WarmReady, Parking
<1> QED BY <1>2, <1>3 DEF Ready

\* ... and through every step.
LEMMA NextReady == ASSUME IInv, Ready, Next PROVE Ready'
<1>0. /\ TypeOK /\ Order /\ WarmKnown /\ Owned /\ \A t \in Threads : Shape(t)
      /\ Requests \subseteq Threads /\ Enders \subseteq Threads /\ "bus" \in Enders
  BY DEF IInv, Threads, Enders
<1>1. Owned'
  BY NextIInv DEF IInv
<1>m. ASSUME NEW t \in Threads, Moves(t) PROVE Alone(t)
  BY <1>m DEF Moves, Alone
<1>2. ASSUME NEW t \in Requests, Request(t) PROVE Ready'
  <2>1. StreamsKept /\ Alone(t)
    BY <1>0, <1>2, <1>m, RequestStreams, RequestMoves
  <2>2. CASE pc[t] \notin Parking
    BY <1>0, <1>1, <1>2, <2>1, <2>2, RequestTouches, RequestEnters, RequestNotes, ReadyKept
  <2>3. CASE pc[t] \in Parking
    BY <1>1, <1>2, <2>1, <2>3, ParkingSteps, ParkReady, FillReady
  <2> QED BY <2>2, <2>3
<1>3. ASSUME NEW t \in Threads, Retire(t) PROVE Ready'
  <2>1. StreamsKept /\ Alone(t)
    BY <1>0, <1>3, <1>m, OthersStreams, RetireMoves
  <2> QED BY <1>0, <1>1, <1>3, <2>1, EndTouches, EndNotes, ReadyKept
<1>4. ASSUME NEW t \in Enders, End(t) \/ (t = "bus" /\ (FocusError \/ VoiceError)) PROVE Ready'
  <2>1. StreamsKept /\ Alone(t)
    BY <1>0, <1>4, <1>m, OthersStreams, EndMoves
  <2> QED BY <1>0, <1>1, <1>4, <2>1, EndTouches, EndNotes, ReadyKept
<1>5. ASSUME NEW p \in Pipes, Stream(p) PROVE Ready'
  <2>1. StreamsKept /\ UNCHANGED <<of, warm>> /\ \A q \in Pipes : gst'[q] = gst[q] \/ q \in FadePipes
    BY <1>0, <1>5, OthersStreams, StreamTouches
  <2>2. CASE UNCHANGED <<pc, reg>>
    BY <2>1, <2>2, StillReady DEF StreamsKept
  <2>3. ASSUME NEW t \in Enders, Alone(t), Notes(t), pc[t] \notin Parking, pc'[t] \notin Parking
        PROVE  Ready'
    <3>1. Touches(t) /\ Enters(t)
      BY <2>1, <2>3 DEF Touches, Enters
    <3> QED BY <1>0, <1>1, <2>1, <2>3, <3>1, ReadyKept
  <2> QED BY <1>0, <1>5, <2>2, <2>3, StreamNotes
<1> QED BY <1>0, <1>2, <1>3, <1>4, <1>5 DEF Next

\* The warm slot holds a parked pipeline built for the cue it answers to: a GO
\* that claims it starts that cue, at once (Warm, InstallWarm).
THEOREM SlotIsReady == Spec => []WarmReady
<1>1. Init => IInv /\ Ready
  BY InitIInv, InitRests, RestedReady
<1>2. (IInv /\ Ready) /\ [Next]_vars => (IInv /\ Ready)'
  <2>1. ASSUME IInv, Ready, UNCHANGED vars PROVE IInv' /\ Ready'
    <3>1. UNCHANGED <<pc, reg, warm, of>> /\ gst' = gst /\ NewPipes' = NewPipes
      BY <2>1 DEF vars, streams, NewPipes
    <3> QED BY <2>1, <3>1, StutterIInv, StillReady
  <2> QED BY <2>1, NextIInv, NextReady
<1>3. Ready => WarmReady
  BY DEF Ready, Parked
<1> QED BY <1>1, <1>2, <1>3, PTL DEF Spec

-----------------------------------------------------------------------------
(* Who follows the focus: StackHasFocus.                                     *)

\* Whose focus it is.  A step leaves it where it is, and no voice joins ...
Steady == focus'.p = focus.p /\ (voices = {} => voices' = {})

\* ... or the newest voice takes over, if there is one.
Promotes == focus' = Newest(voices) /\ voices' = voices \ {Newest(voices)}

\* clearIfCurrent.
LEMMA ClearHandsOn ==
  ASSUME NEW t, NEW p, NEW l, ClearIfCurrent(t, p, l)
  PROVE  Steady \/ Promotes
  BY DEF ClearIfCurrent, Steady, Promotes

\* Only an installation and a panic do anything else.
LEMMA RequestHandsOn ==
  ASSUME TypeOK, NEW t \in Requests, Request(t)
  PROVE  Steady \/ Promotes \/ Install(t) \/ PanicNow(t)
<1> USE DEF clipState
<1>0. focus \in Clip
  BY DEF TypeOK
<1>1. CASE \/ \E c \in Cues : Fire(t, c) \/ Warm(t, c)
           \/ Wire(t) \/ Cold(t) \/ Build(t) \/ AddWatch(t) \/ Preroll(t) \/ Run(t)
           \/ Started(t) \/ Play(t) \/ PlayRead(t) \/ PlayHow(t) \/ Resume(t) \/ Resumed(t)
  BY <1>1 DEF Fire, Warm, Wire, Cold, Build, AddWatch, Preroll, Run, Started, Play, PlayRead,
              PlayHow, Resume, Resumed, ChangeState, Recheck, Steady
<1>2. CASE \/ SetVoices(t) \/ Pause(t) \/ PauseFocus(t) \/ PausedFocus(t) \/ Toggle(t)
           \/ ToggleState(t) \/ Toggled(t) \/ Halt(t, "stop") \/ Halt(t, "panic") \/ Cut(t)
           \/ FadeTick(t) \/ StopRead(t) \/ StopNull(t) \/ Park(t) \/ FillSlot(t)
  BY <1>2 DEF SetVoices, Pause, PauseFocus, PausedFocus, Toggle, ToggleState, Toggled, Halt,
              Cut, FadeTick, StopRead, StopNull, Park, FillSlot, ChangeState, Recheck, Steady
<1>3. CASE \/ Start(t) \/ Tag(t) \/ PlayIntent(t) \/ PauseMark(t) \/ ToggleMark(t)
           \/ FadeAndStop(t) \/ StopClear(t)
  BY <1>0, <1>3 DEF Start, Tag, PlayIntent, PauseMark, ToggleMark, FadeAndStop, StopClear, Steady,
                    Clip
<1>4. CASE Commit(t)
  BY <1>0, <1>4 DEF Commit, Steady, Clip
<1>5. CASE ResumeVoices(t) \/ PauseVoices(t) \/ StopVoices(t)
  BY <1>5 DEF ResumeVoices, PauseVoices, StopVoices, Steady
<1>6. CASE StartFails(t) \/ Faded(t)
  BY <1>6, ClearHandsOn DEF StartFails, Faded
<1>7. CASE \E c \in Cues : StopCue(t, c)
  BY <1>7 DEF StopCue, Steady, Promotes
<1> QED BY <1>1, <1>2, <1>3, <1>4, <1>5, <1>6, <1>7 DEF Request

\* The same of everything else.
LEMMA OthersHandOn ==
  ASSUME TypeOK,
         \/ \E t \in Enders : End(t)
         \/ \E t \in Threads : Retire(t)
         \/ \E p \in Pipes : Stream(p)
         \/ FocusError \/ VoiceError
  PROVE  Steady \/ Promotes
<1> USE DEF clipState
<1>0. focus \in Clip
  BY DEF TypeOK
<1>1. CASE \E t \in Enders : End(t)
  <2>1. PICK t \in Enders : End(t)
    BY <1>1
  <2>2. CASE \/ FocusEnd(t) \/ LoopFocus(t) \/ LoopedFocus(t) \/ LoopMark(t) \/ HoldFocus(t)
             \/ HeldFocus(t) \/ HoldMark(t) \/ Cleared(t) \/ LoopVoice(t) \/ HoldVoice(t)
             \/ EndReturns(t)
    BY <1>0, <2>2 DEF FocusEnd, LoopFocus, LoopedFocus, LoopMark, HoldFocus, HeldFocus, HoldMark,
                Cleared, LoopVoice, HoldVoice, EndReturns, Rewind, ChangeState, Recheck, Steady,
                Clip
  <2>3. CASE ClearFocus(t)
    BY <2>3, ClearHandsOn DEF ClearFocus
  <2>4. CASE VoiceEnd(t)
    BY <2>4 DEF VoiceEnd, Steady
  <2> QED BY <2>1, <2>2, <2>3, <2>4 DEF End
<1>2. CASE FocusError
  BY <1>2, ClearHandsOn DEF FocusError
<1>3. CASE VoiceError
  BY <1>3 DEF VoiceError, Steady
<1>4. CASE (\E p \in Pipes : Stream(p)) \/ \E t \in Threads : Retire(t)
  BY <1>4 DEF Stream, ReachOut, ReachEnd, BusEOS, BusError, TrimHits, FadeRegisters, FadeLeaves,
              FadeRetires, Retire, Steady
<1> QED BY <1>1, <1>2, <1>3, <1>4

\* A voice that takes over is there; without one nothing is.
LEMMA PromotedRuns ==
  ASSUME TypeOK, Order, Promotes
  PROVE  /\ voices # {} => focus'.p # None /\ focus' \in voices
         /\ voices = {} => focus' = NoClip /\ voices' = {}
<1>1. voices \in SUBSET Clip /\ loads \in Nat /\ \A v \in voices : v.fired <= loads /\ v.p # None
  BY DEF TypeOK, Order
<1> QED BY <1>1, NewestIs DEF Promotes

-----------------------------------------------------------------------------
\* Where a thread is bound for: the place it stands at, or returns to once
\* what it took out is retired.
Bound(t) == IF pc[t] = "retire" THEN reg[t].ret ELSE pc[t]

\* The places of Stop, Panic and FadeAndStop, ...
HaltPlaces == {"cut", "stopVoices", "panic", "stop", "stopNull", "stopEmpty", "stopClear"}

\* ... of what is done to voices, ...
VoicePlaces == {"voiceEnd", "voiceError", "voiceLoop", "voiceHold", "voiceKept", "voiceCleared",
                "voiceDone"}

\* ... and these with the states set on voices.
Apartments == HaltPlaces \cup VoicePlaces \cup {"setVoices"}

\* A step that leads to none of the places S.
Avoids(t, S) ==
  \/ UNCHANGED <<pc, reg>> /\ pc[t] = "idle"
  \/ Finish(t)
  \/ \E l : l \notin S \cup {"retire"} /\ (Goto(t, l) \/ Continue(t, l))
  \/ \E ps, l : l \notin S \cup {"retire"} /\ RetireThen(t, ps, l)
  \/ pc'[t] = "retire" /\ reg'[t].ret = "build"

\* Where such a step leads.
LEMMA AvoidsPlaces ==
  ASSUME TypeOK, NEW t \in Threads, NEW S, S \cap {"idle", "build"} = {}, Avoids(t, S)
  PROVE  Bound(t)' \notin S
<1>1. CASE UNCHANGED <<pc, reg>> /\ pc[t] = "idle"
  BY <1>1 DEF Bound
<1>2. CASE Finish(t) \/ \E l : l \notin S \cup {"retire"} /\ (Goto(t, l) \/ Continue(t, l))
  <2>1. pc'[t] \notin S \cup {"retire"}
    BY <1>2 DEF Finish, Continue, Goto, TypeOK
  <2> QED BY <2>1 DEF Bound
<1>3. ASSUME NEW ps, NEW l, l \notin S \cup {"retire"}, RetireThen(t, ps, l)
      PROVE  Bound(t)' \notin S
  <2>1. CASE ps = {}
    BY <1>2, <1>3, <2>1 DEF RetireThen
  <2>2. CASE ps # {}
    <3>1. pc'[t] = "retire" /\ reg'[t].ret = l
      BY <1>3, <2>2 DEF RetireThen, Goto, TypeOK, Regs
    <3> QED BY <1>3, <3>1 DEF Bound
  <2> QED BY <2>1, <2>2
<1>4. CASE pc'[t] = "retire" /\ reg'[t].ret = "build"
  BY <1>4 DEF Bound
<1> QED BY <1>1, <1>2, <1>3, <1>4 DEF Avoids

\* The requests' ways into those places.
Halts(t) ==
  \/ Halt(t, "stop") \/ Halt(t, "panic") \/ Cut(t) \/ FadeAndStop(t) \/ StopVoices(t)
  \/ StopRead(t) \/ StopNull(t)

\* Only the halts and the transport lead to those places.
LEMMA RequestAvoids ==
  ASSUME TypeOK, NEW t \in Requests, Request(t)
  PROVE  Avoids(t, Apartments) \/ Halts(t) \/ ResumeVoices(t) \/ PauseVoices(t)
<1> USE DEF Apartments, HaltPlaces, VoicePlaces
<1>1. CASE \/ \E c \in Cues : Fire(t, c) \/ Warm(t, c) \/ StopCue(t, c)
           \/ Wire(t) \/ Cold(t) \/ Build(t) \/ Install(t) \/ AddWatch(t) \/ Start(t)
  <2>1. CASE \E c \in Cues : Fire(t, c)
    BY <2>1 DEF Fire, Avoids
  <2>4. CASE \E c \in Cues : Warm(t, c)
    <3>1. CASE Goto(t, "build")
      BY <3>1 DEF Avoids
    <3>2. CASE ~Goto(t, "build")
      <4>1. PICK c \in Cues : Warm(t, c)
        BY <2>4
      <4>2. /\ pc' = [pc EXCEPT ![t] = "retire"] /\ t \in Threads /\ reg[t] \in Regs
            /\ reg' = [reg EXCEPT ![t].op = "warm", ![t].cue = c, ![t].gen = gen,
                                  ![t].kill = Slot, ![t].ret = "build"]
        BY <3>2, <4>1 DEF Warm, Goto, TypeOK, Threads
      <4>3. pc'[t] = "retire" /\ reg'[t].ret = "build"
        BY <4>2 DEF TypeOK, Regs
      <4> QED BY <4>3 DEF Avoids
    <3> QED BY <3>1, <3>2
  <2>2. CASE \E c \in Cues : StopCue(t, c)
    BY <2>2 DEF StopCue, Begin, Avoids
  <2>3. CASE Wire(t) \/ Cold(t) \/ Build(t) \/ Install(t) \/ AddWatch(t) \/ Start(t)
    BY <2>3 DEF Wire, Cold, Build, Install, AddWatch, Start, AfterStart, Avoids
  <2> QED BY <1>1, <2>1, <2>2, <2>3, <2>4
<1>2. CASE \/ Preroll(t) \/ Commit(t) \/ StartFails(t) \/ Run(t) \/ Started(t) \/ Tag(t) \/ Play(t)
           \/ PlayRead(t) \/ PlayIntent(t) \/ PlayHow(t) \/ Resume(t) \/ Resumed(t)
  BY <1>2 DEF Preroll, Commit, StartFails, Run, Started, Tag, Play, PlayRead, PlayIntent, PlayHow,
              Resume, Resumed, AfterStart, ChangeState, ClearIfCurrent, Recheck, Avoids
<1>3. CASE \/ SetVoices(t) \/ Pause(t) \/ PauseFocus(t) \/ PausedFocus(t) \/ PauseMark(t)
           \/ Toggle(t) \/ ToggleState(t) \/ Toggled(t) \/ ToggleMark(t)
  BY <1>3 DEF SetVoices, Pause, PauseFocus, PausedFocus, PauseMark, Toggle, ToggleState, Toggled,
              ToggleMark, Recheck, ChangeState, Avoids
<1>4. CASE \/ FadeTick(t) \/ Faded(t) \/ PanicNow(t) \/ StopClear(t) \/ Park(t) \/ FillSlot(t)
  BY <1>4 DEF FadeTick, Faded, PanicNow, StopClear, Park, FillSlot, ChangeState, ClearIfCurrent,
              Avoids
<1> QED BY <1>1, <1>2, <1>3, <1>4 DEF Request, Halts

\* Which place of a halt follows which.
LEMMA HaltWays ==
  ASSUME TypeOK, NEW t \in Requests, Shape(t), Halts(t)
  PROVE  /\ Bound(t)' \notin VoicePlaces \cup {"setVoices"}
         /\ Bound(t)' = "panic" => pc[t] = "stopVoices" /\ reg[t].op = "panic" /\ voices' = {}
         /\ Bound(t)' = "stop" => pc[t] = "stopVoices" /\ reg[t].op = "stop"
         /\ Bound(t)' \in {"stopNull", "stopEmpty"} => pc[t] = "stop"
         /\ Bound(t)' = "stopClear" => pc[t] = "stopNull"
         /\ Bound(t)' \in {"cut", "stopVoices"} =>
              /\ pc'[t] = Bound(t)'
              /\ \/ pc[t] = "cut" /\ reg'[t].op = reg[t].op
                 \/ reg'[t].op \in Calls /\ pc[t] = "idle"
<1> USE DEF VoicePlaces
<1>0. t \in Threads /\ reg[t] \in Regs
  BY DEF TypeOK, Threads
<1>1. CASE Halt(t, "stop") \/ Halt(t, "panic")
  <2>1. PICK o \in {"stop", "panic"} : Halt(t, o)
    BY <1>1
  <2>2. pc'[t] = "cut" /\ reg'[t].op = o /\ o \in Calls /\ pc[t] = "idle"
    BY <1>0, <2>1 DEF Halt, Begin, Goto, TypeOK, Regs
  <2> QED BY <2>2 DEF Bound
<1>2. CASE Cut(t)
  <2>1. pc'[t] = "stopVoices" /\ reg'[t].op = reg[t].op /\ pc[t] = "cut"
    BY <1>0, <1>2 DEF Cut, Goto, TypeOK, Regs
  <2> QED BY <2>1 DEF Bound
<1>3. CASE FadeAndStop(t)
  <2>1. pc'[t] = "stopVoices" /\ reg'[t].op = "fade" /\ "fade" \in Calls /\ pc[t] = "idle"
    BY <1>0, <1>3 DEF FadeAndStop, Begin, Goto, TypeOK, Regs
  <2> QED BY <2>1 DEF Bound
<1>4. CASE StopVoices(t)
  <2>1. /\ pc[t] = "stopVoices" /\ voices' = {} /\ reg[t].op \in {"fade", "stop", "panic"}
        /\ \E ps : RetireThen(t, ps, reg[t].op)
    BY <1>4 DEF StopVoices, Shape
  <2>2. Bound(t)' = reg[t].op
    <3>1. PICK ps : RetireThen(t, ps, reg[t].op)
      BY <2>1
    <3>2. CASE ps = {}
      BY <1>0, <2>1, <3>1, <3>2 DEF RetireThen, Continue, Goto, TypeOK, Bound
    <3>3. CASE ps # {}
      <4>1. pc'[t] = "retire" /\ reg'[t].ret = reg[t].op
        BY <1>0, <3>1, <3>3 DEF RetireThen, Goto, TypeOK, Regs
      <4> QED BY <4>1 DEF Bound
    <3> QED BY <3>2, <3>3
  <2> QED BY <2>1, <2>2
<1>5. CASE StopRead(t) \/ StopNull(t)
  <2>1. \/ pc[t] = "stop" /\ pc'[t] \in {"stopNull", "stopEmpty"}
        \/ pc[t] = "stopNull" /\ pc'[t] = "stopClear"
    BY <1>0, <1>5 DEF StopRead, StopNull, Goto, TypeOK
  <2> QED BY <2>1 DEF Bound
<1> QED BY <1>1, <1>2, <1>3, <1>4, <1>5 DEF Halts

\* What is done to voices is done by resume and pause, with the voices there are.
LEMMA VoicesWays ==
  ASSUME TypeOK, NEW t \in Requests, ResumeVoices(t) \/ PauseVoices(t)
  PROVE  /\ pc'[t] = "setVoices" /\ Bound(t)' = "setVoices"
         /\ reg'[t].kill \subseteq {v.p : v \in voices} /\ reg'[t].p = reg[t].p
<1>0. t \in Threads /\ reg[t] \in Regs
  BY DEF TypeOK, Threads
<1>1. PICK vs \in SUBSET voices, x \in {"paused", "playing"} :
        reg' = [reg EXCEPT ![t].kill = {v.p : v \in vs}, ![t].to = x]
  BY DEF ResumeVoices, PauseVoices
<1>2. reg'[t].kill = {v.p : v \in vs} /\ reg'[t].p = reg[t].p
  BY <1>0, <1>1 DEF TypeOK, Regs
<1>3. pc'[t] = "setVoices"
  BY <1>0 DEF ResumeVoices, PauseVoices, Goto, TypeOK
<1> QED BY <1>2, <1>3 DEF Bound

\* Where the ends of clips lead, ...
LEMMA EndWays ==
  ASSUME TypeOK, NEW t \in Enders, End(t) \/ (t = "bus" /\ (FocusError \/ VoiceError))
  PROVE  /\ Bound(t)' \notin HaltPlaces \cup {"setVoices"}
         /\ Bound(t)' \in VoicePlaces => pc[t] \in VoicePlaces
<1> USE DEF HaltPlaces, VoicePlaces
<1>0. t \in Threads /\ reg[t] \in Regs
  BY DEF TypeOK, Threads
<1>1. CASE \/ FocusEnd(t) \/ LoopFocus(t) \/ LoopedFocus(t) \/ LoopMark(t)
           \/ HoldFocus(t) \/ HeldFocus(t) \/ HoldMark(t) \/ EndReturns(t)
  <2>1. Avoids(t, Apartments)
    BY <1>1 DEF FocusEnd, LoopFocus, LoopedFocus, LoopMark, HoldFocus, HeldFocus, HoldMark,
                EndReturns, Rewind, ChangeState, Recheck, Avoids, Apartments
  <2> QED BY <1>0, <2>1, AvoidsPlaces DEF Apartments, HaltPlaces, VoicePlaces
<1>2. CASE ClearFocus(t) \/ (t = "bus" /\ FocusError)
  <2>1. Avoids(t, Apartments)
    BY <1>2 DEF ClearFocus, FocusError, ClearIfCurrent, Avoids, Apartments
  <2> QED BY <1>0, <2>1, AvoidsPlaces DEF Apartments, HaltPlaces, VoicePlaces
<1>3. CASE t = "bus" /\ VoiceError
  <2>1. Avoids(t, Apartments)
    BY <1>3 DEF VoiceError, Avoids, Apartments
  <2> QED BY <1>0, <2>1, AvoidsPlaces DEF Apartments, HaltPlaces, VoicePlaces
<1>4. CASE Cleared(t) \/ LoopVoice(t) \/ HoldVoice(t)
  <2>1. \/ pc[t] = "cleared" /\ pc'[t] = "focusDone"
        \/ pc[t] \in VoicePlaces /\ pc'[t] \in {"voiceDone", "voiceKept"}
    BY <1>0, <1>4 DEF Cleared, LoopVoice, HoldVoice, Rewind, ChangeState, Goto, TypeOK
  <2> QED BY <2>1 DEF Bound
<1>5. CASE VoiceEnd(t)
  <2>1. pc[t] = "voiceEnd"
    BY <1>5 DEF VoiceEnd
  <2>2. pc'[t] \in {"voiceDone", "voiceLoop", "voiceHold"} \/ (pc'[t] = "retire" /\ Goto(t, "retire"))
    BY <1>0, <1>5 DEF VoiceEnd, Goto, TypeOK
  <2>3. CASE pc'[t] \in {"voiceDone", "voiceLoop", "voiceHold"}
    BY <2>1, <2>3 DEF Bound
  <2>4. CASE pc'[t] = "retire" /\ Goto(t, "retire")
    <3>0. ~ \E l \in {"voiceDone", "voiceLoop", "voiceHold"} : Goto(t, l)
      BY <1>0, <2>4 DEF Goto, TypeOK
    <3>1. PICK v \in voices : reg' = [reg EXCEPT ![t].cue = v.cue, ![t].kill = {reg[t].p},
                                                 ![t].ret = "voiceCleared"]
      BY <1>5, <3>0 DEF VoiceEnd
    <3> DEFINE q == [reg[t] EXCEPT !.cue = v.cue, !.kill = {reg[t].p}]
               r == [q EXCEPT !.ret = "voiceCleared"]
    <3>2. reg' = [reg EXCEPT ![t] = r]
      BY <1>0, <3>1 DEF TypeOK
    <3>3. r.ret = "voiceCleared"
      <4>1. DOMAIN q = DOMAIN reg[t]
        OBVIOUS
      <4>2. "ret" \in DOMAIN q
        BY <1>0, <4>1 DEF Regs
      <4> HIDE DEF q
      <4> QED BY <4>2
    <3> HIDE DEF r
    <3>4. reg'[t].ret = "voiceCleared"
      BY <1>0, <3>2, <3>3 DEF TypeOK
    <3> QED BY <2>1, <2>4, <3>4 DEF Bound
  <2> QED BY <2>2, <2>3, <2>4
<1> QED BY <1>1, <1>2, <1>3, <1>4, <1>5 DEF End

\* ... a retirement, ...
LEMMA RetireWays ==
  ASSUME TypeOK, NEW t \in Threads, Shape(t), Retire(t)
  PROVE  /\ Bound(t)' = Bound(t) /\ pc'[t] # "retire"
         /\ pc'[t] # "idle" => reg'[t].op = reg[t].op /\ reg'[t].p = reg[t].p
<1>0. reg[t] \in Regs /\ pc[t] = "retire" /\ reg[t].ret # "retire"
  BY DEF TypeOK, Retire, Shape, Returns
<1>1. CASE reg[t].ret = "idle"
  BY <1>0, <1>1 DEF Retire, Finish, Goto, TypeOK, Bound
<1>2. CASE reg[t].ret # "idle"
  <2>1. pc'[t] = reg[t].ret /\ reg'[t].op = reg[t].op /\ reg'[t].p = reg[t].p
    BY <1>0, <1>2 DEF Retire, Goto, TypeOK, Regs
  <2> QED BY <1>0, <2>1 DEF Bound
<1> QED BY <1>1, <1>2

\* ... and what a stream hands to a handler.
LEMMA StreamWays ==
  ASSUME TypeOK, NEW p \in Pipes, Stream(p)
  PROVE  \/ UNCHANGED <<pc, reg>>
         \/ \E t \in Enders :
              /\ Alone(t) /\ Running(p) /\ pc[t] = "idle"
              /\ pc'[t] \in {"focusEnd", "voiceEnd", "focusError", "voiceError"}
              /\ pc'[t] \in {"focusEnd", "focusError"} <=> focus.p = p
              /\ reg'[t].p = p
<1>1. ASSUME NEW t \in Enders, pc[t] = "idle", Running(p),
             NEW l \in {"focusEnd", "focusError"}, NEW m \in {"voiceEnd", "voiceError"},
             Handle(t, p, l, m)
      PROVE  /\ Alone(t) /\ Running(p) /\ pc[t] = "idle"
             /\ pc'[t] \in {"focusEnd", "voiceEnd", "focusError", "voiceError"}
             /\ pc'[t] \in {"focusEnd", "focusError"} <=> focus.p = p
             /\ reg'[t].p = p
  <2>0. t \in Threads /\ reg[t] \in Regs
    BY DEF TypeOK, Threads
  <2>1. /\ pc' = [pc EXCEPT ![t] = IF focus.p = p THEN l ELSE m]
        /\ reg' = [reg EXCEPT ![t].p = p]
    BY <1>1 DEF Handle, Goto
  <2>2. reg'[t].p = p /\ \A u \in Threads \ {t} : reg'[u] = reg[u]
    BY <2>0, <2>1 DEF TypeOK, Regs
  <2>3. pc'[t] = (IF focus.p = p THEN l ELSE m) /\ \A u \in Threads \ {t} : pc'[u] = pc[u]
    BY <2>0, <2>1 DEF TypeOK
  <2> QED BY <1>1, <2>2, <2>3 DEF Alone
<1>2. CASE ReachOut(p) \/ ReachEnd(p) \/ FadeRegisters(p) \/ FadeLeaves(p) \/ FadeRetires(p)
  BY <1>2 DEF ReachOut, ReachEnd, FadeRegisters, FadeLeaves, FadeRetires
<1>3. CASE BusEOS(p)
  BY <1>1, <1>3 DEF BusEOS, Enders
<1>4. CASE BusError(p)
  BY <1>1, <1>4 DEF BusError, Enders
<1>5. CASE TrimHits(p)
  BY <1>1, <1>5 DEF TrimHits, Enders
<1> QED BY <1>2, <1>3, <1>4, <1>5 DEF Stream

-----------------------------------------------------------------------------
\* Nobody panics, or who does is alone.
Lone == "panic" \notin Calls \/ \E r : Requests = {r}

\* A panic on its way to take the focus: the voices went before, and nobody is
\* there to fire new ones.
Emptied(t) ==
  /\ Bound(t) = "panic" => t \in Requests /\ voices = {}
  /\ \/ Bound(t) = "panic"
     \/ pc[t] \in {"cut", "stopVoices"} /\ reg[t].op = "panic"
     => "panic" \in Calls

\* The invariant behind the focus of the voices.
Headed == StackHasFocus /\ \A t \in Threads : Emptied(t)

\* What a step that hands the focus on leaves of the stack.
LEMMA HandsOnHeaded ==
  ASSUME TypeOK, Order, StackHasFocus, Steady \/ Promotes
  PROVE  StackHasFocus' /\ (voices = {} => voices' = {})
<1>1. CASE Steady
  BY <1>1 DEF Steady, StackHasFocus
<1>2. CASE Promotes
  BY <1>2, PromotedRuns DEF Promotes, StackHasFocus
<1> QED BY <1>1, <1>2

\* A thread that stays, while no voice joins, or nobody panics.
LEMMA StaysEmptied ==
  ASSUME NEW t, Emptied(t), pc'[t] = pc[t], reg'[t] = reg[t],
         (voices = {} => voices' = {}) \/ "panic" \notin Calls
  PROVE  Emptied(t)'
  BY DEF Emptied, Bound

\* Requests keep it: an installation gives a focus, and a Panic finds no voices.
LEMMA RequestHeaded ==
  ASSUME Lone, IInv, Headed, NEW t \in Requests, Request(t)
  PROVE  Headed'
<1>0. /\ TypeOK /\ Order /\ WarmKnown /\ Shape(t) /\ StackHasFocus /\ t \in Threads
      /\ \A u \in Threads : Emptied(u)
  BY DEF IInv, Headed, Threads
<1>1. Alone(t)
  BY <1>0, RequestMoves DEF Moves, Alone
<1>2. StackHasFocus' /\ (voices = {} => voices' = {} \/ Install(t))
  <2>1. CASE Steady \/ Promotes
    BY <1>0, <2>1, HandsOnHeaded
  <2>2. CASE Install(t)
    <3>1. focus'.p = reg[t].p /\ reg[t].p \in Pipes
      BY <1>0, <2>2 DEF Install, Shape, Claiming, NoClip
    <3> QED BY <2>2, <3>1, PlaybackAssumption DEF PlaybackAssumption, StackHasFocus
  <2>3. CASE PanicNow(t)
    <3>1. voices = {} /\ voices' = voices
      BY <1>0, <2>3 DEF PanicNow, Emptied, Bound
    <3> QED BY <3>1 DEF StackHasFocus
  <2> QED BY <1>0, <2>1, <2>2, <2>3, RequestHandsOn
<1>3. Emptied(t)'
  <2>1. CASE Avoids(t, Apartments)
    <3>1. Bound(t)' \notin HaltPlaces
      BY <1>0, <2>1, AvoidsPlaces DEF Apartments, HaltPlaces, VoicePlaces
    <3>2. pc'[t] \notin {"cut", "stopVoices"}
      BY <3>1 DEF Bound, HaltPlaces
    <3> QED BY <3>1, <3>2 DEF Emptied, HaltPlaces
  <2>2. CASE ResumeVoices(t) \/ PauseVoices(t)
    BY <1>0, <2>2, VoicesWays DEF Emptied
  <2>3. CASE Halts(t)
    <3>1. Bound(t)' = "panic" => voices' = {} /\ "panic" \in Calls
      BY <1>0, <2>3, HaltWays DEF Emptied
    <3>2. pc'[t] \in {"cut", "stopVoices"} /\ reg'[t].op = "panic" => "panic" \in Calls
      <4>1. pc'[t] \in {"cut", "stopVoices"} => Bound(t)' = pc'[t]
        BY DEF Bound
      <4> QED BY <1>0, <2>3, <4>1, HaltWays DEF Emptied
    <3> QED BY <3>1, <3>2 DEF Emptied
  <2> QED BY <1>0, <2>1, <2>2, <2>3, RequestAvoids
<1>4. ASSUME NEW u \in Threads \ {t} PROVE Emptied(u)'
  <2>1. pc'[u] = pc[u] /\ reg'[u] = reg[u]
    BY <1>1 DEF Alone
  <2>2. CASE (voices = {} => voices' = {}) \/ "panic" \notin Calls
    BY <1>0, <2>1, <2>2, StaysEmptied
  <2>3. CASE Requests = {t}
    BY <1>0, <2>1, <2>3 DEF Emptied, Bound
  <2> QED BY <2>2, <2>3 DEF Lone
<1> QED BY <1>2, <1>3, <1>4 DEF Headed

\* So do the end handlers, the retirements and the streams.
LEMMA OthersHeaded ==
  ASSUME IInv, Headed,
         \/ \E t \in Enders : End(t)
         \/ \E t \in Threads : Retire(t)
         \/ \E p \in Pipes : Stream(p)
         \/ FocusError \/ VoiceError
  PROVE  Headed'
<1>0. /\ TypeOK /\ Order /\ StackHasFocus /\ "bus" \in Enders
      /\ \A u \in Threads : Emptied(u) /\ Shape(u)
      /\ Enders \subseteq Threads
  BY DEF IInv, Headed, Threads, Enders
<1>1. StackHasFocus' /\ (voices = {} => voices' = {})
  BY <1>0, OthersHandOn, HandsOnHeaded
<1>2. ASSUME NEW t \in Enders, End(t) \/ (t = "bus" /\ (FocusError \/ VoiceError))
      PROVE  Headed'
  <2>1. Alone(t)
    BY <1>0, <1>2, EndMoves DEF Moves, Alone
  <2>2. Emptied(t)'
    <3>1. Bound(t)' \notin HaltPlaces
      BY <1>0, <1>2, EndWays
    <3>2. pc'[t] \notin {"cut", "stopVoices"}
      BY <3>1 DEF Bound, HaltPlaces
    <3> QED BY <3>1, <3>2 DEF Emptied, HaltPlaces
  <2> QED BY <1>0, <1>1, <2>1, <2>2, StaysEmptied DEF Headed, Alone
<1>3. ASSUME NEW t \in Threads, Retire(t)
      PROVE  Headed'
  <2>1. Alone(t)
    BY <1>0, <1>3, RetireMoves DEF Moves, Alone
  <2>2. Emptied(t)'
    <3>1. Bound(t)' = Bound(t) /\ pc'[t] # "retire" /\ Bound(t) \notin {"cut", "stopVoices"}
      BY <1>0, <1>3, RetireWays DEF Retire, Bound, Shape, Returns
    <3>2. pc'[t] \notin {"cut", "stopVoices"}
      BY <3>1 DEF Bound
    <3> QED BY <1>0, <1>1, <3>1, <3>2 DEF Emptied
  <2> QED BY <1>0, <1>1, <2>1, <2>2, StaysEmptied DEF Headed, Alone
<1>4. ASSUME NEW p \in Pipes, Stream(p) PROVE Headed'
  <2>1. CASE UNCHANGED <<pc, reg>>
    BY <1>0, <1>1, <2>1, StaysEmptied DEF Headed
  <2>2. ASSUME NEW t \in Enders, Alone(t),
               pc'[t] \in {"focusEnd", "voiceEnd", "focusError", "voiceError"}
        PROVE  Headed'
    <3>1. Emptied(t)'
      BY <2>2 DEF Emptied, Bound
    <3> QED BY <1>0, <1>1, <2>2, <3>1, StaysEmptied DEF Headed, Alone
  <2> QED BY <1>0, <1>4, <2>1, <2>2, StreamWays
<1> QED BY <1>0, <1>2, <1>3, <1>4

\* While voices run there is a focus for the transport to act on, for one
\* client, or without Panic: no clip that ends, fails, is stopped or is faded
\* away leaves voices behind without one (clearIfCurrent, StopCue, swap).
THEOREM VoicesFollow == ASSUME Lone PROVE Spec => []StackHasFocus
<1>1. Init => IInv /\ Headed
  BY InitIInv DEF Init, Headed, StackHasFocus, Emptied, Bound
<1>2. (IInv /\ Headed) /\ [Next]_vars => (IInv /\ Headed)'
  <2>1. ASSUME IInv, Headed, UNCHANGED vars PROVE IInv' /\ Headed'
    BY <2>1, StutterIInv DEF vars, clipState, Headed, StackHasFocus, Emptied, Bound
  <2>2. ASSUME IInv, Headed, Next PROVE IInv' /\ Headed'
    BY <2>2, NextIInv, RequestHeaded, OthersHeaded DEF Next
  <2> QED BY <2>1, <2>2
<1>3. Headed => StackHasFocus
  BY DEF Headed
<1> QED BY <1>1, <1>2, <1>3, PTL DEF Spec

-----------------------------------------------------------------------------
(* One output where one clip runs at a time: OneOutput.                      *)

\* Without layers, or without a cue that keeps the others running, there is
\* one running clip.
Flat == Layered => Keep = {}

\* No thread is about to set the states of voices.
Voiceless(t) ==
  /\ Bound(t) \notin VoicePlaces
  /\ Bound(t) = "setVoices" => pc[t] = "setVoices" /\ reg[t].kill = {}

\* There are none, and nobody knows of one.
NoVoices == voices = {} /\ \A t \in Threads : Voiceless(t)

\* Requests add none where no cue keeps the others running.
LEMMA RequestNoVoices ==
  ASSUME Flat, IInv, NoVoices, NEW t \in Requests, Request(t)
  PROVE  NoVoices'
<1>0. /\ TypeOK /\ Order /\ WarmKnown /\ Shape(t) /\ t \in Threads /\ voices = {}
      /\ \A u \in Threads : Voiceless(u)
  BY DEF IInv, NoVoices, Threads
<1>1. Alone(t)
  BY <1>0, RequestMoves DEF Moves, Alone
<1>2. voices' = {}
  <2>1. CASE Steady \/ Promotes
    BY <1>0, <2>1, PromotedRuns DEF Steady
  <2>2. CASE Install(t)
    BY <2>2 DEF Install, Flat
  <2>3. CASE PanicNow(t)
    BY <1>0, <2>3 DEF PanicNow
  <2> QED BY <1>0, <2>1, <2>2, <2>3, RequestHandsOn
<1>3. Voiceless(t)'
  <2>1. CASE Avoids(t, Apartments)
    <3>1. Bound(t)' \notin Apartments
      BY <1>0, <2>1, AvoidsPlaces DEF Apartments, HaltPlaces, VoicePlaces
    <3> QED BY <3>1 DEF Voiceless, Apartments
  <2>2. CASE ResumeVoices(t) \/ PauseVoices(t)
    BY <1>0, <2>2, VoicesWays DEF Voiceless, VoicePlaces
  <2>3. CASE Halts(t)
    BY <1>0, <2>3, HaltWays DEF Voiceless
  <2> QED BY <1>0, <2>1, <2>2, <2>3, RequestAvoids
<1> QED BY <1>0, <1>1, <1>2, <1>3 DEF NoVoices, Alone, Voiceless, Bound

\* Nobody else adds a voice at all.
LEMMA OthersNoVoices ==
  ASSUME IInv, NoVoices,
         \/ \E t \in Enders : End(t)
         \/ \E t \in Threads : Retire(t)
         \/ \E p \in Pipes : Stream(p)
         \/ FocusError \/ VoiceError
  PROVE  NoVoices'
<1>0. /\ TypeOK /\ Order /\ "bus" \in Enders /\ voices = {}
      /\ \A u \in Threads : Voiceless(u) /\ Shape(u)
      /\ Enders \subseteq Threads
  BY DEF IInv, NoVoices, Threads, Enders
<1>1. voices' = {}
  BY <1>0, OthersHandOn, PromotedRuns DEF Steady
<1>2. ASSUME NEW t \in Enders, End(t) \/ (t = "bus" /\ (FocusError \/ VoiceError))
      PROVE  NoVoices'
  <2>1. Alone(t)
    BY <1>0, <1>2, EndMoves DEF Moves, Alone
  <2>2. pc[t] \notin VoicePlaces
    BY <1>0 DEF Voiceless, Bound, VoicePlaces
  <2>3. Voiceless(t)'
    BY <1>0, <1>2, <2>2, EndWays DEF Voiceless
  <2> QED BY <1>0, <1>1, <2>1, <2>3 DEF NoVoices, Alone, Voiceless, Bound
<1>3. ASSUME NEW t \in Threads, Retire(t)
      PROVE  NoVoices'
  <2>1. Alone(t)
    BY <1>0, <1>3, RetireMoves DEF Moves, Alone
  <2>2. Voiceless(t)'
    BY <1>0, <1>3, RetireWays DEF Voiceless, Bound, Retire
  <2> QED BY <1>0, <1>1, <2>1, <2>2 DEF NoVoices, Alone, Voiceless, Bound
<1>4. ASSUME NEW p \in Pipes, Stream(p) PROVE NoVoices'
  <2>1. CASE UNCHANGED <<pc, reg>>
    BY <1>0, <1>1, <2>1 DEF NoVoices, Voiceless, Bound
  <2>2. ASSUME NEW t \in Enders, Alone(t), Running(p),
               /\ pc'[t] \in {"focusEnd", "voiceEnd", "focusError", "voiceError"}
               /\ pc'[t] \in {"focusEnd", "focusError"} <=> focus.p = p
        PROVE  NoVoices'
    <3>1. focus.p = p
      BY <1>0, <2>2 DEF Running, Clips
    <3>2. Voiceless(t)'
      BY <2>2, <3>1 DEF Voiceless, Bound, VoicePlaces
    <3> QED BY <1>0, <1>1, <2>2, <3>2 DEF NoVoices, Alone, Voiceless, Bound
  <2> QED BY <1>0, <1>4, <2>1, <2>2, StreamWays
<1> QED BY <1>0, <1>2, <1>3, <1>4

-----------------------------------------------------------------------------
\* The pipelines thread t is about to send to NULL, unless they run.
Due(t) ==
  IF pc[t] = "retire" THEN reg[t].kill
  ELSE IF pc[t] \in Rechecking THEN {reg[t].p}
  ELSE {}

\* Who answers for a pipeline that plays.
Excused(p) == p \in RunPipes \cup FadePipes \/ \E t \in Threads : p \in Due(t)

\* OneOutput in these terms.
LEMMA OutputExcused ==
  ASSUME TypeOK
  PROVE  OneOutput <=> \A p \in Pipes : gst[p] = "playing" => Excused(p)
<1>1. ASSUME NEW p \in Pipes
      PROVE  Excused(p) <=> \/ Running(p) \/ fade[p] # "none"
                            \/ \E t \in Threads : \/ pc[t] = "retire" /\ p \in reg[t].kill
                                                  \/ pc[t] \in Rechecking /\ p = reg[t].p
  <2>1. Running(p) <=> p \in RunPipes
    BY PlaybackAssumption DEF PlaybackAssumption, Running, RunPipes
  <2>2. fade[p] # "none" <=> p \in FadePipes
    BY DEF FadePipes
  <2>3. ASSUME NEW t \in Threads
        PROVE  p \in Due(t) <=> \/ pc[t] = "retire" /\ p \in reg[t].kill
                                \/ pc[t] \in Rechecking /\ p = reg[t].p
    BY DEF Due, Rechecking
  <2> QED BY <2>1, <2>2, <2>3 DEF Excused
<1> QED BY <1>1 DEF OneOutput

\* A step of t excuses what it lets go and what it starts.
Accounts(t) ==
  \A p \in Pipes : gst'[p] = "playing" =>
    \/ p \in RunPipes' \cup FadePipes' \cup Due(t)'
    \/ gst[p] = "playing" /\ p \notin RunPipes \cup FadePipes \cup Due(t)

\* A step that answers for what it leaves playing keeps one output.
LEMMA OutputKept ==
  ASSUME TypeOK, TypeOK', OneOutput, NEW t \in Threads, Alone(t), Accounts(t)
  PROVE  OneOutput'
<1>1. ASSUME NEW p \in Pipes, gst'[p] = "playing" PROVE Excused(p)'
  <2>1. CASE p \in RunPipes' \cup FadePipes' \cup Due(t)'
    BY <2>1 DEF Excused
  <2>2. CASE gst[p] = "playing" /\ p \notin RunPipes \cup FadePipes \cup Due(t)
    <3>1. PICK u \in Threads : p \in Due(u)
      BY <2>2, OutputExcused DEF Excused
    <3>2. u # t /\ Due(u)' = Due(u)
      BY <2>2, <3>1 DEF Alone, Due
    <3> QED BY <3>1, <3>2 DEF Excused
  <2> QED BY <1>1, <2>1, <2>2 DEF Accounts
<1>2. (\A p \in Pipes : gst[p] = "playing" => Excused(p))' => OneOutput'
  <2>1. TypeOK' => (OneOutput' <=> (\A p \in Pipes : gst[p] = "playing" => Excused(p))')
    BY OutputExcused, PTL
  <2> QED BY <2>1
<1> QED BY <1>1, <1>2

\* Ways to account for everything: nothing starts and nobody is let go, ...
LEMMA AccountsQuiet ==
  ASSUME NEW t, pc[t] \notin Rechecking \cup {"retire"},
         \A p \in Pipes : gst'[p] = "playing" => gst[p] = "playing",
         RunPipes \subseteq RunPipes', FadePipes \subseteq FadePipes'
  PROVE  Accounts(t)
  BY DEF Accounts, Due

\* ... a pipeline is set, and looked at again if it was set to play, ...
LEMMA AccountsSet ==
  ASSUME TypeOK, NEW t \in Threads, pc[t] \notin Rechecking \cup {"retire"}, NEW x,
         gst' = [gst EXCEPT ![reg[t].p] = x], RunPipes' = RunPipes, FadePipes' = FadePipes,
         x = "playing" => pc'[t] \in Rechecking /\ reg'[t].p = reg[t].p
  PROVE  Accounts(t)
<1>1. \A p \in Pipes : gst'[p] = "playing" => gst[p] = "playing" \/ (p = reg[t].p /\ x = "playing")
  BY DEF TypeOK
<1>2. x = "playing" => reg[t].p \in Due(t)'
  BY DEF Due, Rechecking
<1> QED BY <1>1, <1>2 DEF Accounts, Due

\* ... the second look, ...
LEMMA AccountsRecheck ==
  ASSUME TypeOK, NEW t \in Threads, pc[t] \in Rechecking, NullIfReplaced(reg[t].p),
         RunPipes' = RunPipes, FadePipes' = FadePipes
  PROVE  Accounts(t)
<1>1. CASE Running(reg[t].p)
  <2>1. reg[t].p \in RunPipes /\ gst' = gst
    BY <1>1 DEF Running, RunPipes, NullIfReplaced, streams
  <2> QED BY <2>1 DEF Accounts, Due, Rechecking
<1>2. CASE ~Running(reg[t].p)
  <2>1. \A p \in Pipes : gst'[p] = "playing" => gst[p] = "playing" /\ p # reg[t].p
    BY <1>2 DEF NullIfReplaced, Nulled, TypeOK
  <2> QED BY <2>1 DEF Accounts, Due, Rechecking
<1> QED BY <1>1, <1>2

\* ... or what is let go is retired.
LEMMA AccountsRetires ==
  ASSUME TypeOK, NEW t \in Threads, pc[t] # "retire", gst' = gst,
         NEW ps \in SUBSET Pipes, NEW l, RetireThen(t, ps, l),
         RunPipes \cup FadePipes \cup Due(t) \subseteq RunPipes' \cup FadePipes' \cup ps
  PROVE  Accounts(t)
<1>1. ps \subseteq Due(t)'
  <2>1. ps # {} => pc'[t] = "retire" /\ reg'[t].kill = ps
    BY DEF RetireThen, Goto, TypeOK, Regs
  <2> QED BY <2>1 DEF Due
<1> QED BY <1>1 DEF Accounts

\* Requests answer for what they set to PLAYING or take out ...
LEMMA RequestAccounts ==
  ASSUME Flat, IInv, NoVoices, NoVoices', NEW t \in Requests, Request(t)
  PROVE  Accounts(t)
<1> USE DEF streams, clipState
<1>0. /\ TypeOK /\ Order /\ WarmKnown /\ Shape(t) /\ t \in Threads /\ reg[t] \in Regs
      /\ voices = {} /\ voices' = {} /\ Voiceless(t) /\ focus \in Clip
      /\ RunPipes = {focus.p} \ {None} /\ RunPipes' = {focus'.p} \ {None}
  BY DEF IInv, NoVoices, Threads, TypeOK, RunPipes, Clips
<1>q. ASSUME pc[t] \notin Rechecking \cup {"retire"}, Steady,
             \A p \in Pipes : gst'[p] = "playing" => gst[p] = "playing",
             FadePipes \subseteq FadePipes'
      PROVE  Accounts(t)
  BY <1>0, <1>q, AccountsQuiet DEF Steady
<1>1. CASE \/ \E c \in Cues : Fire(t, c) \/ Warm(t, c)
           \/ Wire(t) \/ Cold(t) \/ AddWatch(t) \/ Play(t) \/ PlayRead(t) \/ PlayHow(t)
           \/ Pause(t) \/ Toggle(t) \/ Halt(t, "stop") \/ Halt(t, "panic") \/ Cut(t)
           \/ FadeTick(t) \/ StopRead(t) \/ FillSlot(t)
  <2>1. /\ pc[t] \notin Rechecking \cup {"retire"} /\ UNCHANGED <<focus, voices, gst, fade>>
    BY <1>1 DEF Fire, Warm, Wire, Cold, AddWatch, Play, PlayRead, PlayHow, Pause, Toggle, Halt,
                Cut, FadeTick, StopRead, FillSlot, Begin, Rechecking
  <2> QED BY <1>q, <2>1 DEF Steady, FadePipes
<1>2. CASE \/ Start(t) \/ Tag(t) \/ PlayIntent(t) \/ PauseMark(t) \/ ToggleMark(t)
           \/ FadeAndStop(t) \/ StopClear(t)
  <2>1. /\ pc[t] \notin Rechecking \cup {"retire"} /\ UNCHANGED <<voices, gst, fade>>
        /\ focus'.p = focus.p
    BY <1>0, <1>2 DEF Start, Tag, PlayIntent, PauseMark, ToggleMark, FadeAndStop, StopClear, Begin,
                Rechecking, Clip
  <2> QED BY <1>q, <2>1 DEF Steady, FadePipes
<1>3. CASE Commit(t) \/ ResumeVoices(t) \/ PauseVoices(t) \/ StopVoices(t)
  <2>1. pc[t] \notin Rechecking \cup {"retire"} /\ gst' = gst /\ focus'.p = focus.p
    BY <1>0, <1>3 DEF Commit, ResumeVoices, PauseVoices, StopVoices, Rechecking, Clip
  <2>2. FadePipes \subseteq FadePipes'
    BY <1>3 DEF Commit, ResumeVoices, PauseVoices, StopVoices, FadePipes
  <2> QED BY <1>0, <1>q, <2>1, <2>2 DEF Steady
<1>4. CASE Build(t) \/ StopNull(t) \/ SetVoices(t)
  <2>1. \A p \in Pipes : gst'[p] = "playing" => gst[p] = "playing"
    <3>1. CASE Build(t)
      BY <1>0, <3>1 DEF Build, TypeOK
    <3>2. CASE StopNull(t)
      BY <3>2 DEF StopNull, Nulled
    <3>3. CASE SetVoices(t)
      <4>1. reg[t].kill = {}
        BY <1>0, <3>3 DEF SetVoices, Voiceless, Bound
      <4> QED BY <3>3, <4>1 DEF SetVoices
    <3> QED BY <1>4, <3>1, <3>2, <3>3
  <2>2. pc[t] \notin Rechecking \cup {"retire"} /\ UNCHANGED <<focus, voices, fade>>
    BY <1>4 DEF Build, StopNull, SetVoices, Rechecking
  <2> QED BY <1>q, <2>1, <2>2 DEF Steady, FadePipes
<1>5. CASE Preroll(t) \/ Run(t) \/ Resume(t) \/ PauseFocus(t) \/ Park(t)
  <2>1. PICK from, to, l :
          /\ ChangeState(t, from, to, l) /\ from \notin Rechecking \cup {"retire"}
          /\ to = "playing" => l \in Rechecking
    BY <1>5 DEF Preroll, Run, Resume, PauseFocus, Park, Rechecking
  <2>2. /\ pc[t] \notin Rechecking \cup {"retire"} /\ gst' = [gst EXCEPT ![reg[t].p] = to]
        /\ RunPipes' = RunPipes /\ FadePipes' = FadePipes
        /\ pc'[t] = l /\ reg'[t].p = reg[t].p
    BY <1>0, <2>1 DEF ChangeState, Goto, TypeOK, FadePipes
  <2> QED BY <1>0, <2>1, <2>2, AccountsSet
<1>6. CASE ToggleState(t)
  <2>1. PICK x : gst' = [gst EXCEPT ![reg[t].p] = x] /\ reg' = [reg EXCEPT ![t].to = x]
    BY <1>6 DEF ToggleState
  <2>2. /\ pc[t] \notin Rechecking \cup {"retire"} /\ pc'[t] \in Rechecking
        /\ RunPipes' = RunPipes /\ FadePipes' = FadePipes
    BY <1>0, <1>6 DEF ToggleState, Goto, TypeOK, FadePipes, Rechecking
  <2>3. reg'[t].p = reg[t].p
    BY <1>0, <2>1 DEF TypeOK, Regs
  <2> QED BY <1>0, <2>1, <2>2, <2>3, AccountsSet
<1>7. CASE Started(t) \/ Resumed(t) \/ PausedFocus(t) \/ Toggled(t)
  <2>1. /\ pc[t] \in Rechecking /\ NullIfReplaced(reg[t].p)
        /\ RunPipes' = RunPipes /\ FadePipes' = FadePipes
    BY <1>0, <1>7 DEF Started, Resumed, PausedFocus, Toggled, Recheck, Rechecking, FadePipes
  <2> QED BY <1>0, <2>1, AccountsRecheck
<1>8. CASE StartFails(t) \/ Faded(t)
  <2>1. PICK l : ClearIfCurrent(t, reg[t].p, l) /\ pc[t] \in {"commit", "running", "faded"}
                 /\ (pc[t] = "running" => Running(reg[t].p))
    BY <1>8 DEF StartFails, Faded
  <2>2. Due(t) \subseteq RunPipes
    BY <2>1 DEF Due, Rechecking, Running, RunPipes
  <2> DEFINE ps == IF Running(reg[t].p) THEN {reg[t].p} ELSE {}
  <2>3. /\ ps \in SUBSET Pipes /\ RetireThen(t, ps, l) /\ gst' = gst /\ FadePipes' = FadePipes
        /\ focus.p # reg[t].p => focus' = focus
        /\ focus.p = reg[t].p /\ focus.p # None => ps = {focus.p}
    BY <1>0, <2>1 DEF ClearIfCurrent, FadePipes, Running, Clips, Regs, AnyPipe
  <2>4. RunPipes \subseteq RunPipes' \cup ps
    BY <1>0, <2>3
  <2> HIDE DEF ps
  <2> QED BY <1>0, <2>1, <2>2, <2>3, <2>4, AccountsRetires
<1>9. CASE Install(t)
  <2> DEFINE old == {k.p : k \in Clips}
             away == IF Layered /\ reg[t].cue \in Cross THEN old ELSE {}
  <2>1. ~ (Layered /\ reg[t].cue \in Keep)
    BY DEF Flat
  <2>2. /\ pc[t] = "install" /\ gst' = gst
        /\ fade' = [p \in Pipes |-> IF p \in away THEN "spawned" ELSE fade[p]]
        /\ RetireThen(t, (old \ away) \cup Slot, "watch")
    BY <1>9, <2>1 DEF Install
  <2>3. old = RunPipes
    BY DEF RunPipes
  <2>4. old \cup Slot \subseteq Pipes
    BY <1>0, <2>3 DEF Slot, TypeOK, Clip, AnyPipe
  <2>5. FadePipes \cup away \subseteq FadePipes'
    BY <2>2, <2>4 DEF FadePipes
  <2>6. Due(t) = {}
    BY <2>2 DEF Due, Rechecking
  <2> HIDE DEF old, away
  <2>7. (old \ away) \cup Slot \in SUBSET Pipes
    BY <2>4
  <2>8. RunPipes \cup FadePipes \cup Due(t) \subseteq RunPipes' \cup FadePipes' \cup ((old \ away) \cup Slot)
    BY <2>3, <2>5, <2>6
  <2> QED BY <1>0, <2>2, <2>7, <2>8, AccountsRetires
<1>10. CASE PanicNow(t)
  <2> DEFINE ps == ({focus.p} \ {None}) \cup Slot
  <2>1. /\ pc[t] = "panic" /\ gst' = gst /\ RetireThen(t, ps, "idle") /\ FadePipes' = FadePipes
    BY <1>10 DEF PanicNow, FadePipes
  <2>2. ps \in SUBSET Pipes /\ Due(t) = {}
    BY <1>0, <2>1 DEF Slot, TypeOK, Clip, AnyPipe, Due, Rechecking
  <2>3. RunPipes \subseteq ps
    BY <1>0
  <2> HIDE DEF ps
  <2> QED BY <1>0, <2>1, <2>2, <2>3, AccountsRetires
<1>11. CASE \E c \in Cues : StopCue(t, c)
  <2>1. PICK c \in Cues : StopCue(t, c)
    BY <1>11
  <2>2. focus.p # None /\ focus.cue = c
    <3>1. {v \in voices : v.cue = c} = {}
      BY <1>0
    <3> QED BY <2>1, <3>1, NoClipTyped DEF StopCue, Newest
  <2>3. /\ gst' = gst /\ pc[t] = "idle"
        /\ \/ fade' = [fade EXCEPT ![focus.p] = "spawned"]
           \/ RetireThen(t, {focus.p}, "idle") /\ fade' = fade
    BY <2>1, <2>2 DEF StopCue, Begin
  <2>4. focus.p \in Pipes /\ Due(t) = {} /\ RunPipes = {focus.p}
    BY <1>0, <2>2, <2>3 DEF Clip, AnyPipe, Due, Rechecking
  <2>5. CASE fade' = [fade EXCEPT ![focus.p] = "spawned"]
    <3>1. FadePipes \cup RunPipes \subseteq FadePipes'
      BY <1>0, <2>4, <2>5 DEF FadePipes, TypeOK
    <3> QED BY <2>3, <2>4, <3>1 DEF Accounts
  <2>6. CASE RetireThen(t, {focus.p}, "idle") /\ fade' = fade
    <3>1. FadePipes' = FadePipes
      BY <2>6 DEF FadePipes
    <3> QED BY <1>0, <2>3, <2>4, <2>6, <3>1, AccountsRetires
  <2> QED BY <2>3, <2>5, <2>6
<1> QED
  BY <1>1, <1>2, <1>3, <1>4, <1>5, <1>6, <1>7, <1>8, <1>9, <1>10, <1>11 DEF Request

\* ... end handlers and retirements do ...
LEMMA EndAccounts ==
  ASSUME IInv, NoVoices, NoVoices', NEW t \in Threads,
         Retire(t) \/ End(t) \/ (t = "bus" /\ (FocusError \/ VoiceError))
  PROVE  Accounts(t)
<1> USE DEF streams, clipState
<1>0. /\ TypeOK /\ Order /\ reg[t] \in Regs
      /\ voices = {} /\ voices' = {} /\ Voiceless(t) /\ focus \in Clip
      /\ RunPipes = {focus.p} \ {None} /\ RunPipes' = {focus'.p} \ {None}
  BY DEF IInv, NoVoices, TypeOK, RunPipes, Clips
<1>1. CASE Retire(t)
  <2>1. /\ pc[t] = "retire" /\ RunPipes' = RunPipes /\ FadePipes' = FadePipes
        /\ \A p \in Pipes : gst'[p] = "playing" => gst[p] = "playing" /\ p \notin reg[t].kill
    BY <1>0, <1>1 DEF Retire, Nulled, FadePipes
  <2> QED BY <2>1 DEF Accounts, Due
<1>2. CASE FocusEnd(t) \/ LoopMark(t) \/ HoldMark(t) \/ Cleared(t) \/ EndReturns(t)
  <2>1. /\ pc[t] \notin Rechecking \cup {"retire"} /\ gst' = gst
        /\ RunPipes' = RunPipes /\ FadePipes' = FadePipes
    BY <1>0, <1>2 DEF FocusEnd, LoopMark, HoldMark, Cleared, EndReturns, Rechecking, FadePipes, Clip
  <2> QED BY <2>1, AccountsQuiet
<1>3. CASE LoopFocus(t) \/ HoldFocus(t)
  <2>1. PICK to, l : /\ gst' = [gst EXCEPT ![reg[t].p] = to] /\ Goto(t, l) /\ l \in Rechecking
    BY <1>3 DEF LoopFocus, HoldFocus, Rewind, ChangeState, Rechecking
  <2>2. /\ pc[t] \notin Rechecking \cup {"retire"} /\ UNCHANGED <<reg, focus, fade>>
    BY <1>3 DEF LoopFocus, HoldFocus, Rewind, ChangeState, Rechecking
  <2>3. pc'[t] = l
    BY <1>0, <2>1 DEF Goto, TypeOK
  <2>4. RunPipes' = RunPipes /\ FadePipes' = FadePipes
    BY <1>0, <2>2 DEF FadePipes
  <2> QED BY <1>0, <2>1, <2>2, <2>3, <2>4, AccountsSet
<1>4. CASE LoopedFocus(t) \/ HeldFocus(t)
  <2>1. /\ pc[t] \in Rechecking /\ NullIfReplaced(reg[t].p)
        /\ RunPipes' = RunPipes /\ FadePipes' = FadePipes
    BY <1>0, <1>4 DEF LoopedFocus, HeldFocus, Recheck, Rechecking, FadePipes
  <2> QED BY <1>0, <2>1, AccountsRecheck
<1>5. CASE ClearFocus(t) \/ (t = "bus" /\ FocusError)
  <2>1. PICK l : ClearIfCurrent(t, reg[t].p, l) /\ pc[t] \in {"clear", "focusError"}
    BY <1>5 DEF ClearFocus, FocusError
  <2>2. Due(t) = {}
    BY <2>1 DEF Due, Rechecking
  <2> DEFINE ps == IF Running(reg[t].p) THEN {reg[t].p} ELSE {}
  <2>3. /\ ps \in SUBSET Pipes /\ RetireThen(t, ps, l) /\ gst' = gst /\ FadePipes' = FadePipes
        /\ focus.p # reg[t].p => focus' = focus
        /\ focus.p = reg[t].p /\ focus.p # None => ps = {focus.p}
    BY <1>0, <2>1 DEF ClearIfCurrent, FadePipes, Running, Clips, Regs, AnyPipe
  <2>4. RunPipes \subseteq RunPipes' \cup ps
    BY <1>0, <2>3
  <2> HIDE DEF ps
  <2> QED BY <1>0, <2>1, <2>2, <2>3, <2>4, AccountsRetires
<1>6. CASE VoiceEnd(t) \/ LoopVoice(t) \/ HoldVoice(t) \/ (t = "bus" /\ VoiceError)
  <2>1. pc[t] \in VoicePlaces
    BY <1>6 DEF VoiceEnd, LoopVoice, HoldVoice, VoiceError, Rewind, ChangeState, VoicePlaces
  <2> QED BY <1>0, <2>1 DEF Voiceless, Bound, VoicePlaces
<1> QED BY <1>1, <1>2, <1>3, <1>4, <1>5, <1>6 DEF End

\* ... and so do the streams and the fades.
LEMMA StreamAccounts ==
  ASSUME IInv, NEW p \in Pipes, Stream(p)
  PROVE  \E t \in Threads : Alone(t) /\ Accounts(t)
<1> USE DEF streams, clipState
<1>0. TypeOK /\ "bus" \in Threads /\ Enders \subseteq Threads
  BY DEF IInv, Threads, Enders
<1>1. RunPipes' = RunPipes
  BY DEF Stream, ReachOut, ReachEnd, BusEOS, BusError, TrimHits, FadeRegisters, FadeLeaves,
         FadeRetires, RunPipes, Clips
<1>2. \A q \in Pipes : gst'[q] = "playing" =>
        gst[q] = "playing" /\ (q \in FadePipes => q \in FadePipes')
  <2>1. CASE FadeRetires(p)
    BY <1>0, <2>1 DEF FadeRetires, Nulled, FadePipes, TypeOK
  <2>2. CASE FadeRegisters(p) \/ FadeLeaves(p)
    BY <1>0, <2>2 DEF FadeRegisters, FadeLeaves, FadePipes, TypeOK
  <2>3. CASE ReachOut(p) \/ ReachEnd(p) \/ BusEOS(p) \/ BusError(p) \/ TrimHits(p)
    BY <2>3 DEF ReachOut, ReachEnd, BusEOS, BusError, TrimHits, FadePipes
  <2> QED BY <2>1, <2>2, <2>3 DEF Stream
<1>3. CASE UNCHANGED <<pc, reg>>
  <2>1. Alone("bus") /\ Due("bus")' = Due("bus")
    BY <1>3 DEF Alone, Due
  <2>2. Accounts("bus")
    BY <1>1, <1>2, <2>1 DEF Accounts
  <2> QED BY <1>0, <2>1, <2>2
<1>4. ASSUME NEW t \in Enders, Alone(t), pc[t] = "idle"
      PROVE  Alone(t) /\ Accounts(t)
  BY <1>1, <1>2, <1>4 DEF Accounts, Due, Rechecking
<1> QED BY <1>0, <1>3, <1>4, StreamWays

-----------------------------------------------------------------------------
\* Without voices: who plays, and who moved.
LEMMA FlatNext ==
  ASSUME Flat, IInv, NoVoices, Next
  PROVE  NoVoices' /\ \E t \in Threads : Alone(t) /\ Accounts(t)
<1>0. TypeOK /\ Order /\ WarmKnown /\ "bus" \in Enders
      /\ Enders \subseteq Threads /\ Requests \subseteq Threads /\ \A t \in Threads : Shape(t)
  BY DEF IInv, Threads, Enders
<1>1. ASSUME NEW t \in Requests, Request(t)
      PROVE  NoVoices' /\ Alone(t) /\ Accounts(t)
  BY <1>0, <1>1, RequestMoves, RequestNoVoices, RequestAccounts DEF Moves, Alone
<1>2. ASSUME NEW t \in Enders, End(t) \/ (t = "bus" /\ (FocusError \/ VoiceError))
      PROVE  NoVoices' /\ Alone(t) /\ Accounts(t)
  BY <1>0, <1>2, EndMoves, OthersNoVoices, EndAccounts DEF Moves, Alone
<1>3. ASSUME NEW t \in Threads, Retire(t)
      PROVE  NoVoices' /\ Alone(t) /\ Accounts(t)
  BY <1>0, <1>3, RetireMoves, OthersNoVoices, EndAccounts DEF Moves, Alone
<1>4. ASSUME NEW p \in Pipes, Stream(p)
      PROVE  NoVoices' /\ \E t \in Threads : Alone(t) /\ Accounts(t)
  BY <1>4, OthersNoVoices, StreamAccounts
<1> QED BY <1>0, <1>1, <1>2, <1>3, <1>4 DEF Next

\* At rest nothing plays.
LEMMA RestedFlat == ASSUME Rested PROVE NoVoices /\ OneOutput
  BY DEF Rested, NoVoices, Voiceless, Bound, VoicePlaces, OneOutput

\* One clip on the deck: the invariant and its step.
LEMMA DeckNext ==
  ASSUME Flat, IInv, NoVoices, OneOutput, [Next]_vars
  PROVE  IInv' /\ NoVoices' /\ OneOutput'
<1>1. CASE Next
  BY <1>1, NextIInv, FlatNext, OutputKept DEF IInv
<1>2. CASE UNCHANGED vars
  <2>1. NoVoices'
    BY <1>2 DEF vars, clipState, NoVoices, Voiceless, Bound
  <2>2. OneOutput'
    BY <1>2 DEF vars, clipState, streams, OneOutput, Running, Clips
  <2> QED BY <1>2, <2>1, <2>2, StutterIInv
<1> QED BY <1>1, <1>2

\* "Two pipelines on the output" never stay: without voices, what plays is the
\* clip that runs, fades away, or is about to be sent to NULL by the thread that
\* lost the race, for any number of clients (setStateIfCurrent).
THEOREM OutputIsOne == ASSUME Flat PROVE Spec => []OneOutput
<1>1. Init => IInv /\ NoVoices /\ OneOutput
  BY InitIInv, InitRests, RestedFlat
<1>2. (IInv /\ NoVoices /\ OneOutput) /\ [Next]_vars => (IInv /\ NoVoices /\ OneOutput)'
  BY DeckNext
<1> QED BY <1>1, <1>2, PTL DEF Spec

-----------------------------------------------------------------------------
(* A Panic or a fade is final there: HaltSticks.                             *)

\* Where Stop stands once the voices are gone.
StopPlaces == {"stop", "stopNull", "stopEmpty", "stopClear"}

\* No Stop is under way (they are not among the calls).
Unstopped(t) ==
  Bound(t) \notin StopPlaces /\ (pc[t] \in {"cut", "stopVoices"} => reg[t].op # "stop")

\* What a Panic leaves: nothing loaded, until something is fired.
Silenced ==
  /\ wish = "stop" => focus.p = None
  /\ \A t \in Threads : Unstopped(t)

\* Only Panic and Stop are a last word.
LEMMA RequestWishes ==
  ASSUME NEW t \in Requests, Request(t)
  PROVE  wish' \in {wish, "run"} \/ PanicNow(t) \/ StopClear(t)
<1> USE DEF history
<1>1. CASE \/ \E c \in Cues : Fire(t, c) \/ Warm(t, c) \/ StopCue(t, c)
           \/ Wire(t) \/ Cold(t) \/ Build(t) \/ Install(t) \/ AddWatch(t) \/ Start(t)
           \/ Preroll(t) \/ Commit(t) \/ StartFails(t) \/ Run(t) \/ Started(t) \/ Tag(t)
  BY <1>1 DEF Fire, Warm, StopCue, Wire, Cold, Build, Install, AddWatch, Start, Preroll, Commit,
              StartFails, Run, Started, Tag, ChangeState, ClearIfCurrent
<1>2. CASE \/ Play(t) \/ PlayRead(t) \/ PlayIntent(t) \/ PlayHow(t) \/ Resume(t) \/ Resumed(t)
           \/ ResumeVoices(t) \/ PauseVoices(t) \/ SetVoices(t) \/ Pause(t) \/ PauseFocus(t)
           \/ PausedFocus(t) \/ PauseMark(t) \/ Toggle(t) \/ ToggleState(t) \/ Toggled(t)
           \/ ToggleMark(t)
  BY <1>2 DEF Play, PlayRead, PlayIntent, PlayHow, Resume, Resumed, ResumeVoices, PauseVoices,
              SetVoices, Pause, PauseFocus, PausedFocus, PauseMark, Toggle, ToggleState, Toggled,
              ToggleMark, ChangeState, Recheck
<1>3. CASE \/ Halt(t, "stop") \/ Halt(t, "panic") \/ Cut(t) \/ StopVoices(t) \/ FadeAndStop(t)
           \/ FadeTick(t) \/ Faded(t) \/ StopRead(t) \/ StopNull(t) \/ Park(t) \/ FillSlot(t)
  BY <1>3 DEF Halt, Cut, StopVoices, FadeAndStop, FadeTick, Faded, StopRead, StopNull, Park,
              FillSlot, ChangeState, ClearIfCurrent
<1> QED BY <1>1, <1>2, <1>3 DEF Request

\* Nobody else has the last word.
LEMMA OthersWish ==
  ASSUME \/ \E t \in Enders : End(t)
         \/ \E t \in Threads : Retire(t)
         \/ \E p \in Pipes : Stream(p)
         \/ FocusError \/ VoiceError
  PROVE  wish' = wish
<1> USE DEF history
<1>1. CASE \E t \in Enders : End(t)
  BY <1>1 DEF End, FocusEnd, LoopFocus, LoopedFocus, LoopMark, HoldFocus, HeldFocus, HoldMark,
              ClearFocus, Cleared, VoiceEnd, LoopVoice, HoldVoice, EndReturns, Rewind, ChangeState,
              Recheck, ClearIfCurrent
<1>2. CASE (\E p \in Pipes : Stream(p)) \/ (\E t \in Threads : Retire(t)) \/ FocusError \/ VoiceError
  BY <1>2 DEF Stream, ReachOut, ReachEnd, BusEOS, BusError, TrimHits, FadeRegisters, FadeLeaves,
              FadeRetires, Retire, FocusError, VoiceError, ClearIfCurrent
<1> QED BY <1>1, <1>2

\* A request loads something, or leaves nothing loaded.
LEMMA RequestSilenced ==
  ASSUME "stop" \notin Calls, IInv, NoVoices, NoVoices', Silenced, NEW t \in Requests, Request(t)
  PROVE  Silenced'
<1>0. /\ TypeOK /\ Order /\ WarmKnown /\ Shape(t) /\ t \in Threads
      /\ Unstopped(t) /\ voices = {}
  BY DEF IInv, Silenced, NoVoices, Threads
<1>1. Alone(t)
  BY <1>0, RequestMoves DEF Moves, Alone
<1>2. Unstopped(t)'
  <2>1. CASE Avoids(t, Apartments)
    <3>1. Bound(t)' \notin HaltPlaces
      BY <1>0, <2>1, AvoidsPlaces DEF Apartments, HaltPlaces, VoicePlaces
    <3> QED BY <3>1 DEF Unstopped, Bound, HaltPlaces, StopPlaces
  <2>2. CASE ResumeVoices(t) \/ PauseVoices(t)
    BY <1>0, <2>2, VoicesWays DEF Unstopped, StopPlaces
  <2>3. CASE Halts(t)
    <3>1. Bound(t)' \notin StopPlaces
      BY <1>0, <2>3, HaltWays DEF Unstopped, StopPlaces, Bound
    <3>2. pc'[t] \in {"cut", "stopVoices"} => Bound(t)' = pc'[t]
      BY DEF Bound
    <3>3. pc'[t] \in {"cut", "stopVoices"} => reg'[t].op # "stop"
      BY <1>0, <2>3, <3>2, HaltWays DEF Unstopped
    <3> QED BY <3>1, <3>3 DEF Unstopped
  <2> QED BY <1>0, <2>1, <2>2, <2>3, RequestAvoids
<1>3. wish' = "stop" => focus'.p = None
  <2>1. CASE PanicNow(t)
    BY <2>1, NoClipTyped DEF PanicNow, IInv, TypeOK, Clip
  <2>2. ~StopClear(t)
    BY <1>0 DEF StopClear, Unstopped, Bound, StopPlaces
  <2>3. CASE wish' \in {wish, "run"} /\ (Steady \/ Promotes)
    BY <1>0, <2>3, PromotedRuns, NoClipTyped DEF Silenced, Steady
  <2>4. CASE Install(t)
    BY <2>4 DEF Install
  <2> QED BY <1>0, <2>1, <2>2, <2>3, <2>4, RequestWishes, RequestHandsOn
<1> QED BY <1>1, <1>2, <1>3 DEF Silenced, Alone, Unstopped, Bound

\* An end handler never loads.
LEMMA OthersSilenced ==
  ASSUME IInv, NoVoices, Silenced,
         \/ \E t \in Enders : End(t)
         \/ \E t \in Threads : Retire(t)
         \/ \E p \in Pipes : Stream(p)
         \/ FocusError \/ VoiceError
  PROVE  Silenced'
<1>0. /\ TypeOK /\ Order /\ "bus" \in Enders /\ voices = {}
      /\ \A u \in Threads : Unstopped(u) /\ Shape(u)
      /\ Enders \subseteq Threads
  BY DEF IInv, NoVoices, Silenced, Threads, Enders
<1>1. wish' = "stop" => focus'.p = None
  <2>1. wish' = wish /\ (Steady \/ Promotes)
    BY <1>0, OthersWish, OthersHandOn
  <2> QED BY <1>0, <2>1, PromotedRuns, NoClipTyped DEF Silenced, Steady
<1>2. ASSUME NEW t \in Threads, Alone(t), Unstopped(t)' PROVE Silenced'
  BY <1>1, <1>2 DEF Silenced, Alone, Unstopped, Bound
<1>3. ASSUME NEW t \in Enders, End(t) \/ (t = "bus" /\ (FocusError \/ VoiceError))
      PROVE  Silenced'
  <2>1. Alone(t)
    BY <1>0, <1>3, EndMoves DEF Moves, Alone
  <2>2. Unstopped(t)'
    <3>1. Bound(t)' \notin HaltPlaces
      BY <1>0, <1>3, EndWays
    <3> QED BY <3>1 DEF Unstopped, Bound, HaltPlaces, StopPlaces
  <2> QED BY <1>0, <1>2, <2>1, <2>2
<1>4. ASSUME NEW t \in Threads, Retire(t)
      PROVE  Silenced'
  <2>1. Alone(t)
    BY <1>0, <1>4, RetireMoves DEF Moves, Alone
  <2>2. Unstopped(t)'
    <3>1. Bound(t)' = Bound(t) /\ pc'[t] # "retire" /\ Bound(t) \notin {"cut", "stopVoices"}
      BY <1>0, <1>4, RetireWays DEF Retire, Bound, Shape, Returns
    <3> QED BY <1>0, <3>1 DEF Unstopped, Bound
  <2> QED BY <1>2, <2>1, <2>2
<1>5. ASSUME NEW p \in Pipes, Stream(p) PROVE Silenced'
  <2>1. CASE UNCHANGED <<pc, reg>>
    BY <1>1, <2>1 DEF Silenced, Unstopped, Bound
  <2>2. ASSUME NEW t \in Enders, Alone(t),
               pc'[t] \in {"focusEnd", "voiceEnd", "focusError", "voiceError"}
        PROVE  Silenced'
    <3>1. Unstopped(t)'
      BY <2>2 DEF Unstopped, Bound, StopPlaces
    <3> QED BY <1>0, <1>2, <2>2, <3>1
  <2> QED BY <1>0, <1>5, <2>1, <2>2, StreamWays
<1> QED BY <1>0, <1>3, <1>4, <1>5

\* Every step keeps what a Panic leaves.
LEMMA SilencedNext ==
  ASSUME Flat, "stop" \notin Calls, IInv, NoVoices, Silenced, [Next]_vars
  PROVE  Silenced'
<1>1. CASE Next
  BY <1>1, FlatNext, RequestSilenced, OthersSilenced DEF Next
<1>2. CASE UNCHANGED vars
  BY <1>2 DEF vars, clipState, history, Silenced, Unstopped, Bound
<1> QED BY <1>1, <1>2

\* Nothing loaded, nobody under way and nothing fading: nothing plays.
LEMMA SilencedSticks ==
  ASSUME TypeOK, NoVoices, Silenced, OneOutput
  PROVE  HaltSticks
<1> SUFFICES ASSUME wish = "stop", Quiet, FadePipes = {}, NEW p \in Pipes, gst[p] = "playing"
             PROVE  FALSE
  BY DEF HaltSticks
<1>1. ~Running(p) /\ fade[p] = "none"
  BY DEF Running, Clips, Silenced, NoVoices, FadePipes
<1>2. \A t \in Threads : pc[t] = "idle"
  BY DEF Quiet
<1> QED BY <1>1, <1>2 DEF OneOutput, Rechecking

\* At rest nothing is loaded.
LEMMA RestedSilenced == ASSUME Rested PROVE Silenced
  BY DEF Rested, Silenced, Unstopped, Bound, StopPlaces

\* A Panic or a fade is final, whatever Play, Pause, Toggle, loops and holds
\* were under way, for one running clip and any number of clients: once
\* everything has settled nothing plays until something is fired or resumed
\* (Panic, FadeAndStop).  Stop keeps its clip for a resume and promises less.
THEOREM PanicSticks == ASSUME Flat, "stop" \notin Calls PROVE Spec => []HaltSticks
<1> DEFINE Inv == IInv /\ NoVoices /\ OneOutput /\ Silenced
<1>1. Init => Inv
  BY InitIInv, InitRests, RestedFlat, RestedSilenced
<1>2. Inv /\ [Next]_vars => Inv'
  BY DeckNext, SilencedNext
<1>3. Inv => HaltSticks
  BY SilencedSticks DEF IInv
<1> QED BY <1>1, <1>2, <1>3, PTL DEF Spec

-----------------------------------------------------------------------------
(* Bus watches where calls do not overlap: WatchKept.                        *)

\* Calls that do not overlap; streams, fades and the ends of clips still
\* interleave with the one under way.
Serial == \A t, u \in Requests : pc[t] # "idle" /\ pc[u] # "idle" => t = u

\* On its way to its bus watch.
Claims(t) == pc[t] \in Claiming \/ Bound(t) = "watch"

\* The pipelines nobody has started yet.
FreshPipes == NewPipes \cup Slot \cup {reg[t].p : t \in {u \in Requests : Claims(u)}}

\* No watch, no poll, no handler knows them.
Unused(p) ==
  p \notin watch /\ trim[p] = 0 /\ gst[p] # "playing" /\ \A u \in Enders : p \notin Reaches(u)

\* What nobody has started yet is unknown to the watches and polls.
FreshUnused == \A p \in FreshPipes : Unused(p)

\* The start of a clip, from its installation to its name.
StartPlaces == {"watch", "start", "preroll", "commit", "run", "running", "tag"}

\* A resume on its way to the pipeline it read.
PlayPlaces == {"playIntent", "playHow"}

\* The steps of a load and of a resume.
Loads(t) ==
  \/ \E c \in Cues : Fire(t, c)
  \/ Wire(t) \/ Build(t) \/ Install(t) \/ AddWatch(t) \/ Start(t) \/ Preroll(t) \/ Commit(t)
  \/ Run(t) \/ Started(t) \/ PlayRead(t) \/ PlayIntent(t) \/ PlayHow(t) \/ Park(t)

\* Only the steps of a load lead to its places.
LEMMA RequestLoads ==
  ASSUME TypeOK, NEW t \in Requests, Shape(t), Request(t)
  PROVE  Avoids(t, Claiming \cup StartPlaces \cup PlayPlaces) \/ Loads(t)
<1> USE DEF Claiming, StartPlaces, PlayPlaces
<1>1. CASE \E c \in Cues : Warm(t, c) \/ StopCue(t, c)
  <2>1. CASE \E c \in Cues : StopCue(t, c)
    BY <2>1 DEF StopCue, Begin, Avoids
  <2>2. CASE \E c \in Cues : Warm(t, c)
    <3>1. CASE Goto(t, "build")
      BY <3>1 DEF Avoids
    <3>2. CASE ~Goto(t, "build")
      <4>1. PICK c \in Cues : Warm(t, c)
        BY <2>2
      <4>2. /\ pc' = [pc EXCEPT ![t] = "retire"] /\ t \in Threads /\ reg[t] \in Regs
            /\ reg' = [reg EXCEPT ![t].op = "warm", ![t].cue = c, ![t].gen = gen,
                                  ![t].kill = Slot, ![t].ret = "build"]
        BY <3>2, <4>1 DEF Warm, Goto, TypeOK, Threads
      <4>3. pc'[t] = "retire" /\ reg'[t].ret = "build"
        BY <4>2 DEF TypeOK, Regs
      <4> QED BY <4>3 DEF Avoids
    <3> QED BY <3>1, <3>2
  <2> QED BY <1>1, <2>1, <2>2
<1>2. CASE \/ Cold(t) \/ StartFails(t) \/ Tag(t) \/ Play(t) \/ Resume(t) \/ Resumed(t)
  BY <1>2 DEF Cold, StartFails, Tag, Play, Resume, Resumed, ChangeState, ClearIfCurrent, Recheck,
              Avoids
<1>3. CASE \/ ResumeVoices(t) \/ PauseVoices(t) \/ SetVoices(t) \/ Pause(t) \/ PauseFocus(t)
           \/ PausedFocus(t) \/ PauseMark(t) \/ Toggle(t) \/ ToggleState(t) \/ Toggled(t)
           \/ ToggleMark(t)
  BY <1>3 DEF ResumeVoices, PauseVoices, SetVoices, Pause, PauseFocus, PausedFocus, PauseMark,
              Toggle, ToggleState, Toggled, ToggleMark, Recheck, ChangeState, Avoids
<1>4. CASE \/ Halt(t, "stop") \/ Halt(t, "panic") \/ Cut(t) \/ FadeAndStop(t)
           \/ FadeTick(t) \/ Faded(t) \/ PanicNow(t) \/ StopRead(t) \/ StopNull(t) \/ StopClear(t)
           \/ FillSlot(t)
  BY <1>4 DEF Halt, Cut, FadeAndStop, FadeTick, Faded, PanicNow, StopRead, StopNull, StopClear,
              FillSlot, ClearIfCurrent, Avoids
<1>5. CASE StopVoices(t)
  <2>1. reg[t].op \in {"fade", "stop", "panic"}
    BY <1>5 DEF StopVoices, Shape
  <2> QED BY <1>5, <2>1 DEF StopVoices, Avoids
<1> QED BY <1>1, <1>2, <1>3, <1>4, <1>5 DEF Request, Loads

\* What a request starts, watches and polls.
LEMMA RequestSets ==
  ASSUME TypeOK, NEW t \in Requests, Shape(t), Request(t)
  PROVE  /\ \A q \in Pipes : gst'[q] = "playing" =>
              \/ gst[q] = "playing"
              \/ q \in Reaches(t) /\ ~Claims(t) /\ pc[t] # "idle"
         /\ UNCHANGED watch \/ AddWatch(t)
         /\ UNCHANGED trim \/ (pc[t] = "running" /\ \A q \in Pipes \ {reg[t].p} : trim'[q] = trim[q])
<1> USE DEF streams, watchers
<1>0. \A p \in Pipes : p # None
  BY PlaybackAssumption DEF PlaybackAssumption
<1>1. CASE \/ \E c \in Cues : Fire(t, c) \/ Warm(t, c) \/ StopCue(t, c)
           \/ Wire(t) \/ Cold(t) \/ Install(t) \/ AddWatch(t) \/ Start(t) \/ Commit(t)
           \/ StartFails(t) \/ Tag(t) \/ Play(t) \/ PlayRead(t) \/ PlayIntent(t) \/ PlayHow(t)
           \/ FillSlot(t)
  BY <1>1 DEF Fire, Warm, StopCue, Wire, Cold, Install, AddWatch, Start, Commit, StartFails,
              Tag, Play, PlayRead, PlayIntent, PlayHow, ClearIfCurrent, FillSlot
<1>2. CASE \/ ResumeVoices(t) \/ PauseVoices(t) \/ Pause(t) \/ PauseMark(t) \/ Toggle(t)
           \/ ToggleMark(t) \/ Halt(t, "stop") \/ Halt(t, "panic") \/ Cut(t) \/ StopVoices(t)
           \/ FadeAndStop(t) \/ FadeTick(t) \/ Faded(t) \/ PanicNow(t) \/ StopRead(t) \/ StopClear(t)
  BY <1>2 DEF ResumeVoices, PauseVoices, Pause, PauseMark, Toggle, ToggleMark, Halt, Cut,
                StopVoices, FadeAndStop, FadeTick, Faded, PanicNow, StopRead, StopClear,
                ClearIfCurrent
<1>3. CASE \/ Preroll(t) \/ Park(t) \/ PauseFocus(t) \/ Build(t)
  <2>1. \A q \in Pipes : gst'[q] = "playing" => gst[q] = "playing"
    BY <1>3 DEF Preroll, Park, PauseFocus, Build, ChangeState, TypeOK
  <2> QED BY <1>3, <2>1 DEF Preroll, Park, PauseFocus, Build, ChangeState
<1>4. CASE Run(t) \/ Resume(t) \/ ToggleState(t)
  <2>1. \A q \in Pipes : gst'[q] = gst[q] \/ q = reg[t].p
    BY <1>4 DEF Run, Resume, ToggleState, ChangeState, TypeOK
  <2>2. pc[t] \in {"run", "resume", "toggle"} /\ UNCHANGED <<watch, trim>>
    BY <1>4 DEF Run, Resume, ToggleState, ChangeState
  <2> QED BY <1>0, <2>1, <2>2 DEF Reaches, Claims, Claiming, Bound
<1>5. CASE Resumed(t) \/ PausedFocus(t) \/ Toggled(t) \/ StopNull(t)
  BY <1>5 DEF Resumed, PausedFocus, Toggled, StopNull, Recheck, NullIfReplaced, Nulled
<1>6. CASE Started(t)
  <2>1. \A q \in Pipes : gst'[q] = "playing" => gst[q] = "playing"
    BY <1>6 DEF Started, NullIfReplaced, Nulled
  <2>2. \A q \in Pipes \ {reg[t].p} : trim'[q] = trim[q]
    BY <1>6 DEF Started, TypeOK
  <2> QED BY <1>6, <2>1, <2>2 DEF Started
<1>7. CASE SetVoices(t)
  <2>1. \A q \in Pipes : gst'[q] = gst[q] \/ q \in reg[t].kill
    BY <1>7 DEF SetVoices
  <2>2. pc[t] = "setVoices" /\ UNCHANGED <<watch, trim>>
    BY <1>7 DEF SetVoices
  <2> QED BY <2>1, <2>2 DEF Reaches, Claims, Claiming, Bound
<1> QED BY <1>1, <1>2, <1>3, <1>4, <1>5, <1>6, <1>7 DEF Request

\* What a thread claims it has from the new pipelines, from the slot, or before.
LEMMA RequestClaims ==
  ASSUME IInv, NEW t \in Requests, Request(t), Claims(t)'
  PROVE  reg'[t].p \in FreshPipes
<1>0. t \in Threads /\ reg[t] \in Regs /\ TypeOK /\ WarmKnown /\ Shape(t)
  BY DEF IInv, Threads, TypeOK
<1>1. Bound(t)' \in Claiming \cup {"watch"}
  BY DEF Claims, Bound, Claiming
<1>k. ASSUME Claims(t), reg'[t].p = reg[t].p PROVE reg'[t].p \in FreshPipes
  BY <1>k DEF FreshPipes
<1>2. CASE Avoids(t, Claiming \cup StartPlaces \cup PlayPlaces)
  <2>1. (Claiming \cup StartPlaces \cup PlayPlaces) \cap {"idle", "build"} = {}
    BY DEF Claiming, StartPlaces, PlayPlaces
  <2> QED BY <1>0, <1>1, <1>2, <2>1, AvoidsPlaces DEF StartPlaces
<1>3. ASSUME NEW c \in Cues, Fire(t, c) PROVE reg'[t].p \in FreshPipes
  <2> DEFINE hit == warm.cue = c
             r == [NoRegs EXCEPT !.cue = c, !.op = IF hit THEN "warmFire" ELSE "fire",
                                 !.p = IF hit THEN warm.p ELSE None]
  <2>1. reg' = [reg EXCEPT ![t] = r] /\ Goto(t, IF hit THEN "wire" ELSE "cold")
    BY <1>3 DEF Fire
  <2>2. r.p = IF hit THEN warm.p ELSE None
    BY DEF NoRegs
  <2>3. reg'[t] = r /\ pc'[t] = IF hit THEN "wire" ELSE "cold"
    BY <1>0, <2>1 DEF TypeOK, Goto
  <2> HIDE DEF r
  <2>4. hit
    BY <1>1, <2>3 DEF Bound, Claiming
  <2>5. warm.p # None
    BY <1>0, <2>4, PlaybackAssumption DEF WarmKnown, PlaybackAssumption
  <2> QED BY <2>2, <2>3, <2>4, <2>5 DEF FreshPipes, Slot
<1>4. CASE Wire(t)
  <2>1. CASE Goto(t, "install") /\ UNCHANGED reg
    BY <1>4, <1>k, <2>1 DEF Wire, Claims, Claiming
  <2>2. CASE RetireThen(t, {reg[t].p}, "cold")
    <3>1. pc'[t] = "retire" /\ reg'[t].ret = "cold"
      BY <1>0, <2>2 DEF RetireThen, Goto, TypeOK, Regs
    <3> QED BY <1>1, <3>1 DEF Bound, Claiming
  <2> QED BY <1>4, <2>1, <2>2 DEF Wire
<1>5. CASE Build(t)
  <2>1. CASE Finish(t)
    BY <1>0, <1>1, <2>1 DEF Finish, Goto, TypeOK, Bound, Claiming
  <2>2. CASE ~Finish(t)
    <3>1. PICK p \in Pipes : /\ gst[p] = "new"
                             /\ reg' = [reg EXCEPT ![t].p = p, ![t].op = IF @ = "warm" THEN @ ELSE "fire"]
      BY <1>5, <2>2 DEF Build
    <3>2. reg'[t].p = p
      BY <1>0, <3>1 DEF TypeOK, Regs
    <3> QED BY <3>1, <3>2 DEF FreshPipes, NewPipes
  <2> QED BY <2>1, <2>2
<1>6. CASE Install(t)
  <2>1. PICK ps : RetireThen(t, ps, "watch")
    BY <1>6 DEF Install
  <2>2. reg'[t].p = reg[t].p
    <3>1. CASE ps = {}
      BY <2>1, <3>1 DEF RetireThen, Continue
    <3>2. CASE ps # {}
      BY <1>0, <2>1, <3>2 DEF RetireThen, TypeOK, Regs
    <3> QED BY <3>1, <3>2
  <2> QED BY <1>6, <1>k, <2>2 DEF Install, Claims, Claiming
<1>7. CASE Park(t)
  BY <1>7, <1>k DEF Park, ChangeState, Claims, Claiming
<1>8. CASE \/ AddWatch(t) \/ Start(t) \/ Preroll(t) \/ Commit(t) \/ Run(t) \/ Started(t)
           \/ PlayRead(t) \/ PlayIntent(t) \/ PlayHow(t)
  <2>1. pc'[t] \in {"start", "preroll", "commit", "run", "running", "tag", "idle", "resume",
                     "playIntent", "playHow"}
    BY <1>0, <1>8 DEF AddWatch, Start, Preroll, Commit, Run, Started, PlayRead, PlayIntent, PlayHow,
                      AfterStart, Continue, Finish, ChangeState, Goto, TypeOK
  <2> QED BY <1>1, <2>1 DEF Bound, Claiming
<1> QED BY <1>0, <1>2, <1>3, <1>4, <1>5, <1>6, <1>7, <1>8, RequestLoads DEF Loads

\* Pipelines come into the slot and leave the new ones as before.
LEMMA RequestSlot ==
  ASSUME IInv, NEW t \in Requests, Request(t)
  PROVE  NewPipes' \subseteq NewPipes /\ Slot' \subseteq FreshPipes
<1>0. t \in Threads /\ TypeOK /\ WarmKnown /\ Shape(t)
  BY DEF IInv, Threads
<1>1. NewPipes' \subseteq NewPipes
  BY <1>0, RequestStreams DEF StreamsKept
<1>2. warm' \in {warm, NoWarm} \/ FillSlot(t)
  <2>1. CASE pc[t] \notin Parking
    BY <1>0, <2>1, RequestTouches DEF Touches
  <2>2. CASE pc[t] \in Parking
    <3>1. Park(t) \/ FillSlot(t)
      BY <2>2, ParkingSteps
    <3> QED BY <3>1 DEF Park, ChangeState
  <2> QED BY <2>1, <2>2
<1>3. CASE warm' \in {warm, NoWarm}
  BY <1>1, <1>3, WarmTyped DEF Slot, FreshPipes
<1>4. CASE FillSlot(t)
  <2>1. pc[t] = "warm" /\ (warm' = warm \/ warm' = [p |-> reg[t].p, cue |-> reg[t].cue])
    BY <1>4 DEF FillSlot
  <2> QED BY <1>1, <2>1 DEF Slot, FreshPipes, Claims, Claiming
<1> QED BY <1>1, <1>2, <1>3, <1>4

\* Fresh pipelines were fresh before.
LEMMA FreshShrinks ==
  ASSUME NEW t \in Requests, Alone(t), NewPipes' \subseteq NewPipes, Slot' \subseteq FreshPipes,
         Claims(t)' => reg'[t].p \in FreshPipes
  PROVE  FreshPipes' \subseteq FreshPipes
<1>1. ASSUME NEW u \in Requests, Claims(u)' PROVE reg'[u].p \in FreshPipes
  <2>1. CASE u = t
    BY <1>1, <2>1
  <2>2. CASE u # t
    <3>1. Claims(u) /\ reg'[u] = reg[u]
      BY <1>1, <2>2 DEF Alone, Claims, Bound, Threads
    <3> QED BY <3>1 DEF FreshPipes
  <2> QED BY <2>1, <2>2
<1> QED BY <1>1 DEF FreshPipes

\* Whoever claims is the one call under way.
LEMMA SerialClaims ==
  ASSUME Serial, NEW t \in Requests, pc[t] # "idle", NEW u \in Requests, Claims(u)
  PROVE  u = t
<1>1. pc[u] # "idle"
  BY DEF Claims, Claiming, Bound
<1> QED BY <1>1 DEF Serial

\* Requests start nothing but their own.
LEMMA RequestFresh ==
  ASSUME IInv, Ready, Serial, FreshUnused, NEW t \in Requests, Request(t)
  PROVE  FreshUnused' /\ FreshPipes' \subseteq FreshPipes
<1>0. t \in Threads /\ TypeOK /\ Order /\ WarmKnown /\ Shape(t) /\ Apart
  BY DEF IInv, Threads, Ready
<1>1. Alone(t)
  BY <1>0, RequestMoves DEF Moves, Alone
<1>2. FreshPipes' \subseteq FreshPipes
  BY <1>1, RequestClaims, RequestSlot, FreshShrinks
<1>3. \A u \in Enders : Reaches(u)' = Reaches(u)
  BY <1>1, PlaybackAssumption DEF PlaybackAssumption, Alone, Reaches, Enders, Threads
<1>4. ASSUME pc[t] # "idle", ~Claims(t) \/ AddWatch(t), NEW p \in FreshPipes', p \in Reaches(t)
      PROVE  FALSE
  <2>1. pc[t] \notin Parking
    BY <1>4 DEF Claims, Claiming, Parking, AddWatch
  <2>2. p \notin NewPipes \cup Slot
    BY <1>0, <1>4, <2>1 DEF Apart, Hidden
  <2>3. warm' \in {warm, NoWarm}
    BY <1>0, <2>1, RequestTouches DEF Touches
  <2>4. p \notin NewPipes' \cup Slot'
    BY <2>2, <2>3, RequestSlot, WarmTyped DEF Slot
  <2>5. PICK u \in Requests : Claims(u)' /\ p = reg'[u].p
    BY <1>4, <2>4 DEF FreshPipes
  <2>6. u = t
    <3>1. u # t => Claims(u)
      BY <1>1, <2>5 DEF Alone, Claims, Bound, Threads
    <3> QED BY <1>4, <3>1, SerialClaims
  <2>7. CASE AddWatch(t)
    <3>1. pc'[t] = "start"
      BY <1>0, <2>7 DEF AddWatch, Goto, TypeOK
    <3> QED BY <2>5, <2>6, <3>1 DEF Claims, Claiming, Bound
  <2>8. CASE ~Claims(t)
    <3>1. p \in FreshPipes
      BY <1>2, <1>4
    <3>2. PICK v \in Requests : Claims(v) /\ p = reg[v].p
      BY <2>2, <3>1 DEF FreshPipes
    <3> QED BY <1>4, <2>8, <3>2, SerialClaims
  <2> QED BY <1>4, <2>7, <2>8
<1>5. ASSUME NEW p \in FreshPipes' PROVE Unused(p)'
  <2>1. Unused(p)
    BY <1>2, <1>5 DEF FreshUnused
  <2>2. p \in Pipes
    <3>1. ASSUME NEW u \in Requests, Claims(u) PROVE reg[u].p \in Pipes
      BY <3>1 DEF IInv, Shape, Claims, Bound, Threads, Claiming
    <3> QED BY <1>0, <1>2, <1>5, <3>1 DEF FreshPipes, NewPipes, Slot, TypeOK, AnyPipe
  <2>3. p # None
    BY <2>2, PlaybackAssumption DEF PlaybackAssumption
  <2>4. gst'[p] # "playing"
    BY <1>0, <1>4, <1>5, <2>1, <2>2, RequestSets DEF Unused
  <2>5. p \notin watch'
    <3>1. CASE UNCHANGED watch
      BY <2>1, <3>1 DEF Unused
    <3>2. CASE AddWatch(t)
      <4>1. watch' = watch \cup {reg[t].p} /\ pc[t] = "watch"
        BY <3>2 DEF AddWatch
      <4>2. p # reg[t].p
        BY <1>4, <1>5, <2>3, <3>2, <4>1 DEF Reaches
      <4> QED BY <2>1, <4>1, <4>2 DEF Unused
    <3> QED BY <1>0, <3>1, <3>2, RequestSets
  <2>6. trim'[p] = 0
    <3>1. CASE UNCHANGED trim
      BY <2>1, <3>1 DEF Unused
    <3>2. CASE pc[t] = "running" /\ \A q \in Pipes \ {reg[t].p} : trim'[q] = trim[q]
      <4>1. p # reg[t].p
        BY <1>4, <1>5, <2>3, <3>2 DEF Reaches, Claims, Claiming, Bound
      <4> QED BY <2>1, <2>2, <3>2, <4>1 DEF Unused
    <3> QED BY <1>0, <3>1, <3>2, RequestSets
  <2> QED BY <1>3, <2>1, <2>4, <2>5, <2>6 DEF Unused
<1> QED BY <1>2, <1>5 DEF FreshUnused

-----------------------------------------------------------------------------
\* What the ends of clips and the retirements start, watch and poll: nothing
\* beyond the reach of their thread, and it reaches no further.
LEMMA EndSets ==
  ASSUME TypeOK, NEW t \in Threads, Shape(t),
         Retire(t) \/ (t \in Enders /\ End(t)) \/ (t = "bus" /\ (FocusError \/ VoiceError))
  PROVE  /\ warm' = warm /\ watch' \subseteq watch
         /\ \A q \in Pipes \ Reaches(t) : /\ gst'[q] = "playing" => gst[q] = "playing"
                                          /\ trim'[q] = trim[q]
         /\ Reaches(t)' \subseteq Reaches(t)
<1> USE DEF streams, watchers
<1>0. reg[t] \in Regs /\ \A p \in Pipes : p # None
  BY PlaybackAssumption DEF PlaybackAssumption, TypeOK
<1>r. ASSUME pc[t] # "retire", reg'[t].kill \subseteq reg[t].kill \cup ({reg[t].p} \ {None}),
             reg'[t].p \in {None, reg[t].p}
      PROVE  Reaches(t)' \subseteq Reaches(t)
  BY <1>r DEF Reaches
<1>f. ASSUME Finish(t) PROVE Reaches(t)' = {}
  <2>1. reg'[t] = NoRegs
    BY <1>f DEF Finish, TypeOK
  <2> QED BY <2>1 DEF NoRegs, Reaches
<1>t. ASSUME pc[t] # "retire", NEW ps \in SUBSET ({reg[t].p} \ {None}), NEW l, RetireThen(t, ps, l)
      PROVE  Reaches(t)' \subseteq Reaches(t)
  <2>1. CASE ps = {}
    BY <1>f, <1>r, <1>t, <2>1 DEF RetireThen, Continue
  <2>2. CASE ps # {}
    <3>1. reg'[t].kill = ps /\ reg'[t].p = reg[t].p
      BY <1>0, <1>t, <2>2 DEF RetireThen, Goto, TypeOK, Regs
    <3> QED BY <1>r, <1>t, <3>1
  <2> QED BY <2>1, <2>2
<1>1. CASE Retire(t)
  <2>1. /\ \A q \in Pipes : gst'[q] = "playing" => gst[q] = "playing"
        /\ warm' = warm /\ watch' \subseteq watch /\ trim' = trim
    BY <1>1 DEF Retire, Nulled
  <2>2. CASE reg[t].ret = "idle"
    BY <1>1, <1>f, <2>1, <2>2 DEF Retire
  <2>3. CASE reg[t].ret # "idle"
    <3>1. reg'[t].kill = {} /\ reg'[t].p = reg[t].p
      BY <1>0, <1>1, <2>3 DEF Retire, TypeOK, Regs
    <3> QED BY <2>1, <2>3, <3>1 DEF Reaches
  <2> QED BY <2>2, <2>3
<1>2. CASE t \in Enders /\ (LoopFocus(t) \/ HoldFocus(t) \/ LoopVoice(t) \/ HoldVoice(t))
  <2>1. pc[t] # "retire" /\ reg' = reg /\ UNCHANGED <<warm, watch, trim>> /\ t \in Enders
    BY <1>2 DEF LoopFocus, HoldFocus, LoopVoice, HoldVoice, Rewind, ChangeState, Enders
  <2>2. reg[t].p \in Pipes
    BY <1>2, <2>1 DEF Shape, LoopFocus, HoldFocus, LoopVoice, HoldVoice, Rewind, ChangeState
  <2>3. \A q \in Pipes : q # reg[t].p => gst'[q] = gst[q]
    BY <1>2 DEF LoopFocus, HoldFocus, LoopVoice, HoldVoice, Rewind, ChangeState, TypeOK
  <2> QED BY <1>0, <2>1, <2>2, <2>3 DEF Reaches
<1>3. CASE LoopedFocus(t) \/ HeldFocus(t)
  <2>1. /\ \A q \in Pipes : gst'[q] = "playing" => gst[q] = "playing"
        /\ UNCHANGED <<warm, watch, trim>> /\ pc[t] # "retire"
    BY <1>3 DEF LoopedFocus, HeldFocus, Recheck, NullIfReplaced, Nulled
  <2>2. Reaches(t)' \subseteq Reaches(t)
    BY <1>3, <1>f, <1>r, <2>1 DEF LoopedFocus, HeldFocus, Recheck, Continue
  <2> QED BY <2>1, <2>2
<1>4. CASE LoopMark(t) \/ HoldMark(t) \/ Cleared(t)
  BY <1>4, <1>r DEF LoopMark, HoldMark, Cleared
<1>5. CASE FocusEnd(t)
  <2>1. reg'[t].kill = reg[t].kill /\ reg'[t].p = reg[t].p
    BY <1>0, <1>5 DEF FocusEnd, TypeOK, Regs
  <2> QED BY <1>5, <1>r, <2>1 DEF FocusEnd
<1>6. CASE ClearFocus(t) \/ (t = "bus" /\ FocusError)
  <2>1. /\ pc[t] # "retire" /\ \E l : RetireThen(t, IF Running(reg[t].p) THEN {reg[t].p} ELSE {}, l)
        /\ UNCHANGED <<warm, gst, watch, trim>>
    BY <1>6 DEF ClearFocus, FocusError, ClearIfCurrent
  <2>2. (IF Running(reg[t].p) THEN {reg[t].p} ELSE {}) \in SUBSET ({reg[t].p} \ {None})
    BY DEF Running
  <2> QED BY <1>t, <2>1, <2>2
<1>7. CASE t = "bus" /\ VoiceError
  <2> DEFINE ps == {v.p : v \in {w \in voices : w.p = reg[t].p}}
  <2>1. pc[t] # "retire" /\ RetireThen(t, ps, "idle") /\ UNCHANGED <<warm, gst, trim>> /\ watch' \subseteq watch
    BY <1>7 DEF VoiceError
  <2>2. reg[t].p # None
    BY <1>0, <1>7 DEF VoiceError, Shape, Enders
  <2>3. ps \in SUBSET ({reg[t].p} \ {None})
    BY <2>2
  <2> HIDE DEF ps
  <2> QED BY <1>t, <2>1, <2>3
<1>8. CASE t \in Enders /\ VoiceEnd(t)
  <2>1. reg[t].p # None /\ pc[t] # "retire"
    BY <1>0, <1>8 DEF VoiceEnd, Shape, Enders
  <2>2. CASE UNCHANGED reg
    BY <1>8, <2>1, <2>2, <1>r DEF VoiceEnd
  <2>3. ASSUME NEW v, reg' = [reg EXCEPT ![t].cue = v.cue, ![t].kill = {reg[t].p}, ![t].ret = "voiceCleared"]
        PROVE  Reaches(t)' \subseteq Reaches(t)
    <3> DEFINE r == [reg[t] EXCEPT !.cue = v.cue, !.kill = {reg[t].p}, !.ret = "voiceCleared"]
    <3>1. reg' = [reg EXCEPT ![t] = r]
      BY <2>3 DEF TypeOK
    <3>2. r.p = reg[t].p /\ r.kill = {reg[t].p}
      BY <1>0 DEF Regs
    <3> HIDE DEF r
    <3>3. reg'[t] = r
      BY <3>1 DEF TypeOK
    <3> QED BY <1>r, <2>1, <3>2, <3>3
  <2> QED BY <1>8, <2>2, <2>3 DEF VoiceEnd
<1>9. CASE t \in Enders /\ EndReturns(t)
  <2>1. reg[t].p # None /\ pc[t] # "retire"
    BY <1>0, <1>9 DEF EndReturns, Shape, Enders
  <2>2. \A q \in Pipes : q # reg[t].p => trim'[q] = trim[q]
    BY <1>9 DEF EndReturns, TypeOK
  <2>3. UNCHANGED <<warm, gst>> /\ watch' \subseteq watch
    BY <1>9 DEF EndReturns
  <2> QED BY <1>9, <1>f, <2>1, <2>2, <2>3 DEF EndReturns, Reaches
<1> QED BY <1>1, <1>2, <1>3, <1>4, <1>5, <1>6, <1>7, <1>8, <1>9 DEF End

\* A stream hands a handler what is watched or polled, and starts nothing.
LEMMA StreamSets ==
  ASSUME TypeOK, NEW p \in Pipes, Stream(p)
  PROVE  /\ warm' = warm /\ watch' \subseteq watch /\ trim' = trim
         /\ \A q \in Pipes : gst'[q] = "playing" => gst[q] = "playing"
         /\ \/ UNCHANGED <<pc, reg>>
            \/ (p \in watch \/ trim[p] > 0)
               /\ \E t \in Enders : Alone(t) /\ Reaches(t)' \subseteq Reaches(t) \cup {p}
<1> USE DEF streams, watchers
<1>1. ASSUME NEW t \in Enders, pc[t] = "idle", NEW l, NEW m, Handle(t, p, l, m)
      PROVE  Alone(t) /\ Reaches(t)' \subseteq Reaches(t) \cup {p}
  <2>0. t \in Threads /\ reg[t] \in Regs
    BY DEF TypeOK, Threads
  <2>1. Alone(t)
    BY <1>1, <2>0 DEF Handle, Goto, TypeOK, Alone
  <2>2. reg'[t].kill = reg[t].kill /\ reg'[t].p = p
    BY <1>1, <2>0 DEF Handle, TypeOK, Regs
  <2> QED BY <1>1, <2>1, <2>2 DEF Reaches
<1>2. CASE ReachOut(p) \/ ReachEnd(p) \/ FadeRegisters(p) \/ FadeLeaves(p)
  BY <1>2 DEF ReachOut, ReachEnd, FadeRegisters, FadeLeaves
<1>3. CASE FadeRetires(p)
  BY <1>3 DEF FadeRetires, Nulled
<1>4. CASE BusEOS(p)
  BY <1>1, <1>4 DEF BusEOS, Enders
<1>5. CASE BusError(p)
  BY <1>1, <1>5 DEF BusError, Enders
<1>6. CASE TrimHits(p)
  BY <1>1, <1>6 DEF TrimHits, Enders
<1> QED BY <1>2, <1>3, <1>4, <1>5, <1>6 DEF Stream

\* No pipeline becomes fresh, unless a request claims it.
LEMMA OthersShrink ==
  ASSUME NewPipes' \subseteq NewPipes, warm' = warm,
         \A u \in Requests : Claims(u)' => Claims(u) /\ reg'[u].p = reg[u].p
  PROVE  FreshPipes' \subseteq FreshPipes
  BY DEF FreshPipes, Slot

\* The ends of clips, retirements, streams and fades use nothing that is fresh.
LEMMA OthersFresh ==
  ASSUME IInv, FreshUnused,
         \/ \E t \in Enders : End(t)
         \/ \E t \in Threads : Retire(t)
         \/ \E p \in Pipes : Stream(p)
         \/ FocusError \/ VoiceError
  PROVE  FreshUnused' /\ FreshPipes' \subseteq FreshPipes
<1>0. /\ TypeOK /\ Order /\ \A t \in Threads : Shape(t)
      /\ Requests \subseteq Threads /\ Enders \subseteq Threads /\ "bus" \in Enders
      /\ Requests \cap Enders = {} /\ NewPipes' \subseteq NewPipes
  BY OthersStreams, PlaybackAssumption DEF PlaybackAssumption, IInv, Threads, Enders, StreamsKept
<1>1. ASSUME NEW u \in Requests, Claims(u) PROVE reg[u].p \in Pipes
  BY <1>0, <1>1 DEF Shape, Claims, Bound, Claiming
<1>2. FreshPipes \subseteq Pipes
  BY <1>0, <1>1 DEF FreshPipes, NewPipes, Slot, TypeOK, AnyPipe
<1>3. ASSUME NEW t \in Threads, Alone(t), FreshPipes' \subseteq FreshPipes,
             watch' \subseteq watch, Reaches(t)' \subseteq Reaches(t) \/ t \in Requests,
             \A q \in Pipes : q \notin Reaches(t) \/ t \in Requests =>
               /\ gst'[q] = "playing" => gst[q] = "playing"
               /\ trim'[q] = trim[q]
      PROVE  FreshUnused' /\ FreshPipes' \subseteq FreshPipes
  <2>1. ASSUME NEW p \in FreshPipes' PROVE Unused(p)'
    <3>1. Unused(p) /\ p \in Pipes
      BY <1>2, <1>3, <2>1 DEF FreshUnused
    <3>2. p \notin Reaches(t) \/ t \in Requests
      BY <1>0, <3>1 DEF Unused, Threads
    <3>3. ASSUME NEW u \in Enders PROVE p \notin Reaches(u)'
      <4>1. CASE u = t
        BY <1>0, <1>3, <3>1, <4>1 DEF Unused
      <4>2. CASE u # t
        BY <1>0, <1>3, <3>1, <4>2 DEF Unused, Alone, Reaches
      <4> QED BY <4>1, <4>2
    <3> QED BY <1>3, <3>1, <3>2, <3>3 DEF Unused
  <2> QED BY <1>3, <2>1 DEF FreshUnused
<1>4. ASSUME NEW t \in Enders, End(t) \/ (t = "bus" /\ (FocusError \/ VoiceError))
      PROVE  FreshUnused' /\ FreshPipes' \subseteq FreshPipes
  <2>1. Alone(t) /\ t \in Threads
    BY <1>0, <1>4, EndMoves DEF Moves, Alone
  <2>2. \A u \in Requests : Claims(u)' => Claims(u) /\ reg'[u].p = reg[u].p
    BY <1>0, <2>1 DEF Alone, Claims, Bound
  <2>3. /\ warm' = warm /\ watch' \subseteq watch /\ Reaches(t)' \subseteq Reaches(t)
        /\ \A q \in Pipes \ Reaches(t) : /\ gst'[q] = "playing" => gst[q] = "playing"
                                         /\ trim'[q] = trim[q]
    BY <1>0, <1>4, <2>1, EndSets
  <2>4. t \notin Requests /\ FreshPipes' \subseteq FreshPipes
    BY <1>0, <2>2, <2>3, OthersShrink
  <2> QED BY <1>3, <2>1, <2>3, <2>4
<1>5. ASSUME NEW t \in Threads, Retire(t) PROVE FreshUnused' /\ FreshPipes' \subseteq FreshPipes
  <2>1. Alone(t)
    BY <1>0, <1>5, RetireMoves DEF Moves, Alone
  <2>2. ASSUME NEW u \in Requests, Claims(u)' PROVE Claims(u) /\ reg'[u].p = reg[u].p
    <3>1. CASE u = t
      <4>1. Bound(t)' = Bound(t) /\ pc'[t] # "retire" /\ pc[t] = "retire"
            /\ (pc'[t] # "idle" => reg'[t].p = reg[t].p)
        BY <1>0, <1>5, RetireWays DEF Retire
      <4>2. pc'[t] = reg[t].ret /\ reg[t].ret \in Returns
        BY <1>0, <4>1 DEF Bound, Shape
      <4> QED BY <2>2, <3>1, <4>1, <4>2 DEF Claims, Bound, Returns, Claiming
    <3>2. CASE u # t
      BY <1>0, <2>1, <2>2, <3>2 DEF Alone, Claims, Bound
    <3> QED BY <3>1, <3>2
  <2>3. /\ warm' = warm /\ watch' \subseteq watch /\ Reaches(t)' \subseteq Reaches(t)
        /\ \A q \in Pipes \ Reaches(t) : /\ gst'[q] = "playing" => gst[q] = "playing"
                                         /\ trim'[q] = trim[q]
    BY <1>0, <1>5, EndSets
  <2>4. /\ \A q \in Pipes : gst'[q] = "playing" => gst[q] = "playing"
        /\ trim' = trim
    BY <1>5 DEF Retire, Nulled
  <2>5. FreshPipes' \subseteq FreshPipes
    BY <1>0, <2>2, <2>3, OthersShrink
  <2> QED BY <1>3, <2>1, <2>3, <2>4, <2>5
<1>6. ASSUME NEW p \in Pipes, Stream(p) PROVE FreshUnused' /\ FreshPipes' \subseteq FreshPipes
  <2>1. /\ warm' = warm /\ watch' \subseteq watch /\ trim' = trim
        /\ \A q \in Pipes : gst'[q] = "playing" => gst[q] = "playing"
    BY <1>0, <1>6, StreamSets
  <2>2. CASE UNCHANGED <<pc, reg>>
    <3>1. FreshPipes' \subseteq FreshPipes
      BY <1>0, <2>1, <2>2, OthersShrink DEF Claims, Bound
    <3>2. Alone("bus") /\ Reaches("bus")' = Reaches("bus") /\ "bus" \in Threads
      BY <1>0, <2>2 DEF Alone, Reaches
    <3> QED BY <1>3, <2>1, <3>1, <3>2
  <2>3. ASSUME p \in watch \/ trim[p] > 0, NEW t \in Enders, Alone(t),
               Reaches(t)' \subseteq Reaches(t) \cup {p}
        PROVE  FreshUnused' /\ FreshPipes' \subseteq FreshPipes
    <3>1. \A u \in Requests : Claims(u)' => Claims(u) /\ reg'[u].p = reg[u].p
      BY <1>0, <2>3 DEF Alone, Claims, Bound
    <3>2. FreshPipes' \subseteq FreshPipes /\ p \notin FreshPipes
      BY <1>0, <2>1, <2>3, <3>1, OthersShrink DEF FreshUnused, Unused, TypeOK
    <3>3. ASSUME NEW q \in FreshPipes' PROVE Unused(q)'
      <4>1. Unused(q) /\ q \in Pipes /\ q # p
        BY <1>2, <3>2, <3>3 DEF FreshUnused
      <4>2. \A u \in Enders : q \notin Reaches(u)'
        BY <1>0, <2>3, <4>1 DEF Unused, Alone, Reaches
      <4> QED BY <2>1, <4>1, <4>2 DEF Unused
    <3> QED BY <3>2, <3>3 DEF FreshUnused
  <2> QED BY <1>0, <1>6, <2>2, <2>3, StreamSets
<1> QED BY <1>0, <1>4, <1>5, <1>6

\* At rest nobody knows any pipeline.
LEMMA RestedFresh == ASSUME Rested PROVE FreshUnused
<1>1. \A p : Unused(p) \/ p \notin Pipes
  BY DEF Rested, Unused, Reaches, NoRegs, Enders, Threads
<1>2. FreshPipes \subseteq Pipes
  BY WarmTyped DEF Rested, FreshPipes, NewPipes, Slot, Claims, Claiming, Bound, Threads
<1> QED BY <1>1, <1>2 DEF FreshUnused

-----------------------------------------------------------------------------
\* The clip has its bus watch, or the call that installed it is about to add it.
Watched ==
  focus.p # None =>
    focus.p \in watch \/ \E t \in Requests : Bound(t) = "watch" /\ reg[t].p = focus.p

\* What plays was started, so its watch is there or about to be.
LEMMA WatchedKept ==
  ASSUME TypeOK, NoVoices, FreshUnused, Watched
  PROVE  WatchKept
<1> SUFFICES ASSUME focus.p # None, gst[focus.p] = "playing", focus.p \notin watch
             PROVE  \E t \in Threads : pc[t] = "watch" /\ reg[t].p = focus.p
  BY DEF WatchKept, Clips, NoVoices
<1>1. PICK t \in Requests : Bound(t) = "watch" /\ reg[t].p = focus.p
  BY DEF Watched
<1>2. focus.p \in FreshPipes
  BY <1>1 DEF FreshPipes, Claims
<1> QED BY <1>2 DEF FreshUnused, Unused

-----------------------------------------------------------------------------
\* What a request does where it stands, on the way from a claim to a name.
LEMMA StartSteps ==
  ASSUME NEW t, Request(t), pc[t] \in StartPlaces \cup {"wire", "install", "retire"}
  PROVE  \/ Wire(t) \/ Install(t) \/ AddWatch(t) \/ Start(t) \/ Preroll(t) \/ Commit(t)
         \/ StartFails(t) \/ Run(t) \/ Started(t) \/ Tag(t)
<1> USE DEF StartPlaces
<1>1. CASE \/ \E c \in Cues : Fire(t, c) \/ Warm(t, c) \/ StopCue(t, c)
           \/ Cold(t) \/ Build(t) \/ Park(t) \/ FillSlot(t)
  BY <1>1 DEF Fire, Warm, StopCue, Cold, Build, Park, FillSlot, Begin, ChangeState
<1>2. CASE \/ Play(t) \/ PlayRead(t) \/ PlayIntent(t) \/ PlayHow(t) \/ Resume(t) \/ Resumed(t)
           \/ ResumeVoices(t) \/ PauseVoices(t) \/ SetVoices(t) \/ Pause(t) \/ PauseFocus(t)
           \/ PausedFocus(t) \/ PauseMark(t) \/ Toggle(t) \/ ToggleState(t) \/ Toggled(t)
           \/ ToggleMark(t)
  BY <1>2 DEF Play, PlayRead, PlayIntent, PlayHow, Resume, Resumed, ResumeVoices, PauseVoices,
              SetVoices, Pause, PauseFocus, PausedFocus, PauseMark, Toggle, ToggleState, Toggled,
              ToggleMark, Begin, ChangeState, Recheck
<1>3. CASE \/ Halt(t, "stop") \/ Halt(t, "panic") \/ Cut(t) \/ StopVoices(t) \/ FadeAndStop(t)
           \/ FadeTick(t) \/ Faded(t) \/ PanicNow(t) \/ StopRead(t) \/ StopNull(t) \/ StopClear(t)
  BY <1>3 DEF Halt, Cut, StopVoices, FadeAndStop, FadeTick, Faded, PanicNow, StopRead, StopNull,
              StopClear, Begin
<1> QED BY <1>1, <1>2, <1>3 DEF Request

\* The clip keeps its name, or loses it; or nothing is loaded any more.
Kept == focus'.p = focus.p /\ focus'.cue \in {0, focus.cue}

\* Without voices: an installation and a tag name the clip anew, and a request
\* that is under way may count a decision.
LEMMA RequestMarks ==
  ASSUME TypeOK, NoVoices, NEW t \in Requests, Request(t)
  PROVE  /\ \/ Kept \/ focus'.p = None \/ Install(t) \/ Tag(t)
         /\ gen' = gen \/ focus'.p = None \/ pc[t] # "idle"
<1> USE DEF clipState, counters
<1>0. focus \in Clip /\ voices = {} /\ Newest(voices).p = None
  BY NoClipTyped DEF TypeOK, NoVoices, Newest
<1>1. CASE \/ \E c \in Cues : Fire(t, c) \/ Warm(t, c)
           \/ Wire(t) \/ Cold(t) \/ Build(t) \/ AddWatch(t) \/ Preroll(t) \/ Run(t)
           \/ Started(t) \/ Play(t) \/ PlayRead(t) \/ PlayHow(t) \/ Resume(t) \/ Resumed(t)
  BY <1>1 DEF Fire, Warm, Wire, Cold, Build, AddWatch, Preroll, Run, Started, Play, PlayRead,
              PlayHow, Resume, Resumed, ChangeState, Recheck, Kept
<1>2. CASE \/ SetVoices(t) \/ Pause(t) \/ PauseFocus(t) \/ PausedFocus(t) \/ Toggle(t)
           \/ ToggleState(t) \/ Toggled(t) \/ Halt(t, "stop") \/ Halt(t, "panic") \/ Cut(t)
           \/ FadeTick(t) \/ StopRead(t) \/ StopNull(t) \/ Park(t) \/ FillSlot(t)
  BY <1>2 DEF SetVoices, Pause, PauseFocus, PausedFocus, Toggle, ToggleState, Toggled, Halt,
              Cut, FadeTick, StopRead, StopNull, Park, FillSlot, ChangeState, Recheck, Kept
<1>3. CASE \/ Start(t) \/ PlayIntent(t) \/ PauseMark(t) \/ ToggleMark(t)
           \/ FadeAndStop(t) \/ StopClear(t)
  BY <1>0, <1>3 DEF Start, PlayIntent, PauseMark, ToggleMark, FadeAndStop, StopClear, Kept, Clip
<1>4. CASE Commit(t)
  BY <1>0, <1>4 DEF Commit, Kept, Clip
<1>5. CASE ResumeVoices(t) \/ PauseVoices(t) \/ StopVoices(t)
  BY <1>5 DEF ResumeVoices, PauseVoices, StopVoices, Kept
<1>6. CASE StartFails(t) \/ Faded(t)
  BY <1>0, <1>6 DEF StartFails, Faded, ClearIfCurrent, Kept
<1>7. CASE \E c \in Cues : StopCue(t, c)
  BY <1>0, <1>7, NoClipTyped DEF StopCue, Kept
<1>8. CASE Install(t) \/ Tag(t)
  BY <1>8 DEF Install, Tag
<1>9. CASE PanicNow(t)
  <2>1. pc[t] = "panic" /\ (focus' = NoClip \/ focus' = [focus EXCEPT !.cue = 0, !.starting = FALSE])
        /\ (focus.p # None => focus' = NoClip)
    BY <1>9 DEF PanicNow
  <2>2. focus'.p = None
    BY <1>0, <2>1, NoClipTyped DEF Clip
  <2> QED BY <2>1, <2>2
<1> QED BY <1>1, <1>2, <1>3, <1>4, <1>5, <1>6, <1>7, <1>8, <1>9 DEF Request

\* Nobody else gives a name or counts a decision about a clip that stays.
LEMMA OthersMark ==
  ASSUME TypeOK, NoVoices,
         \/ \E t \in Enders : End(t)
         \/ \E t \in Threads : Retire(t)
         \/ \E p \in Pipes : Stream(p)
         \/ FocusError \/ VoiceError
  PROVE  (Kept /\ focus'.cue = focus.cue /\ gen' = gen) \/ focus'.p = None
<1> USE DEF clipState, counters
<1>0. focus \in Clip /\ voices = {} /\ Newest(voices).p = None
  BY NoClipTyped DEF TypeOK, NoVoices, Newest
<1>1. CASE \E t \in Enders : End(t)
  <2>1. PICK t \in Enders : End(t)
    BY <1>1
  <2>2. CASE \/ FocusEnd(t) \/ LoopFocus(t) \/ LoopedFocus(t) \/ LoopMark(t) \/ HoldFocus(t)
             \/ HeldFocus(t) \/ HoldMark(t) \/ Cleared(t) \/ LoopVoice(t) \/ HoldVoice(t)
             \/ EndReturns(t) \/ VoiceEnd(t)
    BY <1>0, <2>2 DEF FocusEnd, LoopFocus, LoopedFocus, LoopMark, HoldFocus, HeldFocus, HoldMark,
                Cleared, LoopVoice, HoldVoice, EndReturns, VoiceEnd, Rewind, ChangeState, Recheck,
                Kept, Clip
  <2>3. CASE ClearFocus(t)
    BY <1>0, <2>3 DEF ClearFocus, ClearIfCurrent, Kept
  <2> QED BY <2>1, <2>2, <2>3 DEF End
<1>2. CASE FocusError
  BY <1>0, <1>2 DEF FocusError, ClearIfCurrent, Kept
<1>3. CASE VoiceError
  BY <1>3 DEF VoiceError, Kept
<1>4. CASE (\E p \in Pipes : Stream(p)) \/ \E t \in Threads : Retire(t)
  BY <1>4 DEF Stream, ReachOut, ReachEnd, BusEOS, BusError, TrimHits, FadeRegisters, FadeLeaves,
              FadeRetires, Retire, Kept
<1> QED BY <1>1, <1>2, <1>3, <1>4

\* A request keeps the clip watched.
LEMMA RequestWatched ==
  ASSUME IInv, NoVoices, Watched, NEW t \in Requests, Request(t)
  PROVE  Watched'
<1>0. TypeOK /\ Order /\ WarmKnown /\ Shape(t) /\ t \in Threads /\ Requests \subseteq Threads
  BY DEF IInv, Threads
<1>1. Alone(t)
  BY <1>0, RequestMoves DEF Moves, Alone
<1>2. CASE Install(t)
  <2>1. PICK ps : RetireThen(t, ps, "watch")
    BY <1>2 DEF Install
  <2>2. Bound(t)' = "watch" /\ reg'[t].p = reg[t].p
    <3>1. CASE ps = {}
      BY <1>0, <2>1, <3>1 DEF RetireThen, Continue, Goto, TypeOK, Bound
    <3>2. CASE ps # {}
      <4>1. pc'[t] = "retire" /\ reg'[t].ret = "watch" /\ reg'[t].p = reg[t].p
        BY <1>0, <2>1, <3>2 DEF RetireThen, Goto, TypeOK, Regs
      <4> QED BY <4>1 DEF Bound
    <3> QED BY <3>1, <3>2
  <2>3. focus'.p = reg[t].p
    BY <1>2 DEF Install, NoClip
  <2> QED BY <2>2, <2>3 DEF Watched
<1>3. CASE ~Install(t)
  <2> SUFFICES ASSUME focus'.p # None
               PROVE  focus'.p \in watch' \/ \E u \in Requests : Bound(u)' = "watch" /\ reg'[u].p = focus'.p
    BY DEF Watched
  <2>1. focus'.p = focus.p
    BY <1>0, <1>3, RequestMarks DEF Kept, Tag, TypeOK, Clip
  <2>2. CASE focus.p \in watch
    <3>1. watch \subseteq watch'
      BY <1>0, RequestSets DEF AddWatch
    <3> QED BY <2>1, <2>2, <3>1
  <2>3. ASSUME NEW u \in Requests, Bound(u) = "watch", reg[u].p = focus.p
        PROVE  focus'.p \in watch' \/ (Bound(u)' = "watch" /\ reg'[u].p = focus'.p)
    <3>1. CASE u # t
      BY <1>0, <1>1, <2>1, <2>3, <3>1 DEF Alone, Bound
    <3>2. CASE u = t
      <4>1. pc[t] \in {"watch", "retire"}
        BY <2>3, <3>2 DEF Bound
      <4>2. AddWatch(t)
        BY <1>3, <4>1, StartSteps DEF StartPlaces, Wire, Install, Start, Preroll, Commit,
           StartFails, Run, Started, Tag, ChangeState
      <4> QED BY <2>1, <2>3, <3>2, <4>2 DEF AddWatch
    <3> QED BY <3>1, <3>2
  <2> QED BY <2>1, <2>2, <2>3 DEF Watched
<1> QED BY <1>2, <1>3

\* The places requests are bound for, when somebody else moves.
LEMMA OthersBound ==
  ASSUME IInv,
         \/ \E t \in Enders : End(t)
         \/ \E t \in Threads : Retire(t)
         \/ \E p \in Pipes : Stream(p)
         \/ FocusError \/ VoiceError
  PROVE  \A u \in Requests :
           /\ Bound(u)' = Bound(u)
           /\ pc'[u] \in {pc[u], Bound(u)} /\ (pc[u] # "idle" /\ pc'[u] = "idle" => Bound(u) = "idle")
           /\ pc'[u] # "idle" => reg'[u].p = reg[u].p /\ reg'[u].op = reg[u].op
                                 /\ reg'[u].cue = reg[u].cue /\ reg'[u].gen = reg[u].gen
<1>0. /\ TypeOK /\ Order /\ \A t \in Threads : Shape(t)
      /\ Requests \subseteq Threads /\ Enders \subseteq Threads /\ "bus" \in Enders
      /\ Requests \cap Enders = {}
  BY PlaybackAssumption DEF PlaybackAssumption, IInv, Threads, Enders
<1>1. ASSUME NEW t \in Enders, Alone(t), NEW u \in Requests
      PROVE  pc'[u] = pc[u] /\ reg'[u] = reg[u]
  BY <1>0, <1>1 DEF Alone
<1>2. CASE (\E t \in Enders : End(t)) \/ FocusError \/ VoiceError
  <2>1. PICK t \in Enders : Alone(t)
    BY <1>0, <1>2, EndMoves DEF Moves, Alone
  <2> QED BY <1>1, <2>1 DEF Bound
<1>3. CASE \E p \in Pipes : Stream(p)
  <2>1. UNCHANGED <<pc, reg>> \/ \E t \in Enders : Alone(t)
    BY <1>0, <1>3, StreamWays
  <2> QED BY <1>1, <2>1 DEF Bound
<1>4. ASSUME NEW t \in Threads, Retire(t), NEW u \in Requests
      PROVE  /\ Bound(u)' = Bound(u)
             /\ pc'[u] \in {pc[u], Bound(u)} /\ (pc[u] # "idle" /\ pc'[u] = "idle" => Bound(u) = "idle")
             /\ pc'[u] # "idle" => reg'[u].p = reg[u].p /\ reg'[u].op = reg[u].op
                                   /\ reg'[u].cue = reg[u].cue /\ reg'[u].gen = reg[u].gen
  <2>1. Alone(t)
    BY <1>0, <1>4, RetireMoves DEF Moves, Alone
  <2>2. CASE u # t
    BY <1>0, <2>1, <2>2 DEF Alone, Bound
  <2>3. CASE u = t
    <3>1. Bound(t)' = Bound(t) /\ pc'[t] # "retire"
      BY <1>0, <1>4, RetireWays
    <3>2. pc'[t] = Bound(t)
      BY <3>1 DEF Bound
    <3>3. CASE reg[t].ret = "idle"
      <4>1. pc'[t] = "idle"
        BY <1>0, <1>4, <3>3 DEF Retire, Finish, Goto, TypeOK
      <4> QED BY <2>3, <3>1, <3>2, <4>1
    <3>4. CASE reg[t].ret # "idle"
      <4>1. reg' = [reg EXCEPT ![t].kill = {}]
        BY <1>4, <3>4 DEF Retire
      <4>2. /\ reg'[t].p = reg[t].p /\ reg'[t].op = reg[t].op
            /\ reg'[t].cue = reg[t].cue /\ reg'[t].gen = reg[t].gen
        BY <1>0, <4>1 DEF TypeOK, Regs
      <4> QED BY <2>3, <3>1, <3>2, <4>2
    <3> QED BY <3>3, <3>4
  <2> QED BY <2>2, <2>3
<1> QED BY <1>2, <1>3, <1>4

\* Nobody takes the watch of the clip away.
LEMMA OthersWatched ==
  ASSUME IInv, NoVoices, Watched,
         \/ \E t \in Enders : End(t)
         \/ \E t \in Threads : Retire(t)
         \/ \E p \in Pipes : Stream(p)
         \/ FocusError \/ VoiceError
  PROVE  Watched'
<1>0. /\ TypeOK /\ Owned /\ "bus" \in Threads /\ Enders \subseteq Threads
      /\ \A t \in Threads : Voiceless(t)
  BY DEF IInv, Threads, Enders, NoVoices
<1> SUFFICES ASSUME focus'.p # None
             PROVE  focus'.p \in watch' \/ \E u \in Requests : Bound(u)' = "watch" /\ reg'[u].p = focus'.p
  BY DEF Watched
<1>1. focus'.p = focus.p
  BY <1>0, OthersMark DEF Kept
<1>2. focus.p \in RunPipes /\ Running(focus.p)
  BY <1>1 DEF RunPipes, Running, Clips
<1>3. focus.p \in watch => focus.p \in watch'
  <2>1. ASSUME NEW t \in Enders, End(t) PROVE focus.p \in watch => focus.p \in watch'
    <3>1. CASE EndReturns(t)
      <4>1. pc[t] \in {"focusDone", "focusLooped"}
        BY <1>0, <3>1 DEF EndReturns, Voiceless, Bound, VoicePlaces
      <4> QED BY <3>1, <4>1 DEF EndReturns
    <3>2. CASE ~EndReturns(t)
      BY <2>1, <3>2 DEF End, FocusEnd, LoopFocus, LoopedFocus, LoopMark, HoldFocus, HeldFocus,
         HoldMark, ClearFocus, Cleared, VoiceEnd, LoopVoice, HoldVoice, Rewind, ChangeState,
         Recheck, ClearIfCurrent, watchers
    <3> QED BY <3>1, <3>2
  <2>2. ASSUME NEW t \in Threads, Retire(t) PROVE focus.p \in watch => focus.p \in watch'
    <3>1. focus.p \notin reg[t].kill
      BY <1>0, <1>2, <2>2 DEF Owned, Holds, Retire
    <3> QED BY <2>2, <3>1 DEF Retire
  <2>3. ASSUME NEW p \in Pipes, Stream(p) PROVE focus.p \in watch => focus.p \in watch'
    <3>1. CASE FadeRetires(p)
      <4>1. p \in FadePipes
        BY <3>1 DEF FadeRetires, FadePipes
      <4> QED BY <1>0, <1>2, <3>1, <4>1 DEF FadeRetires, Owned
    <3>2. CASE BusEOS(p)
      BY <1>2, <3>2 DEF BusEOS
    <3>3. CASE \/ ReachOut(p) \/ ReachEnd(p) \/ BusError(p) \/ TrimHits(p) \/ FadeRegisters(p)
               \/ FadeLeaves(p)
      BY <3>3 DEF ReachOut, ReachEnd, BusError, TrimHits, FadeRegisters, FadeLeaves, watchers
    <3> QED BY <2>3, <3>1, <3>2, <3>3 DEF Stream
  <2>4. ~VoiceError
    BY <1>0 DEF VoiceError, Voiceless, Bound, VoicePlaces
  <2>5. FocusError => watch' = watch
    BY DEF FocusError, ClearIfCurrent, watchers
  <2> QED BY <2>1, <2>2, <2>3, <2>4, <2>5
<1>4. CASE focus.p \in watch
  BY <1>1, <1>3, <1>4
<1>5. ASSUME NEW u \in Requests, Bound(u) = "watch", reg[u].p = focus.p
      PROVE  Bound(u)' = "watch" /\ reg'[u].p = focus'.p
  <2>1. Bound(u)' = "watch" /\ pc'[u] # "idle"
    BY <1>5, OthersBound DEF Bound
  <2> QED BY <1>1, <1>5, <2>1, OthersBound
<1> QED BY <1>1, <1>4, <1>5 DEF Watched

-----------------------------------------------------------------------------
\* Nothing changes.
LEMMA StutterReady == ASSUME Ready, UNCHANGED vars PROVE Ready'
  BY DEF vars, clipState, streams, Ready, Apart, Parked, WarmReady, Reaches, Hidden, NewPipes, Slot

\* The same of the voices.
LEMMA StutterVoiceless == ASSUME NoVoices, UNCHANGED vars PROVE NoVoices'
  BY DEF vars, clipState, NoVoices, Voiceless, Bound

\* The invariant behind the watch of the clip ...
Attended == Ready /\ NoVoices /\ FreshUnused /\ Watched

\* ... and its step.
LEMMA AttendedNext ==
  ASSUME Flat, Serial, IInv, Attended, [Next]_vars
  PROVE  IInv' /\ Attended'
<1> USE DEF Attended
<1>1. CASE Next
  <2>1. IInv' /\ NoVoices' /\ Ready'
    BY <1>1, NextIInv, FlatNext, NextReady
  <2>2. ASSUME NEW t \in Requests, Request(t) PROVE FreshUnused' /\ Watched'
    BY <2>2, RequestFresh, RequestWatched
  <2>3. ASSUME \/ \E t \in Enders : End(t)
               \/ \E t \in Threads : Retire(t)
               \/ \E p \in Pipes : Stream(p)
               \/ FocusError \/ VoiceError
        PROVE  FreshUnused' /\ Watched'
    BY <2>3, OthersFresh, OthersWatched
  <2> QED BY <1>1, <2>1, <2>2, <2>3 DEF Next
<1>2. CASE UNCHANGED vars
  <2> USE DEF vars, clipState, counters, streams, watchers, history
  <2>1. IInv'
    BY <1>2, StutterIInv
  <2>2. Ready'
    BY <1>2, StutterReady
  <2>3. NoVoices'
    BY <1>2, StutterVoiceless
  <2>4. FreshUnused'
    BY <1>2 DEF FreshUnused, FreshPipes, Unused, NewPipes, Slot, Claims, Bound, Reaches
  <2>5. Watched'
    BY <1>2 DEF Watched, Bound
  <2> QED BY <2>1, <2>2, <2>3, <2>4, <2>5
<1> QED BY <1>1, <1>2

\* At rest there is nothing to attend to.
LEMMA RestedAttended == ASSUME Rested PROVE Attended
<1>1. Watched
  BY NoClipTyped DEF Rested, Watched
<1> QED BY <1>1, RestedReady, RestedFresh, RestedFlat DEF Attended

\* A clip that plays has its bus watch, so its end is heard, where one clip runs
\* at a time and calls do not overlap: through loads, holds, loops, resumes and
\* retirements no handler takes the watch of the running clip away (watchAndPlay).
THEOREM PlayersAreWatched == ASSUME Flat PROVE Spec /\ []Serial => []WatchKept
<1>1. Init => IInv /\ Attended
  BY InitIInv, InitRests, RestedAttended
<1>2. Serial /\ IInv /\ Attended /\ [Next]_vars => IInv' /\ Attended'
  BY AttendedNext
<1>3. IInv /\ Attended => WatchKept
  BY WatchedKept DEF IInv, Attended
<1> QED BY <1>1, <1>2, <1>3, PTL DEF Spec

-----------------------------------------------------------------------------
(* What a pipeline was built for, and the end that is told: TagMatches.      *)

\* What a pipeline was built for stays.
LEMMA OfStays ==
  ASSUME IInv, Next
  PROVE  \A p \in Pipes \ NewPipes : of'[p] = of[p]
<1>0. TypeOK /\ \A t \in Threads : Shape(t)
  BY DEF IInv
<1>1. ASSUME NEW t \in Requests, Request(t) PROVE \A p \in Pipes \ NewPipes : of'[p] = of[p]
  <2>1. CASE pc[t] \in Parking
    BY <1>1, <2>1, ParkingSteps DEF Park, FillSlot, ChangeState
  <2>2. CASE pc[t] \notin Parking
    BY <1>0, <1>1, <2>2, RequestTouches DEF Touches, Threads
  <2> QED BY <2>1, <2>2
<1>2. ASSUME NEW t \in Enders, End(t) \/ (t = "bus" /\ (FocusError \/ VoiceError))
      PROVE  \A p \in Pipes \ NewPipes : of'[p] = of[p]
  BY <1>0, <1>2, EndTouches DEF Touches, Threads
<1>3. ASSUME NEW t \in Threads, Retire(t) PROVE \A p \in Pipes \ NewPipes : of'[p] = of[p]
  BY <1>0, <1>3, EndTouches DEF Touches
<1>4. ASSUME NEW p \in Pipes, Stream(p) PROVE \A q \in Pipes \ NewPipes : of'[q] = of[q]
  BY <1>0, <1>4, StreamTouches
<1> QED BY <1>1, <1>2, <1>3, <1>4 DEF Next, Enders

\* Whatever a thread reaches was built, and so was what runs.
LEMMA BuiltInReach ==
  ASSUME IInv, Apart
  PROVE  /\ \A t \in Threads : \A p \in Reaches(t) : pc[t] \notin Parking => p \notin NewPipes
         /\ \A t \in Threads : pc[t] \in Claiming => reg[t].p \in Pipes \ NewPipes
         /\ focus.p # None => focus.p \in Pipes \ NewPipes
<1>1. TypeOK /\ Owned /\ \A t \in Threads : Shape(t)
  BY DEF IInv
<1>2. focus.p # None => focus.p \in Pipes \ NewPipes
  BY <1>1 DEF Owned, RunPipes, Clips, TypeOK, Clip, AnyPipe
<1>3. ASSUME NEW t \in Threads, pc[t] \in Claiming PROVE reg[t].p \in Pipes \ NewPipes
  BY <1>1, <1>3 DEF Owned, Holds, Claiming, Shape
<1> QED BY <1>2, <1>3 DEF Apart, Hidden

-----------------------------------------------------------------------------
\* A request about to install a pipeline has one that was built for its cue.
BuiltFor(t) == pc[t] \in {"wire", "install"} => of[reg[t].p] = reg[t].cue

\* A request's own steps keep it: a hit of the slot answers to the cue it was built for.
LEMMA OwnBuiltFor ==
  ASSUME IInv, Ready, NEW t \in Requests, BuiltFor(t), Request(t)
  PROVE  BuiltFor(t)'
<1>0. t \in Threads /\ reg[t] \in Regs /\ TypeOK /\ WarmKnown /\ Shape(t) /\ WarmReady
  BY DEF IInv, Threads, TypeOK, Ready, Parked
<1>1. ASSUME pc'[t] \notin {"wire", "install"} PROVE BuiltFor(t)'
  BY <1>1 DEF BuiltFor
<1>2. CASE Avoids(t, Claiming \cup StartPlaces \cup PlayPlaces)
  <2>1. (Claiming \cup StartPlaces \cup PlayPlaces) \cap {"idle", "build"} = {}
    BY DEF Claiming, StartPlaces, PlayPlaces
  <2>2. Bound(t)' \notin Claiming
    BY <1>0, <1>2, <2>1, AvoidsPlaces
  <2> QED BY <1>1, <2>2 DEF Claiming, Bound
<1>3. ASSUME NEW c \in Cues, Fire(t, c) PROVE BuiltFor(t)'
  <2> DEFINE hit == warm.cue = c
             r == [NoRegs EXCEPT !.cue = c, !.op = IF hit THEN "warmFire" ELSE "fire",
                                 !.p = IF hit THEN warm.p ELSE None]
  <2>1. reg' = [reg EXCEPT ![t] = r] /\ Goto(t, IF hit THEN "wire" ELSE "cold") /\ of' = of
    BY <1>3 DEF Fire
  <2>2. r.p = (IF hit THEN warm.p ELSE None) /\ r.cue = c
    BY DEF NoRegs
  <2>3. reg'[t] = r /\ pc'[t] = IF hit THEN "wire" ELSE "cold"
    BY <1>0, <2>1 DEF TypeOK, Goto
  <2> HIDE DEF r
  <2>4. hit => warm.p # None
    BY <1>0, PlaybackAssumption DEF WarmKnown, PlaybackAssumption
  <2> QED BY <1>0, <2>1, <2>2, <2>3, <2>4 DEF BuiltFor, WarmReady
<1>4. CASE Wire(t)
  <2>1. CASE Goto(t, "install") /\ UNCHANGED reg
    BY <1>0, <1>4, <2>1 DEF Wire, Goto, TypeOK, BuiltFor
  <2>2. CASE RetireThen(t, {reg[t].p}, "cold")
    <3>1. pc'[t] = "retire"
      BY <1>0, <2>2 DEF RetireThen, Goto, TypeOK
    <3> QED BY <1>1, <3>1
  <2> QED BY <1>4, <2>1, <2>2 DEF Wire
<1>5. CASE Build(t)
  <2>1. CASE Finish(t)
    BY <1>0, <1>1, <2>1 DEF Finish, Goto, TypeOK
  <2>2. CASE ~Finish(t)
    <3>1. PICK p \in Pipes :
            /\ of' = [of EXCEPT ![p] = reg[t].cue]
            /\ reg' = [reg EXCEPT ![t].p = p, ![t].op = IF @ = "warm" THEN @ ELSE "fire"]
      BY <1>5, <2>2 DEF Build
    <3>2. reg'[t].p = p /\ reg'[t].cue = reg[t].cue /\ of'[p] = reg[t].cue
      BY <1>0, <3>1 DEF TypeOK, Regs
    <3> QED BY <3>2 DEF BuiltFor
  <2> QED BY <2>1, <2>2
<1>6. CASE Install(t)
  <2>1. PICK ps : RetireThen(t, ps, "watch")
    BY <1>6 DEF Install
  <2>2. pc'[t] \in {"watch", "retire"}
    BY <1>0, <2>1 DEF RetireThen, Continue, Goto, TypeOK
  <2> QED BY <1>1, <2>2
<1>7. CASE \/ AddWatch(t) \/ Start(t) \/ Preroll(t) \/ Commit(t) \/ Run(t) \/ Started(t)
           \/ PlayRead(t) \/ PlayIntent(t) \/ PlayHow(t) \/ Park(t)
  <2>1. pc'[t] \notin {"wire", "install"}
    BY <1>0, <1>7 DEF AddWatch, Start, Preroll, Commit, Run, Started, PlayRead, PlayIntent, PlayHow,
                      Park, AfterStart, Continue, Finish, ChangeState, Goto, TypeOK
  <2> QED BY <1>1, <2>1
<1> QED BY <1>0, <1>2, <1>3, <1>4, <1>5, <1>6, <1>7, RequestLoads DEF Loads

\* Steps of the others keep it: what is claimed was built and is not built again.
LEMMA OtherBuiltFor ==
  ASSUME IInv, Ready, Next, NEW t \in Requests, BuiltFor(t), pc'[t] \in {pc[t], Bound(t)},
         pc'[t] # "idle" => reg'[t].p = reg[t].p /\ reg'[t].cue = reg[t].cue
  PROVE  BuiltFor(t)'
<1> SUFFICES ASSUME pc'[t] \in {"wire", "install"} PROVE of'[reg'[t].p] = reg'[t].cue
  BY DEF BuiltFor
<1>0. Shape(t) /\ t \in Threads /\ Apart
  BY DEF IInv, Threads, Ready
<1>1. pc[t] = pc'[t]
  BY <1>0 DEF Shape, Bound, Returns
<1>2. reg[t].p \in Pipes \ NewPipes
  BY <1>0, <1>1, BuiltInReach DEF Claiming
<1> QED BY <1>1, <1>2, OfStays DEF BuiltFor

\* So every step does.
LEMMA BuiltForNext ==
  ASSUME IInv, Ready, \A t \in Requests : BuiltFor(t), Next
  PROVE  \A t \in Requests : BuiltFor(t)'
<1>1. ASSUME NEW t \in Requests, Request(t), NEW u \in Requests PROVE BuiltFor(u)'
  <2>1. Moves(t) /\ u \in Threads
    BY <1>1, RequestMoves DEF IInv, Threads
  <2> QED BY <1>1, <2>1, OwnBuiltFor, OtherBuiltFor DEF Moves
<1>2. ASSUME \/ \E t \in Enders : End(t)
             \/ \E t \in Threads : Retire(t)
             \/ \E p \in Pipes : Stream(p)
             \/ FocusError \/ VoiceError,
             NEW u \in Requests
      PROVE  BuiltFor(u)'
  BY <1>2, OthersBound, OtherBuiltFor
<1> QED BY <1>1, <1>2 DEF Next

-----------------------------------------------------------------------------
\* The ends of a clip that report it.
EndPlaces == {"hold", "held", "holdMark", "clear", "cleared"}

\* The clip, if it has a name, has that of the cue its pipeline was built for.
NamedFocus == focus.p # None => focus.cue \in {0, of[focus.p]}

\* From its installation on a load names the cue its pipeline was built for, and
\* the pipeline is the clip until that is gone.
NamedLoad(t) ==
  /\ Bound(t) \in StartPlaces /\ reg[t].op # "play" =>
       reg[t].p \in Pipes /\ of[reg[t].p] = reg[t].cue /\ focus.p \in {None, reg[t].p}
  /\ Bound(t) = "tag" => reg[t].op # "play"
  /\ Bound(t) \in PlayPlaces => reg[t].op = "play"

\* The end of a clip keeps the name it was read under, ...
NamedEnd(t) == Bound(t) \in EndPlaces => reg[t].cue \in {0, of[reg[t].p]}

\* ... and so do the ends that were told.
Told == \A r \in reports : r[1] \notin NewPipes /\ r[2] = of[r[1]]

\* The invariant behind the end that is told.
Named ==
  /\ NamedFocus /\ Told
  /\ \A t \in Requests : BuiltFor(t) /\ NamedLoad(t)
  /\ \A t \in Enders : NamedEnd(t)

\* The places of a load where a request stands.
LEMMA LoadGoesOn ==
  ASSUME NEW t, NamedLoad(t), pc[t] \in StartPlaces, pc'[t] \in StartPlaces \cup {"idle"},
         pc'[t] # "idle" =>
           reg'[t].p = reg[t].p /\ reg'[t].op = reg[t].op /\ reg'[t].cue = reg[t].cue,
         focus'.p = focus.p, of' = of, pc'[t] = "tag" => reg[t].op # "play"
  PROVE  NamedLoad(t)'
  BY DEF NamedLoad, StartPlaces, PlayPlaces, Bound

\* The load of a request, as it goes on.
LEMMA OwnLoadNamed ==
  ASSUME IInv, Ready, NEW t \in Requests, BuiltFor(t), NamedLoad(t), Request(t)
  PROVE  NamedLoad(t)'
<1>0. t \in Threads /\ reg[t] \in Regs /\ focus \in Clip /\ TypeOK /\ Shape(t)
  BY DEF IInv, Threads, TypeOK
<1>1. CASE Avoids(t, Claiming \cup StartPlaces \cup PlayPlaces)
  <2>1. (Claiming \cup StartPlaces \cup PlayPlaces) \cap {"idle", "build"} = {}
    BY DEF Claiming, StartPlaces, PlayPlaces
  <2>2. Bound(t)' \notin Claiming \cup StartPlaces \cup PlayPlaces
    BY <1>0, <1>1, <2>1, AvoidsPlaces
  <2> QED BY <2>2 DEF NamedLoad, Claiming, StartPlaces, Bound
<1>2. ASSUME Bound(t)' \notin StartPlaces \cup PlayPlaces PROVE NamedLoad(t)'
  BY <1>2 DEF NamedLoad, StartPlaces
<1>3. ASSUME NEW c \in Cues, Fire(t, c) PROVE NamedLoad(t)'
  <2>1. pc'[t] \in {"wire", "cold"}
    BY <1>0, <1>3 DEF Fire, Goto, TypeOK
  <2> QED BY <1>2, <2>1 DEF Bound, StartPlaces, PlayPlaces
<1>4. CASE Wire(t) \/ Build(t) \/ Park(t)
  <2>1. CASE RetireThen(t, {reg[t].p}, "cold")
    <3>1. pc'[t] = "retire" /\ reg'[t].ret = "cold"
      BY <1>0, <2>1 DEF RetireThen, Goto, TypeOK, Regs
    <3> QED BY <1>2, <3>1 DEF Bound, StartPlaces, PlayPlaces
  <2>2. CASE ~RetireThen(t, {reg[t].p}, "cold")
    <3>1. pc'[t] \in {"install", "park", "warm", "idle"}
      BY <1>0, <1>4, <2>2 DEF Wire, Build, Park, ChangeState, Finish, Goto, TypeOK
    <3> QED BY <1>2, <3>1 DEF Bound, StartPlaces, PlayPlaces
  <2> QED BY <2>1, <2>2
<1>5. CASE Install(t)
  <2>1. PICK ps : RetireThen(t, ps, "watch")
    BY <1>5 DEF Install
  <2>2. /\ pc'[t] \in {"watch", "retire"} /\ Bound(t)' = "watch"
        /\ reg'[t].p = reg[t].p /\ reg'[t].cue = reg[t].cue
    <3>1. CASE ps = {}
      BY <1>0, <2>1, <3>1 DEF RetireThen, Continue, Goto, TypeOK, Bound
    <3>2. CASE ps # {}
      <4>1. /\ pc'[t] = "retire" /\ reg'[t].ret = "watch"
            /\ reg'[t].p = reg[t].p /\ reg'[t].cue = reg[t].cue
        BY <1>0, <2>1, <3>2 DEF RetireThen, Goto, TypeOK, Regs
      <4> QED BY <4>1 DEF Bound
    <3> QED BY <3>1, <3>2
  <2>3. focus'.p = reg[t].p /\ of' = of /\ pc[t] = "install"
    BY <1>5 DEF Install, NoClip
  <2>4. reg[t].p \in Pipes
    BY <1>0, <2>3 DEF Shape, Claiming
  <2> QED BY <2>2, <2>3, <2>4 DEF BuiltFor, NamedLoad, PlayPlaces
<1>6. CASE AddWatch(t) \/ Preroll(t) \/ Run(t)
  <2>1. /\ pc[t] \in StartPlaces /\ pc'[t] \in StartPlaces \ {"tag"}
        /\ reg' = reg /\ focus' = focus /\ of' = of
    BY <1>0, <1>6 DEF AddWatch, Preroll, Run, ChangeState, Goto, TypeOK, StartPlaces, clipState
  <2> QED BY <2>1, LoadGoesOn
<1>7. ASSUME AfterStart(t), pc[t] \in StartPlaces, focus'.p = focus.p, of' = of
      PROVE  NamedLoad(t)'
  <2>1. CASE reg[t].op = "play"
    <3>1. pc'[t] = "idle"
      BY <1>0, <1>7, <2>1 DEF AfterStart, Continue, Finish, Goto, TypeOK
    <3> QED BY <1>7, <3>1, LoadGoesOn
  <2>2. CASE reg[t].op # "play"
    <3>1. pc'[t] = "tag" /\ reg' = reg
      BY <1>0, <1>7, <2>2 DEF AfterStart, Continue, Goto, TypeOK
    <3> QED BY <1>7, <2>2, <3>1, LoadGoesOn DEF StartPlaces
  <2> QED BY <2>1, <2>2
<1>8. CASE Start(t)
  <2>1. CASE AfterStart(t) /\ UNCHANGED focus
    BY <1>7, <1>8, <2>1 DEF Start, StartPlaces
  <2>2. CASE ~(AfterStart(t) /\ UNCHANGED focus)
    <3>1. /\ focus' = [focus EXCEPT !.starting = TRUE, !.fader = "none"] /\ of' = of
          /\ reg' = [reg EXCEPT ![t].gen = gen] /\ Goto(t, "preroll") /\ pc[t] = "start"
      BY <1>8, <2>2 DEF Start
    <3>2. /\ focus'.p = focus.p /\ pc'[t] = "preroll"
          /\ reg'[t].p = reg[t].p /\ reg'[t].op = reg[t].op /\ reg'[t].cue = reg[t].cue
      BY <1>0, <3>1 DEF Clip, Goto, TypeOK, Regs
    <3> QED BY <3>1, <3>2, LoadGoesOn DEF StartPlaces
  <2> QED BY <2>1, <2>2
<1>9. CASE Commit(t)
  <2>1. focus'.p = focus.p /\ of' = of /\ pc[t] = "commit"
    BY <1>0, <1>9 DEF Commit, Clip, clipState
  <2>2. CASE AfterStart(t)
    BY <1>7, <2>1, <2>2 DEF StartPlaces
  <2>3. CASE Goto(t, "run") /\ UNCHANGED reg
    <3>1. pc'[t] = "run" /\ reg' = reg
      BY <1>0, <2>3 DEF Goto, TypeOK
    <3> QED BY <2>1, <3>1, LoadGoesOn DEF StartPlaces
  <2> QED BY <1>9, <2>2, <2>3 DEF Commit
<1>10. CASE Started(t)
  BY <1>7, <1>10 DEF Started, StartPlaces, clipState
<1>11. CASE PlayRead(t)
  <2>1. CASE Finish(t)
    BY <1>0, <1>2, <2>1 DEF Finish, Goto, TypeOK, Bound, StartPlaces, PlayPlaces
  <2>2. CASE ~Finish(t)
    <3>1. /\ reg' = [reg EXCEPT ![t] = [NoRegs EXCEPT !.p = focus.p, !.op = "play"]]
          /\ Goto(t, "playIntent")
      BY <1>11, <2>2 DEF PlayRead
    <3>2. reg'[t].op = "play" /\ pc'[t] = "playIntent"
      BY <1>0, <3>1 DEF NoRegs, TypeOK, Goto
    <3> QED BY <3>2 DEF NamedLoad, Bound, StartPlaces
  <2> QED BY <2>1, <2>2
<1>12. CASE PlayIntent(t) \/ PlayHow(t)
  <2>1. /\ pc[t] \in PlayPlaces /\ reg' = reg
        /\ pc'[t] \in {"playHow", "start", "resume"}
    BY <1>0, <1>12 DEF PlayIntent, PlayHow, Goto, TypeOK, PlayPlaces
  <2>2. reg[t].op = "play"
    BY <2>1 DEF NamedLoad, Bound, PlayPlaces
  <2> QED BY <2>1, <2>2 DEF NamedLoad, Bound
<1> QED BY <1>0, <1>1, <1>3, <1>4, <1>5, <1>6, <1>8, <1>9, <1>10, <1>11, <1>12,
           RequestLoads DEF Loads

\* Only the ends of clips tell anything.
LEMMA RequestTellsNothing ==
  ASSUME NEW t \in Requests, Request(t)
  PROVE  reports' = reports
<1> USE DEF history
<1>1. CASE \/ \E c \in Cues : Fire(t, c) \/ Warm(t, c) \/ StopCue(t, c)
           \/ Wire(t) \/ Cold(t) \/ Build(t) \/ Install(t) \/ AddWatch(t) \/ Start(t) \/ Preroll(t)
           \/ Commit(t) \/ StartFails(t) \/ Run(t) \/ Started(t) \/ Tag(t)
  BY <1>1 DEF Fire, Warm, StopCue, Wire, Cold, Build, Install, AddWatch, Start, Preroll, Commit,
              StartFails, Run, Started, Tag, Begin, ChangeState, ClearIfCurrent
<1>2. CASE \/ Play(t) \/ PlayRead(t) \/ PlayIntent(t) \/ PlayHow(t) \/ Resume(t) \/ Resumed(t)
           \/ ResumeVoices(t) \/ PauseVoices(t) \/ SetVoices(t) \/ Pause(t) \/ PauseFocus(t)
           \/ PausedFocus(t) \/ PauseMark(t) \/ Toggle(t) \/ ToggleState(t) \/ Toggled(t)
           \/ ToggleMark(t)
  BY <1>2 DEF Play, PlayRead, PlayIntent, PlayHow, Resume, Resumed, ResumeVoices, PauseVoices,
              SetVoices, Pause, PauseFocus, PausedFocus, PauseMark, Toggle, ToggleState, Toggled,
              ToggleMark, Begin, ChangeState, Recheck
<1>3. CASE \/ Halt(t, "stop") \/ Halt(t, "panic") \/ Cut(t) \/ StopVoices(t) \/ FadeAndStop(t)
           \/ FadeTick(t) \/ Faded(t) \/ PanicNow(t) \/ StopRead(t) \/ StopNull(t) \/ StopClear(t)
           \/ Park(t) \/ FillSlot(t)
  BY <1>3 DEF Halt, Cut, StopVoices, FadeAndStop, FadeTick, Faded, PanicNow, StopRead, StopNull,
              StopClear, Park, FillSlot, Begin, ChangeState, ClearIfCurrent
<1> QED BY <1>1, <1>2, <1>3 DEF Request

\* Names stay with their pipelines.
LEMMA NamesStay ==
  ASSUME IInv, Ready, Told, \A p \in Pipes \ NewPipes : of'[p] = of[p], NewPipes' \subseteq NewPipes
  PROVE  /\ \A r \in reports : r[1] \notin NewPipes' /\ r[2] = of'[r[1]]
         /\ \A t \in Enders : pc[t] # "idle" /\ ~(pc[t] = "retire" /\ reg[t].ret = "idle")
                              /\ pc[t] \notin Parking =>
              of'[reg[t].p] = of[reg[t].p] /\ reg[t].p \notin NewPipes'
<1>0. /\ TypeOK /\ Apart /\ Enders \subseteq Threads /\ \A t \in Threads : Shape(t)
      /\ \A p \in Pipes : p # None
  BY PlaybackAssumption DEF PlaybackAssumption, IInv, Ready, Enders, Threads
<1>1. ASSUME NEW r \in reports PROVE r[1] \notin NewPipes' /\ r[2] = of'[r[1]]
  BY <1>0 DEF Told, TypeOK
<1>2. ASSUME NEW t \in Enders, pc[t] # "idle", ~(pc[t] = "retire" /\ reg[t].ret = "idle"),
             pc[t] \notin Parking
      PROVE  of'[reg[t].p] = of[reg[t].p] /\ reg[t].p \notin NewPipes'
  <2>1. reg[t].p \in Pipes
    BY <1>0, <1>2 DEF Shape
  <2>2. reg[t].p \in Reaches(t)
    BY <1>0, <1>2, <2>1 DEF Reaches
  <2> QED BY <1>0, <1>2, <2>1, <2>2, BuiltInReach
<1> QED BY <1>1, <1>2

\* A load that somebody else leaves alone.
LEMMA OtherLoadNamed ==
  ASSUME IInv, Ready, NEW t \in Requests, NamedLoad(t),
         \A p \in Pipes \ NewPipes : of'[p] = of[p],
         Bound(t)' = Bound(t), pc'[t] \in {pc[t], Bound(t)},
         pc'[t] # "idle" =>
           reg'[t].p = reg[t].p /\ reg'[t].op = reg[t].op /\ reg'[t].cue = reg[t].cue,
         pc[t] # "idle" => focus'.p \in {None, focus.p}
  PROVE  NamedLoad(t)'
<1>0. /\ Shape(t) /\ t \in Threads /\ Apart /\ \A p \in Pipes : p # None
  BY PlaybackAssumption DEF PlaybackAssumption, IInv, Threads, Ready
<1>1. ASSUME Bound(t)' \in StartPlaces, reg'[t].op # "play"
      PROVE  reg'[t].p \in Pipes /\ of'[reg'[t].p] = reg'[t].cue /\ focus'.p \in {None, reg'[t].p}
  <2>1. pc'[t] # "idle" /\ pc[t] # "idle" /\ Bound(t) \in StartPlaces
    BY <1>1 DEF Bound, StartPlaces
  <2>2. reg[t].p \in Pipes /\ of[reg[t].p] = reg[t].cue /\ focus.p \in {None, reg[t].p}
    BY <1>1, <2>1 DEF NamedLoad
  <2>3. reg[t].p \notin NewPipes
    <3>1. reg[t].p \in Reaches(t) /\ pc[t] \notin Parking
      BY <1>0, <2>1, <2>2 DEF Reaches, Bound, StartPlaces, Parking
    <3> QED BY <1>0, <3>1, BuiltInReach
  <2> QED BY <1>1, <2>1, <2>2, <2>3
<1>2. Bound(t)' = "tag" => reg'[t].op # "play"
  BY DEF NamedLoad, Bound
<1>3. Bound(t)' \in PlayPlaces => reg'[t].op = "play"
  BY DEF NamedLoad, Bound, PlayPlaces
<1> QED BY <1>1, <1>2, <1>3 DEF NamedLoad

\* A request keeps the names, when it is the only one under way.
LEMMA RequestNamed ==
  ASSUME IInv, Ready, NoVoices, Serial, Named, NEW t \in Requests, Request(t)
  PROVE  Named'
<1>0. /\ TypeOK /\ Order /\ WarmKnown /\ Shape(t) /\ t \in Threads /\ NewPipes' \subseteq NewPipes
      /\ Requests \subseteq Threads /\ Enders \subseteq Threads /\ Requests \cap Enders = {}
      /\ focus \in Clip /\ Apart
  BY RequestStreams, PlaybackAssumption DEF PlaybackAssumption, IInv, Threads, Enders, StreamsKept,
     TypeOK, Ready
<1>1. Alone(t)
  BY <1>0, RequestMoves DEF Moves, Alone
<1>2. \A p \in Pipes \ NewPipes : of'[p] = of[p]
  BY OfStays DEF Next
<1>3. Kept \/ focus'.p = None \/ Install(t) \/ Tag(t)
  BY <1>0, RequestMarks
<1>4. NamedLoad(t)'
  BY OwnLoadNamed DEF Named
<1>5. ASSUME NEW u \in Requests PROVE NamedLoad(u)'
  <2>1. CASE u = t
    BY <1>4, <2>1
  <2>2. CASE u # t
    <3>1. pc'[u] = pc[u] /\ reg'[u] = reg[u] /\ Bound(u)' = Bound(u)
      BY <1>0, <1>1, <2>2 DEF Alone, Bound
    <3>2. pc[u] # "idle" => focus'.p \in {None, focus.p}
      BY <1>3, <2>2 DEF Serial, Kept, Install, Tag
    <3> QED BY <1>2, <3>1, <3>2, OtherLoadNamed DEF Named
  <2> QED BY <2>1, <2>2
<1>6. ASSUME NEW u \in Enders PROVE NamedEnd(u)'
  <2>1. u # t /\ u \in Threads
    BY <1>0
  <2>2. pc'[u] = pc[u] /\ reg'[u] = reg[u] /\ Bound(u)' = Bound(u)
    BY <1>0, <1>1, <2>1 DEF Alone, Bound
  <2>3. Bound(u) \in EndPlaces =>
          pc[u] # "idle" /\ ~(pc[u] = "retire" /\ reg[u].ret = "idle") /\ pc[u] \notin Parking
    BY DEF EndPlaces, Bound, Parking
  <2> QED BY <1>0, <1>2, <2>2, <2>3, NamesStay DEF Named, NamedEnd
<1>7. Told'
  BY <1>0, <1>2, NamesStay, RequestTellsNothing DEF Named, Told
<1>8. NamedFocus'
  <2>1. CASE Kept
    BY <1>0, <1>2, <2>1, BuiltInReach DEF Kept, Named, NamedFocus
  <2>2. CASE Install(t)
    <3>1. focus'.p = reg[t].p /\ focus'.cue = reg[t].cue /\ of' = of /\ pc[t] = "install"
      BY <2>2 DEF Install, NoClip
    <3> QED BY <3>1 DEF Named, BuiltFor, NamedFocus
  <2>3. CASE Tag(t)
    <3>1. /\ pc[t] = "tag" /\ focus' = [focus EXCEPT !.cue = reg[t].cue] /\ of' = of
      BY <2>3 DEF Tag
    <3>2. focus'.p = focus.p /\ focus'.cue = reg[t].cue
      BY <1>0, <3>1 DEF Clip
    <3> QED BY <3>1, <3>2 DEF Named, NamedLoad, NamedFocus, Bound, StartPlaces
  <2> QED BY <1>3, <2>1, <2>2, <2>3 DEF NamedFocus
<1>9. \A u \in Requests : BuiltFor(u)'
  BY BuiltForNext DEF Named, Next
<1> QED BY <1>5, <1>6, <1>7, <1>8, <1>9 DEF Named

\* The end of a clip, as its handler goes on.
LEMMA OwnEndNamed ==
  ASSUME IInv, Ready, NamedFocus, NEW t \in Enders, NamedEnd(t),
         \A p \in Pipes \ NewPipes : of'[p] = of[p],
         End(t) \/ Retire(t) \/ (t = "bus" /\ (FocusError \/ VoiceError))
  PROVE  NamedEnd(t)'
<1>0. /\ TypeOK /\ t \in Threads /\ reg[t] \in Regs /\ Shape(t) /\ Apart /\ focus \in Clip
      /\ \A p \in Pipes : p # None
  BY PlaybackAssumption DEF PlaybackAssumption, IInv, Ready, Threads, Enders, TypeOK
<1>1. ASSUME Bound(t) \in EndPlaces PROVE of'[reg[t].p] = of[reg[t].p]
  <2>1. reg[t].p \in Pipes /\ pc[t] \notin Parking
    BY <1>0, <1>1 DEF Shape, Bound, EndPlaces, Parking
  <2>2. reg[t].p \in Reaches(t)
    BY <1>0, <1>1, <2>1 DEF Reaches, Bound, EndPlaces
  <2> QED BY <1>0, <2>1, <2>2, BuiltInReach
<1>2. ASSUME pc'[t] # "retire", pc'[t] \notin EndPlaces PROVE NamedEnd(t)'
  BY <1>2 DEF NamedEnd, Bound
<1>3. ASSUME NEW l, Bound(t)' = l, l \in EndPlaces => Bound(t) \in EndPlaces,
             reg'[t].p = reg[t].p, reg'[t].cue = reg[t].cue
      PROVE  NamedEnd(t)'
  BY <1>1, <1>3 DEF NamedEnd
<1>4. CASE Retire(t)
  <2>1. CASE reg[t].ret = "idle"
    BY <1>0, <1>2, <1>4, <2>1 DEF Retire, Finish, Goto, TypeOK, EndPlaces
  <2>2. CASE reg[t].ret # "idle"
    <3>1. reg' = [reg EXCEPT ![t].kill = {}]
      BY <1>4, <2>2 DEF Retire
    <3>2. reg'[t].p = reg[t].p /\ reg'[t].cue = reg[t].cue
      BY <1>0, <3>1 DEF TypeOK, Regs
    <3>3. Bound(t)' = Bound(t)
      BY <1>0, <1>4, RetireWays
    <3> QED BY <1>3, <3>2, <3>3
  <2> QED BY <2>1, <2>2
<1>5. CASE FocusEnd(t)
  <2>1. CASE focus.p # reg[t].p
    <3>1. pc'[t] = "focusDone"
      BY <1>0, <1>5, <2>1 DEF FocusEnd, Goto, TypeOK
    <3> QED BY <1>2, <3>1 DEF EndPlaces
  <2>2. CASE focus.p = reg[t].p
    <3>1. reg' = [reg EXCEPT ![t].cue = focus.cue] /\ of' = of /\ pc[t] = "focusEnd"
      BY <1>5, <2>2 DEF FocusEnd
    <3>2. reg'[t].p = reg[t].p /\ reg'[t].cue = focus.cue
      BY <1>0, <3>1 DEF TypeOK, Regs
    <3>3. focus.p # None
      BY <1>0, <2>2, <3>1 DEF Shape
    <3> QED BY <2>2, <3>1, <3>2, <3>3 DEF NamedFocus, NamedEnd
  <2> QED BY <2>1, <2>2
<1>6. CASE LoopFocus(t) \/ LoopMark(t) \/ LoopVoice(t) \/ HoldVoice(t)
  <2>1. pc'[t] \in {"looped", "focusLooped", "voiceKept"}
    BY <1>0, <1>6 DEF LoopFocus, LoopMark, LoopVoice, HoldVoice, Rewind, ChangeState, Goto, TypeOK
  <2> QED BY <1>2, <2>1 DEF EndPlaces
<1>7. CASE LoopedFocus(t)
  <2>1. pc'[t] = "loopMark"
    BY <1>0, <1>7 DEF LoopedFocus, Recheck, Continue, Goto, TypeOK
  <2> QED BY <1>2, <2>1 DEF EndPlaces
<1>8. CASE HoldFocus(t) \/ HeldFocus(t) \/ HoldMark(t)
  <2>1. /\ pc[t] \in EndPlaces /\ pc'[t] \in {"held", "holdMark", "focusDone"} /\ reg' = reg
    BY <1>0, <1>8 DEF HoldFocus, HeldFocus, HoldMark, Recheck, ChangeState, Continue, Goto, TypeOK,
                      EndPlaces
  <2> QED BY <1>3, <2>1 DEF Bound, EndPlaces
<1>9. CASE ClearFocus(t)
  <2>1. PICK ps : RetireThen(t, ps, "cleared") /\ pc[t] = "clear"
    BY <1>9 DEF ClearFocus, ClearIfCurrent
  <2>2. Bound(t)' = "cleared" /\ reg'[t].p = reg[t].p /\ reg'[t].cue = reg[t].cue
    <3>1. CASE ps = {}
      BY <1>0, <2>1, <3>1 DEF RetireThen, Continue, Goto, TypeOK, Bound
    <3>2. CASE ps # {}
      <4>1. /\ pc'[t] = "retire" /\ reg'[t].ret = "cleared"
            /\ reg'[t].p = reg[t].p /\ reg'[t].cue = reg[t].cue
        BY <1>0, <2>1, <3>2 DEF RetireThen, Goto, TypeOK, Regs
      <4> QED BY <4>1 DEF Bound
    <3> QED BY <3>1, <3>2
  <2> QED BY <1>3, <2>1, <2>2 DEF Bound, EndPlaces
<1>10. CASE Cleared(t)
  <2>1. pc'[t] \in {"focusDone", "voiceDone"}
    BY <1>0, <1>10 DEF Cleared, Goto, TypeOK
  <2> QED BY <1>2, <2>1 DEF EndPlaces
<1>11. CASE VoiceEnd(t) \/ EndReturns(t) \/ (t = "bus" /\ (FocusError \/ VoiceError))
  <2>1. CASE EndReturns(t)
    BY <1>0, <1>2, <2>1 DEF EndReturns, Finish, Goto, TypeOK, EndPlaces
  <2>2. CASE VoiceEnd(t)
    <3>1. CASE pc'[t] # "retire"
      BY <1>0, <1>2, <2>2, <3>1 DEF VoiceEnd, Goto, TypeOK, EndPlaces
    <3>2. CASE pc'[t] = "retire"
      <4>1. PICK v \in voices :
              reg' = [reg EXCEPT ![t].cue = v.cue, ![t].kill = {reg[t].p}, ![t].ret = "voiceCleared"]
        BY <1>0, <2>2, <3>2 DEF VoiceEnd, Goto, TypeOK
      <4>2. reg'[t].ret = "voiceCleared"
        BY <1>0, <4>1 DEF TypeOK, Regs
      <4> QED BY <3>2, <4>2 DEF NamedEnd, Bound, EndPlaces
    <3> QED BY <3>1, <3>2
  <2>3. CASE t = "bus" /\ (FocusError \/ VoiceError)
    <3>1. PICK ps : RetireThen(t, ps, "idle")
      BY <2>3 DEF FocusError, VoiceError, ClearIfCurrent
    <3>2. Bound(t)' = "idle"
      <4>1. CASE ps = {}
        BY <1>0, <3>1, <4>1 DEF RetireThen, Continue, Finish, Goto, TypeOK, Bound
      <4>2. CASE ps # {}
        <5>1. pc'[t] = "retire" /\ reg'[t].ret = "idle"
          BY <1>0, <3>1, <4>2 DEF RetireThen, Goto, TypeOK, Regs
        <5> QED BY <5>1 DEF Bound
      <4> QED BY <4>1, <4>2
    <3> QED BY <3>2 DEF NamedEnd, EndPlaces
  <2> QED BY <1>11, <2>1, <2>2, <2>3
<1> QED BY <1>4, <1>5, <1>6, <1>7, <1>8, <1>9, <1>10, <1>11 DEF End

\* What is told, is told under the name the end was read under.
LEMMA EndTells ==
  ASSUME IInv, NEW t \in Enders, Voiceless(t), End(t)
  PROVE  \/ reports' = reports
         \/ /\ pc[t] \in {"holdMark", "cleared"} /\ reg[t].cue # 0
            /\ reports' = reports \cup {<<reg[t].p, reg[t].cue>>}
<1>1. CASE \/ FocusEnd(t) \/ LoopFocus(t) \/ LoopedFocus(t) \/ LoopMark(t) \/ HoldFocus(t)
           \/ HeldFocus(t) \/ ClearFocus(t) \/ VoiceEnd(t) \/ LoopVoice(t) \/ HoldVoice(t)
           \/ EndReturns(t)
  BY <1>1 DEF FocusEnd, LoopFocus, LoopedFocus, LoopMark, HoldFocus, HeldFocus, ClearFocus,
     VoiceEnd, LoopVoice, HoldVoice, EndReturns, Rewind, ChangeState, Recheck, ClearIfCurrent, history
<1>2. CASE HoldMark(t) \/ Cleared(t)
  BY <1>2 DEF HoldMark, Cleared, Report, Voiceless, Bound, VoicePlaces
<1> QED BY <1>1, <1>2 DEF End

\* The ends of clips, the retirements and the streams keep the names.
LEMMA OthersNamed ==
  ASSUME IInv, Ready, NoVoices, Named,
         \/ \E t \in Enders : End(t)
         \/ \E t \in Threads : Retire(t)
         \/ \E p \in Pipes : Stream(p)
         \/ FocusError \/ VoiceError
  PROVE  Named'
<1>0. /\ TypeOK /\ Order /\ NewPipes' \subseteq NewPipes /\ \A t \in Threads : Shape(t) /\ Voiceless(t)
      /\ Enders \subseteq Threads /\ Requests \subseteq Threads /\ "bus" \in Enders
      /\ Requests \cap Enders = {}
  BY OthersStreams, PlaybackAssumption DEF PlaybackAssumption, IInv, Threads, Enders, StreamsKept,
     NoVoices
<1>1. \A p \in Pipes \ NewPipes : of'[p] = of[p]
  BY OfStays DEF Next
<1>2. (Kept /\ focus'.cue = focus.cue) \/ focus'.p = None
  BY <1>0, OthersMark
<1>3. NamedFocus'
  BY <1>1, <1>2, BuiltInReach DEF Kept, Named, NamedFocus, Ready
<1>4. ASSUME NEW u \in Requests PROVE BuiltFor(u)' /\ NamedLoad(u)'
  <2>1. /\ Bound(u)' = Bound(u) /\ pc'[u] \in {pc[u], Bound(u)}
        /\ pc'[u] # "idle" =>
             reg'[u].p = reg[u].p /\ reg'[u].op = reg[u].op /\ reg'[u].cue = reg[u].cue
    BY <1>4, OthersBound
  <2>2. focus'.p \in {None, focus.p}
    BY <1>2 DEF Kept
  <2>3. NamedLoad(u) /\ \A v \in Requests : BuiltFor(v)
    BY DEF Named
  <2>4. BuiltFor(u)'
    BY <2>3, BuiltForNext DEF Next
  <2> QED BY <1>1, <2>1, <2>2, <2>3, <2>4, OtherLoadNamed
<1>5. ASSUME NEW u \in Enders, pc'[u] = pc[u], reg'[u] = reg[u] PROVE NamedEnd(u)'
  <2>1. Bound(u)' = Bound(u)
    BY <1>5 DEF Bound
  <2>2. Bound(u) \in EndPlaces =>
          pc[u] # "idle" /\ ~(pc[u] = "retire" /\ reg[u].ret = "idle") /\ pc[u] \notin Parking
    BY DEF EndPlaces, Bound, Parking
  <2> QED BY <1>0, <1>1, <1>5, <2>1, <2>2, NamesStay DEF Named, NamedEnd
<1>6. ASSUME NEW t \in Threads, Alone(t), t \in Enders => NamedEnd(t)'
      PROVE  \A u \in Enders : NamedEnd(u)'
  <2> TAKE u \in Enders
  <2>1. CASE u = t
    BY <1>6, <2>1
  <2>2. CASE u # t
    BY <1>0, <1>5, <1>6, <2>2 DEF Alone
  <2> QED BY <2>1, <2>2
<1>7. reports' = reports => Told'
  BY <1>0, <1>1, NamesStay DEF Named, Told
<1>8. ASSUME NEW t \in Enders, End(t) PROVE Named'
  <2>1. \A u \in Enders : NamedEnd(u)'
    BY <1>0, <1>1, <1>6, <1>8, OwnEndNamed, EndMoves DEF Named, Moves, Alone
  <2>2. Told'
    <3>1. CASE reports' = reports
      BY <1>7, <3>1
    <3>2. CASE /\ pc[t] \in {"holdMark", "cleared"} /\ reg[t].cue # 0
               /\ reports' = reports \cup {<<reg[t].p, reg[t].cue>>}
      <4>1. reg[t].cue = of[reg[t].p]
        BY <3>2 DEF Named, NamedEnd, Bound, EndPlaces
      <4>2. of'[reg[t].p] = of[reg[t].p] /\ reg[t].p \notin NewPipes'
        BY <1>0, <1>1, <3>2, NamesStay DEF Named, Parking
      <4>3. \A r \in reports : r[1] \notin NewPipes' /\ r[2] = of'[r[1]]
        BY <1>0, <1>1, NamesStay DEF Named
      <4> QED BY <3>2, <4>1, <4>2, <4>3 DEF Told
    <3> QED BY <1>0, <1>8, <3>1, <3>2, EndTells
  <2> QED BY <1>3, <1>4, <2>1, <2>2 DEF Named
<1>9. CASE FocusError \/ VoiceError
  <2>1. \A u \in Enders : NamedEnd(u)'
    BY <1>0, <1>1, <1>6, <1>9, OwnEndNamed, EndMoves DEF Named, Moves, Alone
  <2>2. reports' = reports
    BY <1>9 DEF FocusError, VoiceError, ClearIfCurrent, history
  <2> QED BY <1>3, <1>4, <1>7, <2>1, <2>2 DEF Named
<1>10. ASSUME NEW t \in Threads, Retire(t) PROVE Named'
  <2>1. Alone(t)
    BY <1>0, <1>10, RetireMoves DEF Moves, Alone
  <2>2. \A u \in Enders : NamedEnd(u)'
    BY <1>0, <1>1, <1>6, <1>10, <2>1, OwnEndNamed DEF Named
  <2>3. Told'
    BY <1>7, <1>10 DEF Retire, history
  <2> QED BY <1>3, <1>4, <2>2, <2>3 DEF Named
<1>11. ASSUME NEW p \in Pipes, Stream(p) PROVE Named'
  <2>1. reports' = reports
    BY <1>11 DEF Stream, ReachOut, ReachEnd, BusEOS, BusError, TrimHits, FadeRegisters, FadeLeaves,
       FadeRetires, history
  <2>2. CASE UNCHANGED <<pc, reg>>
    BY <1>3, <1>4, <1>5, <1>7, <2>1, <2>2 DEF Named
  <2>3. ASSUME NEW t \in Enders, Alone(t), pc'[t] \in {"focusEnd", "voiceEnd", "focusError", "voiceError"}
        PROVE  Named'
    <3>1. NamedEnd(t)'
      BY <2>3 DEF NamedEnd, Bound, EndPlaces
    <3>2. \A u \in Enders : NamedEnd(u)'
      BY <1>0, <1>6, <2>3, <3>1
    <3> QED BY <1>3, <1>4, <1>7, <2>1, <3>2 DEF Named
  <2> QED BY <1>0, <1>11, <2>2, <2>3, StreamWays
<1> QED BY <1>8, <1>9, <1>10, <1>11

\* Nothing is named and nothing was told.
LEMMA RestedNamed == ASSUME Rested PROVE Named
<1>1. NamedFocus /\ Told
  BY NoClipTyped DEF Rested, NamedFocus, Told
<1>2. ASSUME NEW t \in Threads PROVE BuiltFor(t) /\ NamedLoad(t) /\ NamedEnd(t)
  BY DEF Rested, BuiltFor, NamedLoad, NamedEnd, Bound, StartPlaces, PlayPlaces, EndPlaces
<1> QED BY <1>1, <1>2 DEF Named, Threads

\* Every step keeps it.
LEMMA NamedNext ==
  ASSUME Serial, IInv, Ready, NoVoices, Named, [Next]_vars
  PROVE  Named'
<1>1. CASE Next
  BY <1>1, RequestNamed, OthersNamed DEF Next
<1>2. CASE UNCHANGED vars
  BY <1>2 DEF vars, clipState, streams, history, Named, NamedFocus, Told, BuiltFor,
              NamedLoad, NamedEnd, Bound, NewPipes
<1> QED BY <1>1, <1>2

\* An end is told under the position of the cue the pipeline was loaded for, where
\* one clip runs at a time and calls do not overlap: the position is read when the
\* end is handled and told after the teardown, and a load that tags "the active
\* clip" (SetCuePos) finds its own or none.
THEOREM EndsAreNamed == ASSUME Flat PROVE Spec /\ []Serial => []TagMatches
<1> DEFINE Inv == IInv /\ Ready /\ NoVoices /\ Named
<1>1. Init => Inv
  BY InitIInv, InitRests, RestedReady, RestedFlat, RestedNamed
<1>2. Serial /\ Inv /\ [Next]_vars => Inv'
  <2> SUFFICES ASSUME Serial, Inv, [Next]_vars PROVE Inv'
    OBVIOUS
  <2>1. Named'
    BY NamedNext
  <2>2. CASE Next
    BY <2>1, <2>2, NextIInv, NextReady, FlatNext
  <2>3. CASE UNCHANGED vars
    BY <2>1, <2>3, StutterIInv, StutterReady, StutterVoiceless
  <2> QED BY <2>2, <2>3
<1>3. Inv => TagMatches
  BY DEF Named, Told, TagMatches
<1> QED BY <1>1, <1>2, <1>3, PTL DEF Spec

-----------------------------------------------------------------------------
(* Out-points and who polls them: OutPointKept.                              *)

\* Out-points are polled for pipelines built with one, ...
Polled == \A p \in Pipes : trim[p] > 0 => p \notin NewPipes /\ of[p] \in Trim

\* ... and so are the ends the poll handles.
PollTrims == Bound("trim") # "idle" => of[reg["trim"].p] \in Trim

\* Only the end of a start adds a poll.
LEMMA RequestPolls ==
  ASSUME TypeOK, NEW t \in Requests, Shape(t), Request(t)
  PROVE  trim' = trim \/ Started(t)
<1>1. CASE pc[t] = "running" /\ ~Started(t)
  <2>1. StartFails(t)
    BY <1>1, StartSteps DEF StartPlaces, Wire, Install, AddWatch, Start, Preroll, Commit, Run, Tag,
       ChangeState
  <2> QED BY <2>1 DEF StartFails, ClearIfCurrent, watchers
<1> QED BY <1>1, RequestSets

\* Only the poll gives itself up, and only its own moves change what it is about.
LEMMA EndUnpolls ==
  ASSUME TypeOK, NEW t \in Threads, (t \in Enders /\ End(t)) \/ Retire(t)
  PROVE  /\ pc[t] # "idle"
         /\ Finish(t) \/ reg'[t].p = reg[t].p
         /\ \/ trim' = trim
            \/ /\ t = "trim" /\ pc[t] \in {"focusDone", "voiceDone"}
               /\ trim' = [trim EXCEPT ![reg[t].p] = @ - 1]
<1>0. reg[t] \in Regs
  BY DEF TypeOK
<1>t. ASSUME NEW ps, NEW l, RetireThen(t, ps, l) PROVE Finish(t) \/ reg'[t].p = reg[t].p
  <2>1. CASE ps = {}
    BY <1>t, <2>1 DEF RetireThen, Continue
  <2>2. CASE ps # {}
    BY <1>0, <1>t, <2>2 DEF RetireThen, TypeOK, Regs
  <2> QED BY <2>1, <2>2
<1>1. CASE \/ LoopFocus(t) \/ LoopedFocus(t) \/ LoopMark(t) \/ HoldFocus(t) \/ HeldFocus(t)
           \/ HoldMark(t) \/ Cleared(t) \/ LoopVoice(t) \/ HoldVoice(t) \/ EndReturns(t)
  BY <1>1 DEF LoopFocus, LoopedFocus, LoopMark, HoldFocus, HeldFocus, HoldMark, Cleared, LoopVoice,
     HoldVoice, EndReturns, Rewind, ChangeState, Recheck, Continue, watchers
<1>2. CASE FocusEnd(t)
  <2>1. reg' = reg \/ reg' = [reg EXCEPT ![t].cue = focus.cue]
    BY <1>2 DEF FocusEnd
  <2> QED BY <1>0, <1>2, <2>1 DEF FocusEnd, watchers, TypeOK, Regs
<1>3. CASE ClearFocus(t)
  BY <1>3, <1>t DEF ClearFocus, ClearIfCurrent, watchers
<1>4. CASE VoiceEnd(t)
  <2>1. CASE UNCHANGED reg
    BY <1>4, <2>1 DEF VoiceEnd, watchers
  <2>2. ASSUME NEW v, reg' = [reg EXCEPT ![t].cue = v.cue, ![t].kill = {reg[t].p}, ![t].ret = "voiceCleared"]
        PROVE  reg'[t].p = reg[t].p
    BY <1>0, <2>2 DEF TypeOK, Regs
  <2> QED BY <1>4, <2>1, <2>2 DEF VoiceEnd, watchers
<1>5. CASE Retire(t)
  <2>1. CASE Finish(t)
    BY <1>5, <2>1 DEF Retire
  <2>2. CASE ~Finish(t)
    <3>1. reg' = [reg EXCEPT ![t].kill = {}]
      BY <1>5, <2>2 DEF Retire
    <3> QED BY <1>0, <1>5, <3>1 DEF Retire, TypeOK, Regs
  <2> QED BY <2>1, <2>2
<1> QED BY <1>1, <1>2, <1>3, <1>4, <1>5 DEF End

\* So of all that is not a request.
LEMMA OthersPolls ==
  ASSUME TypeOK,
         \/ \E t \in Enders : End(t)
         \/ \E t \in Threads : Retire(t)
         \/ \E p \in Pipes : Stream(p)
         \/ FocusError \/ VoiceError
  PROVE  \/ trim' = trim
         \/ /\ pc["trim"] \in {"focusDone", "voiceDone"}
            /\ trim' = [trim EXCEPT ![reg["trim"].p] = @ - 1]
<1>1. FocusError \/ VoiceError => trim' = trim
  BY DEF FocusError, VoiceError, ClearIfCurrent, watchers
<1>2. Enders \subseteq Threads
  BY DEF Threads
<1> QED BY <1>1, <1>2, EndUnpolls, StreamSets

\* What the poll is about was built, and stays what it was built for.
LEMMA PollBuilt ==
  ASSUME IInv, Apart, Next, Bound("trim") # "idle"
  PROVE  of'[reg["trim"].p] = of[reg["trim"].p] /\ reg["trim"].p \in Pipes
<1>1. "trim" \in Threads /\ "trim" \in Enders /\ Shape("trim") /\ \A p \in Pipes : p # None
  BY PlaybackAssumption DEF PlaybackAssumption, IInv, Threads, Enders
<1>2. reg["trim"].p \in Pipes
  BY <1>1 DEF Shape, Bound
<1>3. reg["trim"].p \notin NewPipes
  <2>1. CASE pc["trim"] \in Parking
    BY <1>1, <2>1, BuiltInReach DEF Parking, Claiming
  <2>2. CASE pc["trim"] \notin Parking
    <3>1. reg["trim"].p \in Reaches("trim")
      BY <1>1, <1>2 DEF Reaches, Bound
    <3> QED BY <1>1, <2>2, <3>1, BuiltInReach
  <2> QED BY <2>1, <2>2
<1> QED BY <1>2, <1>3, OfStays

\* A poll is added for what runs, and that was built with an out-point.
LEMMA PolledNext ==
  ASSUME IInv, Ready, Polled, Next
  PROVE  Polled'
<1>0. TypeOK /\ NewPipes' \subseteq NewPipes /\ \A t \in Requests : t \in Threads /\ Shape(t)
  BY RequestStreams, OthersStreams DEF IInv, Threads, StreamsKept, Next
<1>1. \A p \in Pipes \ NewPipes : of'[p] = of[p]
  BY OfStays
<1>2. ASSUME NEW t \in Requests, Request(t), NEW p \in Pipes, trim'[p] > 0
      PROVE  trim[p] > 0 \/ (Running(p) /\ of[p] \in Trim)
  <2>1. CASE Started(t)
    <3>1. trim' = trim \/ (/\ Running(reg[t].p) /\ of[reg[t].p] \in Trim
                          /\ trim' = [trim EXCEPT ![reg[t].p] = @ + 1])
      BY <2>1 DEF Started
    <3> QED BY <1>0, <1>2, <3>1 DEF TypeOK
  <2> QED BY <1>0, <1>2, <2>1, RequestPolls
<1>3. \A p \in Pipes : Running(p) => p \notin NewPipes
  BY DEF IInv, Owned, Running, RunPipes
<1>4. ASSUME \/ \E t \in Enders : End(t)
             \/ \E t \in Threads : Retire(t)
             \/ \E p \in Pipes : Stream(p)
             \/ FocusError \/ VoiceError,
             NEW p \in Pipes, trim'[p] > 0
      PROVE  trim[p] > 0
  BY <1>0, <1>4, OthersPolls DEF TypeOK
<1> QED BY <1>0, <1>1, <1>2, <1>3, <1>4 DEF Polled, Next

\* A poll takes up only what is polled.
LEMMA PollTrimsNext ==
  ASSUME IInv, Ready, Polled, PollTrims, Next
  PROVE  PollTrims'
<1>0. /\ TypeOK /\ Order /\ WarmKnown /\ Apart /\ \A t \in Threads : Shape(t)
      /\ "trim" \in Threads /\ "trim" \in Enders /\ "bus" \in Enders /\ "trim" \notin Requests
      /\ Enders \subseteq Threads /\ Requests \subseteq Threads
  BY PlaybackAssumption DEF PlaybackAssumption, IInv, Threads, Enders, Ready
<1>1. ASSUME NEW t \in Threads, t # "trim", Alone(t) PROVE PollTrims'
  BY <1>0, <1>1, PollBuilt DEF Alone, PollTrims, Bound
<1>2. ASSUME NEW t \in Requests, Request(t) PROVE PollTrims'
  BY <1>0, <1>1, <1>2, RequestMoves DEF Moves, Alone
<1>3. CASE FocusError \/ VoiceError
  BY <1>0, <1>1, <1>3, EndMoves DEF Moves, Alone
<1>4. ASSUME NEW t \in Threads, (t \in Enders /\ End(t)) \/ Retire(t) PROVE PollTrims'
  <2>1. CASE t # "trim"
    BY <1>0, <1>1, <1>4, <2>1, EndMoves, RetireMoves DEF Moves, Alone
  <2>2. CASE t = "trim"
    <3>1. Bound(t) = "idle" => pc[t] = "retire" /\ Finish(t)
      BY <1>0, <1>4, EndUnpolls DEF Bound, End, FocusEnd, LoopFocus, LoopedFocus, LoopMark,
         HoldFocus, HeldFocus, HoldMark, ClearFocus, Cleared, VoiceEnd, LoopVoice, HoldVoice,
         EndReturns, Rewind, ChangeState, Recheck, Retire
    <3>2. Finish(t) => Bound(t)' = "idle"
      BY <1>0 DEF Finish, Goto, TypeOK, Bound
    <3> QED BY <1>0, <1>4, <2>2, <3>1, <3>2, EndUnpolls, PollBuilt DEF PollTrims
  <2> QED BY <2>1, <2>2
<1>5. ASSUME NEW p \in Pipes, Stream(p) PROVE PollTrims'
  <2>1. CASE TrimHits(p)
    <3>1. Handle("trim", p, "focusEnd", "voiceEnd") /\ of' = of /\ trim[p] > 0
      BY <2>1 DEF TrimHits
    <3>2. reg'["trim"].p = p
      BY <1>0, <3>1 DEF Handle, TypeOK, Regs
    <3> QED BY <3>1, <3>2 DEF Polled, PollTrims
  <2>2. CASE ~TrimHits(p)
    <3>1. UNCHANGED <<pc, reg>> \/ \E l, m : Handle("bus", p, l, m)
      BY <1>5, <2>2 DEF Stream, ReachOut, ReachEnd, BusEOS, BusError, FadeRegisters, FadeLeaves,
         FadeRetires
    <3>2. pc'["trim"] = pc["trim"] /\ reg'["trim"] = reg["trim"]
      BY <1>0, <3>1 DEF Handle, Goto, TypeOK
    <3> QED BY <1>0, <3>2, PollBuilt DEF PollTrims, Bound
  <2> QED BY <2>1, <2>2
<1> QED BY <1>0, <1>2, <1>3, <1>4, <1>5 DEF Next

-----------------------------------------------------------------------------
\* The poll that handles an end never holds the clip, and is done with one only
\* when the clip is gone, ...
Poll ==
  /\ Bound("trim") \notin {"hold", "held", "holdMark"}
  /\ Bound("trim") \in {"cleared", "focusDone"} => focus.p # reg["trim"].p

\* ... and the clip is polled, or on its way there: its start is not superseded.
PollPlaces == StartPlaces \ {"tag"}

\* A start of the focus that nobody has superseded ends with a poll.
Starts(t) ==
  /\ Bound(t) \in PollPlaces /\ reg[t].p = focus.p
  /\ pc[t] \in {"preroll", "commit"} => reg[t].gen = gen

\* The focus is polled, or such a start is on its way.
Followed ==
  focus.p # None /\ of[focus.p] \in Trim => trim[focus.p] > 0 \/ \E t \in Requests : Starts(t)

\* The invariant behind the out-points.
OutPoints == Polled /\ PollTrims /\ Poll /\ Followed

\* No request undoes what the poll has decided about the clip.
LEMMA RequestPoll ==
  ASSUME IInv, NoVoices, FreshUnused, Poll, NEW t \in Requests, Request(t)
  PROVE  Poll'
<1>0. /\ TypeOK /\ Order /\ WarmKnown /\ Shape(t) /\ Shape("trim") /\ t \in Threads
      /\ "trim" \in Threads /\ "trim" \in Enders /\ t # "trim" /\ focus \in Clip
      /\ \A p \in Pipes : p # None
  BY PlaybackAssumption DEF PlaybackAssumption, IInv, Threads, Enders, TypeOK
<1>1. pc'["trim"] = pc["trim"] /\ reg'["trim"] = reg["trim"] /\ Bound("trim")' = Bound("trim")
  BY <1>0, RequestMoves DEF Moves, Bound
<1> SUFFICES ASSUME Bound("trim") \in {"cleared", "focusDone"} PROVE focus'.p # reg["trim"].p
  BY <1>1 DEF Poll
<1>2. reg["trim"].p \in Pipes /\ reg["trim"].p \in Reaches("trim")
  BY <1>0 DEF Shape, Bound, Reaches
<1>3. CASE Install(t)
  <2>1. focus'.p = reg[t].p /\ pc[t] = "install"
    BY <1>3 DEF Install, NoClip
  <2>2. reg[t].p \in FreshPipes
    BY <2>1 DEF FreshPipes, Claims, Claiming
  <2>3. reg[t].p \notin Reaches("trim")
    BY <1>0, <2>2 DEF FreshUnused, Unused
  <2> QED BY <1>2, <2>1, <2>3
<1>4. CASE focus'.p \in {focus.p, None}
  BY <1>0, <1>2, <1>4 DEF Poll
<1>5. Tag(t) => focus'.p = focus.p
  BY <1>0 DEF Tag, Clip
<1> QED BY <1>0, <1>3, <1>4, <1>5, RequestMarks DEF Kept

\* A request that supersedes a start of the focus leaves it polled or loads another.
LEMMA RequestFollowed ==
  ASSUME IInv, Ready, NoVoices, Serial, Followed, NEW t \in Requests, Request(t)
  PROVE  Followed'
<1>0. /\ TypeOK /\ Order /\ WarmKnown /\ Shape(t) /\ t \in Threads /\ reg[t] \in Regs
      /\ Requests \subseteq Threads /\ focus \in Clip /\ Apart
  BY DEF IInv, Threads, TypeOK, Ready
<1>1. Alone(t)
  BY <1>0, RequestMoves DEF Moves, Alone
<1>2. CASE Install(t)
  <2>1. PICK ps : RetireThen(t, ps, "watch")
    BY <1>2 DEF Install
  <2>2. pc'[t] \in {"watch", "retire"} /\ Bound(t)' = "watch" /\ reg'[t].p = reg[t].p
    <3>1. CASE ps = {}
      BY <1>0, <2>1, <3>1 DEF RetireThen, Continue, Goto, TypeOK, Bound
    <3>2. CASE ps # {}
      <4>1. pc'[t] = "retire" /\ reg'[t].ret = "watch" /\ reg'[t].p = reg[t].p
        BY <1>0, <2>1, <3>2 DEF RetireThen, Goto, TypeOK, Regs
      <4> QED BY <4>1 DEF Bound
    <3> QED BY <3>1, <3>2
  <2>3. focus'.p = reg[t].p
    BY <1>2 DEF Install, NoClip
  <2>4. Starts(t)'
    BY <2>2, <2>3 DEF Starts, PollPlaces, StartPlaces
  <2> QED BY <2>4 DEF Followed
<1>3. CASE ~Install(t)
  <2> SUFFICES ASSUME focus'.p # None, of'[focus'.p] \in Trim
               PROVE  trim'[focus'.p] > 0 \/ \E u \in Requests : Starts(u)'
    BY DEF Followed
  <2>1. focus'.p = focus.p /\ (gen' = gen \/ pc[t] # "idle")
    BY <1>0, <1>3, RequestMarks DEF Kept, Tag, Clip
  <2>2. focus.p \in Pipes \ NewPipes /\ of'[focus.p] = of[focus.p]
    BY <1>0, <2>1, BuiltInReach, OfStays DEF Next
  <2>3. CASE trim[focus.p] > 0
    <3>1. CASE trim' = trim
      BY <2>1, <2>3, <3>1
    <3>2. CASE Started(t)
      <4>1. trim' = trim \/ trim' = [trim EXCEPT ![reg[t].p] = @ + 1]
        BY <3>2 DEF Started
      <4> QED BY <1>0, <2>1, <2>2, <2>3, <4>1 DEF TypeOK
    <3> QED BY <1>0, <3>1, <3>2, RequestPolls
  <2>4. ASSUME NEW u \in Requests, Starts(u)
        PROVE  trim'[focus'.p] > 0 \/ Starts(u)'
    <3>0. pc[u] # "idle"
      BY <2>4 DEF Starts, PollPlaces, StartPlaces, Bound
    <3>1. CASE u # t
      <4>1. gen' = gen
        BY <2>1, <3>0, <3>1 DEF Serial
      <4> QED BY <1>0, <1>1, <2>1, <2>4, <3>1, <4>1 DEF Alone, Starts, Bound
    <3>2. CASE u = t
      <4>0. pc[t] \in PollPlaces \cup {"retire"} /\ reg[t].p = focus.p /\ focus.p # None
        BY <2>1, <2>4, <3>2 DEF Starts, Bound
      <4>1. \/ AddWatch(t) \/ Start(t) \/ Preroll(t) \/ Commit(t)
            \/ StartFails(t) \/ Run(t) \/ Started(t)
        BY <1>3, <4>0, StartSteps DEF PollPlaces, StartPlaces, Wire, Tag
      <4>2. CASE AddWatch(t) \/ Preroll(t) \/ Run(t)
        <5>1. /\ pc'[t] \in {"start", "commit", "running"} /\ (pc'[t] = "commit" => pc[t] = "preroll")
              /\ reg' = reg /\ gen' = gen
          BY <1>0, <4>2 DEF AddWatch, Preroll, Run, ChangeState, Goto, TypeOK, counters
        <5> QED BY <2>1, <2>4, <3>2, <4>0, <5>1 DEF Starts, Bound, PollPlaces, StartPlaces
      <4>3. CASE Start(t)
        <5>1. Goto(t, "preroll") /\ reg' = [reg EXCEPT ![t].gen = gen] /\ gen' = gen
          BY <4>0, <4>3 DEF Start, counters
        <5>2. pc'[t] = "preroll" /\ reg'[t].gen = gen /\ reg'[t].p = reg[t].p
          BY <1>0, <5>1 DEF Goto, TypeOK, Regs
        <5> QED BY <2>1, <3>2, <4>0, <5>1, <5>2 DEF Starts, Bound, PollPlaces, StartPlaces
      <4>4. CASE Commit(t)
        <5>1. reg[t].gen = gen
          BY <2>4, <3>2, <4>4 DEF Starts, Commit
        <5>2. Goto(t, "run") /\ reg' = reg
          BY <4>0, <4>4, <5>1 DEF Commit, StartCurrent
        <5>3. pc'[t] = "run"
          BY <1>0, <5>2 DEF Goto, TypeOK
        <5> QED BY <2>1, <3>2, <4>0, <5>2, <5>3 DEF Starts, Bound, PollPlaces, StartPlaces
      <4>5. CASE StartFails(t)
        <5>1. focus' = Newest(voices)
          BY <4>0, <4>5 DEF StartFails, ClearIfCurrent
        <5> QED BY <2>1, <4>0, <5>1, NoClipTyped DEF Newest, NoVoices
      <4>6. CASE Started(t)
        <5>1. Running(reg[t].p)
          BY <4>0 DEF Running, Clips
        <5>2. trim' = [trim EXCEPT ![reg[t].p] = @ + 1]
          BY <2>1, <2>2, <4>0, <4>6, <5>1 DEF Started
        <5> QED BY <1>0, <2>1, <2>2, <4>0, <5>2 DEF TypeOK
      <4> QED BY <4>1, <4>2, <4>3, <4>4, <4>5, <4>6
    <3> QED BY <3>1, <3>2
  <2> QED BY <2>1, <2>2, <2>3, <2>4 DEF Followed
<1> QED BY <1>2, <1>3

\* Only the poll itself gives a poll up, and then of a clip that is gone.
LEMMA OthersFollowed ==
  ASSUME IInv, Ready, NoVoices, Poll, Followed,
         \/ \E t \in Enders : End(t)
         \/ \E t \in Threads : Retire(t)
         \/ \E p \in Pipes : Stream(p)
         \/ FocusError \/ VoiceError
  PROVE  Followed'
<1>0. TypeOK /\ Requests \subseteq Threads /\ \A t \in Threads : Shape(t)
  BY DEF IInv, Threads
<1> SUFFICES ASSUME focus'.p # None, of'[focus'.p] \in Trim
             PROVE  trim'[focus'.p] > 0 \/ \E t \in Requests : Starts(t)'
  BY DEF Followed
<1>1. focus'.p = focus.p /\ gen' = gen
  BY <1>0, OthersMark DEF Kept
<1>2. focus.p \in Pipes /\ of'[focus.p] = of[focus.p]
  BY <1>1, BuiltInReach, OfStays DEF Next, Ready
<1>3. CASE trim[focus.p] > 0
  <2>1. pc["trim"] = "focusDone" => reg["trim"].p # focus.p
    BY DEF Poll, Bound
  <2>2. pc["trim"] # "voiceDone"
    BY DEF NoVoices, Voiceless, Bound, VoicePlaces, Threads, Enders
  <2> QED BY <1>0, <1>1, <1>2, <1>3, <2>1, <2>2, OthersPolls DEF TypeOK
<1>4. ASSUME NEW u \in Requests, Starts(u) PROVE Starts(u)'
  <2>1. /\ Bound(u)' = Bound(u) /\ pc'[u] \in {pc[u], Bound(u)}
        /\ pc'[u] # "idle" => reg'[u].p = reg[u].p /\ reg'[u].gen = reg[u].gen
    BY OthersBound
  <2>2. Bound(u) \in PollPlaces /\ reg[u].p = focus.p
    BY <1>4 DEF Starts
  <2>3. pc'[u] # "idle"
    BY <2>1, <2>2 DEF Bound, PollPlaces, StartPlaces
  <2>4. pc'[u] \in {"preroll", "commit"} => pc[u] = pc'[u]
    BY <1>0, <2>1 DEF Bound, Shape, Returns
  <2> QED BY <1>1, <1>4, <2>1, <2>2, <2>3, <2>4 DEF Starts
<1> QED BY <1>1, <1>2, <1>3, <1>4 DEF Followed

\* The poll's own steps.
LEMMA OwnPoll ==
  ASSUME Trim \cap Hold = {}, IInv, NoVoices, PollTrims, Poll,
         End("trim") \/ Retire("trim")
  PROVE  Poll'
<1> DEFINE t == "trim"
           q == reg[t].p
<1>0. /\ TypeOK /\ t \in Threads /\ t \in Enders /\ reg[t] \in Regs /\ Shape(t)
      /\ focus \in Clip /\ Voiceless(t) /\ \A p \in Pipes : p # None
  BY PlaybackAssumption DEF PlaybackAssumption, IInv, Threads, Enders, TypeOK, NoVoices
<1>1. focus'.p \in {focus.p, None}
  BY <1>0, OthersMark DEF Kept
<1>2. ASSUME pc[t] # "idle" PROVE q \in Pipes
  BY <1>0, <1>2 DEF Shape
<1>3. ASSUME Bound(t)' = "idle" PROVE Poll'
  BY <1>3 DEF Poll
<1>4. ASSUME reg'[t].p = q,
             Bound(t)' \notin {"hold", "held", "holdMark"},
             Bound(t)' \in {"cleared", "focusDone"} => focus'.p # q
      PROVE  Poll'
  BY <1>4 DEF Poll
<1> HIDE DEF t
<1>5. CASE Retire(t)
  <2>1. CASE reg[t].ret = "idle"
    BY <1>0, <1>3, <1>5, <2>1 DEF Retire, Finish, Goto, TypeOK, Bound
  <2>2. CASE reg[t].ret # "idle"
    <3>1. reg' = [reg EXCEPT ![t].kill = {}] /\ pc[t] = "retire"
      BY <1>5, <2>2 DEF Retire
    <3>2. reg'[t].p = q
      BY <1>0, <3>1 DEF TypeOK, Regs
    <3>3. Bound(t)' = Bound(t)
      BY <1>0, <1>5, RetireWays
    <3>4. Bound(t) \in {"cleared", "focusDone"} => focus'.p # q
      BY <1>0, <1>1, <1>2, <3>1 DEF Poll, t
    <3> QED BY <1>4, <3>2, <3>3, <3>4 DEF Poll, t
  <2> QED BY <2>1, <2>2
<1>6. CASE FocusEnd(t)
  <2>0. pc[t] = "focusEnd" /\ of[q] \in Trim /\ focus'.p = focus.p
    BY <1>0, <1>6 DEF FocusEnd, Bound, PollTrims, Clip, t
  <2>1. CASE focus.p # q
    <3>1. pc'[t] = "focusDone" /\ reg' = reg
      BY <1>0, <1>6, <2>1 DEF FocusEnd, Goto, TypeOK
    <3> QED BY <1>4, <2>0, <2>1, <3>1 DEF Bound
  <2>2. CASE focus.p = q
    <3>1. reg' = [reg EXCEPT ![t].cue = focus.cue] /\ of[q] \notin Hold
      BY <1>6, <2>0, <2>2 DEF FocusEnd
    <3>2. reg'[t].p = q /\ pc'[t] \in {"loop", "clear"}
      BY <1>0, <1>6, <2>2, <3>1 DEF FocusEnd, Goto, TypeOK, Regs
    <3> QED BY <1>4, <2>0, <3>2 DEF Bound
  <2> QED BY <2>1, <2>2
<1>7. CASE LoopFocus(t) \/ LoopMark(t) \/ LoopedFocus(t)
  <2>1. /\ pc[t] \in {"loop", "loopMark", "looped"} /\ pc'[t] \in {"looped", "focusLooped", "loopMark"}
        /\ reg' = reg
    BY <1>0, <1>7 DEF LoopFocus, LoopMark, LoopedFocus, Rewind, Recheck, Continue, Goto, TypeOK
  <2> QED BY <1>4, <2>1 DEF Bound
<1>8. ~(HoldFocus(t) \/ HeldFocus(t) \/ HoldMark(t))
  BY DEF Poll, Bound, HoldFocus, HeldFocus, HoldMark, ChangeState, Recheck, t
<1>9. CASE ClearFocus(t)
  <2>1. PICK ps : RetireThen(t, ps, "cleared") /\ pc[t] = "clear"
    BY <1>9 DEF ClearFocus, ClearIfCurrent
  <2>2. Bound(t)' = "cleared" /\ reg'[t].p = q
    <3>1. CASE ps = {}
      BY <1>0, <2>1, <3>1 DEF RetireThen, Continue, Goto, TypeOK, Bound
    <3>2. CASE ps # {}
      <4>1. pc'[t] = "retire" /\ reg'[t].ret = "cleared" /\ reg'[t].p = q
        BY <1>0, <2>1, <3>2 DEF RetireThen, Goto, TypeOK, Regs
      <4> QED BY <4>1 DEF Bound
    <3> QED BY <3>1, <3>2
  <2>3. focus'.p # q
    <3>1. CASE focus.p = q
      <4>1. focus' = Newest(voices)
        BY <1>9, <3>1 DEF ClearFocus, ClearIfCurrent
      <4> QED BY <1>0, <1>2, <2>1, <4>1, NoClipTyped DEF Newest, NoVoices
    <3>2. CASE focus.p # q
      BY <1>0, <1>1, <1>2, <2>1, <3>2
    <3> QED BY <3>1, <3>2
  <2> QED BY <1>4, <2>2, <2>3
<1>10. CASE Cleared(t)
  <2>1. pc[t] = "cleared" /\ pc'[t] = "focusDone" /\ reg' = reg
    BY <1>0, <1>10 DEF Cleared, Goto, TypeOK, Voiceless, Bound, VoicePlaces
  <2>2. focus'.p # q
    BY <1>0, <1>1, <1>2, <2>1 DEF Poll, Bound, t
  <2> QED BY <1>4, <2>1, <2>2 DEF Bound
<1>11. ~(VoiceEnd(t) \/ LoopVoice(t) \/ HoldVoice(t))
  BY <1>0 DEF VoiceEnd, LoopVoice, HoldVoice, Rewind, ChangeState, Voiceless, Bound, VoicePlaces
<1>12. CASE EndReturns(t)
  BY <1>0, <1>3, <1>12 DEF EndReturns, Finish, Goto, TypeOK, Bound
<1> QED BY <1>5, <1>6, <1>7, <1>8, <1>9, <1>10, <1>11, <1>12 DEF End, t

\* Nobody else undoes what the poll has decided.
LEMMA OthersKeepPoll ==
  ASSUME Trim \cap Hold = {}, IInv, NoVoices, PollTrims, Poll,
         \/ \E t \in Enders : End(t)
         \/ \E t \in Threads : Retire(t)
         \/ \E p \in Pipes : Stream(p)
         \/ FocusError \/ VoiceError
  PROVE  Poll'
<1>0. /\ TypeOK /\ Order /\ \A t \in Threads : Shape(t)
      /\ "trim" \in Enders /\ "bus" \in Enders /\ Enders \subseteq Threads
      /\ \A p \in Pipes : p # None
  BY PlaybackAssumption DEF PlaybackAssumption, IInv, Threads, Enders
<1>1. focus'.p \in {focus.p, None}
  BY <1>0, OthersMark DEF Kept
<1>2. ASSUME pc'["trim"] = pc["trim"], reg'["trim"] = reg["trim"] PROVE Poll'
  <2>1. Bound("trim") \in {"cleared", "focusDone"} => reg["trim"].p \in Pipes
    BY <1>0 DEF Shape, Bound
  <2> QED BY <1>0, <1>1, <1>2, <2>1 DEF Poll, Bound
<1>3. ASSUME NEW t \in Threads, Alone(t), t = "trim" => Poll' PROVE Poll'
  BY <1>0, <1>2, <1>3 DEF Alone
<1>4. ASSUME NEW t \in Enders, End(t) PROVE Poll'
  <2>1. Alone(t)
    BY <1>0, <1>4, EndMoves DEF Moves, Alone
  <2> QED BY <1>0, <1>3, <1>4, <2>1, OwnPoll
<1>5. CASE FocusError \/ VoiceError
  <2>1. Alone("bus")
    BY <1>0, <1>5, EndMoves DEF Moves, Alone
  <2> QED BY <1>0, <1>3, <2>1
<1>6. ASSUME NEW t \in Threads, Retire(t) PROVE Poll'
  <2>1. Alone(t)
    BY <1>0, <1>6, RetireMoves DEF Moves, Alone
  <2> QED BY <1>0, <1>3, <1>6, <2>1, OwnPoll
<1>7. ASSUME NEW p \in Pipes, Stream(p) PROVE Poll'
  <2>1. CASE TrimHits(p)
    <3>1. pc'["trim"] \in {"focusEnd", "voiceEnd"}
      BY <1>0, <2>1 DEF TrimHits, Handle, Goto, TypeOK
    <3> QED BY <3>1 DEF Poll, Bound
  <2>2. CASE BusEOS(p) \/ BusError(p)
    <3>1. CASE UNCHANGED <<pc, reg>>
      BY <1>2, <3>1
    <3>2. CASE Handle("bus", p, "focusEnd", "voiceEnd") \/ Handle("bus", p, "focusError", "voiceError")
      <4>1. pc'["trim"] = pc["trim"] /\ reg'["trim"] = reg["trim"]
        BY <1>0, <3>2 DEF Handle, Goto, TypeOK
      <4> QED BY <1>2, <4>1
    <3> QED BY <2>2, <3>1, <3>2 DEF BusEOS, BusError
  <2>3. CASE ReachOut(p) \/ ReachEnd(p) \/ FadeRegisters(p) \/ FadeLeaves(p) \/ FadeRetires(p)
    BY <1>2, <2>3 DEF ReachOut, ReachEnd, FadeRegisters, FadeLeaves, FadeRetires
  <2> QED BY <1>7, <2>1, <2>2, <2>3 DEF Stream
<1> QED BY <1>4, <1>5, <1>6, <1>7

\* At rest nothing is polled.
LEMMA RestedOutPoints == ASSUME Rested PROVE OutPoints
<1>1. Polled
  BY DEF Rested, Polled
<1>2. PollTrims /\ Poll /\ Followed
  BY NoClipTyped DEF Rested, PollTrims, Poll, Bound, Followed, Threads, Enders
<1> QED BY <1>1, <1>2 DEF OutPoints

\* Every step keeps the out-points.
LEMMA OutPointsNext ==
  ASSUME Trim \cap Hold = {}, Serial, IInv, Ready, NoVoices, FreshUnused, OutPoints, [Next]_vars
  PROVE  OutPoints'
<1> USE DEF OutPoints
<1>1. CASE Next
  <2>0. Polled' /\ PollTrims'
    BY <1>1, PolledNext, PollTrimsNext
  <2>1. ASSUME NEW t \in Requests, Request(t) PROVE OutPoints'
    BY <2>0, <2>1, RequestPoll, RequestFollowed
  <2>2. ASSUME \/ \E t \in Enders : End(t)
               \/ \E t \in Threads : Retire(t)
               \/ \E p \in Pipes : Stream(p)
               \/ FocusError \/ VoiceError
        PROVE  OutPoints'
    BY <2>0, <2>2, OthersKeepPoll, OthersFollowed
  <2> QED BY <1>1, <2>1, <2>2 DEF Next
<1>2. CASE UNCHANGED vars
  BY <1>2 DEF vars, clipState, counters, streams, watchers, Polled, PollTrims, Poll, Followed,
              Starts, Bound, NewPipes
<1> QED BY <1>1, <1>2

\* Once all calls returned no start is on its way.
LEMMA OutPointsFollowed ==
  ASSUME NoVoices, OutPoints
  PROVE  OutPointKept
<1> SUFFICES ASSUME Quiet, focus.p # None, of[focus.p] \in Trim
             PROVE  trim[focus.p] > 0
  BY DEF OutPointKept, Clips, NoVoices
<1>1. \A t \in Requests : ~Starts(t)
  BY DEF Quiet, Threads, Starts, Bound, PollPlaces, StartPlaces
<1> QED BY <1>1 DEF OutPoints, Followed

\* A clip that plays with an out-point has somebody who polls it, so it ends there,
\* where one clip runs at a time, calls do not overlap and no cue with an out-point
\* holds its last frame (such a clip gives its poll up and stays): through loads,
\* restarts, loops and ends (watchTrim).
THEOREM OutPointsArePolled ==
  ASSUME Flat, Trim \cap Hold = {} PROVE Spec /\ []Serial => []OutPointKept
<1> DEFINE Inv == IInv /\ Attended /\ OutPoints
<1>1. Init => Inv
  BY InitIInv, InitRests, RestedAttended, RestedOutPoints
<1>2. Serial /\ Inv /\ [Next]_vars => Inv'
  BY AttendedNext, OutPointsNext DEF Attended
<1>3. Inv => OutPointKept
  BY OutPointsFollowed DEF Attended
<1> QED BY <1>1, <1>2, <1>3, PTL DEF Spec

-----------------------------------------------------------------------------
(* Loops and their counts: LoopsEnd.                                         *)

\* The passes that are left stay with their clips.
Remains == \A k \in Clips' : \E c \in Clips : k.p = c.p /\ k.remain = c.remain

\* So where a clip is only marked and voices only leave ...
LEMMA RemainsMarked ==
  ASSUME focus'.p = focus.p, focus'.remain = focus.remain, voices' \subseteq voices
  PROVE  Remains
<1>1. ASSUME NEW k \in Clips' PROVE \E c \in Clips : k.p = c.p /\ k.remain = c.remain
  <2>1. CASE k \in voices'
    BY <2>1 DEF Clips
  <2>2. CASE k = focus' /\ focus'.p # None
    BY <2>2 DEF Clips
  <2> QED BY <1>1, <2>1, <2>2 DEF Clips
<1> QED BY <1>1 DEF Remains

\* ... and where a voice takes the focus over ...
LEMMA RemainsPromoted ==
  ASSUME TypeOK, Order, Promotes
  PROVE  Remains
<1>1. voices # {} => focus' \in voices
  BY PromotedRuns
<1>2. voices = {} => focus'.p = None
  BY PromotedRuns, NoClipTyped
<1> QED BY <1>1, <1>2 DEF Promotes, Remains, Clips

\* ... which is all clearIfCurrent does.
LEMMA ClearRemains ==
  ASSUME TypeOK, Order, NEW t, NEW p \in Pipes, NEW l, ClearIfCurrent(t, p, l)
  PROVE  Remains /\ p \notin RunPipes'
<1>0. p # None /\ \A v \in voices : v.p # None /\ v.p # focus.p
  BY PlaybackAssumption DEF PlaybackAssumption, Order
<1>1. CASE focus.p = p
  <2>1. Promotes
    BY <1>1 DEF ClearIfCurrent, Promotes
  <2>2. (voices # {} => focus' \in voices) /\ (voices = {} => focus'.p = None)
    BY <2>1, PromotedRuns, NoClipTyped
  <2>3. p \notin RunPipes'
    BY <1>0, <1>1, <2>1, <2>2 DEF Promotes, RunPipes, Clips
  <2> QED BY <2>1, <2>3, RemainsPromoted
<1>2. CASE focus.p # p
  <2>1. focus' = focus /\ voices' = {v \in voices : v.p # p}
    BY <1>2 DEF ClearIfCurrent
  <2>2. p \notin RunPipes'
    BY <1>2, <2>1 DEF RunPipes, Clips
  <2> QED BY <2>1, <2>2, RemainsMarked
<1> QED BY <1>1, <1>2

\* A request changes no count, unless it loads.
LEMMA RequestRemains ==
  ASSUME TypeOK, Order, NEW t \in Requests, Request(t)
  PROVE  Remains \/ Install(t)
<1> USE DEF clipState
<1>0. focus \in Clip /\ voices \in SUBSET Clip /\ loads \in Nat
  BY DEF TypeOK
<1>1. CASE \/ \E c \in Cues : Fire(t, c) \/ Warm(t, c)
           \/ Wire(t) \/ Cold(t) \/ Build(t) \/ AddWatch(t) \/ Preroll(t) \/ Run(t)
           \/ Started(t) \/ Play(t) \/ PlayRead(t) \/ PlayHow(t) \/ Resume(t) \/ Resumed(t)
  BY <1>1, RemainsMarked DEF Fire, Warm, Wire, Cold, Build, AddWatch, Preroll, Run, Started, Play,
     PlayRead, PlayHow, Resume, Resumed, ChangeState, Recheck
<1>2. CASE \/ SetVoices(t) \/ Pause(t) \/ PauseFocus(t) \/ PausedFocus(t) \/ Toggle(t)
           \/ ToggleState(t) \/ Toggled(t) \/ Halt(t, "stop") \/ Halt(t, "panic") \/ Cut(t)
           \/ FadeTick(t) \/ StopRead(t) \/ StopNull(t) \/ Park(t) \/ FillSlot(t)
  BY <1>2, RemainsMarked DEF SetVoices, Pause, PauseFocus, PausedFocus, Toggle, ToggleState,
     Toggled, Halt, Cut, FadeTick, StopRead, StopNull, Park, FillSlot, ChangeState, Recheck
<1>3. CASE \/ Start(t) \/ Tag(t) \/ PlayIntent(t) \/ PauseMark(t) \/ ToggleMark(t)
           \/ FadeAndStop(t) \/ StopClear(t)
  <2>1. focus'.p = focus.p /\ focus'.remain = focus.remain /\ voices' = voices
    BY <1>0, <1>3 DEF Start, Tag, PlayIntent, PauseMark, ToggleMark, FadeAndStop, StopClear, Clip
  <2> QED BY <2>1, RemainsMarked
<1>4. CASE Commit(t)
  <2>1. CASE UNCHANGED clipState
    BY <2>1, RemainsMarked
  <2>2. CASE ~UNCHANGED clipState
    <3> DEFINE Readied(k) == IF k.p = reg[t].p THEN [k EXCEPT !.starting = FALSE] ELSE k
    <3>1. focus' = Readied(focus) /\ voices' = {Readied(v) : v \in voices}
      BY <1>4, <2>2 DEF Commit
    <3>2. \A k \in Clip : Readied(k).p = k.p /\ Readied(k).remain = k.remain
      BY DEF Clip
    <3> HIDE DEF Readied
    <3>3. ASSUME NEW k \in voices' PROVE \E c \in voices : k.p = c.p /\ k.remain = c.remain
      BY <1>0, <3>1, <3>2
    <3>4. focus'.p = focus.p /\ focus'.remain = focus.remain
      BY <1>0, <3>1, <3>2
    <3> QED BY <3>3, <3>4 DEF Remains, Clips
  <2> QED BY <2>1, <2>2
<1>5. CASE ResumeVoices(t) \/ PauseVoices(t)
  <2>1. PICK vs \in SUBSET voices, b \in BOOLEAN :
          voices' = (voices \ vs) \cup {[v EXCEPT !.paused = b] : v \in vs}
    <3>1. CASE ResumeVoices(t)
      BY <3>1 DEF ResumeVoices
    <3>2. CASE PauseVoices(t)
      BY <3>2 DEF PauseVoices
    <3> QED BY <1>5, <3>1, <3>2
  <2>2. \A v \in Clip : [v EXCEPT !.paused = b].p = v.p /\ [v EXCEPT !.paused = b].remain = v.remain
    BY DEF Clip
  <2>3. ASSUME NEW k \in voices' PROVE \E c \in voices : k.p = c.p /\ k.remain = c.remain
    BY <1>0, <2>1, <2>2
  <2>4. focus' = focus
    BY <1>5 DEF ResumeVoices, PauseVoices
  <2> QED BY <2>3, <2>4 DEF Remains, Clips
<1>6. CASE StopVoices(t)
  BY <1>6, RemainsMarked DEF StopVoices
<1>7. ASSUME NEW p, NEW l, ClearIfCurrent(t, p, l) PROVE Remains
  <2>1. Promotes \/ (focus' = focus /\ voices' \subseteq voices)
    BY <1>7 DEF ClearIfCurrent, Promotes
  <2> QED BY <2>1, RemainsPromoted, RemainsMarked
<1>8. CASE StartFails(t) \/ Faded(t)
  BY <1>7, <1>8 DEF StartFails, Faded
<1>9. CASE \E c \in Cues : StopCue(t, c)
  <2>1. Promotes \/ (focus' = focus /\ voices' \subseteq voices)
    BY <1>9 DEF StopCue, Promotes
  <2> QED BY <2>1, RemainsPromoted, RemainsMarked
<1>10. CASE PanicNow(t)
  <2>1. voices' = voices /\ (focus' = NoClip \/ focus' = [focus EXCEPT !.cue = 0, !.starting = FALSE])
    BY <1>10 DEF PanicNow
  <2>2. CASE focus' = NoClip
    BY <2>1, <2>2, NoClipTyped DEF Remains, Clips
  <2>3. CASE focus' = [focus EXCEPT !.cue = 0, !.starting = FALSE]
    <3>1. focus'.p = focus.p /\ focus'.remain = focus.remain
      BY <1>0, <2>3 DEF Clip
    <3> QED BY <2>1, <3>1, RemainsMarked
  <2> QED BY <2>1, <2>2, <2>3
<1> QED BY <1>1, <1>2, <1>3, <1>4, <1>5, <1>6, <1>8, <1>9, <1>10 DEF Request

\* An end handler counts a pass once, when it decides; nothing after that does.
LEMMA EndRemains ==
  ASSUME TypeOK, Order, NEW t \in Enders, End(t)
  PROVE  Remains \/ FocusEnd(t) \/ VoiceEnd(t)
<1> USE DEF clipState
<1>0. focus \in Clip
  BY DEF TypeOK
<1>1. CASE LoopMark(t) \/ HoldMark(t)
  <2>1. focus'.p = focus.p /\ focus'.remain = focus.remain /\ voices' = voices
    BY <1>0, <1>1 DEF LoopMark, HoldMark, Clip
  <2> QED BY <2>1, RemainsMarked
<1>2. CASE ClearFocus(t)
  <2>1. Promotes \/ (focus' = focus /\ voices' \subseteq voices)
    BY <1>2 DEF ClearFocus, ClearIfCurrent, Promotes
  <2> QED BY <2>1, RemainsPromoted, RemainsMarked
<1>3. CASE \/ LoopFocus(t) \/ LoopedFocus(t) \/ HoldFocus(t) \/ HeldFocus(t) \/ Cleared(t)
           \/ LoopVoice(t) \/ HoldVoice(t) \/ EndReturns(t)
  BY <1>3, RemainsMarked DEF LoopFocus, LoopedFocus, HoldFocus, HeldFocus, Cleared, LoopVoice,
     HoldVoice, EndReturns, Rewind, ChangeState, Recheck
<1> QED BY <1>1, <1>2, <1>3 DEF End

\* Nothing else counts passes.
LEMMA OthersRemain ==
  ASSUME TypeOK, Order,
         \/ \E t \in Threads : Retire(t)
         \/ \E p \in Pipes : Stream(p)
         \/ FocusError \/ VoiceError
  PROVE  Remains
<1> USE DEF clipState
<1>1. CASE FocusError
  <2>1. Promotes \/ (focus' = focus /\ voices' \subseteq voices)
    BY <1>1 DEF FocusError, ClearIfCurrent, Promotes
  <2> QED BY <2>1, RemainsPromoted, RemainsMarked
<1>2. CASE VoiceError
  BY <1>2, RemainsMarked DEF VoiceError
<1>3. CASE (\E p \in Pipes : Stream(p)) \/ \E t \in Threads : Retire(t)
  BY <1>3, RemainsMarked DEF Stream, ReachOut, ReachEnd, BusEOS, BusError, TrimHits, FadeRegisters,
     FadeLeaves, FadeRetires, Retire
<1> QED BY <1>1, <1>2, <1>3

\* A clip that loops has run out of passes only when its count is "for ever", or on its
\* last pass, which the main loop is about to clear.
Spent ==
  \A c \in Clips : of[c.p] \in Loop /\ c.remain = 0 =>
    Count[of[c.p]] = 0 \/ (pc["bus"] = "clear" /\ reg["bus"].p = c.p)

\* What the main loop is about to clear stays so until it is gone.
ClearsOn ==
  pc["bus"] = "clear" =>
    \/ pc'["bus"] = "clear" /\ reg'["bus"].p = reg["bus"].p
    \/ reg["bus"].p \notin RunPipes'

\* The pipelines that run were built.
LEMMA ClipsBuilt ==
  ASSUME IInv
  PROVE  \A c \in Clips : c.p \in Pipes \ NewPipes
  BY DEF IInv, TypeOK, Order, Owned, RunPipes, Clips, Clip, AnyPipe

\* A step that changes no count keeps this.
LEMMA SpentStays ==
  ASSUME IInv, Next, Spent, Remains, ClearsOn
  PROVE  Spent'
<1> SUFFICES ASSUME NEW k \in Clips', of'[k.p] \in Loop, k.remain = 0
             PROVE  Count[of'[k.p]] = 0 \/ (pc'["bus"] = "clear" /\ reg'["bus"].p = k.p)
  BY DEF Spent
<1>1. PICK c \in Clips : k.p = c.p /\ k.remain = c.remain
  BY DEF Remains
<1>2. of'[c.p] = of[c.p]
  BY ClipsBuilt, OfStays
<1>3. k.p \in RunPipes'
  BY DEF RunPipes
<1> QED BY <1>1, <1>2, <1>3 DEF Spent, ClearsOn

\* A load starts with all its passes.
LEMMA InstallSpent ==
  ASSUME IInv, Next, NEW t \in Requests, BuiltFor(t), Spent, Install(t),
         pc'["bus"] = pc["bus"], reg'["bus"] = reg["bus"]
  PROVE  Spent'
<1>1. /\ focus'.p = reg[t].p /\ focus'.remain = Count[reg[t].cue] /\ of' = of
      /\ voices' = Clips \/ voices' = {}
  BY DEF Install, NoClip
<1>2. of[reg[t].p] = reg[t].cue
  BY DEF Install, BuiltFor
<1> QED BY <1>1, <1>2 DEF Spent, Clips

\* The end of the focus takes a pass, and clears the clip after the last.
LEMMA FocusEndSpent ==
  ASSUME Loop \cap Hold = {}, IInv, Spent, FocusEnd("bus")
  PROVE  Spent'
<1> DEFINE p == reg["bus"].p
<1>0. /\ TypeOK /\ "bus" \in Threads /\ focus \in Clip /\ reg["bus"] \in Regs
      /\ pc["bus"] = "focusEnd" /\ voices' = voices /\ of' = of
  BY DEF IInv, TypeOK, Threads, Enders, FocusEnd
<1>1. \A c \in Clips : of[c.p] \in Loop /\ c.remain = 0 => Count[of[c.p]] = 0
  BY <1>0 DEF Spent
<1>2. CASE focus' = focus
  BY <1>0, <1>1, <1>2 DEF Spent, Clips
<1>3. CASE focus' # focus
  <2>1. /\ focus.p = p /\ of[p] \in Loop /\ focus' = [focus EXCEPT !.remain = PassesLeft(@)]
        /\ reg' = [reg EXCEPT !["bus"].cue = focus.cue]
        /\ Goto("bus", IF Restarts(focus.remain) THEN "loop"
                       ELSE IF of[p] \in Hold THEN "hold" ELSE "clear")
    BY <1>3 DEF FocusEnd
  <2>2. focus'.p = p /\ focus'.remain = PassesLeft(focus.remain) /\ focus.remain \in Nat
    BY <1>0, <2>1 DEF Clip
  <2>3. reg'["bus"].p = p
    BY <1>0, <2>1 DEF TypeOK, Regs
  <2>4. CASE Restarts(focus.remain)
    <3>1. focus'.remain = 0 => focus.remain = 0
      BY <2>2, <2>4 DEF Restarts, PassesLeft
    <3> QED BY <1>0, <1>1, <2>1, <2>2, <3>1 DEF Spent, Clips
  <2>5. CASE ~Restarts(focus.remain)
    <3>1. pc'["bus"] = "clear"
      BY <1>0, <2>1, <2>5 DEF Goto, TypeOK
    <3> QED BY <1>0, <1>1, <2>2, <2>3, <3>1 DEF Spent, Clips
  <2> QED BY <2>4, <2>5
<1> QED BY <1>2, <1>3

\* The end of a voice takes a pass, and takes the voice after the last.
LEMMA VoiceEndSpent ==
  ASSUME Loop \cap Hold = {}, IInv, Spent, VoiceEnd("bus")
  PROVE  Spent'
<1> DEFINE p == reg["bus"].p
           c == of[p]
           vs == {v \in voices : v.p = p}
           Passed(v) == IF c \in Loop THEN [v EXCEPT !.remain = PassesLeft(@)] ELSE v
           Held(v) == [Passed(v) EXCEPT !.paused = TRUE, !.held = TRUE]
<1>0. /\ TypeOK /\ Order /\ voices \in SUBSET Clip
      /\ pc["bus"] = "voiceEnd" /\ focus' = focus /\ of' = of
  BY DEF IInv, TypeOK, VoiceEnd
<1>1. \A k \in Clips : of[k.p] \in Loop /\ k.remain = 0 => Count[of[k.p]] = 0
  BY <1>0 DEF Spent
<1>2. CASE voices' \subseteq voices
  BY <1>0, <1>1, <1>2 DEF Spent, Clips
<1>3. CASE /\ c \in Loop /\ \E v \in vs : Restarts(v.remain)
           /\ voices' = (voices \ vs) \cup {Passed(v) : v \in vs}
  <2>1. \A v \in vs : Restarts(v.remain)
    BY <1>0, <1>3 DEF Order
  <2>2. \A v \in Clip : Passed(v).p = v.p /\ (Restarts(v.remain) /\ Passed(v).remain = 0 => v.remain = 0)
    BY <1>3 DEF Clip, Restarts, PassesLeft
  <2> HIDE DEF Passed
  <2>3. \A k \in voices' : \E v \in voices : k.p = v.p /\ (k.remain = 0 => v.remain = 0)
    BY <1>0, <1>3, <2>1, <2>2
  <2> QED BY <1>0, <1>1, <2>3 DEF Spent, Clips
<1>4. CASE c \in Hold /\ voices' = (voices \ vs) \cup {Held(v) : v \in vs}
  <2>1. \A v \in Clip : Held(v).p = v.p /\ Held(v).remain = v.remain
    BY <1>4 DEF Clip
  <2> HIDE DEF Held
  <2>2. \A k \in voices' : \E v \in voices : k.p = v.p /\ k.remain = v.remain
    BY <1>0, <1>4, <2>1
  <2> QED BY <1>0, <1>1, <2>2 DEF Spent, Clips
<1> QED BY <1>2, <1>3, <1>4 DEF VoiceEnd

\* The poll handles no clip that loops.
LEMMA PollRemains ==
  ASSUME Loop \cap Trim = {}, IInv, PollTrims, FocusEnd("trim") \/ VoiceEnd("trim")
  PROVE  Remains
<1> DEFINE p == reg["trim"].p
           c == of[p]
           vs == {v \in voices : v.p = p}
           Passed(v) == IF c \in Loop THEN [v EXCEPT !.remain = PassesLeft(@)] ELSE v
           Held(v) == [Passed(v) EXCEPT !.paused = TRUE, !.held = TRUE]
<1>0. focus \in Clip /\ voices \in SUBSET Clip
  BY DEF IInv, TypeOK
<1>1. c \notin Loop
  BY DEF PollTrims, Bound, FocusEnd, VoiceEnd
<1>2. CASE FocusEnd("trim")
  <2>1. focus' = focus /\ voices' = voices
    BY <1>1, <1>2 DEF FocusEnd
  <2> QED BY <2>1, RemainsMarked
<1>3. CASE VoiceEnd("trim") /\ voices' \subseteq voices
  <2>1. focus' = focus
    BY <1>3 DEF VoiceEnd
  <2> QED BY <1>3, <2>1, RemainsMarked
<1>4. CASE VoiceEnd("trim") /\ voices' = (voices \ vs) \cup {Held(v) : v \in vs}
  <2>1. \A v \in Clip : Held(v).p = v.p /\ Held(v).remain = v.remain
    BY <1>1 DEF Clip
  <2> HIDE DEF Held
  <2>2. \A k \in voices' : \E v \in voices : k.p = v.p /\ k.remain = v.remain
    BY <1>0, <1>4, <2>1
  <2>3. focus' = focus
    BY <1>4 DEF VoiceEnd
  <2> QED BY <2>2, <2>3 DEF Remains, Clips
<1> QED BY <1>1, <1>2, <1>3, <1>4 DEF VoiceEnd

\* Every step keeps the counts.
LEMMA SpentNext ==
  ASSUME Loop \cap Hold = {}, Loop \cap Trim = {}, IInv, Ready, PollTrims, Spent, Next,
         \A t \in Requests : BuiltFor(t)
  PROVE  Spent'
<1>0. /\ TypeOK /\ Order /\ WarmKnown /\ \A t \in Threads : Shape(t)
      /\ "trim" \in Enders /\ "bus" \in Enders /\ Enders \subseteq Threads
      /\ Requests \subseteq Threads /\ "bus" \notin Requests
  BY PlaybackAssumption DEF PlaybackAssumption, IInv, Threads, Enders
<1>1. ASSUME NEW t \in Requests, Request(t) PROVE Spent'
  <2>1. pc'["bus"] = pc["bus"] /\ reg'["bus"] = reg["bus"]
    BY <1>0, <1>1, RequestMoves DEF Moves
  <2>2. CASE Install(t)
    BY <2>1, <2>2, InstallSpent
  <2>3. CASE Remains
    BY <2>1, <2>3, SpentStays DEF ClearsOn
  <2> QED BY <1>0, <1>1, <2>2, <2>3, RequestRemains
<1>2. ASSUME NEW t \in Enders, End(t) PROVE Spent'
  <2>1. Alone(t) /\ (t = "bus" \/ t = "trim")
    BY <1>0, <1>2, EndMoves DEF Moves, Alone, Enders
  <2>2. CASE t = "bus" /\ (FocusEnd(t) \/ VoiceEnd(t))
    BY <2>2, FocusEndSpent, VoiceEndSpent
  <2>3. CASE t = "trim" /\ (FocusEnd(t) \/ VoiceEnd(t))
    BY <1>0, <2>1, <2>3, PollRemains, SpentStays DEF ClearsOn, Alone
  <2>4. CASE t = "trim" /\ Remains
    BY <1>0, <2>1, <2>4, SpentStays DEF ClearsOn, Alone
  <2>5. CASE t = "bus" /\ pc[t] # "clear" /\ Remains
    BY <2>5, SpentStays DEF ClearsOn
  <2>6. CASE t = "bus" /\ pc[t] = "clear"
    <3>1. ClearIfCurrent("bus", reg["bus"].p, "cleared")
      BY <1>2, <2>6 DEF End, FocusEnd, LoopFocus, LoopedFocus, LoopMark, HoldFocus, HeldFocus,
         HoldMark, ClearFocus, Cleared, VoiceEnd, LoopVoice, HoldVoice, EndReturns, Rewind,
         ChangeState, Recheck
    <3>2. reg["bus"].p \in Pipes
      BY <1>0, <2>6 DEF Shape
    <3> QED BY <1>0, <3>1, <3>2, ClearRemains, SpentStays DEF ClearsOn
  <2>7. Remains \/ FocusEnd(t) \/ VoiceEnd(t)
    BY <1>0, <1>2, EndRemains
  <2> QED BY <2>1, <2>2, <2>3, <2>4, <2>5, <2>6, <2>7
<1>3. ASSUME \/ \E t \in Threads : Retire(t)
             \/ \E p \in Pipes : Stream(p)
             \/ FocusError \/ VoiceError
      PROVE  Spent'
  <2>1. pc["bus"] = "clear" => pc'["bus"] = "clear" /\ reg'["bus"].p = reg["bus"].p
    <3>1. CASE FocusError \/ VoiceError
      BY <3>1 DEF FocusError, VoiceError
    <3>2. ASSUME NEW t \in Threads, Retire(t)
          PROVE  pc["bus"] = "clear" => pc'["bus"] = "clear" /\ reg'["bus"].p = reg["bus"].p
      BY <1>0, <3>2, RetireMoves DEF Moves, Retire
    <3>3. ASSUME NEW p \in Pipes, Stream(p)
          PROVE  pc["bus"] = "clear" => pc'["bus"] = "clear" /\ reg'["bus"].p = reg["bus"].p
      BY <1>0, <3>3 DEF Stream, ReachOut, ReachEnd, BusEOS, BusError, TrimHits, FadeRegisters,
         FadeLeaves, FadeRetires, Handle, Goto, TypeOK
    <3> QED BY <1>3, <3>1, <3>2, <3>3
  <2>2. Remains
    BY <1>0, <1>3, OthersRemain
  <2> QED BY <2>1, <2>2, SpentStays DEF ClearsOn
<1> QED BY <1>1, <1>2, <1>3 DEF Next

\* At rest there is nothing to count.
LEMMA RestedSpent ==
  ASSUME Rested
  PROVE  Polled /\ PollTrims /\ Spent /\ \A t \in Requests : BuiltFor(t)
  BY NoClipTyped DEF Rested, Polled, PollTrims, Bound, Spent, Clips, BuiltFor, Threads, Enders

\* The invariant behind the count of passes.
Counted == Ready /\ Polled /\ PollTrims /\ Spent /\ \A t \in Requests : BuiltFor(t)

\* Every step keeps it.
LEMMA CountedNext ==
  ASSUME Loop \cap Hold = {}, Loop \cap Trim = {}, IInv, Counted, [Next]_vars
  PROVE  IInv' /\ Counted'
<1>1. CASE Next
  BY <1>1, NextIInv, NextReady, PolledNext, PollTrimsNext, BuiltForNext, SpentNext DEF Counted
<1>2. CASE UNCHANGED vars
  <2>1. IInv' /\ Ready'
    BY <1>2, StutterIInv, StutterReady DEF Counted
  <2>2. Spent' /\ Polled' /\ PollTrims' /\ \A t \in Requests : BuiltFor(t)'
    BY <1>2 DEF vars, clipState, streams, watchers, Counted, Polled, PollTrims, Spent, Bound,
       NewPipes, BuiltFor, Clips
  <2> QED BY <2>1, <2>2 DEF Counted
<1> QED BY <1>1, <1>2

\* Only its own end handler sends a clip round again, one that loops and has a pass left.
LEMMA RoundsLoop ==
  ASSUME IInv, NEW t \in Enders, pc[t] \in {"focusEnd", "voiceEnd"},
         pc'[t] \in {"loop", "voiceLoop"}, Next
  PROVE  of[reg[t].p] \in Loop /\ \E c \in Clips : c.p = reg[t].p /\ Restarts(c.remain)
<1>0. /\ TypeOK /\ Order /\ WarmKnown /\ \A u \in Threads : Shape(u)
      /\ "trim" \in Enders /\ "bus" \in Enders /\ Enders \subseteq Threads
      /\ Requests \cap Enders = {} /\ Requests \subseteq Threads
  BY PlaybackAssumption DEF PlaybackAssumption, IInv, Threads, Enders, TypeOK
<1>1. pc'[t] # pc[t]
  OBVIOUS
<1>2. End(t)
  <2>1. ASSUME NEW u \in Requests, Request(u) PROVE FALSE
    BY <1>0, <1>1, <2>1, RequestMoves DEF Moves
  <2>2. ASSUME NEW u \in Enders, End(u) PROVE u = t
    BY <1>0, <1>1, <2>2, EndMoves DEF Moves
  <2>3. ASSUME NEW u \in Threads, Retire(u) PROVE FALSE
    BY <1>0, <1>1, <2>3, RetireMoves DEF Moves, Retire
  <2>4. ASSUME NEW p \in Pipes, Stream(p) PROVE FALSE
    BY <1>0, <2>4 DEF Stream, ReachOut, ReachEnd, BusEOS, BusError, TrimHits, FadeRegisters,
       FadeLeaves, FadeRetires, Handle, Goto, TypeOK
  <2>5. ~(FocusError \/ VoiceError)
    <3>1. ASSUME FocusError \/ VoiceError PROVE FALSE
      <4>1. t # "bus"
        BY <3>1 DEF FocusError, VoiceError
      <4> QED BY <1>0, <1>1, <3>1, <4>1, EndMoves DEF Moves
    <3> QED BY <3>1
  <2> QED BY <2>1, <2>2, <2>3, <2>4, <2>5 DEF Next
<1>3. FocusEnd(t) \/ VoiceEnd(t)
  BY <1>2 DEF End, LoopFocus, LoopedFocus, LoopMark, HoldFocus, HeldFocus, HoldMark, ClearFocus,
     Cleared, LoopVoice, HoldVoice, EndReturns, Rewind, ChangeState, Recheck
<1>4. CASE FocusEnd(t)
  <2>1. reg[t].p \in Pipes /\ reg[t].p # None
    BY <1>0, PlaybackAssumption DEF Shape, PlaybackAssumption
  <2>2. focus.p = reg[t].p /\ of[reg[t].p] \in Loop /\ Restarts(focus.remain)
    BY <1>0, <1>4 DEF FocusEnd, Goto, TypeOK
  <2> QED BY <2>1, <2>2 DEF Clips
<1>5. CASE VoiceEnd(t)
  BY <1>0, <1>5 DEF VoiceEnd, Goto, TypeOK, Clips
<1> QED BY <1>3, <1>4, <1>5

\* The main loop finds a pass left, or a count that never ends; the poll has no such clip.
LEMMA CountedRounds ==
  ASSUME Loop \cap Trim = {}, IInv, Counted, [Next]_vars
  PROVE  RoundsCounted
<1> SUFFICES ASSUME NEW t \in Enders, pc[t] \in {"focusEnd", "voiceEnd"},
                    pc'[t] \in {"loop", "voiceLoop"}
             PROVE  Count[of[reg[t].p]] = 0 \/ \E c \in Clips : c.p = reg[t].p /\ c.remain > 0
  BY DEF RoundsCounted
<1>1. Next /\ \A c \in Clips : c.remain \in Nat
  BY DEF vars, IInv, TypeOK, Clips, Clip
<1>2. of[reg[t].p] \in Loop /\ \E c \in Clips : c.p = reg[t].p /\ Restarts(c.remain)
  BY <1>1, RoundsLoop
<1>3. t = "bus"
  BY <1>2 DEF Enders, Counted, PollTrims, Bound
<1> QED BY <1>1, <1>2, <1>3 DEF Counted, Spent

\* A loop with a count plays its passes and no more, however the end handlers, GO, Stop
\* and Panic interleave (loopSteps): where no cue that loops has an out-point, whose poll
\* would count the same end twice, or holds its last frame, from which a Play sets it
\* going again with no pass left to count.
THEOREM LoopsAreCounted ==
  ASSUME Loop \cap Hold = {}, Loop \cap Trim = {} PROVE Spec => LoopsEnd
<1>1. Init => IInv /\ Counted
  BY InitIInv, InitRests, RestedReady, RestedSpent DEF Counted
<1>2. IInv /\ Counted /\ [Next]_vars => (IInv /\ Counted)'
  BY CountedNext
<1>3. IInv /\ Counted /\ [Next]_vars => [RoundsCounted]_vars
  BY CountedRounds
<1> QED BY <1>1, <1>2, <1>3, PTL DEF Spec, LoopsEnd
=============================================================================
