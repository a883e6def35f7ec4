----------------------------- MODULE Slideshow ------------------------------
(***************************************************************************)
(* A slideshow group (routes/groups.go, slideshowRunner) and the           *)
(* soundtrack under it (gsp/background.go).  Each start is a goroutine     *)
(* that loads one slide after another until a newer start or a newer       *)
(* playback decision turns up; it compares the number of its run and the   *)
(* playback generation.  The soundtrack is a second goroutine, which the   *)
(* runner and the operator's decisions stop through one registered stop.   *)
(*                                                                         *)
(* The deck is playback seen from here: whether a clip is up, and gen.     *)
(* Stop takes it apart in three sections, Panic and a load in two.         *)
(***************************************************************************)
EXTENDS Naturals, Sequences, SequencesExt

CONSTANTS
  Slides,    \* the group's image and video cues, in sheet order: 1..Slides
  Tracks,    \* tracks of its soundtrack, 0 = none
  Loop, Shuffle,   \* the group's settings
  Runners,   \* starts of the slideshow alive at a time
  Ops,       \* what the operator does
  MaxOps,    \* bound: how often
  MaxGen,    \* bound: no slide change by time after so many decisions
  Faults     \* loads, slides and tracks may fail

SlideshowAssumption ==
  /\ Slides \in Nat \ {0} /\ Tracks \in Nat
  /\ Loop \in BOOLEAN /\ Shuffle \in BOOLEAN /\ Faults \in BOOLEAN
  /\ MaxOps \in Nat /\ MaxGen \in Nat

VARIABLES
  deck,     \* "empty", "shown" or "stopped": the pipeline of the focus
  gen,      \* gsp.Generation
  runs,     \* slideshowRuns
  bgStop,   \* the runner whose soundtrack's stop is registered
  music,    \* [Runners -> the goroutine of its soundtrack]
  lit,      \* the highlighted cue
  pc, reg,  \* [Runners -> label], [Runners -> locals]
  op,       \* [at, act]: the operator's decision and the section it is at
  ops,      \* operator's decisions so far
  since,    \* [Runners -> where it stood when somebody else decided]
  heard     \* the soundtracks that played when the last decision began

shows == <<runs, pc, reg>>
history == <<ops, since, heard>>
vars == <<deck, gen, runs, bgStop, music, lit, pc, reg, op, history>>

Nobody == "nobody"
NoRegs == [run |-> 0, own |-> 0, at |-> 1, order |-> <<>>, last |-> 0]
Silent == [at |-> "off", track |-> 0, played |-> FALSE, done |-> TRUE]
NoOp == [at |-> "idle", act |-> "none"]

Init ==
  /\ deck = "empty" /\ gen = 0 /\ runs = 0 /\ lit = 0
  /\ bgStop = Nobody
  /\ music = [r \in Runners |-> Silent]
  /\ pc = [r \in Runners |-> "idle"]
  /\ reg = [r \in Runners |-> NoRegs]
  /\ op = NoOp
  /\ ops = 0 /\ since = [r \in Runners |-> {}] /\ heard = {}

Goto(r, l) == pc' = [pc EXCEPT ![r] = l]

Heard == {r \in Runners : ~music[r].done}

\* Somebody else than r (Nobody: the operator) decided: where it finds the
\* runners that have a slide up.
Noted(r) ==
  since' = [q \in Runners |->
              IF q = r THEN since[q]
              ELSE since[q] \cup ({pc[q]} \cap {"play", "note", "wait"})]

\* The stop of r's soundtrack: its done channel is closed, once.
StopMusic(r) == music' = [music EXCEPT ![r].done = TRUE]

\* stopBackground: the registered stop, if any, is taken and called.
StopBackground ==
  /\ bgStop' = Nobody
  /\ IF bgStop = Nobody THEN UNCHANGED music ELSE StopMusic(bgStop)

-----------------------------------------------------------------------------
\* The orders a pass may have: sheet order, or any when the group shuffles.
Orders == IF Shuffle THEN SetToSeqs(1..Slides) ELSE {[i \in 1..Slides |-> i]}

\* A shuffled pass never starts with the slide the last one ended on.
Unrepeated(order, last) ==
  IF Shuffle /\ Slides > 1 /\ order[1] = last
  THEN [order EXCEPT ![1] = order[Slides], ![Slides] = order[1]] ELSE order

\* playGroup on a slideshow group: a goroutine that takes a snapshot of the
\* members, shuffled when the group says so.
Press(r) ==
  /\ "show" \in Ops /\ ops < MaxOps /\ ops' = ops + 1
  /\ pc[r] = "idle" /\ music[r].at = "off"
  /\ \E order \in Orders : reg' = [reg EXCEPT ![r] = [NoRegs EXCEPT !.order = order]]
  /\ since' = [since EXCEPT ![r] = {}]
  /\ Goto(r, "music")
  /\ UNCHANGED <<deck, gen, runs, bgStop, music, lit, op, heard>>

\* BackgroundPlaylist: the stop is registered over an older one, and the
\* playlist starts.
StartMusic(r) ==
  /\ pc[r] = "music"
  /\ IF Tracks = 0 THEN UNCHANGED <<bgStop, music>>
     ELSE /\ bgStop' = r
          /\ music' = [music EXCEPT ![r] = [at |-> "track", track |-> 1,
                                            played |-> FALSE, done |-> FALSE]]
  /\ Goto(r, "claim")
  /\ UNCHANGED <<deck, gen, runs, lit, reg, op, history>>

\* Only now does the run take its number, and with it cancel older runs.
Claim(r) ==
  /\ pc[r] = "claim"
  /\ runs' = runs + 1
  /\ reg' = [reg EXCEPT ![r].run = runs + 1]
  /\ Noted(r)
  /\ Goto(r, "check")
  /\ UNCHANGED <<deck, gen, bgStop, music, lit, op, ops, heard>>

\* Mutant of Cancelled: a newer decision is overlooked.
OnlyRuns(r) == runs # reg[r].run

\* A newer run, or a decision since the one noted (none before the first
\* slide).
Cancelled(r) == runs # reg[r].run \/ (reg[r].own # 0 /\ gen # reg[r].own)

\* The deferred stop of the soundtrack.
EndRun(r) == Goto(r, "idle") /\ reg' = [reg EXCEPT ![r] = NoRegs] /\ StopMusic(r)

Check(r) ==
  /\ pc[r] = "check"
  /\ IF Cancelled(r) THEN EndRun(r) ELSE Goto(r, "load") /\ UNCHANGED <<reg, music>>
  /\ UNCHANGED <<deck, gen, runs, bgStop, lit, op, history>>

\* The next slide replaces what is on, without touching the soundtrack.
LoadSlide(r) ==
  /\ pc[r] = "load"
  /\ deck' = "shown" /\ gen' = gen + 1
  /\ since' = [q \in Runners |-> IF q = r THEN {}
                 ELSE since[q] \cup ({pc[q]} \cap {"play", "note", "wait"})]
  /\ Goto(r, "play")
  /\ UNCHANGED <<runs, bgStop, music, lit, reg, op, ops, heard>>

\* A load that fails, before or after the slide is the focus, ends the show.
SlideFails(r) ==
  /\ pc[r] = "load" /\ Faults
  /\ \/ UNCHANGED <<deck, gen, since>>
     \/ deck' = "empty" /\ gen' = gen + 2 /\ Noted(r)
  /\ EndRun(r)
  /\ UNCHANGED <<runs, bgStop, lit, op, ops, heard>>

\* Play starts whatever pipeline is the focus by now.
PlaySlide(r) ==
  /\ pc[r] = "play"
  /\ deck' = IF deck = "empty" THEN deck ELSE "shown"
  /\ Goto(r, "note")
  /\ UNCHANGED <<gen, runs, bgStop, music, lit, reg, op, history>>

\* The generation is noted as the slide's own, and the slide highlighted.
NoteSlide(r) ==
  /\ pc[r] = "note"
  /\ LET slide == reg[r].order[reg[r].at]
     IN reg' = [reg EXCEPT ![r].own = gen, ![r].last = slide] /\ lit' = slide
  /\ Goto(r, "wait")
  /\ UNCHANGED <<deck, gen, runs, bgStop, music, op, history>>

\* wait: a poll notices that the show is over ...
WaitCut(r) ==
  /\ pc[r] = "wait" /\ Cancelled(r)
  /\ EndRun(r)
  /\ UNCHANGED <<deck, gen, runs, bgStop, lit, op, history>>

\* ... or its time is up: the next slide, the next pass, or the end of the
\* show with its last slide held.
WaitOver(r) ==
  /\ pc[r] = "wait" /\ ~Cancelled(r) /\ gen < MaxGen
  /\ \/ /\ reg[r].at < Slides
        /\ reg' = [reg EXCEPT ![r].at = @ + 1]
        /\ Goto(r, "check") /\ UNCHANGED music
     \/ /\ reg[r].at = Slides /\ Loop
        /\ \E order \in Orders :
             reg' = [reg EXCEPT ![r].at = 1,
                                ![r].order = Unrepeated(order, reg[r].last)]
        /\ Goto(r, "check") /\ UNCHANGED music
     \/ reg[r].at = Slides /\ ~Loop /\ EndRun(r)
  /\ UNCHANGED <<deck, gen, runs, bgStop, lit, op, history>>

-----------------------------------------------------------------------------
\* runPlaylist: the next track, or the next pass; a pass in which nothing
\* played is the last.
AfterTrack(m) ==
  IF m.track < Tracks THEN [m EXCEPT !.track = @ + 1]
  ELSE IF m.played THEN [m EXCEPT !.track = 1, !.played = FALSE]
  ELSE Silent

TrackPlayed(r) ==
  /\ music[r].at = "track" /\ ~music[r].done
  /\ music' = [music EXCEPT ![r] = AfterTrack([@ EXCEPT !.played = TRUE])]
  /\ UNCHANGED <<deck, gen, shows, bgStop, lit, op, history>>

\* A track that cannot be played: a pause before the next.
TrackFails(r) ==
  /\ music[r].at = "track" /\ Faults
  /\ music' = [music EXCEPT ![r].at = "pause"]
  /\ UNCHANGED <<deck, gen, shows, bgStop, lit, op, history>>

PauseOver(r) ==
  /\ music[r].at = "pause" /\ ~music[r].done
  /\ music' = [music EXCEPT ![r] = AfterTrack([@ EXCEPT !.at = "track"])]
  /\ UNCHANGED <<deck, gen, shows, bgStop, lit, op, history>>

\* playOneTrack and the pause see that the playlist was stopped.
MusicStops(r) ==
  /\ music[r].at # "off" /\ music[r].done
  /\ music' = [music EXCEPT ![r] = Silent]
  /\ UNCHANGED <<deck, gen, shows, bgStop, lit, op, history>>

-----------------------------------------------------------------------------
\* The operator's Stop, Panic or GO of another cue begins with the
\* soundtrack ...
Decide(act) ==
  /\ act \in Ops \cap {"stop", "panic", "go"} /\ op = NoOp
  /\ ops < MaxOps /\ ops' = ops + 1
  /\ StopBackground
  /\ op' = [at |-> "deck", act |-> act]
  /\ heard' = Heard
  /\ UNCHANGED <<deck, gen, shows, lit, since>>

\* ... then takes the pipeline: Stop counts the decision in a later section,
\* without a pipeline neither Stop nor Panic counts one.
Take ==
  /\ op.at = "deck"
  /\ \/ op.act = "go" /\ deck' = "shown" /\ gen' = gen + 1 /\ Noted(Nobody) /\ op' = NoOp
     \/ op.act = "panic" /\ deck # "empty"
        /\ deck' = "empty" /\ gen' = gen + 1 /\ Noted(Nobody) /\ op' = NoOp
     \/ op.act \in {"stop", "panic"} /\ deck = "empty"
        /\ op' = NoOp /\ UNCHANGED <<deck, gen, since>>
     \/ op.act = "stop" /\ deck # "empty"
        /\ deck' = "stopped" /\ op' = [op EXCEPT !.at = "count"] /\ UNCHANGED <<gen, since>>
  /\ UNCHANGED <<shows, bgStop, music, lit, ops, heard>>

StopCounts ==
  /\ op.at = "count"
  /\ gen' = gen + 1 /\ Noted(Nobody)
  /\ op' = NoOp
  /\ UNCHANGED <<deck, shows, bgStop, music, lit, ops, heard>>

\* The clip on screen fails: it is cleared, which is a decision.
ClipFails ==
  /\ Faults /\ deck = "shown"
  /\ deck' = "empty" /\ gen' = gen + 1
  /\ Noted(Nobody)
  /\ UNCHANGED <<shows, bgStop, music, lit, op, ops, heard>>

Run(r) ==
  \/ StartMusic(r) \/ Claim(r) \/ Check(r)
  \/ LoadSlide(r) \/ SlideFails(r) \/ PlaySlide(r) \/ NoteSlide(r)
  \/ WaitCut(r) \/ WaitOver(r)

Playlist(r) == TrackPlayed(r) \/ TrackFails(r) \/ PauseOver(r) \/ MusicStops(r)

Next ==
  \/ \E r \in Runners : Press(r) \/ Run(r) \/ Playlist(r)
  \/ \E act \in Ops : Decide(act)
  \/ Take \/ StopCounts \/ ClipFails

\* The goroutines run on; a track may play for ever, a pause may not.
Spec ==
  /\ Init /\ [][Next]_vars
  /\ \A r \in Runners : WF_vars(Run(r)) /\ WF_vars(PauseOver(r) \/ MusicStops(r))

-----------------------------------------------------------------------------
TypeOK ==
  /\ deck \in {"empty", "shown", "stopped"}
  /\ gen \in Nat /\ runs \in Nat /\ ops \in 0..MaxOps
  /\ bgStop \in Runners \cup {Nobody}
  /\ lit \in 0..Slides
  /\ music \in [Runners -> [at : {"off", "track", "pause"}, track : 0..Tracks,
                            played : BOOLEAN, done : BOOLEAN]]
  /\ pc \in [Runners -> {"idle", "music", "claim", "check", "load", "play", "note", "wait"}]
  /\ reg \in [Runners -> [run : Nat, own : Nat, at : 1..Slides,
                          order : Seq(1..Slides), last : 0..Slides]]
  /\ op \in [at : {"idle", "deck", "count"}, act : {"none", "stop", "panic", "go"}]
  /\ since \in [Runners -> SUBSET {"play", "note", "wait"}]
  /\ heard \subseteq Runners

\* A soundtrack always has somebody who will stop it: a run that is still
\* there, or the registered stop (background.go registers a new stop over the
\* old one without calling it).
MusicHasAStop == \A r \in Heard : bgStop = r \/ pc[r] # "idle"

\* A decision, or a newer start, while a slide stays on its time ends the show:
\* the next slide does not come.
NextSlideYields == [][\A r \in Runners : LoadSlide(r) => "wait" \notin since[r]]_vars

\* No slide follows itself, across passes included.
NoSlideTwice ==
  [][\A r \in Runners : LoadSlide(r) /\ Slides > 1
        => reg[r].order[reg[r].at] # reg[r].last]_vars

\* A soundtrack whose tracks keep failing ends, or plays one between: runner r
\* does not go round and round its list of bad files.
BadPassIsLast(r) ==
  []<>(music[r].at = "pause")
    => []<>(music[r].at = "off") \/ []<><<TrackPlayed(r)>>_vars

\* A show of runner r that was decided away, or replaced, ends and takes its
\* music along.
ShowEnds(r) == "wait" \in since[r] ~> (pc[r] = "idle" /\ music[r].at = "off")

\* groups.go 711: any decision since the slide's own load ends the show.  One
\* that falls between the load and the reading of the generation does not.
AnyDecisionYields == [][\A r \in Runners : LoadSlide(r) => since[r] = {}]_vars

\* background.go 7: a Stop, Panic or load kills the music.  One that a newer
\* start put out of the registered stop plays on.
DecisionSilences == op = NoOp => \A r \in heard : music[r].done

=============================================================================
