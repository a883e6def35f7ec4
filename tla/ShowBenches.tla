----------------------------- MODULE ShowBenches -----------------------------
(***************************************************************************)
(* What keeps a show on the wall, explored side by side: the panic image,  *)
(* slideshows with their soundtrack, live pages that fail and come back,   *)
(* and Awards Mode.  The components share no variable; "which" is the one  *)
(* that moves, the others rest in an initial state.                        *)
(***************************************************************************)
EXTENDS PanicHold, Sequences

VARIABLES
  which,
  wall, gen, runs, bgStop, music, lit, stage, slot, op, presses, upset, heard,
  page, pageGen, acts, up, sheet, step, chain, doings, faults, by, seen,
  st, group, sel, unsynced, member, count, hook, at, hand, turns, over

\* Two starts of a slideshow of two slides with a soundtrack.
Show == INSTANCE Slideshow WITH
  Slides <- 2, Tracks <- 1, Loop <- FALSE, Shuffle <- FALSE, Runners <- {"s1", "s2"},
  Ops <- {"show", "stop", "panic", "go"}, MaxOps <- 3, MaxGen <- 3, Faults <- FALSE,
  deck <- wall, pc <- stage, reg <- slot, ops <- presses, since <- upset

\* A shuffled loop of three slides with a soundtrack of two tracks; faults.
Round == INSTANCE Slideshow WITH
  Slides <- 3, Tracks <- 2, Loop <- TRUE, Shuffle <- TRUE, Runners <- {"s1", "s2"},
  Ops <- {"show"}, MaxOps <- 1, MaxGen <- 4, Faults <- TRUE,
  deck <- wall, pc <- stage, reg <- slot, ops <- presses, since <- upset

\* One page, two chains of goroutines, an outage or another fault.
Page == INSTANCE Recovery WITH
  Pages <- {1}, HoldImage <- TRUE, Threads <- {"t1", "t2"},
  Ops <- {"go", "halt", "page", "edit"}, MaxOps <- 2, MaxFaults <- 1,
  deck <- page, gen <- pageGen, pc <- step, reg <- chain, ops <- doings, since <- seen

\* Group 1 with two members, and a cue after it: two presses of GO at a time ...
Row(g, c) == [group |-> g, cue |-> c]
Party == INSTANCE Awards WITH
  Units <- <<Row(1, 0), Row(0, 1), Row(0, 2), Row(0, 3)>>, Members <- <<1, 2>>,
  AutoContinue <- {1, 3}, Threads <- {"t1", "t2"}, Presses <- 2,
  Ops <- {"go", "fire", "stop", "select"}, MaxOps <- 3, Faults <- TRUE,
  deck <- member, gen <- count, pc <- at, reg <- hand, ops <- turns, since <- over

\* ... or one at a time, with the settings of the group edited between them.
Edited == INSTANCE Awards WITH
  Units <- <<Row(1, 0), Row(0, 1), Row(0, 2), Row(0, 3)>>, Members <- <<1, 2>>,
  AutoContinue <- {1}, Threads <- {"t1", "t2"}, Presses <- 1,
  Ops <- {"go", "edit", "stop"}, MaxOps <- 4, Faults <- FALSE,
  deck <- member, gen <- count, pc <- at, reg <- hand, ops <- turns, since <- over

ASSUME BenchAssumption ==
  /\ Show!SlideshowAssumption /\ Round!SlideshowAssumption
  /\ Party!AwardsAssumption /\ Edited!AwardsAssumption

showVars == <<wall, gen, runs, bgStop, music, lit, stage, slot, op, presses, upset, heard>>
pageVars == <<page, pageGen, acts, up, sheet, step, chain, doings, faults, by, seen>>
partyVars == <<st, group, sel, unsynced, member, count, hook, at, hand, turns, over>>

BenchInit ==
  /\ which \in {"panic", "show", "round", "page", "party", "edited"}
  /\ Init /\ (which # "panic" => setting = None)
  /\ Show!Init /\ Page!Init
  /\ Party!Init /\ (which \notin {"party", "edited"} => ~group.loop)

PanicMoves == which = "panic" /\ Next /\ UNCHANGED <<showVars, pageVars, partyVars, which>>
ShowMoves ==
  /\ \/ which = "show" /\ Show!Next
     \/ which = "round" /\ Round!Next
  /\ UNCHANGED <<vars, pageVars, partyVars, which>>
PageMoves == which = "page" /\ Page!Next /\ UNCHANGED <<vars, showVars, partyVars, which>>
PartyMoves ==
  /\ \/ which = "party" /\ Party!Next
     \/ which = "edited" /\ Edited!Next
  /\ UNCHANGED <<vars, showVars, pageVars, which>>

Runs(r) == (which = "show" /\ Show!Run(r)) \/ (which = "round" /\ Round!Run(r))
Plays(r) ==
  \/ which = "show" /\ (Show!PauseOver(r) \/ Show!MusicStops(r))
  \/ which = "round" /\ (Round!PauseOver(r) \/ Round!MusicStops(r))
Hands(t) == (which = "party" /\ Party!Step(t)) \/ (which = "edited" /\ Edited!Step(t))

Benches ==
  /\ BenchInit
  /\ [][PanicMoves \/ ShowMoves \/ PageMoves \/ PartyMoves]_<<vars, showVars, pageVars, partyVars, which>>
  /\ WF_vars(which = "panic" /\ Reconcile)
  /\ \A t \in Handlers : WF_vars(which = "panic" /\ Handle(t))
  /\ \A r \in {"s1", "s2"} : WF_showVars(Runs(r)) /\ WF_showVars(Plays(r))
  /\ \A t \in {"t1", "t2"} : WF_pageVars(which = "page" /\ Page!Chain(t)) /\ WF_partyVars(Hands(t))

-----------------------------------------------------------------------------
\* Whatever is pressed, set, replaced or dies, the image as it is now is armed again.
PanicReady == []TypeOK /\ Rearms

\* No soundtrack is left without anybody to stop it, no decision taken while a slide is on
\* is overridden by the next slide, no slide follows itself, a pass of bad tracks is the
\* last, and a show that was decided away ends with its music.
SlidesYield ==
  /\ [](which = "show" => Show!TypeOK) /\ [](which = "round" => Round!TypeOK)
  /\ []Show!MusicHasAStop
  /\ Show!NextSlideYields /\ Round!NoSlideTwice
  /\ Round!BadPassIsLast("s1") /\ Show!ShowEnds("s1")

\* The failure of a page takes nothing else off the wall, a retry yields to what the
\* operator did while it waited, and a page that was left on the wall comes back.
PagesComeBack ==
  /\ []Page!TypeOK
  /\ Page!WaitYields /\ Page!OnlyItsPage /\ Page!PageReturns(1)

\* The session plays its members in order, a stop is carried through, a cue fired over the
\* fade is kept, and the way out of the group leads out.
AwardsInOrder ==
  /\ [](which = "party" => Party!TypeOK) /\ [](which = "edited" => Edited!TypeOK)
  /\ []Party!CursorFollows
  /\ Party!StopEnds /\ Party!FadeYields /\ Party!OutIsOut
=============================================================================
