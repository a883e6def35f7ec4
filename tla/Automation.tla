----------------------------- MODULE Automation -----------------------------
(***************************************************************************)
(* What fires cues without a press of GO (routes/index.go, remote.go,      *)
(* api.go): auto-continue chains with their waits, the display timer of a  *)
(* still, the cue queued behind a fade where the wall has no display       *)
(* layers, and the stop behind the fade of ESC.                            *)
(*                                                                         *)
(* Each is a goroutine that notes playback counters when it starts and     *)
(* compares them before it acts.  The deck is playback seen from here: one *)
(* clip and the counters gen, halts and loads; each call of gsp is one     *)
(* step (module Playback has the steps inside).                            *)
(***************************************************************************)
EXTENDS Naturals, FiniteSets

CONSTANTS
  Last,      \* cues of the sheet, numbered in sheet order
  AutoContinue,  \* cues that auto-continue
  Hold,      \* cues that stay on their last frame
  Still,     \* images with a display duration
  Fade,      \* cues with a fade-stop time
  Ops,       \* what the operator does
  MaxOps,    \* bound: how often
  Workers,   \* goroutines alive at a time
  Faults     \* a load may fail

Cues == 1..Last

ASSUME AutomationAssumption ==
  /\ Last \in Nat \ {0}
  /\ AutoContinue \cup Hold \cup Still \cup Fade \subseteq Cues
  /\ MaxOps \in Nat /\ Faults \in BOOLEAN

VARIABLES
  deck,     \* [at, of, file, cue, fader]: the clip, the cue it was loaded for,
            \* whether currentFile is set, its cuePos, the fade it is under
  gen, halts, loads,   \* gsp.Generation, Halts, Loads
  wait,     \* waitNow.CuePos: the cue whose wait is shown, 0 = none
  pc,       \* [Workers -> label]
  reg,      \* [Workers -> locals]
  show,     \* [Workers -> the chain's countdown goroutine]
  ops,      \* operator actions so far
  since     \* [Workers -> what the operator did since its counters were read]

counters == <<gen, halts, loads>>
workers == <<pc, reg>>
history == <<ops, since>>
vars == <<deck, counters, wait, workers, show, history>>

Nobody == "nobody"
Empty == [at |-> "empty", of |-> 0, file |-> FALSE, cue |-> 0, fader |-> Nobody]
NoRegs == [op |-> "none", cue |-> 0, next |-> 0, gen |-> 0, halts |-> 0, loads |-> 0]
NoShow == [at |-> "off", cue |-> 0, next |-> 0, gen |-> 0]

Init ==
  /\ deck = Empty
  /\ gen = 0 /\ halts = 0 /\ loads = 0
  /\ wait = 0
  /\ pc = [t \in Workers |-> "idle"]
  /\ reg = [t \in Workers |-> NoRegs]
  /\ show = [t \in Workers |-> NoShow]
  /\ ops = 0
  /\ since = [t \in Workers |-> {}]

-----------------------------------------------------------------------------
\* Mutant of NextPos: no end of the sheet.
NextOnly(c) == c + 1

\* NextCuePos: 0 after the last cue.
NextPos(c) == IF c < Last THEN c + 1 ELSE 0

Free(t) == pc[t] = "idle" /\ show[t] = NoShow

Goto(t, l) == pc' = [pc EXCEPT ![t] = l]

Finish(t) == Goto(t, "idle") /\ reg' = [reg EXCEPT ![t] = NoRegs]

\* Every worker that has read its counters and has yet to compare them has one
\* more thing to notice.
Pending == {"wait", "decide", "still", "fade", "fading", "yield", "escStop"}

Noted(act) ==
  since' = [u \in Workers |-> IF pc[u] \in Pending THEN since[u] \cup {act} ELSE {}]

\* CurrentPlaying() # "": Stop clears the file, and a resume does not bring it
\* back.
Playing == deck.file

\* The operator does something.
Operator(act) == act \in Ops /\ ops < MaxOps /\ ops' = ops + 1

\* Stop: a loaded clip is stopped and kept, a decision is counted; without
\* one there is nothing to decide.
StopDeck ==
  /\ halts' = halts + 1
  /\ deck' = [deck EXCEPT !.at = IF @ = "empty" THEN @ ELSE "stopped",
                           !.file = FALSE, !.cue = 0]
  /\ gen' = IF deck.at = "empty" THEN gen ELSE gen + 1
  /\ UNCHANGED loads

Halted == IF deck.at = "empty" THEN "idleHalt" ELSE "halt"

\* Panic: the clip is gone.
PanicDeck ==
  /\ halts' = halts + 1
  /\ deck' = Empty
  /\ gen' = IF deck.at = "empty" THEN gen ELSE gen + 1
  /\ UNCHANGED loads

-----------------------------------------------------------------------------
\* FireSelected, and FireCue with nothing to fade: the cue loads at once.
Go(t, c) ==
  /\ Operator("go") /\ Free(t)
  /\ Goto(t, "load")
  /\ reg' = [reg EXCEPT ![t] = [NoRegs EXCEPT !.op = "go", !.cue = c]]
  /\ UNCHANGED <<deck, counters, wait, show, since>>

\* FireCue: the running cue fades out first; note the halts and loads.
Queue(t, c) ==
  /\ Operator("go") /\ Free(t)
  /\ c \in Fade /\ Playing
  /\ Goto(t, "fade")
  /\ reg' = [reg EXCEPT ![t] = [NoRegs EXCEPT !.op = "queue", !.cue = c,
                                              !.halts = halts, !.loads = loads]]
  /\ Noted("queue")
  /\ UNCHANGED <<deck, counters, wait, show>>

\* ESC with something on screen: fade it out, then stop.
Esc(t) ==
  /\ Operator("esc") /\ Free(t)
  /\ Playing
  /\ Goto(t, "fade")
  /\ reg' = [reg EXCEPT ![t] = [NoRegs EXCEPT !.op = "esc", !.loads = loads]]
  /\ Noted("esc")
  /\ UNCHANGED <<deck, counters, wait, show>>

\* Stop, Panic; ESC with nothing on screen is a Stop.
Halt ==
  /\ \/ Operator("stop") /\ StopDeck
     \/ Operator("esc") /\ ~Playing /\ StopDeck
     \/ Operator("panic") /\ PanicDeck
  /\ Noted(Halted)
  /\ UNCHANGED <<wait, workers, show>>

\* Play: a stopped or held clip runs again; no decision is counted.
Resume ==
  /\ Operator("play")
  /\ deck.at \in {"stopped", "parked"}
  /\ deck' = [deck EXCEPT !.at = "running"]
  /\ UNCHANGED <<counters, wait, workers, show, since>>

-----------------------------------------------------------------------------
\* A load fails before the clip is installed, or after it.
LoadFails(t) ==
  /\ Faults /\ pc[t] = "load"
  /\ \/ UNCHANGED <<deck, counters, since>>
     \/ /\ deck' = Empty /\ gen' = gen + 2 /\ loads' = loads + 1
        /\ Noted("load")
        /\ UNCHANGED halts
  /\ Finish(t)
  /\ UNCHANGED <<wait, show, ops>>

\* loadAndPlayCue: the clip is the focus and plays ...
Load(t) ==
  /\ pc[t] = "load"
  /\ deck' = [at |-> "running", of |-> reg[t].cue, file |-> TRUE, cue |-> reg[t].cue,
              fader |-> Nobody]
  /\ gen' = gen + 1 /\ loads' = loads + 1
  /\ Noted("load")
  /\ Goto(t, "settle")
  /\ UNCHANGED <<halts, wait, reg, show, ops>>

\* ... and once its preroll is done, SetCuePos and Play reach whatever clip
\* is there by now; the display timer of a still is a goroutine of its own.
Settle(t) ==
  /\ pc[t] = "settle"
  /\ deck' = [deck EXCEPT !.cue = reg[t].cue, !.at = IF @ = "empty" THEN @ ELSE "running"]
  /\ IF reg[t].cue \in Still
     THEN \E u \in Workers :
            /\ u = t \/ pc[u] = "idle"
            /\ show[u] = NoShow
            /\ pc' = [pc EXCEPT ![t] = "idle", ![u] = "note"]
            /\ reg' = [reg EXCEPT ![t] = NoRegs, ![u] = reg[t]]
     ELSE Finish(t)
  /\ UNCHANGED <<counters, wait, show, history>>

\* The display timer notes the generation ...
Note(t) ==
  /\ pc[t] = "note"
  /\ reg' = [reg EXCEPT ![t].gen = gen]
  /\ since' = [since EXCEPT ![t] = {}]
  /\ Goto(t, "still")
  /\ UNCHANGED <<deck, counters, wait, show, ops>>

\* Mutant of Undisturbed: the guard the code had before, by position.
SamePosition(t) == deck.cue = reg[t].cue

\* The identity guard: no playback decision since the generation was read.
Undisturbed(t) == gen = reg[t].gen

\* ... and when the time is up stops the still and continues from it; a held
\* one stays.
StillEnds(t) ==
  /\ pc[t] = "still"
  /\ IF Undisturbed(t)
     THEN Goto(t, IF reg[t].cue \in Hold THEN "hook" ELSE "halt") /\ UNCHANGED reg
     ELSE Finish(t)
  /\ UNCHANGED <<deck, counters, wait, show, history>>

StillHalts(t) ==
  /\ pc[t] = "halt"
  /\ StopDeck
  /\ IF deck.at = "empty" THEN UNCHANGED since ELSE Noted("end")
  /\ Goto(t, "hook")
  /\ UNCHANGED <<wait, reg, show, ops>>

\* handleEnd: a clip reaches its end; the hook runs for the position it had.
\* A held clip and a still park there, any other is cleared.
ClipEnds(t) ==
  /\ deck.at = "running"
  /\ IF deck.of \in Hold \cup Still
     THEN deck' = [deck EXCEPT !.at = "parked"] /\ UNCHANGED <<gen, since>>
     ELSE deck' = Empty /\ gen' = gen + 1 /\ Noted("end")
  /\ IF deck.cue = 0 THEN UNCHANGED workers
     ELSE /\ Free(t) /\ Goto(t, "hook")
          /\ reg' = [reg EXCEPT ![t] = [NoRegs EXCEPT !.op = "chain", !.cue = deck.cue]]
  /\ UNCHANGED <<halts, loads, wait, show, ops>>

-----------------------------------------------------------------------------
\* autoContinueFrom: note the generation, and wait when the cues say so; their
\* waits are edited while the show runs.
Arms(t, c, n) ==
  /\ c \in AutoContinue /\ n # 0
  /\ reg' = [reg EXCEPT ![t] = [@ EXCEPT !.op = "chain", !.next = n, !.gen = gen]]
  /\ since' = [since EXCEPT ![t] = {}]
  /\ \/ /\ Goto(t, "wait")
        /\ show' = [show EXCEPT ![t] = [at |-> "start", cue |-> c, next |-> n, gen |-> gen]]
     \/ Goto(t, "decide") /\ UNCHANGED show

Arm(t) ==
  /\ pc[t] = "hook"
  /\ \/ Arms(t, reg[t].cue, NextPos(reg[t].cue))
     \/ /\ reg[t].cue \notin AutoContinue \/ NextPos(reg[t].cue) = 0
        /\ Finish(t) /\ UNCHANGED <<show, since>>
  /\ UNCHANGED <<deck, counters, wait, ops>>

\* fire, by the timer or at once: the generation must not have moved.
Decide(t) ==
  /\ pc[t] \in {"wait", "decide"}
  /\ IF Undisturbed(t)
     THEN /\ Goto(t, "load")
          /\ reg' = [reg EXCEPT ![t] = [NoRegs EXCEPT !.op = "chain", !.cue = reg[t].next]]
     ELSE Finish(t)
  /\ UNCHANGED <<deck, counters, wait, show, history>>

\* The countdown shows the wait of the ended cue, then that of the next one.
Count(t) ==
  /\ \/ /\ show[t].at = "start"
        /\ show' = [show EXCEPT ![t].at = "post"]
        /\ wait' = show[t].cue
     \/ /\ show[t].at \in {"post", "pre"}
        /\ gen = show[t].gen /\ pc[t] = "wait" /\ show[t].next \in AutoContinue
        /\ show' = [show EXCEPT ![t].at = "pre"]
        /\ wait' = show[t].next
  /\ UNCHANGED <<deck, counters, workers, history>>

\* Mutant of CountEnds: only its own cue's wait is cleared.
ClearOwn(t) ==
  /\ show[t].at \in {"post", "pre"}
  /\ wait' = IF wait = show[t].cue THEN 0 ELSE wait
  /\ show' = [show EXCEPT ![t] = NoShow]
  /\ UNCHANGED <<deck, counters, workers, history>>

\* It returns when the time is up or the generation moved, and clears the
\* wait that is shown.
CountEnds(t) ==
  /\ show[t].at \in {"post", "pre"}
  /\ wait' = 0
  /\ show' = [show EXCEPT ![t] = NoShow]
  /\ UNCHANGED <<deck, counters, workers, history>>

-----------------------------------------------------------------------------
\* What a fade leads to: the queued cue's check, or the stop of ESC.
AfterFade(t) == Goto(t, IF reg[t].op = "queue" THEN "yield" ELSE "escStop")

\* FadeAndStop: note the clip and the generation and take the fade over.
FadeBegins(t) ==
  /\ pc[t] = "fade"
  /\ IF deck.at = "empty"
     THEN AfterFade(t) /\ UNCHANGED <<deck, reg>>
     ELSE /\ deck' = [deck EXCEPT !.fader = t]
          /\ reg' = [reg EXCEPT ![t].gen = gen]
          /\ Goto(t, "fading")
  /\ UNCHANGED <<counters, wait, show, history>>

\* Superseded: another fade, another clip or another decision.
FadeGivesUp(t) ==
  /\ pc[t] = "fading"
  /\ gen # reg[t].gen \/ deck.fader # t
  /\ AfterFade(t)
  /\ UNCHANGED <<deck, counters, wait, reg, show, history>>

\* At black the clip goes.
FadeEnds(t) ==
  /\ pc[t] = "fading"
  /\ gen = reg[t].gen /\ deck.fader = t
  /\ deck' = Empty /\ gen' = gen + 1
  /\ Noted("end")
  /\ AfterFade(t)
  /\ UNCHANGED <<halts, loads, wait, reg, show, ops>>

\* Mutant of StillWanted: halts are not looked at.
OnlyLoads(t) == loads = reg[t].loads

\* No Stop, Panic or load since the press.
StillWanted(t) == halts = reg[t].halts /\ loads = reg[t].loads

\* FireCue after its fade.
Yield(t) ==
  /\ pc[t] = "yield"
  /\ IF StillWanted(t) THEN Goto(t, "load") /\ UNCHANGED reg ELSE Finish(t)
  /\ UNCHANGED <<deck, counters, wait, show, history>>

\* ESC after its fade: a cue fired meanwhile is not stopped.
EscStops(t) ==
  /\ pc[t] = "escStop"
  /\ IF loads = reg[t].loads
     THEN StopDeck /\ Noted(Halted)
     ELSE UNCHANGED <<deck, counters, since>>
  /\ Finish(t)
  /\ UNCHANGED <<wait, show, ops>>

-----------------------------------------------------------------------------
Work(t) ==
  \/ Load(t) \/ LoadFails(t) \/ Settle(t) \/ Note(t) \/ StillEnds(t) \/ StillHalts(t)
  \/ Arm(t) \/ Decide(t) \/ FadeBegins(t) \/ FadeGivesUp(t) \/ FadeEnds(t) \/ Yield(t)
  \/ EscStops(t)

Next ==
  \/ \E t \in Workers, c \in Cues : Go(t, c) \/ Queue(t, c)
  \/ \E t \in Workers : Esc(t) \/ Work(t) \/ ClipEnds(t) \/ Count(t) \/ CountEnds(t)
  \/ Halt \/ Resume

Spec == Init /\ [][Next]_vars

-----------------------------------------------------------------------------
Position == 0..Last

Decks == [at : {"empty", "running", "parked", "stopped"}, of : Position,
          file : BOOLEAN, cue : Position, fader : Workers \cup {Nobody}]

Labels == {"idle", "load", "settle", "note", "still", "halt", "hook",
           "wait", "decide", "fade", "fading", "yield", "escStop"}

Locals == [op : {"none", "go", "queue", "esc", "chain"}, cue : Position,
           next : Position, gen : Nat, halts : Nat, loads : Nat]

Countdowns == [at : {"off", "start", "post", "pre"}, cue : Position,
               next : Position, gen : Nat]

TypeOK ==
  /\ deck \in Decks
  /\ gen \in Nat /\ halts \in Nat /\ loads \in Nat
  /\ wait \in Position
  /\ pc \in [Workers -> Labels]
  /\ reg \in [Workers -> Locals]
  /\ show \in [Workers -> Countdowns]
  /\ ops \in 0..MaxOps
  /\ since \in [Workers -> SUBSET {"load", "halt", "idleHalt", "esc", "queue", "end"}]

\* A chain fires; a worker's guard lets it act.
Chains(t) == pc[t] \in {"wait", "decide"} /\ pc'[t] = "load"

Acts(t) ==
  \/ Chains(t)
  \/ pc[t] = "still" /\ pc'[t] \in {"hook", "halt"}

\* "A triggered cue can never interrupt a newer decision" (autoContinueFrom):
\* no chain and no display timer acts once another cue was loaded, or a loaded
\* one stopped, after it read the generation.
ArmedYields ==
  [][\A t \in Workers : Acts(t) => since[t] \cap {"load", "halt"} = {}]_vars

\* The same with every Stop and Panic, as the comment at the guard has it
\* ("any operator action during the wait (load, stop, panic ...)").
HaltDisarms ==
  [][\A t \in Workers : Chains(t) => since[t] \cap {"halt", "idleHalt"} = {}]_vars

Fires(t) == pc[t] = "yield" /\ pc'[t] = "load"

\* FireCue: Stop, Panic and another cue win over the one queued behind a fade.
QueueYields ==
  [][\A t \in Workers : Fires(t) => since[t] \cap {"load", "halt", "idleHalt"} = {}]_vars

\* "Single ESC fades ... then stops" (DESIGN.md): the queued cue does not come
\* up after it.
EscSticks == [][\A t \in Workers : Fires(t) => "esc" \notin since[t]]_vars

\* "A cue fired during the fade is a newer decision; the trailing stop ... must
\* not kill it" (the ESC route): also one queued behind its own fade.
EscYields ==
  [][\A t \in Workers :
       (pc[t] = "escStop" /\ halts' # halts) => since[t] \cap {"load", "queue"} = {}]_vars

\* "A set display duration ends the still on a timer (then auto-continues)":
\* the chain of a still does not fire while its timer is valid.
StillRuns ==
  [][\A t, u \in Workers :
       Chains(t) => ~(pc[u] = "still" /\ reg[u].cue = reg[t].cue /\ reg[u].gen = gen)]_vars

\* A wait is shown only while a countdown is there to clear it.
CountdownClears == wait # 0 => \E t \in Workers : show[t].at \in {"post", "pre"}

\* The show goes on: a chain gives up only because the deck moved (a load, a
\* stop of a clip, another end) after it read the generation.
ChainGoesOn ==
  [][\A t \in Workers :
       (pc[t] \in {"wait", "decide"} /\ pc'[t] = "idle")
         => since[t] \cap {"load", "halt", "end"} # {}]_vars
=============================================================================
