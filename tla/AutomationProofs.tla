-------------------------- MODULE AutomationProofs --------------------------
(***************************************************************************)
(* What Automation promises for every sheet and any number of goroutines:  *)
(* counters noted at the start tell exactly whether the operator acted.    *)
(***************************************************************************)
EXTENDS Automation, TLAPS

-----------------------------------------------------------------------------
\* The inductive invariant.  A chain or display timer finds its generation
\* moved exactly when the deck was loaded, stopped or cleared since it looked.
Mark(t) ==
  pc[t] \in {"wait", "decide", "still"} =>
    /\ reg[t].gen <= gen
    /\ since[t] \cap {"load", "halt", "end"} # {} <=> reg[t].gen # gen

\* A fade finds halts or loads moved when one was counted since the press.
Want(t) ==
  pc[t] \in {"fade", "fading", "yield", "escStop"} =>
    /\ reg[t].halts <= halts
    /\ reg[t].loads <= loads
    /\ since[t] \cap {"halt", "idleHalt"} # {} => reg[t].halts < halts
    /\ "load" \in since[t] => reg[t].loads < loads

\* A goroutine on its way to arm a chain has no countdown yet.
Quiet(t) == pc[t] \in {"note", "still", "halt", "hook"} => show[t] = NoShow

IInv ==
  /\ TypeOK
  /\ CountdownClears
  /\ \A t \in Workers : Mark(t) /\ Want(t) /\ Quiet(t)

-----------------------------------------------------------------------------
\* Updates keep the types of the records.
LEMMA LocalsTyped ==
  ASSUME NEW r \in Locals, NEW c \in Position, NEW o \in {"none", "go", "queue", "esc", "chain"},
         NEW g \in Nat, NEW h \in Nat, NEW l \in Nat
  PROVE  /\ [r EXCEPT !.op = o, !.cue = c] \in Locals
         /\ [r EXCEPT !.op = o, !.cue = c, !.halts = h, !.loads = l] \in Locals
         /\ [r EXCEPT !.op = o, !.loads = l] \in Locals
         /\ [r EXCEPT !.op = o, !.next = c, !.gen = g] \in Locals
         /\ [r EXCEPT !.gen = g] \in Locals
  BY DEF Locals

LEMMA DeckTyped ==
  ASSUME NEW d \in Decks, NEW c \in Position,
         NEW a \in {"empty", "running", "parked", "stopped"}
  PROVE  /\ [d EXCEPT !.at = a, !.file = FALSE, !.cue = 0] \in Decks
         /\ [d EXCEPT !.at = a] \in Decks
         /\ [d EXCEPT !.cue = c, !.at = a] \in Decks
         /\ \A f \in Workers : [d EXCEPT !.fader = f] \in Decks
         /\ [at |-> a, of |-> c, file |-> TRUE, cue |-> c, fader |-> Nobody] \in Decks
<1>0. 0 \in Position
  BY AutomationAssumption DEF Position, AutomationAssumption
<1>1. [d EXCEPT !.at = a, !.file = FALSE, !.cue = 0] \in Decks
  BY <1>0 DEF Decks
<1>2. [d EXCEPT !.at = a] \in Decks
  BY DEF Decks
<1>3. [d EXCEPT !.cue = c, !.at = a] \in Decks
  BY DEF Decks
<1>4. \A f \in Workers : [d EXCEPT !.fader = f] \in Decks
  BY DEF Decks
<1>5. [at |-> a, of |-> c, file |-> TRUE, cue |-> c, fader |-> Nobody] \in Decks
  BY DEF Decks
<1> QED BY <1>1, <1>2, <1>3, <1>4, <1>5

LEMMA ConstTyped ==
  /\ Empty \in Decks /\ NoRegs \in Locals /\ NoShow \in Countdowns
  /\ Cues \subseteq Position /\ 0 \in Position
  /\ \A c \in Cues : NextPos(c) \in Position
  BY AutomationAssumption
  DEF AutomationAssumption, Empty, Decks, NoRegs, Locals, NoShow, Countdowns, Cues, Position, NextPos

LEMMA InitTyped == Init => TypeOK
  BY AutomationAssumption, ConstTyped DEF Init, TypeOK, Labels, AutomationAssumption

LEMMA NotedTyped ==
  ASSUME NEW act \in {"load", "halt", "idleHalt", "esc", "queue", "end"},
         since \in [Workers -> SUBSET {"load", "halt", "idleHalt", "esc", "queue", "end"}],
         Noted(act)
  PROVE  since' \in [Workers -> SUBSET {"load", "halt", "idleHalt", "esc", "queue", "end"}]
  BY DEF Noted

\* A deck call keeps the types.
LEMMA StopTyped ==
  ASSUME TypeOK, StopDeck \/ PanicDeck
  PROVE  /\ deck' \in Decks /\ gen' \in Nat /\ halts' \in Nat /\ loads' \in Nat
         /\ Halted \in {"halt", "idleHalt"}
<1>1. deck \in Decks /\ deck.at \in {"empty", "running", "parked", "stopped"}
  BY DEF TypeOK, Decks
<1>2. gen' \in Nat /\ halts' \in Nat /\ loads' \in Nat
  BY DEF TypeOK, StopDeck, PanicDeck
<1>3. deck' \in Decks
  <2>1. CASE StopDeck
    <3>1. deck' = [deck EXCEPT !.at = IF deck.at = "empty" THEN deck.at ELSE "stopped",
                               !.file = FALSE, !.cue = 0]
      BY <2>1 DEF StopDeck
    <3> QED BY <1>1, <3>1, DeckTyped, ConstTyped
  <2>2. CASE PanicDeck
    BY <2>2, ConstTyped DEF PanicDeck
  <2> QED BY <2>1, <2>2
<1>4. Halted \in {"halt", "idleHalt"}
  BY DEF Halted
<1> QED BY <1>2, <1>3, <1>4

\* Types: what the operator does ...
LEMMA OperatorTyped ==
  ASSUME TypeOK,
         \/ \E t \in Workers, c \in Cues : Go(t, c) \/ Queue(t, c)
         \/ \E t \in Workers : Esc(t)
         \/ Halt \/ Resume
  PROVE  TypeOK'
<1>0. ops < MaxOps /\ ops' = ops + 1 => ops' \in 0..MaxOps
  <2>1. ops \in 0..MaxOps
    BY DEF TypeOK
  <2> QED BY <2>1, AutomationAssumption DEF AutomationAssumption
<1> USE AutomationAssumption, ConstTyped, LocalsTyped, NotedTyped
    DEF TypeOK, counters, workers, Operator, Goto
<1>1. ASSUME NEW t \in Workers, NEW c \in Cues, Go(t, c) PROVE TypeOK'
  BY <1>0, <1>1 DEF Go, Labels
<1>2. ASSUME NEW t \in Workers, NEW c \in Cues, Queue(t, c) PROVE TypeOK'
  BY <1>0, <1>2 DEF Queue, Labels
<1>3. ASSUME NEW t \in Workers, Esc(t) PROVE TypeOK'
  BY <1>0, <1>3 DEF Esc, Labels
<1>4. CASE Halt
  <2>1. deck' \in Decks /\ gen' \in Nat /\ halts' \in Nat /\ loads' \in Nat
    BY <1>4, StopTyped DEF Halt
  <2>2. Halted \in {"load", "halt", "idleHalt", "esc", "queue", "end"}
    BY DEF Halted
  <2> QED BY <1>0, <1>4, <2>1, <2>2 DEF Halt
<1>5. CASE Resume
  BY <1>0, <1>5, DeckTyped DEF Resume
<1> QED BY <1>1, <1>2, <1>3, <1>4, <1>5

\* ... and what a goroutine does.
LEMMA WorkTyped ==
  ASSUME TypeOK, NEW t \in Workers, Work(t)
  PROVE  TypeOK'
<1> USE ConstTyped, NotedTyped DEF TypeOK, counters, workers, history, Goto, Finish
<1>1. /\ deck \in Decks /\ deck.at \in {"empty", "running", "parked", "stopped"}
      /\ reg[t] \in Locals /\ reg[t].cue \in Position /\ reg[t].next \in Position
  BY DEF Decks, Locals
<1>2. CASE Load(t)
  <2>1. deck' \in Decks
    BY <1>1, <1>2, DeckTyped DEF Load
  <2> QED BY <1>2, <2>1 DEF Load, Labels
<1>3. CASE LoadFails(t)
  BY <1>3 DEF LoadFails, Labels
<1>4. CASE Settle(t)
  <2>1. deck' \in Decks
    <3> DEFINE at == IF deck.at = "empty" THEN deck.at ELSE "running"
    <3>1. deck' = [deck EXCEPT !.cue = reg[t].cue, !.at = at]
      BY <1>4 DEF Settle
    <3>2. at \in {"empty", "running", "parked", "stopped"}
      BY <1>1
    <3> QED BY <1>1, <3>1, <3>2, DeckTyped
  <2>2. CASE reg[t].cue \in Still
    <3>1. PICK u \in Workers :
            /\ pc' = [pc EXCEPT ![t] = "idle", ![u] = "note"]
            /\ reg' = [reg EXCEPT ![t] = NoRegs, ![u] = reg[t]]
      BY <1>4, <2>2 DEF Settle
    <3>2. pc' \in [Workers -> Labels] /\ reg' \in [Workers -> Locals]
      BY <1>1, <3>1 DEF Labels
    <3> QED BY <1>4, <2>1, <3>2 DEF Settle
  <2>3. CASE reg[t].cue \notin Still
    BY <1>4, <2>1, <2>3 DEF Settle, Labels
  <2> QED BY <2>2, <2>3
<1>5. CASE Note(t)
  BY <1>1, <1>5, LocalsTyped DEF Note, Labels
<1>6. CASE StillEnds(t)
  BY <1>6 DEF StillEnds, Labels
<1>7. CASE StillHalts(t)
  <2>1. deck' \in Decks /\ gen' \in Nat /\ halts' \in Nat /\ loads' \in Nat
    BY <1>7, StopTyped DEF StillHalts
  <2> QED BY <1>7, <2>1 DEF StillHalts, Labels
<1>8. CASE Arm(t)
  <2> DEFINE c == reg[t].cue
             n == NextPos(c)
  <2>1. CASE Arms(t, c, n)
    <3>1. c \in Cues /\ n \in Position
      BY <2>1, AutomationAssumption DEF AutomationAssumption, Arms
    <3>2. reg' = [reg EXCEPT ![t] = [reg[t] EXCEPT !.op = "chain", !.next = n, !.gen = gen]]
      BY <2>1 DEF Arms
    <3>3. reg' \in [Workers -> Locals]
      BY <1>1, <3>1, <3>2, LocalsTyped
    <3>4. [at |-> "start", cue |-> c, next |-> n, gen |-> gen] \in Countdowns
      BY <1>1, <3>1 DEF Countdowns
    <3>5. show' \in [Workers -> Countdowns] /\ pc' \in [Workers -> Labels]
      BY <2>1, <3>4 DEF Arms, Labels
    <3>6. since' = [since EXCEPT ![t] = {}]
      BY <2>1 DEF Arms
    <3> QED BY <1>8, <3>3, <3>5, <3>6 DEF Arm
  <2>2. CASE Finish(t) /\ UNCHANGED <<show, since>>
    BY <1>8, <2>2 DEF Arm, Labels
  <2> QED BY <1>8, <2>1, <2>2 DEF Arm
<1>9. CASE Decide(t)
  <2>1. \/ reg' = [reg EXCEPT ![t] = [NoRegs EXCEPT !.op = "chain", !.cue = reg[t].next]]
        \/ Finish(t)
    BY <1>9 DEF Decide
  <2>2. [NoRegs EXCEPT !.op = "chain", !.cue = reg[t].next] \in Locals
    BY <1>1, LocalsTyped
  <2>3. reg' \in [Workers -> Locals]
    BY <2>1, <2>2
  <2> QED BY <1>9, <2>3 DEF Decide, Labels
<1>10. CASE FadeBegins(t)
  <2>1. deck' = deck \/ deck' = [deck EXCEPT !.fader = t]
    BY <1>10 DEF FadeBegins
  <2>2. reg' = reg \/ reg' = [reg EXCEPT ![t].gen = gen]
    BY <1>10 DEF FadeBegins
  <2>3. deck' \in Decks
    BY <1>1, <2>1, DeckTyped
  <2>4. [reg[t] EXCEPT !.gen = gen] \in Locals
    BY <1>1, LocalsTyped
  <2>5. reg' \in [Workers -> Locals]
    BY <2>2, <2>4
  <2> QED BY <1>10, <2>3, <2>5 DEF FadeBegins, AfterFade, Labels
<1>11. CASE FadeGivesUp(t)
  BY <1>11 DEF FadeGivesUp, AfterFade, Labels
<1>12. CASE FadeEnds(t)
  BY <1>12 DEF FadeEnds, AfterFade, Labels
<1>13. CASE Yield(t)
  BY <1>13 DEF Yield, Labels
<1>14. CASE EscStops(t)
  <2>1. CASE loads = reg[t].loads
    <3>1. deck' \in Decks /\ gen' \in Nat /\ halts' \in Nat /\ loads' \in Nat
      BY <1>14, <2>1, StopTyped DEF EscStops
    <3>2. Halted \in {"load", "halt", "idleHalt", "esc", "queue", "end"}
      BY DEF Halted
    <3> QED BY <1>14, <2>1, <3>1, <3>2 DEF EscStops, Labels
  <2>2. CASE loads # reg[t].loads
    BY <1>14, <2>2 DEF EscStops, Labels
  <2> QED BY <2>1, <2>2
<1> QED
  BY <1>2, <1>3, <1>4, <1>5, <1>6, <1>7, <1>8, <1>9, <1>10, <1>11, <1>12, <1>13, <1>14
  DEF Work

\* ... and the end of a clip and the countdowns.
LEMMA DeckTypedNext ==
  ASSUME TypeOK, NEW t \in Workers, ClipEnds(t) \/ Count(t) \/ CountEnds(t)
  PROVE  TypeOK'
<1> USE ConstTyped, NotedTyped DEF TypeOK, counters, workers, history, Goto
<1>1. /\ deck \in Decks /\ deck.cue \in Position
      /\ show[t] \in Countdowns /\ show[t].cue \in Position /\ show[t].next \in Position
  BY DEF Decks, Countdowns
<1>2. CASE ClipEnds(t)
  <2>1. [deck EXCEPT !.at = "parked"] \in Decks
    BY <1>1, DeckTyped
  <2>4. deck' \in Decks /\ gen' \in Nat
    BY <1>2, <2>1 DEF ClipEnds
  <2>2. [NoRegs EXCEPT !.op = "chain", !.cue = deck.cue] \in Locals
    BY <1>1, LocalsTyped
  <2>3. pc' \in [Workers -> Labels] /\ reg' \in [Workers -> Locals]
    BY <1>2, <2>2 DEF ClipEnds, Labels
  <2> QED BY <1>2, <2>3, <2>4 DEF ClipEnds
<1>3. CASE Count(t)
  <2>1. [show[t] EXCEPT !.at = "post"] \in Countdowns /\ [show[t] EXCEPT !.at = "pre"] \in Countdowns
    BY <1>1 DEF Countdowns
  <2> QED BY <1>1, <1>3, <2>1 DEF Count
<1>4. CASE CountEnds(t)
  BY <1>4 DEF CountEnds
<1> QED BY <1>2, <1>3, <1>4

LEMMA StepTyped == TypeOK /\ [Next]_vars => TypeOK'
<1> SUFFICES ASSUME TypeOK, [Next]_vars PROVE TypeOK'
  OBVIOUS
<1>1. CASE UNCHANGED vars
  BY <1>1 DEF vars, counters, workers, history, TypeOK
<1>2. CASE Next
  BY <1>2, OperatorTyped, WorkTyped, DeckTypedNext DEF Next
<1> QED BY <1>1, <1>2

\* Every reachable state is well typed.
THEOREM TypeCorrect == Spec => []TypeOK
<1>1. Init => TypeOK
  BY InitTyped
<1>2. TypeOK /\ [Next]_vars => TypeOK'
  BY StepTyped
<1> QED BY <1>1, <1>2, PTL DEF Spec

-----------------------------------------------------------------------------
\* What a step may do to the counters and to what u has to notice.
Change(u) ==
  \/ /\ gen' = gen /\ halts' >= halts /\ loads' = loads
     /\ since'[u] \in {since[u], since[u] \cup {"queue"}, since[u] \cup {"esc"}}
  \/ /\ gen' > gen /\ halts' = halts /\ loads' > loads
     /\ since'[u] = since[u] \cup {"load"}
  \/ /\ gen' > gen /\ halts' > halts /\ loads' = loads
     /\ since'[u] = since[u] \cup {"halt"}
  \/ /\ gen' = gen /\ halts' > halts /\ loads' = loads
     /\ since'[u] = since[u] \cup {"idleHalt"}
  \/ /\ gen' > gen /\ halts' >= halts /\ loads' = loads
     /\ since'[u] = since[u] \cup {"end"}

Told(u) == Mark(u) /\ Want(u)

\* Such a step keeps what a goroutine knows while it stays where it is.
LEMMA MarkKept ==
  ASSUME TypeOK, TypeOK', NEW u \in Workers, Mark(u), Change(u),
         pc[u] \in {"wait", "decide", "still"}, reg'[u].gen = reg[u].gen
  PROVE  Mark(u)'
<1>1. gen \in Nat /\ gen' \in Nat /\ reg[u].gen \in Nat
  BY DEF TypeOK, Locals
<1> QED BY <1>1 DEF Mark, Change

LEMMA WantKept ==
  ASSUME TypeOK, TypeOK', NEW u \in Workers, Want(u), Change(u),
         pc[u] \in {"fade", "fading", "yield", "escStop"},
         reg'[u].halts = reg[u].halts, reg'[u].loads = reg[u].loads
  PROVE  Want(u)'
<1>1. /\ halts \in Nat /\ halts' \in Nat /\ reg[u].halts \in Nat
      /\ loads \in Nat /\ loads' \in Nat /\ reg[u].loads \in Nat
  BY DEF TypeOK, Locals
<1> QED BY <1>1 DEF Want, Change

LEMMA ToldKept ==
  ASSUME TypeOK, TypeOK', NEW u \in Workers, Told(u),
         pc'[u] = pc[u], reg'[u] = reg[u],
         pc[u] \in Pending => Change(u)
  PROVE  Told(u)'
<1>1. CASE pc[u] \in {"wait", "decide", "still"}
  BY <1>1, MarkKept DEF Told, Pending, Mark, Want
<1>2. CASE pc[u] \in {"fade", "fading", "yield", "escStop"}
  BY <1>2, WantKept DEF Told, Pending, Mark, Want
<1>3. CASE pc[u] \notin Pending
  BY <1>3 DEF Told, Pending, Mark, Want
<1> QED BY <1>1, <1>2, <1>3 DEF Pending

\* The calls that are counted.
LEMMA StopChange ==
  ASSUME TypeOK, NEW u \in Workers, pc[u] \in Pending,
         StopDeck \/ PanicDeck, Noted(Halted)
  PROVE  Change(u)
<1>1. gen \in Nat /\ halts \in Nat /\ since'[u] = since[u] \cup {Halted}
  BY DEF TypeOK, Noted
<1>2. halts' = halts + 1 /\ loads' = loads
  BY DEF StopDeck, PanicDeck
<1>3. CASE deck.at = "empty"
  BY <1>1, <1>2, <1>3 DEF StopDeck, PanicDeck, Halted, Change
<1>4. CASE deck.at # "empty"
  BY <1>1, <1>2, <1>4 DEF StopDeck, PanicDeck, Halted, Change
<1> QED BY <1>3, <1>4

\* A step of a goroutine keeps what it knows itself ...
LEMMA ToldSelf ==
  ASSUME TypeOK, TypeOK', NEW t \in Workers, NEW c \in Cues, Told(t), Quiet(t),
         Go(t, c) \/ Queue(t, c) \/ Esc(t) \/ Work(t) \/ ClipEnds(t)
  PROVE  Told(t)' /\ Quiet(t)'
<1> USE DEF TypeOK, counters, workers, history, Goto, Finish, Free
<1>1. CASE Go(t, c)
  BY <1>1 DEF Go, Told, Mark, Want, Quiet
<1>2. CASE Queue(t, c)
  <2>1. reg'[t].halts = halts /\ reg'[t].loads = loads /\ pc'[t] = "fade" /\ since'[t] = {}
    BY <1>2 DEF Queue, Noted, Pending, NoRegs
  <2> QED BY <1>2, <2>1 DEF Queue, Told, Mark, Want, Quiet
<1>3. CASE Esc(t)
  <2>1. reg'[t].halts = 0 /\ reg'[t].loads = loads /\ pc'[t] = "fade" /\ since'[t] = {}
    BY <1>3 DEF Esc, Noted, Pending, NoRegs
  <2> QED BY <1>3, <2>1 DEF Esc, Told, Mark, Want, Quiet
<1>4. CASE Load(t)
  BY <1>4 DEF Load, Told, Mark, Want, Quiet
<1>5. CASE LoadFails(t)
  BY <1>5 DEF LoadFails, Told, Mark, Want, Quiet
<1>6. CASE Settle(t)
  BY <1>6 DEF Settle, Told, Mark, Want, Quiet
<1>7. CASE Note(t)
  BY <1>7 DEF Note, Told, Mark, Want, Quiet
<1>8. CASE StillEnds(t)
  BY <1>8 DEF StillEnds, Told, Mark, Want, Quiet
<1>9. CASE StillHalts(t)
  BY <1>9 DEF StillHalts, Told, Mark, Want, Quiet
<1>10. CASE Arm(t)
  <2>1. CASE Arms(t, reg[t].cue, NextPos(reg[t].cue))
    <3>1. reg'[t].gen = gen /\ since'[t] = {} /\ pc'[t] \in {"wait", "decide"}
      BY <2>1 DEF Arms, Locals
    <3> QED BY <1>10, <3>1 DEF Arm, Told, Mark, Want, Quiet
  <2>2. CASE Finish(t)
    BY <2>2 DEF Told, Mark, Want, Quiet
  <2> QED BY <1>10, <2>1, <2>2 DEF Arm
<1>11. CASE Decide(t)
  BY <1>11 DEF Decide, Told, Mark, Want, Quiet
<1>12. CASE FadeBegins(t)
  <2>1. /\ reg'[t].halts = reg[t].halts /\ reg'[t].loads = reg[t].loads
        /\ pc'[t] \in {"yield", "escStop", "fading"}
    BY <1>12 DEF FadeBegins, AfterFade, Locals
  <2> QED BY <1>12, <2>1 DEF FadeBegins, Told, Mark, Want, Quiet
<1>13. CASE FadeGivesUp(t)
  BY <1>13 DEF FadeGivesUp, AfterFade, Told, Mark, Want, Quiet
<1>14. CASE FadeEnds(t)
  <2>1. since'[t] = since[t] \cup {"end"} /\ pc'[t] \in {"yield", "escStop"}
    BY <1>14 DEF FadeEnds, Noted, AfterFade, Pending
  <2> QED BY <1>14, <2>1 DEF FadeEnds, Told, Mark, Want, Quiet
<1>15. CASE Yield(t)
  BY <1>15 DEF Yield, Told, Mark, Want, Quiet
<1>16. CASE EscStops(t)
  BY <1>16 DEF EscStops, Told, Mark, Want, Quiet
<1>17. CASE ClipEnds(t)
  <2>1. CASE deck.cue = 0
    <3>1. pc'[t] = pc[t] /\ reg'[t] = reg[t] /\ show'[t] = show[t]
      BY <1>17, <2>1 DEF ClipEnds
    <3>2. pc[t] \in Pending => Change(t)
      BY <1>17 DEF ClipEnds, Noted, Change
    <3> QED BY <3>1, <3>2, ToldKept DEF Quiet
  <2>2. CASE deck.cue # 0
    BY <1>17, <2>2 DEF ClipEnds, Told, Mark, Want, Quiet
  <2> QED BY <2>1, <2>2
<1>18. CASE Work(t)
  BY <1>18, <1>4, <1>5, <1>6, <1>7, <1>8, <1>9, <1>10, <1>11, <1>12, <1>13, <1>14, <1>15, <1>16
  DEF Work
<1> QED BY <1>1, <1>2, <1>3, <1>17, <1>18

\* ... and what the others know.
LEMMA OthersChange ==
  ASSUME TypeOK, NEW u \in Workers, pc[u] \in Pending,
         NEW t \in Workers, NEW c \in Cues, u # t,
         Go(t, c) \/ Queue(t, c) \/ Esc(t) \/ Work(t) \/ ClipEnds(t)
  PROVE  Change(u) /\ pc'[u] = pc[u] /\ reg'[u] = reg[u]
<1> USE DEF TypeOK, counters, workers, history, Goto, Finish, Change, Pending
<1>1. CASE Go(t, c)
  BY <1>1 DEF Go
<1>2. CASE Queue(t, c)
  BY <1>2 DEF Queue, Noted
<1>3. CASE Esc(t)
  BY <1>3 DEF Esc, Noted
<1>4. CASE Load(t)
  BY <1>4 DEF Load, Noted
<1>5. CASE LoadFails(t)
  BY <1>5 DEF LoadFails, Noted
<1>6. CASE Settle(t)
  BY <1>6 DEF Settle
<1>7. CASE Note(t)
  BY <1>7 DEF Note
<1>8. CASE StillEnds(t)
  BY <1>8 DEF StillEnds
<1>9. CASE StillHalts(t)
  <2>1. pc'[u] = pc[u] /\ reg'[u] = reg[u]
    BY <1>9 DEF StillHalts
  <2>2. CASE deck.at = "empty"
    BY <1>9, <2>2 DEF StillHalts, StopDeck
  <2>3. CASE deck.at # "empty"
    BY <1>9, <2>3 DEF StillHalts, StopDeck, Noted
  <2> QED BY <2>1, <2>2, <2>3
<1>10. CASE Arm(t)
  BY <1>10 DEF Arm, Arms
<1>11. CASE Decide(t)
  BY <1>11 DEF Decide
<1>12. CASE FadeBegins(t)
  BY <1>12 DEF FadeBegins, AfterFade
<1>13. CASE FadeGivesUp(t)
  BY <1>13 DEF FadeGivesUp, AfterFade
<1>14. CASE FadeEnds(t)
  BY <1>14 DEF FadeEnds, AfterFade, Noted
<1>15. CASE Yield(t)
  BY <1>15 DEF Yield
<1>16. CASE EscStops(t)
  <2>1. pc'[u] = pc[u] /\ reg'[u] = reg[u]
    BY <1>16 DEF EscStops
  <2>2. CASE StopDeck /\ Noted(Halted)
    BY <2>1, <2>2, StopChange
  <2>3. CASE UNCHANGED <<deck, counters, since>>
    BY <2>1, <2>3
  <2> QED BY <1>16, <2>2, <2>3 DEF EscStops
<1>17. CASE ClipEnds(t)
  BY <1>17 DEF ClipEnds, Noted
<1>18. CASE Work(t)
  BY <1>18, <1>4, <1>5, <1>6, <1>7, <1>8, <1>9, <1>10, <1>11, <1>12, <1>13, <1>14, <1>15, <1>16
  DEF Work
<1> QED BY <1>1, <1>2, <1>3, <1>17, <1>18

\* Only Arm starts a countdown, and Settle hands a still over to a goroutine
\* that has none.
LEMMA OthersQuiet ==
  ASSUME TypeOK, NEW u \in Workers, NEW t \in Workers, NEW c \in Cues, u # t, Quiet(u),
         Go(t, c) \/ Queue(t, c) \/ Esc(t) \/ Work(t) \/ ClipEnds(t)
  PROVE  Quiet(u)'
<1> USE DEF TypeOK, workers, Goto, Finish, Quiet
<1>1. CASE Go(t, c) \/ Queue(t, c) \/ Esc(t) \/ ClipEnds(t)
  BY <1>1 DEF Go, Queue, Esc, ClipEnds
<1>2. CASE Load(t) \/ LoadFails(t) \/ Note(t) \/ StillEnds(t) \/ StillHalts(t)
  BY <1>2 DEF Load, LoadFails, Note, StillEnds, StillHalts
<1>3. CASE Settle(t)
  BY <1>3 DEF Settle
<1>4. CASE Arm(t) \/ Decide(t)
  BY <1>4 DEF Arm, Arms, Decide
<1>5. CASE FadeBegins(t) \/ FadeGivesUp(t) \/ FadeEnds(t) \/ Yield(t) \/ EscStops(t)
  BY <1>5 DEF FadeBegins, FadeGivesUp, FadeEnds, AfterFade, Yield, EscStops
<1> QED BY <1>1, <1>2, <1>3, <1>4, <1>5 DEF Work

\* A wait on show has its countdown.
LEMMA CountdownStep ==
  ASSUME TypeOK, TypeOK', NEW t \in Workers, NEW c \in Cues, CountdownClears, Quiet(t),
         Go(t, c) \/ Queue(t, c) \/ Esc(t) \/ Work(t) \/ ClipEnds(t)
  PROVE  CountdownClears'
<1>1. CASE UNCHANGED <<wait, show>>
  BY <1>1 DEF CountdownClears
<1>2. CASE Arm(t)
  <2>1. \A u \in Workers : show[u].at \in {"post", "pre"} => u # t /\ show'[u] = show[u]
    BY <1>2 DEF Arm, Arms, Quiet, NoShow, TypeOK
  <2> QED BY <1>2, <2>1 DEF Arm, CountdownClears
<1>3. CASE Go(t, c) \/ Queue(t, c) \/ Esc(t) \/ ClipEnds(t)
  BY <1>1, <1>3 DEF Go, Queue, Esc, ClipEnds
<1>4. CASE Work(t) /\ ~Arm(t)
  BY <1>1, <1>4
  DEF Work, Load, LoadFails, Settle, Note, StillEnds, StillHalts, Decide, FadeBegins,
      FadeGivesUp, FadeEnds, Yield, EscStops
<1> QED BY <1>2, <1>3, <1>4

LEMMA WorkerStep ==
  ASSUME IInv, TypeOK', NEW t \in Workers, NEW c \in Cues,
         Go(t, c) \/ Queue(t, c) \/ Esc(t) \/ Work(t) \/ ClipEnds(t)
  PROVE  IInv'
<1>1. TypeOK /\ CountdownClears /\ \A u \in Workers : Told(u) /\ Quiet(u)
  BY DEF IInv, Told
<1>2. Told(t)' /\ Quiet(t)'
  BY <1>1, ToldSelf
<1>3. ASSUME NEW u \in Workers, u # t
      PROVE  Told(u)' /\ Quiet(u)'
  <2>1. Quiet(u)'
    BY <1>1, <1>3, OthersQuiet
  <2>2. CASE pc[u] \in Pending
    BY <1>1, <1>3, <2>1, <2>2, OthersChange, ToldKept
  <2>3. CASE pc[u] \notin Pending /\ pc'[u] \notin Pending
    BY <2>1, <2>3 DEF Told, Mark, Want, Pending
  <2>4. pc[u] \notin Pending => pc'[u] \notin Pending
    <3> USE <1>1 DEF TypeOK, workers, Goto, Finish, Pending
    <3>1. CASE Go(t, c) \/ Queue(t, c) \/ Esc(t) \/ ClipEnds(t)
      BY <1>3, <3>1 DEF Go, Queue, Esc, ClipEnds
    <3>2. CASE Work(t) /\ ~Settle(t)
      BY <1>3, <3>2
      DEF Work, Load, LoadFails, Note, StillEnds, StillHalts, Arm, Arms, Decide, FadeBegins,
          FadeGivesUp, FadeEnds, AfterFade, Yield, EscStops
    <3>3. CASE Settle(t)
      BY <1>3, <3>3 DEF Settle
    <3> QED BY <3>1, <3>2, <3>3
  <2> QED BY <2>1, <2>2, <2>3, <2>4
<1>4. CountdownClears'
  BY <1>1, CountdownStep
<1> QED BY <1>2, <1>3, <1>4 DEF IInv, Told

\* The countdowns, Stop, Panic and Play leave the goroutines where they are.
LEMMA DeckStep ==
  ASSUME IInv, TypeOK',
         Halt \/ Resume \/ UNCHANGED vars \/ \E t \in Workers : Count(t) \/ CountEnds(t)
  PROVE  IInv'
<1> USE DEF counters, workers, history
<1>1. TypeOK /\ CountdownClears /\ \A u \in Workers : Told(u) /\ Quiet(u)
  BY DEF IInv, Told
<1>2. pc' = pc /\ reg' = reg
  BY DEF Halt, Resume, Count, CountEnds, vars
<1>3. ASSUME NEW u \in Workers
      PROVE  Told(u)'
  <2>1. CASE Halt
    <3>1. pc[u] \in Pending => Change(u)
      BY <1>1, <2>1, StopChange DEF Halt
    <3> QED BY <1>1, <1>2, <3>1, ToldKept
  <2>2. CASE UNCHANGED <<gen, halts, loads, since>>
    BY <1>1, <1>2, <2>2, ToldKept DEF Change, TypeOK
  <2>3. Halt \/ UNCHANGED <<gen, halts, loads, since>>
    BY DEF Resume, Count, CountEnds, vars
  <2> QED BY <2>1, <2>2, <2>3
<1>4. ASSUME NEW u \in Workers
      PROVE  Quiet(u)'
  BY <1>1, <1>2 DEF Halt, Resume, Count, CountEnds, vars, Quiet, NoShow, TypeOK
<1>5. CountdownClears'
  <2>1. CASE UNCHANGED <<wait, show>>
    BY <1>1, <2>1 DEF CountdownClears
  <2>2. ASSUME NEW t \in Workers, Count(t)
        PROVE  CountdownClears'
    <3>1. show'[t].at \in {"post", "pre"}
      BY <1>1, <2>2 DEF Count, TypeOK, Countdowns
    <3> QED BY <3>1 DEF CountdownClears
  <2>3. ASSUME NEW t \in Workers, CountEnds(t)
        PROVE  CountdownClears'
    BY <2>3 DEF CountEnds, CountdownClears
  <2> QED BY <2>1, <2>2, <2>3 DEF Halt, Resume, vars
<1> QED BY <1>3, <1>4, <1>5 DEF IInv, Told

-----------------------------------------------------------------------------
LEMMA InitInv == Init => IInv
  BY InitTyped DEF Init, IInv, CountdownClears, Mark, Want, Quiet

LEMMA StepInv == IInv /\ [Next]_vars => IInv'
<1> SUFFICES ASSUME IInv, [Next]_vars PROVE IInv'
  OBVIOUS
<1>1. TypeOK'
  BY StepTyped DEF IInv
<1>2. 1 \in Cues
  BY AutomationAssumption DEF AutomationAssumption, Cues
<1>3. ASSUME NEW t \in Workers, NEW c \in Cues,
             Go(t, c) \/ Queue(t, c) \/ Esc(t) \/ Work(t) \/ ClipEnds(t)
      PROVE  IInv'
  BY <1>1, <1>3, WorkerStep
<1>4. CASE Halt \/ Resume \/ UNCHANGED vars \/ \E t \in Workers : Count(t) \/ CountEnds(t)
  BY <1>1, <1>4, DeckStep
<1> QED BY <1>2, <1>3, <1>4 DEF Next

\* A wait is shown only while a countdown is there to clear it, for every
\* sheet and any number of goroutines.
THEOREM WaitsAreCleared == Spec => []CountdownClears
<1>1. IInv => CountdownClears
  BY DEF IInv
<1> QED BY <1>1, InitInv, StepInv, PTL DEF Spec

\* A goroutine that waits is moved on by nobody else.
LEMMA OwnStep ==
  ASSUME TypeOK, [Next]_vars, NEW t \in Workers, pc[t] \in Pending, pc'[t] # pc[t]
  PROVE  Work(t)
<1>1. 1 \in Cues
  BY AutomationAssumption DEF AutomationAssumption, Cues
<1>2. ASSUME NEW u \in Workers, NEW c \in Cues,
             Go(u, c) \/ Queue(u, c) \/ Esc(u) \/ Work(u) \/ ClipEnds(u)
      PROVE  Work(t)
  <2>1. CASE u # t
    BY <1>2, <2>1, OthersChange
  <2>2. CASE u = t
    <3>1. pc[t] # "idle"
      BY DEF Pending
    <3>2. ~Go(t, c) /\ ~Queue(t, c) /\ ~Esc(t)
      BY <3>1 DEF Go, Queue, Esc, Free
    <3>3. ~ClipEnds(t)
      BY <3>1 DEF ClipEnds, Free, workers
    <3> QED BY <1>2, <2>2, <3>2, <3>3
  <2> QED BY <2>1, <2>2
<1>3. CASE Halt \/ Resume \/ UNCHANGED vars \/ \E u \in Workers : Count(u) \/ CountEnds(u)
  BY <1>3 DEF Halt, Resume, Count, CountEnds, vars, workers
<1> QED BY <1>1, <1>2, <1>3 DEF Next

LEMMA DecideOnly ==
  ASSUME TypeOK, [Next]_vars, NEW t \in Workers, pc'[t] # pc[t]
  PROVE  /\ pc[t] \in {"wait", "decide"} => Decide(t)
         /\ pc[t] = "still" => StillEnds(t)
         /\ pc[t] = "yield" => Yield(t)
  BY OwnStep
  DEF Pending, Work, Load, LoadFails, Settle, Note, StillEnds, StillHalts, Arm, Decide,
      FadeBegins, FadeGivesUp, FadeEnds, Yield, EscStops

\* "A triggered cue can never interrupt a newer decision": for every sheet
\* and any number of goroutines, no chain and no display timer acts once a
\* cue was loaded or a loaded one stopped after it read the generation.
THEOREM NewerDecisionWins == Spec => ArmedYields
<1>1. ASSUME IInv, [Next]_vars, NEW t \in Workers, Acts(t)
      PROVE  since[t] \cap {"load", "halt"} = {}
  <2>1. Mark(t) /\ TypeOK
    BY <1>1 DEF IInv
  <2>2. CASE pc[t] \in {"wait", "decide"}
    <3>1. Decide(t) /\ pc'[t] = "load"
      BY <1>1, <2>1, <2>2, DecideOnly DEF Acts, Chains
    <3>2. Undisturbed(t)
      BY <2>1, <3>1 DEF Decide, Finish, Goto, TypeOK
    <3> QED BY <2>1, <2>2, <3>2 DEF Mark, Undisturbed
  <2>3. CASE pc[t] = "still"
    <3>1. StillEnds(t) /\ pc'[t] \in {"hook", "halt"}
      BY <1>1, <2>1, <2>3, DecideOnly DEF Acts, Chains
    <3>2. Undisturbed(t)
      BY <2>1, <3>1 DEF StillEnds, Finish, Goto, TypeOK
    <3> QED BY <2>1, <2>3, <3>2 DEF Mark, Undisturbed
  <2> QED BY <1>1, <2>2, <2>3 DEF Acts, Chains
<1>2. IInv /\ [Next]_vars =>
        [\A t \in Workers : Acts(t) => since[t] \cap {"load", "halt"} = {}]_vars
  BY <1>1
<1> QED BY <1>2, InitInv, StepInv, PTL DEF Spec, ArmedYields

\* A chain gives up only because the deck moved after it read the generation:
\* its show goes on otherwise, for every sheet and any number of goroutines.
THEOREM ChainsGoOn == Spec => ChainGoesOn
<1>1. ASSUME IInv, [Next]_vars, NEW t \in Workers,
             pc[t] \in {"wait", "decide"}, pc'[t] = "idle"
      PROVE  since[t] \cap {"load", "halt", "end"} # {}
  <2>1. Mark(t) /\ TypeOK
    BY <1>1 DEF IInv
  <2>2. Decide(t)
    BY <1>1, <2>1, DecideOnly
  <2>3. ~Undisturbed(t)
    BY <1>1, <2>1, <2>2 DEF Decide, Goto, TypeOK
  <2> QED BY <1>1, <2>1, <2>3 DEF Mark, Undisturbed
<1>2. IInv /\ [Next]_vars =>
        [\A t \in Workers : (pc[t] \in {"wait", "decide"} /\ pc'[t] = "idle")
           => since[t] \cap {"load", "halt", "end"} # {}]_vars
  BY <1>1
<1> QED BY <1>2, InitInv, StepInv, PTL DEF Spec, ChainGoesOn

\* FireCue for every sheet and any number of goroutines: Stop, Panic and
\* another cue win over the one queued behind a fade.
THEOREM QueueGivesWay == Spec => QueueYields
<1>1. ASSUME IInv, [Next]_vars, NEW t \in Workers, Fires(t)
      PROVE  since[t] \cap {"load", "halt", "idleHalt"} = {}
  <2>1. Want(t) /\ TypeOK
    BY <1>1 DEF IInv
  <2>2. Yield(t) /\ pc'[t] = "load"
    BY <1>1, <2>1, DecideOnly DEF Fires
  <2>3. StillWanted(t)
    BY <2>1, <2>2 DEF Yield, Finish, Goto, TypeOK
  <2>4. halts = reg[t].halts /\ loads = reg[t].loads /\ halts \in Nat /\ loads \in Nat
    BY <2>1, <2>3 DEF StillWanted, TypeOK
  <2> QED BY <1>1, <2>1, <2>4 DEF Want, Fires
<1>2. IInv /\ [Next]_vars =>
        [\A t \in Workers : Fires(t) => since[t] \cap {"load", "halt", "idleHalt"} = {}]_vars
  BY <1>1
<1> QED BY <1>2, InitInv, StepInv, PTL DEF Spec, QueueYields
=============================================================================
