------------------------------- MODULE Awards -------------------------------
(***************************************************************************)
(* Awards Mode (routes/awards.go): GO on an awards group plays its next    *)
(* member or fades the one that runs, and the selection stays on the       *)
(* group's header until the last member has been stopped.                  *)
(*                                                                         *)
(* The session is one record under awardsMu.  GO leaves that lock to load, *)
(* and the stop to fade, so presses of GO, selections, direct fires, Stop, *)
(* the end of the clip and its auto-continue come in between.  Selections, *)
(* loads and the deck (the cue on it and gsp.Generation) are steps.        *)
(***************************************************************************)
EXTENDS Naturals, Sequences, FiniteSets, SequencesExt, Functions

CONSTANTS
  Units,      \* the sheet's selectable rows: [group |-> g, cue |-> 0] or [group |-> 0, cue |-> c]
  Members,    \* the cues of group 1 and its subgroups, in sheet order
  AutoContinue,  \* cues that auto-continue
  Threads,    \* handlers and fades alive at a time
  Presses,    \* presses of GO handled at a time
  Ops,        \* what the operator does
  MaxOps,     \* bound: how often
  Faults      \* a load may fail

Cues == {Units[i].cue : i \in DOMAIN Units} \ {0}
Header == CHOOSE i \in DOMAIN Units : Units[i].group = 1

AwardsAssumption ==
  /\ Units \in Seq([group : Nat, cue : Nat])
  /\ \E i \in DOMAIN Units : Units[i].group = 1
  /\ Members \in Seq(Cues) /\ Len(Members) > 0 /\ IsInjective(Members)
  /\ Presses \in Nat /\ MaxOps \in Nat /\ Faults \in BOOLEAN

VARIABLES
  st,        \* awardsSt
  group,     \* [shuffle, loop]: the group's settings
  sel,       \* the selected row
  unsynced,  \* the selection moved, awardsSelectionSync is to come
  deck, gen, \* the cue on the deck (0 = none), gsp.Generation
  hook,      \* [at, cue, gen]: the end of a clip on its way to auto-continue
  pc, reg,   \* [Threads -> label], [Threads -> locals]
  ops, since \* operator's actions, [Threads -> a cue was fired over its fade]

session == <<st, group>>
selection == <<sel, unsynced>>
engine == <<deck, gen>>
threads == <<pc, reg>>
vars == <<session, selection, engine, hook, threads, ops, since>>

NoSession == [group |-> 0, order |-> <<>>, pos |-> 1, phase |-> "idle", member |-> 0,
              shuffle |-> FALSE, loop |-> FALSE]
NoRegs == [cue |-> 0, idx |-> 0, gen |-> 0, shuffle |-> FALSE, loop |-> FALSE]
NoHook == [at |-> "off", cue |-> 0, gen |-> 0]

Init ==
  /\ st = NoSession
  /\ group \in [shuffle : {FALSE}, loop : BOOLEAN]
  /\ sel = Header /\ unsynced = FALSE
  /\ deck = 0 /\ gen = 0 /\ hook = NoHook
  /\ pc = [t \in Threads |-> "idle"] /\ reg = [t \in Threads |-> NoRegs]
  /\ ops = 0 /\ since = [t \in Threads |-> FALSE]

Goto(t, l) == pc' = [pc EXCEPT ![t] = l]
Finish(t) == Goto(t, "idle") /\ reg' = [reg EXCEPT ![t] = NoRegs]

\* A cue is loaded: the deck is its, and a decision counted.  (fired: which
\* fades should know.)
Play(c) ==
  /\ deck' = c /\ gen' = gen + 1
  /\ since' = [t \in Threads |-> since[t] \/ pc[t] = "fading"]

Clear == deck' = 0 /\ gen' = IF deck = 0 THEN gen ELSE gen + 1

RowOf(c) == CHOOSE i \in DOMAIN Units : Units[i].cue = c

\* SelectStep(1): the next row, the last one stays.
StepFrom(i) == IF i < Len(Units) THEN i + 1 ELSE i

\* NextCuePos: the next cue in the sheet, 0 after the last.
NextCue(c) ==
  LET below == {i \in DOMAIN Units : i > RowOf(c) /\ Units[i].cue # 0}
  IN IF below = {} THEN 0 ELSE Units[CHOOSE i \in below : \A j \in below : i <= j].cue

-----------------------------------------------------------------------------
\* The operator presses GO on the header; the settings and the members are
\* read before the session is locked.
PressGO(t) ==
  /\ "go" \in Ops /\ ops < MaxOps /\ ops' = ops + 1
  /\ pc[t] = "idle" /\ sel = Header
  /\ Cardinality({u \in Threads : pc[u] \in {"lock", "load", "claim"}}) < Presses
  /\ reg' = [reg EXCEPT ![t] = [NoRegs EXCEPT !.shuffle = group.shuffle, !.loop = group.loop]]
  /\ since' = [since EXCEPT ![t] = FALSE]
  /\ Goto(t, "lock")
  /\ UNCHANGED <<session, selection, engine, hook>>

\* GO on a cue fires it and the selection advances (goAdvance).
GOOnCue ==
  /\ "go" \in Ops /\ ops < MaxOps /\ ops' = ops + 1
  /\ Units[sel].cue # 0
  /\ Play(Units[sel].cue)
  /\ sel' = StepFrom(sel)
  /\ UNCHANGED <<session, unsynced, hook, threads>>

\* A cue is fired without the selection (FireCue); Stop and Panic.
Fire(c) ==
  /\ "fire" \in Ops /\ ops < MaxOps /\ ops' = ops + 1
  /\ Play(c)
  /\ UNCHANGED <<session, selection, hook, threads>>

Halt ==
  /\ "stop" \in Ops /\ ops < MaxOps /\ ops' = ops + 1
  /\ Clear
  /\ UNCHANGED <<session, selection, hook, threads, since>>

\* A click on another row; the inspector's shuffle and loop.
Select(i) ==
  /\ "select" \in Ops /\ ops < MaxOps /\ ops' = ops + 1
  /\ i # sel /\ ~unsynced
  /\ sel' = i /\ unsynced' = TRUE
  /\ UNCHANGED <<session, engine, hook, threads, since>>

Edit ==
  /\ "edit" \in Ops /\ ops < MaxOps /\ ops' = ops + 1
  /\ \/ group' = [group EXCEPT !.shuffle = ~@]
     \/ group' = [group EXCEPT !.loop = ~@]
  /\ UNCHANGED <<st, selection, engine, hook, threads, since>>

\* awardsSelectionLeft: a session of a group that is not selected is dropped.
LeaveUnless(g) == st' = IF st.group \notin {0, g} THEN NoSession ELSE st

\* awardsSelectionSync, after the selection moved.
Sync ==
  /\ unsynced /\ unsynced' = FALSE
  /\ LeaveUnless(Units[sel].group)
  /\ UNCHANGED <<group, sel, engine, hook, threads, ops, since>>

-----------------------------------------------------------------------------
\* awardsOrder: sheet order, or any.
Orders(shuffle) == IF shuffle THEN SetToSeqs(ToSet(Members)) ELSE {Members}

\* The session the settings read by t call for: the one there is, or a new
\* one; an order when it has none.
SessionFor(t) ==
  LET same == st.group = 1 /\ st.shuffle = reg[t].shuffle /\ st.loop = reg[t].loop
      s == IF same THEN st
           ELSE [NoSession EXCEPT !.group = 1, !.shuffle = reg[t].shuffle, !.loop = reg[t].loop]
  IN IF s.order # <<>> THEN {s}
     ELSE {[s EXCEPT !.order = o, !.pos = 1] : o \in Orders(reg[t].shuffle)}

\* The member the session says is playing still is: else the engine moved on
\* and the session goes on from its cursor.
Runs(s) == s.phase = "playing" /\ deck = s.member

\* awardsGO under the lock: a GO in the fade is ignored, a GO on a running
\* member stops it, any other plays the member at the cursor.
LockGO(t) ==
  /\ pc[t] = "lock"
  /\ \E s \in SessionFor(t) :
       \/ /\ s.phase = "stopping"
          /\ st' = s /\ Finish(t)
       \/ /\ Runs(s)
          /\ st' = [s EXCEPT !.phase = "stopping"]
          /\ reg' = [reg EXCEPT ![t].cue = s.member]
          /\ Goto(t, "fade")
       \/ /\ s.phase # "stopping" /\ ~Runs(s)
          /\ \E o \in IF s.pos > Len(s.order) THEN Orders(reg[t].shuffle) ELSE {s.order} :
               LET at == IF s.pos > Len(s.order) THEN 1 ELSE s.pos
               IN /\ st' = [s EXCEPT !.phase = "idle", !.order = o, !.pos = at]
                  /\ reg' = [reg EXCEPT ![t].cue = o[at], ![t].idx = at]
          /\ Goto(t, "load")
  /\ UNCHANGED <<group, selection, engine, hook, ops, since>>

\* The load, without the lock; one that fails leaves the cursor.
LoadMember(t) ==
  /\ pc[t] = "load"
  /\ \/ Play(reg[t].cue) /\ Goto(t, "claim") /\ UNCHANGED reg
     \/ Faults /\ Finish(t) /\ UNCHANGED <<engine, since>>
  /\ UNCHANGED <<session, selection, hook, ops>>

\* The session is claimed if its cursor is where the load found it.
Claimable(t) == st.group = 1 /\ st.phase = "idle" /\ st.pos = reg[t].idx

Claim(t) ==
  /\ pc[t] = "claim"
  /\ st' = IF Claimable(t)
           THEN [st EXCEPT !.phase = "playing", !.member = reg[t].cue, !.pos = @ + 1] ELSE st
  /\ Finish(t)
  /\ UNCHANGED <<group, selection, engine, hook, ops, since>>

-----------------------------------------------------------------------------
\* FadeAndStop takes the clip on the deck and the generation; with none it is
\* over.
BeginFade(t) ==
  /\ pc[t] = "fade"
  /\ reg' = [reg EXCEPT ![t].gen = gen]
  /\ Goto(t, IF deck = 0 THEN "after" ELSE "fading")
  /\ UNCHANGED <<session, selection, engine, hook, ops, since>>

\* It stops the clip it faded, and gives up after a newer decision.
EndFade(t) ==
  /\ pc[t] = "fading"
  /\ IF gen = reg[t].gen THEN Clear ELSE UNCHANGED engine
  /\ Goto(t, "after")
  /\ UNCHANGED <<session, selection, hook, reg, ops, since>>

\* Mutant of AfterStop: the session of another's cue is advanced all the same.
AdvancesAnyway(t) ==
  IF st.pos <= Len(st.order) THEN st' = [st EXCEPT !.phase = "idle"] /\ Finish(t)
  ELSE st' = NoSession /\ Goto(t, "out") /\ UNCHANGED reg

\* What the end of the stop makes of its session: somebody else's deck drops
\* it; then the next member, the next round, or the way out.
AfterStop(t) ==
  IF deck # 0 THEN st' = NoSession /\ Finish(t)
  ELSE IF st.pos <= Len(st.order) THEN st' = [st EXCEPT !.phase = "idle"] /\ Finish(t)
  ELSE IF group.loop
  THEN /\ \E o \in Orders(group.shuffle) :
            st' = [st EXCEPT !.phase = "idle", !.order = o, !.pos = 1]
       /\ Finish(t)
  ELSE st' = NoSession /\ Goto(t, "out") /\ UNCHANGED reg

\* awardsAfterStop: only for the session and member it stopped.
Stopped(t) ==
  /\ pc[t] = "after"
  /\ IF st.group = 1 /\ st.phase = "stopping" /\ st.member = reg[t].cue
     THEN AfterStop(t) ELSE st' = st /\ Finish(t)
  /\ UNCHANGED <<group, selection, engine, hook, ops, since>>

\* awardsStepOut: step over the members, up to a header or a cue that is not
\* a member; at the end of the sheet back to the header.
OutFrom(i) ==
  LET rest == {j \in DOMAIN Units : j > i /\ Units[j].cue \notin ToSet(Members)}
  IN IF rest = {} THEN Header ELSE CHOOSE j \in rest : \A k \in rest : j <= k

\* The selection leaves the group ...
StepOut(t) ==
  /\ pc[t] = "out"
  /\ sel' = OutFrom(sel)
  /\ IF Units[sel'].cue = 0 THEN Finish(t)
     ELSE reg' = [reg EXCEPT ![t].cue = Units[sel'].cue] /\ Goto(t, "outload")
  /\ UNCHANGED <<session, unsynced, engine, hook, ops, since>>

\* ... and the cue it found is fired.
LoadOut(t) ==
  /\ pc[t] = "outload"
  /\ \/ Play(reg[t].cue)
     \/ Faults /\ UNCHANGED <<engine, since>>
  /\ Finish(t)
  /\ UNCHANGED <<session, selection, hook, ops>>

-----------------------------------------------------------------------------
\* The clip ends; the hook runs for the cue it was.
ClipEnds ==
  /\ deck # 0 /\ hook = NoHook
  /\ Clear
  /\ hook' = IF deck \in AutoContinue THEN [at |-> "hook", cue |-> deck, gen |-> 0] ELSE NoHook
  /\ UNCHANGED <<session, selection, threads, ops, since>>

\* awardsSuppressAutoContinue
Suppressed(c) == st.group # 0 /\ st.phase = "playing" /\ st.member = c

\* autoContinueFrom: not for a member; note the generation ...
Arm ==
  /\ hook.at = "hook"
  /\ hook' = IF Suppressed(hook.cue) \/ NextCue(hook.cue) = 0 THEN NoHook
             ELSE [hook EXCEPT !.at = "armed", !.gen = gen]
  /\ UNCHANGED <<session, selection, engine, threads, ops, since>>

\* ... and fire the next cue, which is selected, if it still stands.
Chain ==
  /\ hook.at = "armed"
  /\ IF gen = hook.gen
     THEN /\ Play(NextCue(hook.cue))
          /\ sel' = RowOf(NextCue(hook.cue)) /\ unsynced' = TRUE
     ELSE UNCHANGED <<engine, selection, since>>
  /\ hook' = NoHook
  /\ UNCHANGED <<session, threads, ops>>

Step(t) ==
  \/ LockGO(t) \/ LoadMember(t) \/ Claim(t)
  \/ BeginFade(t) \/ EndFade(t) \/ Stopped(t) \/ StepOut(t) \/ LoadOut(t)

Next ==
  \/ \E t \in Threads : PressGO(t) \/ Step(t)
  \/ GOOnCue \/ Halt \/ Edit
  \/ \E c \in Cues : Fire(c)
  \/ \E i \in DOMAIN Units : Select(i)
  \/ Sync \/ ClipEnds \/ Arm \/ Chain

\* Handlers and fades run on.
Spec == Init /\ [][Next]_vars /\ \A t \in Threads : WF_vars(Step(t))

-----------------------------------------------------------------------------
Sessions ==
  [group : {0, 1}, order : Seq(ToSet(Members)), pos : 1..(Len(Members) + 1),
   phase : {"idle", "playing", "stopping"}, member : {0} \cup ToSet(Members),
   shuffle : BOOLEAN, loop : BOOLEAN]

TypeOK ==
  /\ st \in Sessions
  /\ group \in [shuffle : BOOLEAN, loop : BOOLEAN]
  /\ sel \in DOMAIN Units /\ unsynced \in BOOLEAN
  /\ deck \in Cues \cup {0} /\ gen \in Nat
  /\ hook \in [at : {"off", "hook", "armed"}, cue : Cues \cup {0}, gen : Nat]
  /\ pc \in [Threads -> {"idle", "lock", "load", "claim", "fade", "fading", "after",
                         "out", "outload"}]
  /\ reg \in [Threads -> [cue : Cues \cup {0}, idx : 0..Len(Members), gen : Nat,
                          shuffle : BOOLEAN, loop : BOOLEAN]]
  /\ ops \in 0..MaxOps /\ since \in [Threads -> BOOLEAN]

\* A session that is playing plays the member before its cursor: the members
\* come in the order of the session, each once a round.
CursorFollows ==
  st.phase # "idle" => st.pos - 1 \in DOMAIN st.order /\ st.order[st.pos - 1] = st.member

\* A stop is always carried through: GO is not ignored for good.
StopEnds == st.phase = "stopping" ~> st.phase # "stopping"

\* What was fired over the fade stays: the session it stopped is dropped, not
\* advanced.
FadeYields ==
  [][\A t \in Threads : Stopped(t) /\ since[t] /\ deck # 0
       /\ st.phase = "stopping" => st'.group = 0 \/ st' = st]_vars

\* The way out leads out of the group.
OutIsOut ==
  [][\A t \in Threads : StepOut(t) /\ sel' # Header
       => sel' > RowOf(Members[Len(Members)])]_vars

\* A member of a session under way never auto-continues: awards cues wait for
\* the operator (awards.go 265).  One that ends while its stop fades does.
MembersWait ==
  [][Arm /\ st.group = 1 /\ st.phase # "idle" /\ st.member = hook.cue
       => hook' = NoHook]_vars

=============================================================================
