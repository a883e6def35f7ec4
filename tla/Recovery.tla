------------------------------ MODULE Recovery ------------------------------
(***************************************************************************)
(* Live pages (routes/index.go, gsp.go): the watch that probes a page on   *)
(* the wall, the failure of its pipeline, the fall-back to the panic image *)
(* and the retries that bring the page back.                               *)
(*                                                                         *)
(* A thread is a page's chain of goroutines: the load, its watch, the end  *)
(* hook, the recovery, and the load of the recovery again.  The deck is    *)
(* the focus, named by the generation it was installed with; Stop and      *)
(* Panic are one step here (Playback has their sections).  A mark holds    *)
(* halts and loads, which only grow: their sum says the same.              *)
(***************************************************************************)
EXTENDS Naturals, FiniteSets

CONSTANTS
  Pages,      \* cues that are live pages: numbers
  HoldImage,  \* a panic image is set
  Threads,    \* chains alive at a time
  Ops,        \* what the operator does
  MaxOps,     \* bound: how often
  MaxFaults   \* bound: outages, pipelines that fail, loads that fail

VARIABLES
  deck,      \* [cue, id]: the focus; cue 0 = none
  gen,       \* gsp.Generation
  acts,      \* gsp.Halts and gsp.Loads
  up,        \* [Pages -> the page answers]
  sheet,     \* [Pages -> the cue is still this live page]
  pc, reg,   \* [Threads -> label], [Threads -> locals]
  ops, faults,
  by,        \* the page the operator fired last, 0 = something else, or Stop
  since      \* [Threads -> where the operator's decisions found its retries]

engine == <<deck, gen, acts>>
world == <<up, sheet>>
threads == <<pc, reg>>
history == <<by, since>>
vars == <<engine, world, threads, ops, faults, history>>

File == 100    \* a cue that is no page
Image == 101   \* the panic image
NoDeck == [cue |-> 0, id |-> 0]
NoRegs == [cue |-> 0, gen |-> 0, mark |-> 0, id |-> 0]
Waiting == {"wait", "reprobe", "reload"}

Init ==
  /\ deck = NoDeck /\ gen = 0 /\ acts = 0
  /\ up = [c \in Pages |-> TRUE] /\ sheet = [c \in Pages |-> TRUE]
  /\ pc = [t \in Threads |-> "idle"] /\ reg = [t \in Threads |-> NoRegs]
  /\ ops = 0 /\ faults = 0
  /\ by = 0 /\ since = [t \in Threads |-> {}]

Goto(t, l) == pc' = [pc EXCEPT ![t] = l]
Finish(t) == Goto(t, "idle") /\ reg' = [reg EXCEPT ![t] = NoRegs]

\* swap: c is the focus, a new generation and a load.
Swap(c) == deck' = [cue |-> c, id |-> gen + 1] /\ gen' = gen + 1 /\ acts' = acts + 1

\* clearPlayback with a pipeline: a new generation.
Clear == deck' = NoDeck /\ gen' = IF deck = NoDeck THEN gen ELSE gen + 1

\* The operator decided for page c, or for none of them.
Decided(c) ==
  /\ by' = c
  /\ since' = [t \in Threads |-> since[t] \cup ({pc[t]} \cap Waiting)]

Operator(act) == act \in Ops /\ ops < MaxOps /\ ops' = ops + 1
Fault == faults < MaxFaults /\ faults' = faults + 1

-----------------------------------------------------------------------------
\* GO on another cue; Stop or Panic; the cue is deleted or made another.
GoFile ==
  /\ Operator("go") /\ Swap(File) /\ Decided(0)
  /\ UNCHANGED <<world, threads, faults>>

Halt ==
  /\ Operator("halt") /\ Decided(0)
  /\ \/ Clear /\ acts' = acts + 1
     \/ HoldImage /\ Swap(Image)
  /\ UNCHANGED <<world, threads, faults>>

Edit(c) ==
  /\ Operator("edit") /\ sheet[c]
  /\ sheet' = [sheet EXCEPT ![c] = FALSE]
  /\ UNCHANGED <<engine, up, threads, faults, history>>

\* GO on a page.
GoPage(t, c) ==
  /\ Operator("page") /\ pc[t] = "idle" /\ sheet[c]
  /\ reg' = [reg EXCEPT ![t] = [NoRegs EXCEPT !.cue = c]]
  /\ Goto(t, "load")
  /\ UNCHANGED <<engine, world, faults, history>>

\* The page's server goes away and comes back.
Outage(c) ==
  /\ \/ up[c] /\ Fault
     \/ ~up[c] /\ UNCHANGED faults
  /\ up' = [up EXCEPT ![c] = ~@]
  /\ UNCHANGED <<engine, sheet, threads, ops, history>>

-----------------------------------------------------------------------------
\* LoadEndpointWithOpts, for GO ...
Load(t) ==
  /\ pc[t] = "load"
  /\ Swap(reg[t].cue) /\ Decided(reg[t].cue)
  /\ Goto(t, "spawn")
  /\ UNCHANGED <<world, reg, ops, faults>>

\* ... or for a recovery.
Reload(t) ==
  /\ pc[t] = "reload"
  /\ Swap(reg[t].cue)
  /\ since' = [since EXCEPT ![t] = {}]
  /\ Goto(t, "spawn")
  /\ UNCHANGED <<world, reg, ops, faults, by>>

\* The load fails, before or after the page is the focus; a recovery falls
\* back again.
LoadFails(t) ==
  /\ pc[t] \in {"load", "reload"} /\ Fault
  /\ \/ UNCHANGED <<engine, history>>
     \/ /\ deck' = NoDeck /\ gen' = gen + 2 /\ acts' = acts + 1
        /\ IF pc[t] = "load" THEN Decided(0) ELSE UNCHANGED history
  /\ IF pc[t] = "load" THEN Finish(t) ELSE Goto(t, "panic") /\ UNCHANGED reg
  /\ UNCHANGED <<world, ops>>

\* watchEndpointAvailability: the generation is read after the load ...
Spawn(t) ==
  /\ pc[t] = "spawn"
  /\ reg' = [reg EXCEPT ![t].gen = gen]
  /\ Goto(t, "mark")
  /\ UNCHANGED <<engine, world, ops, faults, history>>

\* ... and the mark in the goroutine.
Mark(t) ==
  /\ pc[t] = "mark"
  /\ reg' = [reg EXCEPT ![t].mark = acts]
  /\ Goto(t, "sleep")
  /\ UNCHANGED <<engine, world, ops, faults, history>>

\* The watch ends with its page, and probes it until then.
Sleep(t) ==
  /\ pc[t] = "sleep"
  /\ IF gen # reg[t].gen \/ acts # reg[t].mark THEN Finish(t)
     ELSE Goto(t, "probe") /\ UNCHANGED reg
  /\ UNCHANGED <<engine, world, ops, faults, history>>

Probe(t) ==
  /\ pc[t] = "probe"
  /\ Goto(t, IF up[reg[t].cue] THEN "sleep" ELSE "fail")
  /\ UNCHANGED <<engine, world, reg, ops, faults, history>>

\* FailEndpoint, endpointFailed: a page must be the focus, of that generation.
Fail(t) ==
  /\ pc[t] = "fail"
  /\ IF deck.cue \in Pages /\ gen = reg[t].gen
     THEN reg' = [reg EXCEPT ![t].id = deck.id, ![t].cue = deck.cue] /\ Goto(t, "clear")
     ELSE Finish(t)
  /\ UNCHANGED <<engine, world, ops, faults, history>>

\* The pipeline of the page fails, or draws nothing (showLive): endpointFailed.
PipelineFails(t) ==
  /\ pc[t] = "idle" /\ deck.cue \in Pages /\ Fault
  /\ reg' = [reg EXCEPT ![t] = [NoRegs EXCEPT !.cue = deck.cue, !.id = deck.id]]
  /\ Goto(t, "clear")
  /\ UNCHANGED <<engine, world, ops, history>>

\* clearIfCurrent: only the page that failed is cleared.
ClearFailed(t) == IF deck.id = reg[t].id THEN Clear ELSE UNCHANGED <<deck, gen>>

ClearStep(t) ==
  /\ pc[t] = "clear"
  /\ ClearFailed(t) /\ UNCHANGED acts
  /\ since' = [since EXCEPT ![t] = {}]
  /\ Goto(t, "hook")
  /\ UNCHANGED <<world, reg, ops, faults, by>>

\* The hook is started with the generation as it is then.
Hook(t) ==
  /\ pc[t] = "hook"
  /\ reg' = [reg EXCEPT ![t].gen = gen]
  /\ Goto(t, "recover")
  /\ UNCHANGED <<engine, world, ops, faults, history>>

\* recoverLiveCue.
Recover(t) ==
  /\ pc[t] = "recover"
  /\ IF gen = reg[t].gen /\ sheet[reg[t].cue] THEN Goto(t, "panic") /\ UNCHANGED reg
     ELSE Finish(t)
  /\ UNCHANGED <<engine, world, ops, faults, history>>

\* showLiveFallback is remotePanic: the armed image (a halt, then the swap),
\* the image loaded cold, or black.
Panic(t) ==
  /\ pc[t] = "panic"
  /\ \/ HoldImage /\ acts' = acts + 1 /\ Goto(t, "raise") /\ UNCHANGED <<deck, gen>>
     \/ HoldImage /\ Swap(Image) /\ Goto(t, "remark")
     \/ acts' = acts + 1 /\ Clear /\ Goto(t, "remark")
  /\ UNCHANGED <<world, reg, ops, faults, history>>

Raise(t) ==
  /\ pc[t] = "raise"
  /\ Swap(Image)
  /\ Goto(t, "remark")
  /\ UNCHANGED <<world, reg, ops, faults, history>>

\* The mark is taken when it is done.
Remark(t) ==
  /\ pc[t] = "remark"
  /\ reg' = [reg EXCEPT ![t].mark = acts]
  /\ Goto(t, "wait")
  /\ UNCHANGED <<engine, world, ops, faults, history>>

\* Mutant of Unchanged: nobody is asked.
AlwaysRetries(t) == TRUE

\* (*mark).unchanged
Unchanged(t) == acts = reg[t].mark

\* A page that does not answer is asked again, later.
AfterProbe(c) == IF up[c] THEN "reload" ELSE "wait"

\* An attempt, after a delay: the mark and the cue are checked ...
Attempt(t) ==
  /\ pc[t] = "wait"
  /\ IF Unchanged(t) /\ sheet[reg[t].cue] THEN Goto(t, "reprobe") /\ UNCHANGED reg
     ELSE Finish(t)
  /\ UNCHANGED <<engine, world, ops, faults, history>>

\* ... and the page is asked, for up to three seconds.
Reprobe(t) ==
  /\ pc[t] = "reprobe"
  /\ Goto(t, AfterProbe(reg[t].cue))
  /\ UNCHANGED <<engine, world, reg, ops, faults, history>>

Chain(t) ==
  \/ Load(t) \/ Reload(t) \/ Spawn(t) \/ Mark(t) \/ Sleep(t) \/ Probe(t) \/ Fail(t)
  \/ ClearStep(t) \/ Hook(t) \/ Recover(t) \/ Panic(t) \/ Raise(t) \/ Remark(t)
  \/ Attempt(t) \/ Reprobe(t)

Next ==
  \/ GoFile \/ Halt
  \/ \E c \in Pages : Edit(c) \/ Outage(c)
  \/ \E t \in Threads : Chain(t) \/ LoadFails(t) \/ PipelineFails(t)
  \/ \E t \in Threads, c \in Pages : GoPage(t, c)

\* The goroutines and their timers run on.
Spec == Init /\ [][Next]_vars /\ \A t \in Threads : WF_vars(Chain(t))

-----------------------------------------------------------------------------
TypeOK ==
  /\ deck \in [cue : Pages \cup {0, File, Image}, id : Nat]
  /\ gen \in Nat /\ acts \in Nat
  /\ up \in [Pages -> BOOLEAN] /\ sheet \in [Pages -> BOOLEAN]
  /\ pc \in [Threads -> Waiting \cup {"idle", "load", "spawn", "mark", "sleep", "probe", "fail",
                                      "clear", "hook", "recover", "panic", "raise", "remark"}]
  /\ reg \in [Threads -> [cue : Pages \cup {0}, gen : Nat, mark : Nat, id : Nat]]
  /\ ops \in 0..MaxOps /\ faults \in 0..MaxFaults
  /\ by \in Pages \cup {0} /\ since \in [Threads -> SUBSET Waiting]

\* What the operator does while the fall-back waits stands: the page does not
\* come back over it.
WaitYields == [][\A t \in Threads : Reload(t) => "wait" \notin since[t]]_vars

\* The failure of a page takes nothing else off the wall.
OnlyItsPage ==
  [][\A t \in Threads : ClearStep(t) /\ deck' # deck => deck.cue = reg[t].cue]_vars

\* Page c, if the operator left it on the wall, is back there once it answers.
PageReturns(c) ==
  <>[](by = c /\ up[c] /\ sheet[c]) => <>[](deck.cue = c)

\* index.go 763: a retry comes only while no operator action has superseded the
\* fall-back.  One that comes while the page is asked is overridden.
AnyActionYields == [][\A t \in Threads : Reload(t) => since[t] = {}]_vars
=============================================================================
