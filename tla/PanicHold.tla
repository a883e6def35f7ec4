----------------------------- MODULE PanicHold ------------------------------
(***************************************************************************)
(* The panic holding image (gsp/panichold.go, routes/panichold.go and      *)
(* remotePanic): a copy of the image is kept prerolled on a plane of its   *)
(* own; PANIC raises it, then retires what ran and adopts the copy as the  *)
(* transport.  A reconciler re-arms on a kick or every two seconds.        *)
(*                                                                         *)
(* Pipelines are taken from a pool.  A file's content is a version, which  *)
(* the stamp (size and time) tells apart; 0 is a file that cannot be read. *)
(***************************************************************************)
EXTENDS Naturals, FiniteSets

CONSTANTS
  Pipes,      \* pipelines that may exist at a time
  Files,      \* stills that may be the holding image
  Handlers,   \* panics handled at a time
  Ops,        \* what happens around them
  MaxOps,     \* bound: how often
  Faults      \* a build may fail, an armed pipeline may die

None == "none"

ASSUME PanicHoldAssumption ==
  /\ MaxOps \in Nat /\ Faults \in BOOLEAN
  /\ None \notin Pipes /\ "cue" \notin Pipes

VARIABLES
  setting,   \* the panicHoldImage state, None = off
  content,   \* [Files -> version]
  standby,   \* [p, file, stamp]: the armed copy
  pipe,      \* [Pipes -> [at, shows]]: "free", "armed" (prerolled), "dead", "on"
             \* (plane raised), and the content it was built from
  deck,      \* the focus: a pipeline, "cue" or None
  kick,      \* the reconciler's channel is full
  arm,       \* ArmPanicHold: [at, p, file, stamp]
  pc, reg,   \* [Handlers -> label], [Handlers -> [file, p]]
  ops,       \* what happened so far
  still      \* [Handlers -> the cue on the deck when it began is still there]

held == <<standby, arm>>
panics == <<pc, reg>>
vars == <<setting, content, held, pipe, deck, kick, panics, ops, still>>

NoArm == [at |-> "wait", p |-> None, file |-> None, stamp |-> 0]
StartArm == [at |-> "read", p |-> None, file |-> None, stamp |-> 0]
NoStandby == [p |-> None, file |-> None, stamp |-> 0]
NoRegs == [file |-> None, p |-> None]
Free == [at |-> "free", shows |-> 0]

Init ==
  /\ setting \in Files \cup {None}
  /\ content = [f \in Files |-> 1]
  /\ standby = NoStandby /\ arm = StartArm
  /\ pipe = [p \in Pipes |-> Free]
  /\ deck = None /\ kick = FALSE
  /\ pc = [t \in Handlers |-> "idle"] /\ reg = [t \in Handlers |-> NoRegs]
  /\ ops = 0 /\ still = [t \in Handlers |-> FALSE]

Stamp(f) == IF f = None THEN 0 ELSE content[f]

Goto(t, l) == pc' = [pc EXCEPT ![t] = l]

\* The focus is replaced by d; a pipeline that was there is retired.  (What a
\* panic found on the deck is gone.)
Install(d, ps) ==
  /\ deck' = d
  /\ pipe' = [p \in Pipes |-> IF p = deck /\ p # d THEN Free
                              ELSE IF p = d THEN [ps[p] EXCEPT !.at = "on"] ELSE ps[p]]
  /\ still' = [t \in Handlers |-> FALSE]

-----------------------------------------------------------------------------
\* RunPanicStandby: the setting is read, after a kick or two seconds.
Poll ==
  /\ arm.at = "wait"
  /\ arm' = StartArm
  /\ kick' = FALSE
  /\ UNCHANGED <<setting, content, standby, pipe, deck, panics, ops, still>>

\* ArmPanicHold: the stamp of the file that is to be armed ...
ReadSetting ==
  /\ arm.at = "read"
  /\ arm' = [arm EXCEPT !.at = "match", !.file = setting, !.stamp = Stamp(setting)]
  /\ UNCHANGED <<setting, content, standby, pipe, deck, kick, panics, ops, still>>

\* Mutant of Armed: the file is compared, not its stamp.
ArmedFile(file, stamp) == standby.p # None /\ standby.file = file

\* ... an armed copy of it stays ...
Armed(file, stamp) ==
  stamp # 0 /\ standby.p # None /\ standby.file = file /\ standby.stamp = stamp

\* ... any other is taken out and retired ...
Match ==
  /\ arm.at = "match"
  /\ IF Armed(arm.file, arm.stamp)
     THEN arm' = NoArm /\ UNCHANGED <<standby, pipe>>
     ELSE /\ standby' = NoStandby
          /\ pipe' = [p \in Pipes |-> IF p = standby.p THEN Free ELSE pipe[p]]
          /\ arm' = IF arm.stamp = 0 THEN NoArm ELSE [arm EXCEPT !.at = "build"]
  /\ UNCHANGED <<setting, content, deck, kick, panics, ops, still>>

\* Mutants of StampOf: the stamp is taken with the picture already built; the
\* fields are swapped.
LateStamp == Stamp(arm.file)
\* The stamp that goes with the picture: the one read before the build.
StampOf == arm.stamp

\* ... the picture is built and prerolled, or not ...
Build ==
  /\ arm.at = "build"
  /\ \/ /\ content[arm.file] # 0
        /\ \E p \in Pipes : /\ pipe[p] = Free
                            /\ pipe' = [pipe EXCEPT ![p] = [at |-> "armed",
                                                            shows |-> content[arm.file]]]
                            /\ arm' = [arm EXCEPT !.at = "install", !.p = p]
     \/ (Faults \/ content[arm.file] = 0) /\ arm' = NoArm /\ UNCHANGED pipe
  /\ UNCHANGED <<setting, content, standby, deck, kick, panics, ops, still>>

\* ... and installed.
InstallArmed ==
  /\ arm.at = "install"
  /\ standby' = [p |-> arm.p, file |-> arm.file, stamp |-> StampOf]
  /\ arm' = NoArm
  /\ UNCHANGED <<setting, content, pipe, deck, kick, panics, ops, still>>

-----------------------------------------------------------------------------
\* remotePanic: the image that is set ...
Press(t) ==
  /\ "panic" \in Ops /\ ops < MaxOps /\ ops' = ops + 1
  /\ pc[t] = "idle"
  /\ reg' = [reg EXCEPT ![t] = [file |-> setting, p |-> None]]
  /\ still' = [still EXCEPT ![t] = deck = "cue"]
  /\ Goto(t, IF setting = None THEN "black" ELSE "take")
  /\ UNCHANGED <<setting, content, held, pipe, deck, kick>>

\* Mutant of Taken: the copy stays where it was.
LeftThere == standby

Taken == NoStandby

\* PanicToHold takes the copy if it is of this file as it is now ...
Take(t) ==
  /\ pc[t] = "take"
  /\ IF standby.p # None /\ standby.file = reg[t].file /\ standby.stamp = Stamp(reg[t].file)
     THEN /\ reg' = [reg EXCEPT ![t].p = standby.p] /\ standby' = Taken
          /\ Goto(t, "raise")
     ELSE Goto(t, "cold") /\ UNCHANGED <<reg, standby>>
  /\ UNCHANGED <<setting, content, arm, pipe, deck, kick, ops, still>>

\* Mutant of NotReady: a copy that died is good enough.
GivesUp(t) == "idle"

\* A copy that is not ready leaves the panic to a cold load.
NotReady(t) == "cold"

\* ... raises its plane when it is ready ...
Raise(t) ==
  /\ pc[t] = "raise"
  /\ IF pipe[reg[t].p].at = "armed"
     THEN /\ pipe' = [pipe EXCEPT ![reg[t].p].at = "on"]
          /\ Goto(t, "adopt") /\ UNCHANGED reg
     ELSE /\ pipe' = [pipe EXCEPT ![reg[t].p] = Free]
          /\ reg' = [reg EXCEPT ![t].p = None]
          /\ Goto(t, NotReady(t))
  /\ UNCHANGED <<setting, content, held, deck, kick, ops, still>>

\* ... and adopts it; the reconciler is kicked.
Adopt(t) ==
  /\ pc[t] = "adopt"
  /\ Install(reg[t].p, pipe)
  /\ kick' = TRUE
  /\ Goto(t, "idle") /\ reg' = [reg EXCEPT ![t] = NoRegs]
  /\ UNCHANGED <<setting, content, held, ops>>

\* No copy: kick, and load the image cold ...
Cold(t) ==
  /\ pc[t] = "cold"
  /\ kick' = TRUE
  /\ \/ /\ content[reg[t].file] # 0
        /\ \E p \in Pipes : /\ pipe[p] = Free
                            /\ Install(p, [pipe EXCEPT ![p].shows = content[reg[t].file]])
        /\ Goto(t, "idle") /\ reg' = [reg EXCEPT ![t] = NoRegs]
     \/ /\ Faults \/ content[reg[t].file] = 0
        /\ Goto(t, "black") /\ UNCHANGED <<reg, pipe, deck, still>>
  /\ UNCHANGED <<setting, content, held, ops>>

\* ... or cut to black.
Black(t) ==
  /\ pc[t] = "black"
  /\ Install(None, pipe)
  /\ Goto(t, "idle") /\ reg' = [reg EXCEPT ![t] = NoRegs]
  /\ UNCHANGED <<setting, content, held, kick, ops>>

-----------------------------------------------------------------------------
\* The setting changes, and kicks; a file is replaced or removed behind it.
SetImage(f) ==
  /\ "set" \in Ops /\ ops < MaxOps /\ ops' = ops + 1
  /\ f # setting /\ setting' = f /\ kick' = TRUE
  /\ UNCHANGED <<content, held, pipe, deck, panics, still>>

ReplaceFile(f) ==
  /\ "file" \in Ops /\ ops < MaxOps /\ ops' = ops + 1
  /\ \/ content' = [content EXCEPT ![f] = ops + 2]
     \/ content' = [content EXCEPT ![f] = 0]
  /\ UNCHANGED <<setting, held, pipe, deck, kick, panics, still>>

\* A cue is loaded: the focus is replaced.
Go ==
  /\ "go" \in Ops /\ ops < MaxOps /\ ops' = ops + 1
  /\ Install("cue", pipe)
  /\ UNCHANGED <<setting, content, held, kick, panics>>

\* The armed pipeline leaves PAUSED; nothing watches its bus.
Dies ==
  /\ Faults
  /\ standby.p # None /\ pipe[standby.p].at = "armed"
  /\ pipe' = [pipe EXCEPT ![standby.p].at = "dead"]
  /\ UNCHANGED <<setting, content, held, deck, kick, panics, ops, still>>

Reconcile == Poll \/ ReadSetting \/ Match \/ Build \/ InstallArmed
Handle(t) == Take(t) \/ Raise(t) \/ Adopt(t) \/ Cold(t) \/ Black(t)

Next ==
  \/ Reconcile \/ Go \/ Dies
  \/ \E t \in Handlers : Press(t) \/ Handle(t)
  \/ \E f \in Files \cup {None} : SetImage(f)
  \/ \E f \in Files : ReplaceFile(f)

\* The reconciler runs on, by its timer if not by a kick; so do the handlers.
Spec == Init /\ [][Next]_vars /\ WF_vars(Reconcile) /\ \A t \in Handlers : WF_vars(Handle(t))

-----------------------------------------------------------------------------
AnyPipe == Pipes \cup {None}
AnyFile == Files \cup {None}

TypeOK ==
  /\ setting \in AnyFile
  /\ content \in [Files -> Nat]
  /\ standby \in [p : AnyPipe, file : AnyFile, stamp : Nat]
  /\ pipe \in [Pipes -> [at : {"free", "armed", "dead", "on"}, shows : Nat]]
  /\ deck \in AnyPipe \cup {"cue"}
  /\ kick \in BOOLEAN
  /\ arm \in [at : {"wait", "read", "match", "build", "install"}, p : AnyPipe, file : AnyFile,
              stamp : Nat]
  /\ pc \in [Handlers -> {"idle", "take", "raise", "adopt", "cold", "black"}]
  /\ reg \in [Handlers -> [file : AnyFile, p : AnyPipe]]
  /\ ops \in 0..MaxOps /\ still \in [Handlers -> BOOLEAN]

\* A pipeline that exists is in one place: the standby, the arming, a panic's
\* hand or the focus.  None leaks, none has two owners.
Owned ==
  /\ \A p \in Pipes :
       pipe[p].at = "free" <=> p \notin {standby.p, arm.p, deck} \cup {reg[t].p : t \in Handlers}
  /\ standby.p # None => standby.p # arm.p /\ standby.p # deck
  /\ arm.p # None => arm.p # deck
  /\ \A t \in Handlers :
       reg[t].p # None =>
         /\ reg[t].p \notin {standby.p, arm.p, deck}
         /\ \A u \in Handlers \ {t} : reg[u].p # reg[t].p

\* A copy whose stamp is the file's shows what the file holds: no panic cuts
\* to an older picture.
StampIsPicture ==
  standby.p # None /\ standby.stamp = Stamp(standby.file)
    => pipe[standby.p].shows = standby.stamp

\* When a panic is done, the cue it was pressed on is off the deck.
PanicLands ==
  [][\A t \in Handlers : pc[t] # "idle" /\ pc'[t] = "idle" => ~still'[t]]_vars

BuildFails == arm.at = "build" /\ arm' = NoArm

\* Once nothing changes any more, the image as it is now is armed again, unless
\* its builds fail for ever.
Rearms ==
  <>[](ops = MaxOps /\ \A t \in Handlers : pc[t] = "idle")
    => \/ <>[](setting # None /\ content[setting] # 0
               => standby.file = setting /\ standby.stamp = content[setting])
       \/ []<><<BuildFails>>_vars
=============================================================================
