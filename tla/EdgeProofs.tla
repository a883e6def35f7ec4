---------------------------- MODULE EdgeProofs -----------------------------
(***************************************************************************)
(* What PanicHold promises for any number of pipelines, stills and panics  *)
(* handled at a time, with faults or without.                              *)
(*                                                                         *)
(* What holds on the wall however many pipelines and planes it has: no     *)
(* shared plane, nothing on screen before its show, no show lost before    *)
(* the layer, and no fade before what it waits for.                        *)
(* The stack and the z-positions play no part in these.                    *)
(*                                                                         *)
(* What RemoteLink promises for any number of protocols, connections and   *)
(* requests that save the settings.                                        *)
(***************************************************************************)
EXTENDS PanicHold, Sequences, FiniteSetTheorems, TLAPS

-----------------------------------------------------------------------------
\* What the arming holds at each of its places, and that its picture is that
\* of its stamp unless the file has changed since.
Arming ==
  /\ arm.p # None <=> arm.at = "install"
  /\ arm.stamp # 0 => arm.file \in Files
  /\ arm.at \in {"build", "install"} => arm.stamp # 0 /\ standby.p = None
  /\ arm.at = "install" /\ arm.stamp = Stamp(arm.file) => pipe[arm.p].shows = arm.stamp

\* A panic holds a copy only between taking and adopting it, and knows its still.
Panics ==
  \A t \in Handlers :
    /\ reg[t].p # None <=> pc[t] \in {"raise", "adopt"}
    /\ pc[t] \in {"take", "raise", "adopt", "cold"} => reg[t].file \in Files

\* Versions are never used again: a stamp that is not the file's stays so.
Versions ==
  /\ \A f \in Files : content[f] <= ops + 1
  /\ arm.stamp <= ops + 1
  /\ standby.stamp <= ops + 1
  /\ standby.p # None => standby.stamp # 0 /\ standby.file \in Files

Copies == [p : AnyPipe, file : AnyFile, stamp : Nat]
Pipelines == [at : {"free", "armed", "dead", "on"}, shows : Nat]
Armings == [at : {"wait", "read", "match", "build", "install"}, p : AnyPipe, file : AnyFile,
            stamp : Nat]

IInv == TypeOK /\ Arming /\ Panics /\ Versions /\ Owned /\ StampIsPicture

-----------------------------------------------------------------------------
LEMMA CopiesTyped ==
  /\ NoArm \in Armings /\ StartArm \in Armings
  /\ NoStandby \in Copies /\ NoRegs \in [file : AnyFile, p : AnyPipe] /\ Free \in Pipelines
  BY DEF NoArm, StartArm, Armings, NoStandby, Copies, NoRegs, Free, Pipelines, AnyPipe, AnyFile

LEMMA InitInv == Init => IInv
<1> SUFFICES ASSUME Init PROVE IInv
  OBVIOUS
<1> USE PanicHoldAssumption
<1>1. TypeOK
  <2>1. standby \in Copies /\ arm \in Armings
    BY CopiesTyped DEF Init
  <2>2. pipe \in [Pipes -> Pipelines] /\ reg \in [Handlers -> [file : AnyFile, p : AnyPipe]]
    BY CopiesTyped DEF Init
  <2>3. content \in [Files -> Nat] /\ ops \in 0..MaxOps /\ still \in [Handlers -> BOOLEAN]
    BY DEF Init
  <2> QED BY <2>1, <2>2, <2>3 DEF Init, TypeOK, AnyPipe, AnyFile, Armings, Copies, Pipelines
<1>2. Arming /\ Panics /\ Versions
  BY DEF Init, Arming, Panics, Versions, NoStandby, StartArm, NoRegs
<1>3. Owned /\ StampIsPicture
  BY DEF Init, Owned, StampIsPicture, NoStandby, StartArm, NoRegs, Free
<1> QED BY <1>1, <1>2, <1>3 DEF IInv

\* Types: the reconciler ...
LEMMA ReconcilerTyped ==
  ASSUME IInv, Reconcile
  PROVE  TypeOK'
<1> USE PanicHoldAssumption DEF IInv, TypeOK, AnyPipe, AnyFile, panics, held
<1>1. CASE Poll
  BY <1>1 DEF Poll, StartArm
<1>2. CASE ReadSetting
  BY <1>2 DEF ReadSetting, Stamp
<1>3. CASE Match
  <2>1. arm' \in Armings
    BY <1>3, CopiesTyped DEF Match, Armings
  <2>2. standby' \in Copies
    BY <1>3, CopiesTyped DEF Match, Copies
  <2>3. pipe \in [Pipes -> Pipelines]
    BY DEF Pipelines
  <2>4. pipe' \in [Pipes -> Pipelines]
    BY <1>3, <2>3, CopiesTyped DEF Match
  <2> QED BY <1>3, <2>1, <2>2, <2>4 DEF Match, Armings, Copies, Pipelines
<1>4. CASE Build
  <2>1. arm.file \in Files
    BY <1>4 DEF Build, Arming
  <2>2. arm' \in Armings
    BY <1>4, CopiesTyped DEF Build, Armings
  <2>3. pipe' \in [Pipes -> Pipelines]
    <3>1. CASE UNCHANGED pipe
      BY <3>1 DEF Pipelines
    <3>2. ASSUME NEW p \in Pipes,
                 pipe' = [pipe EXCEPT ![p] = [at |-> "armed", shows |-> content[arm.file]]]
          PROVE  pipe' \in [Pipes -> Pipelines]
      <4>1. [at |-> "armed", shows |-> content[arm.file]] \in Pipelines
        BY <2>1 DEF Pipelines
      <4> QED BY <3>2, <4>1 DEF Pipelines
    <3> QED BY <1>4, <3>1, <3>2 DEF Build
  <2> QED BY <1>4, <2>2, <2>3 DEF Build, Armings, Pipelines
<1>5. CASE InstallArmed
  BY <1>5 DEF InstallArmed, NoArm, StampOf
<1> QED BY <1>1, <1>2, <1>3, <1>4, <1>5 DEF Reconcile

LEMMA InstallTyped ==
  ASSUME TypeOK, NEW d \in AnyPipe \cup {"cue"},
         NEW ps \in [Pipes -> [at : {"free", "armed", "dead", "on"}, shows : Nat]],
         Install(d, ps)
  PROVE  /\ deck' \in AnyPipe \cup {"cue"}
         /\ pipe' \in [Pipes -> [at : {"free", "armed", "dead", "on"}, shows : Nat]]
         /\ still' \in [Handlers -> BOOLEAN]
  BY DEF Install, Free

\* ... the panics ...
LEMMA PanicsTyped ==
  ASSUME IInv, NEW t \in Handlers, Press(t) \/ Handle(t)
  PROVE  TypeOK'
<1> USE PanicHoldAssumption DEF IInv, TypeOK, AnyPipe, AnyFile, panics, held, Goto
<1>1. CASE Press(t)
  BY <1>1 DEF Press
<1>2. CASE Take(t)
  BY <1>2 DEF Take, Taken, NoStandby
<1>3. CASE Raise(t)
  <2>1. /\ pipe' \in [Pipes -> Pipelines] /\ pc[t] = "raise"
        /\ \/ UNCHANGED reg \/ reg' = [reg EXCEPT ![t].p = None]
        /\ pc' = [pc EXCEPT ![t] = "adopt"] \/ pc' = [pc EXCEPT ![t] = "cold"]
    <3>1. CASE pipe[reg[t].p].at = "armed"
      BY <1>3, <3>1 DEF Raise, Pipelines
    <3>2. CASE pipe[reg[t].p].at # "armed"
      <4>1. pipe \in [Pipes -> Pipelines]
        BY DEF Pipelines
      <4> QED BY <1>3, <3>2, <4>1, CopiesTyped DEF Raise, NotReady
    <3> QED BY <3>1, <3>2
  <2>2. reg' \in [Handlers -> [file : AnyFile, p : AnyPipe]]
    BY <2>1
  <2> QED BY <1>3, <2>1, <2>2 DEF Raise, Pipelines
<1>4. CASE Adopt(t)
  BY <1>4, InstallTyped DEF Adopt, NoRegs
<1>5. CASE Cold(t)
  <2>1. CASE UNCHANGED <<reg, pipe, deck, still>>
    BY <1>5, <2>1 DEF Cold, NoRegs
  <2>2. ASSUME NEW p \in Pipes,
               Install(p, [pipe EXCEPT ![p].shows = content[reg[t].file]]),
               pc' = [pc EXCEPT ![t] = "idle"], reg' = [reg EXCEPT ![t] = NoRegs]
        PROVE  TypeOK'
    <3>1. reg[t].file \in Files
      BY <1>5 DEF Panics, Cold
    <3>2. [pipe EXCEPT ![p].shows = content[reg[t].file]]
            \in [Pipes -> [at : {"free", "armed", "dead", "on"}, shows : Nat]]
      BY <3>1
    <3>3. /\ deck' \in AnyPipe \cup {"cue"} /\ still' \in [Handlers -> BOOLEAN]
          /\ pipe' \in [Pipes -> [at : {"free", "armed", "dead", "on"}, shows : Nat]]
      BY <2>2, <3>2 DEF Install, Free
    <3>4. reg' \in [Handlers -> [file : AnyFile, p : AnyPipe]] /\ kick' \in BOOLEAN
      BY <1>5, <2>2, CopiesTyped DEF Cold
    <3> QED BY <1>5, <2>2, <3>3, <3>4 DEF Cold
  <2> QED BY <1>5, <2>1, <2>2 DEF Cold
<1>6. CASE Black(t)
  BY <1>6, InstallTyped DEF Black, NoRegs
<1> QED BY <1>1, <1>2, <1>3, <1>4, <1>5, <1>6 DEF Handle

\* ... and what happens around them.
LEMMA RestTyped ==
  ASSUME IInv,
         \/ Go \/ Dies
         \/ \E f \in Files \cup {None} : SetImage(f)
         \/ \E f \in Files : ReplaceFile(f)
  PROVE  TypeOK'
<1> USE PanicHoldAssumption DEF IInv, TypeOK, AnyPipe, AnyFile, panics, held
<1>1. CASE Go
  BY <1>1, InstallTyped DEF Go
<1>2. CASE Dies
  BY <1>2 DEF Dies
<1>3. ASSUME NEW f \in Files \cup {None}, SetImage(f) PROVE TypeOK'
  BY <1>3 DEF SetImage
<1>4. ASSUME NEW f \in Files, ReplaceFile(f) PROVE TypeOK'
  BY <1>4 DEF ReplaceFile
<1> QED BY <1>1, <1>2, <1>3, <1>4

-----------------------------------------------------------------------------
LEMMA ReconcilerKeeps ==
  ASSUME IInv, TypeOK', Reconcile
  PROVE  (Arming /\ Panics /\ Versions /\ Owned /\ StampIsPicture)'
<1> USE PanicHoldAssumption DEF IInv, panics, held
<1>1. Panics'
  BY DEF Reconcile, Poll, ReadSetting, Match, Build, InstallArmed, Panics
<1>2. CASE Poll
  <2>1. arm.p = None /\ arm'.p = None /\ arm'.stamp = 0 /\ arm'.at = "read"
    BY <1>2 DEF Poll, Arming, StartArm
  <2> QED BY <1>1, <1>2, <2>1 DEF Poll, TypeOK, Arming, Versions, Owned, StampIsPicture, Stamp
<1>3. CASE ReadSetting
  <2>1. /\ arm.p = None /\ arm'.p = None /\ arm'.at = "match"
        /\ arm'.stamp = Stamp(setting) /\ arm'.file = setting
    BY <1>3 DEF ReadSetting, Arming, TypeOK
  <2>2. arm'.stamp # 0 => arm'.file \in Files
    BY <2>1 DEF Stamp, TypeOK, AnyFile
  <2>3. arm'.stamp <= ops + 1
    BY <2>1, <2>2 DEF Stamp, TypeOK, AnyFile, Versions
  <2> QED BY <1>1, <1>3, <2>1, <2>2, <2>3
          DEF ReadSetting, TypeOK, Arming, Versions, Owned, StampIsPicture, Stamp
<1>4. CASE Match
  <2>1. CASE Armed(arm.file, arm.stamp)
    BY <1>1, <1>4, <2>1 DEF Match, NoArm, TypeOK, Arming, Versions, Owned, StampIsPicture, Stamp
  <2>2. CASE ~Armed(arm.file, arm.stamp)
    <3>1. /\ standby' = NoStandby /\ arm.p = None /\ arm'.p = None
          /\ pipe' = [p \in Pipes |-> IF p = standby.p THEN Free ELSE pipe[p]]
          /\ UNCHANGED <<setting, content, deck, kick, pc, reg, ops, still>>
      BY <1>4, <2>2 DEF Match, Arming, NoArm, TypeOK
    <3>2. Arming' /\ Versions'
      BY <1>4, <2>2, <3>1 DEF Match, NoArm, NoStandby, TypeOK, Arming, Versions, Stamp
    <3>3. Owned'
      BY <3>1 DEF Owned, NoStandby, Free, TypeOK, AnyPipe
    <3>4. StampIsPicture'
      BY <3>1 DEF StampIsPicture, NoStandby
    <3> QED BY <1>1, <3>2, <3>3, <3>4
  <2> QED BY <2>1, <2>2
<1>5. CASE Build
  <2>1. CASE arm' = NoArm /\ UNCHANGED pipe
    <3>1. /\ arm.p = None /\ arm'.p = None /\ arm'.at = "wait" /\ arm'.stamp = 0
          /\ UNCHANGED <<setting, content, standby, pipe, deck, kick, pc, reg, ops, still>>
      BY <1>5, <2>1 DEF Build, NoArm, Arming
    <3>2. Arming' /\ Versions'
      BY <3>1 DEF Arming, Versions, TypeOK
    <3>3. Owned' /\ StampIsPicture'
      BY <3>1 DEF Owned, StampIsPicture, Stamp
    <3> QED BY <1>1, <3>2, <3>3
  <2>2. ASSUME NEW p \in Pipes, pipe[p] = Free,
               pipe' = [pipe EXCEPT ![p] = [at |-> "armed", shows |-> content[arm.file]]],
               arm' = [arm EXCEPT !.at = "install", !.p = p]
        PROVE  (Arming /\ Panics /\ Versions /\ Owned /\ StampIsPicture)'
    <3>1. /\ arm.p = None /\ arm'.p = p /\ arm'.at = "install" /\ arm.stamp # 0
          /\ standby.p = None
          /\ arm'.stamp = arm.stamp /\ arm'.file = arm.file /\ arm.file \in Files
          /\ UNCHANGED <<setting, content, standby, deck, kick, pc, reg, ops, still>>
      BY <1>5, <2>2 DEF Build, Arming, TypeOK
    <3>2. Arming'
      <4>1. arm.stamp = Stamp(arm.file) => arm.stamp = content[arm.file]
        BY <3>1 DEF Stamp
      <4>2. pipe'[p].shows = content[arm.file]
        BY <2>2, <3>1 DEF TypeOK
      <4> QED BY <3>1, <4>1, <4>2 DEF Arming, Stamp
    <3>3. Owned'
      BY <2>2, <3>1 DEF Owned, TypeOK, Free, AnyPipe
    <3>4. Versions' /\ StampIsPicture'
      BY <2>2, <3>1 DEF Versions, StampIsPicture, Stamp, Owned, Free, TypeOK, AnyPipe
    <3> QED BY <1>1, <3>2, <3>3, <3>4
  <2> QED BY <1>5, <2>1, <2>2 DEF Build
<1>6. CASE InstallArmed
  <2>1. /\ arm.at = "install" /\ arm.p # None /\ arm.stamp # 0 /\ arm.file \in Files
        /\ standby' = [p |-> arm.p, file |-> arm.file, stamp |-> arm.stamp] /\ arm' = NoArm
        /\ UNCHANGED <<setting, content, pipe, deck, kick, pc, reg, ops, still>>
    BY <1>6 DEF InstallArmed, Arming, StampOf, TypeOK
  <2>2. Arming' /\ Versions' /\ StampIsPicture'
    BY <2>1 DEF Arming, Versions, StampIsPicture, Stamp, NoArm, TypeOK
  <2>3. standby.p = None
    BY <2>1 DEF Arming
  <2>4. Owned'
    BY <2>1, <2>3 DEF Owned, NoArm, TypeOK, AnyPipe
  <2> QED BY <1>1, <2>2, <2>4
<1> QED BY <1>2, <1>3, <1>4, <1>5, <1>6 DEF Reconcile

-----------------------------------------------------------------------------
\* What replacing the focus does to the copies nobody may lose.
LEMMA InstallKeeps ==
  ASSUME TypeOK, Owned, NEW d \in AnyPipe \cup {"cue"},
         NEW ps \in [Pipes -> [at : {"free", "armed", "dead", "on"}, shows : Nat]],
         Install(d, ps), NEW p \in Pipes
  PROVE  /\ p = d => pipe'[p].at = "on"
         /\ p # d /\ p = deck => pipe'[p] = Free
         /\ p # d /\ p # deck => pipe'[p] = ps[p]
         /\ deck' = d
  BY DEF Install

LEMMA PanicsKeep ==
  ASSUME IInv, TypeOK', NEW t \in Handlers, Press(t) \/ Handle(t)
  PROVE  (Arming /\ Panics /\ Versions /\ Owned /\ StampIsPicture)'
<1> USE PanicHoldAssumption DEF IInv, panics, held
<1>1. CASE Press(t)
  <2>1. /\ reg' = [reg EXCEPT ![t] = [file |-> setting, p |-> None]]
        /\ pc[t] = "idle" /\ ops' = ops + 1
        /\ pc' = [pc EXCEPT ![t] = IF setting = None THEN "black" ELSE "take"]
        /\ UNCHANGED <<setting, content, standby, arm, pipe, deck, kick>>
    BY <1>1 DEF Press, Goto
  <2>2. Panics'
    BY <2>1 DEF Panics, TypeOK, AnyFile
  <2>3. reg[t].p = None
    BY <2>1 DEF Panics
  <2>4. \A u \in Handlers : reg'[u].p = reg[u].p
    BY <2>1, <2>3 DEF TypeOK
  <2>5. Owned'
    BY <2>1, <2>4 DEF Owned
  <2>6. Arming' /\ Versions' /\ StampIsPicture'
    BY <2>1 DEF Arming, Versions, StampIsPicture, Stamp, TypeOK
  <2> QED BY <2>2, <2>5, <2>6
<1>2. CASE Take(t)
  <2>1. CASE reg' = [reg EXCEPT ![t].p = standby.p] /\ standby.p # None
               /\ standby' = NoStandby /\ pc' = [pc EXCEPT ![t] = "raise"]
    <3>1. /\ pc[t] = "take" /\ reg[t].p = None
          /\ UNCHANGED <<setting, content, arm, pipe, deck, kick, ops, still>>
      BY <1>2 DEF Take, Panics
    <3>2. Panics'
      BY <2>1, <3>1 DEF Panics, TypeOK
    <3>3. Owned'
      BY <2>1, <3>1 DEF Owned, NoStandby, TypeOK, AnyPipe
    <3>4. Arming' /\ Versions' /\ StampIsPicture'
      BY <2>1, <3>1 DEF Arming, Versions, StampIsPicture, Stamp, NoStandby, TypeOK
    <3> QED BY <3>2, <3>3, <3>4
  <2>2. CASE UNCHANGED <<reg, standby>> /\ pc' = [pc EXCEPT ![t] = "cold"]
    BY <1>2, <2>2 DEF Take, Arming, Panics, Versions, Owned, StampIsPicture, Stamp, TypeOK
  <2> QED BY <1>2, <2>1, <2>2 DEF Take, Taken, Goto
<1>3. CASE Raise(t)
  <2>1. /\ pc[t] = "raise" /\ reg[t].p # None /\ reg[t].p \in Pipes
        /\ reg[t].p \notin {standby.p, arm.p, deck}
        /\ UNCHANGED <<setting, content, standby, arm, deck, kick, ops, still>>
    BY <1>3 DEF Raise, Panics, Owned, TypeOK, AnyPipe
  <2>2. CASE /\ pipe[reg[t].p].at = "armed" /\ UNCHANGED reg
             /\ pipe' = [pipe EXCEPT ![reg[t].p].at = "on"]
             /\ pc' = [pc EXCEPT ![t] = "adopt"]
    <3>1. Panics'
      BY <2>1, <2>2 DEF Panics, TypeOK
    <3>2. Owned'
      BY <2>1, <2>2 DEF Owned, TypeOK, AnyPipe
    <3>3. Arming' /\ Versions' /\ StampIsPicture'
      BY <2>1, <2>2 DEF Arming, Versions, StampIsPicture, Stamp, TypeOK
    <3> QED BY <3>1, <3>2, <3>3
  <2>3. CASE /\ pipe' = [pipe EXCEPT ![reg[t].p] = Free]
             /\ reg' = [reg EXCEPT ![t].p = None]
             /\ pc' = [pc EXCEPT ![t] = "cold"]
    <3>1. Panics'
      BY <2>1, <2>3 DEF Panics, TypeOK
    <3>2. Owned'
      BY <2>1, <2>3 DEF Owned, TypeOK, AnyPipe, Free
    <3>3. Arming' /\ Versions' /\ StampIsPicture'
      BY <2>1, <2>3 DEF Arming, Versions, StampIsPicture, Stamp, TypeOK, AnyPipe
    <3> QED BY <3>1, <3>2, <3>3
  <2> QED BY <1>3, <2>2, <2>3 DEF Raise, Goto, NotReady
<1>4. CASE Adopt(t)
  <2>1. /\ pc[t] = "adopt" /\ reg[t].p \in Pipes
        /\ reg[t].p \notin {standby.p, arm.p, deck}
        /\ Install(reg[t].p, pipe)
        /\ pc' = [pc EXCEPT ![t] = "idle"] /\ reg' = [reg EXCEPT ![t] = NoRegs]
        /\ UNCHANGED <<setting, content, standby, arm, ops>>
    BY <1>4 DEF Adopt, Goto, Panics, Owned, TypeOK, AnyPipe
  <2>2. Panics'
    BY <2>1 DEF Panics, TypeOK, NoRegs
  <2>3. Owned'
    BY <2>1, InstallKeeps DEF Owned, TypeOK, AnyPipe, NoRegs, Free
  <2>4. Arming' /\ Versions' /\ StampIsPicture'
    BY <2>1, InstallKeeps DEF Arming, Versions, StampIsPicture, Stamp, Owned, TypeOK, AnyPipe
  <2> QED BY <2>2, <2>3, <2>4
<1>5. CASE Cold(t)
  <2>1. CASE UNCHANGED <<reg, pipe, deck, still>> /\ pc' = [pc EXCEPT ![t] = "black"]
    BY <1>5, <2>1 DEF Cold, Arming, Panics, Versions, Owned, StampIsPicture, Stamp, TypeOK
  <2>2. ASSUME NEW p \in Pipes, pipe[p] = Free,
               Install(p, [pipe EXCEPT ![p].shows = content[reg[t].file]]),
               pc' = [pc EXCEPT ![t] = "idle"], reg' = [reg EXCEPT ![t] = NoRegs]
        PROVE  (Arming /\ Panics /\ Versions /\ Owned /\ StampIsPicture)'
    <3> DEFINE ps == [pipe EXCEPT ![p].shows = content[reg[t].file]]
    <3>1. /\ pc[t] = "cold" /\ reg[t].p = None /\ reg[t].file \in Files
          /\ UNCHANGED <<setting, content, standby, arm, ops>>
      BY <1>5 DEF Cold, Panics
    <3>2. ps \in [Pipes -> [at : {"free", "armed", "dead", "on"}, shows : Nat]]
      BY <3>1 DEF TypeOK
    <3>3. \A q \in Pipes : q # p => ps[q] = pipe[q]
      BY DEF TypeOK
    <3>4. p \notin {standby.p, arm.p, deck} \cup {reg[u].p : u \in Handlers}
      BY <2>2 DEF Owned, Free
    <3>5. /\ deck' = p /\ pipe'[p].at = "on"
          /\ \A q \in Pipes \ {p} : pipe'[q] = IF q = deck THEN Free ELSE pipe[q]
      BY <2>2, <3>2, <3>3, <3>4 DEF Install
    <3>6. Panics'
      BY <2>2, <3>1 DEF Panics, TypeOK, NoRegs
    <3>7. \A u \in Handlers : reg'[u].p = reg[u].p
      BY <2>2, <3>1 DEF TypeOK, NoRegs
    <3>8. Owned'
      BY <3>1, <3>4, <3>5, <3>7 DEF Owned, TypeOK, AnyPipe, Free
    <3>9. Arming' /\ Versions' /\ StampIsPicture'
      BY <3>1, <3>4, <3>5 DEF Arming, Versions, StampIsPicture, Stamp, Owned, TypeOK, AnyPipe
    <3> QED BY <3>6, <3>8, <3>9
  <2> QED BY <1>5, <2>1, <2>2 DEF Cold, Goto
<1>6. CASE Black(t)
  <2>1. /\ pc[t] = "black" /\ reg[t].p = None /\ Install(None, pipe)
        /\ pc' = [pc EXCEPT ![t] = "idle"] /\ reg' = [reg EXCEPT ![t] = NoRegs]
        /\ UNCHANGED <<setting, content, standby, arm, ops>>
    BY <1>6 DEF Black, Goto, Panics
  <2>2. Panics'
    BY <2>1 DEF Panics, TypeOK, NoRegs
  <2>3. \A u \in Handlers : reg'[u].p = reg[u].p
    BY <2>1 DEF TypeOK, NoRegs
  <2>4. deck' = None /\ \A q \in Pipes : pipe'[q] = IF q = deck THEN Free ELSE pipe[q]
    BY <2>1 DEF Install
  <2>5. Owned'
    BY <2>1, <2>3, <2>4 DEF Owned, TypeOK, AnyPipe, Free
  <2>6. Arming' /\ Versions' /\ StampIsPicture'
    BY <2>1, <2>4 DEF Arming, Versions, StampIsPicture, Stamp, Owned, TypeOK, AnyPipe
  <2> QED BY <2>2, <2>5, <2>6
<1> QED BY <1>1, <1>2, <1>3, <1>4, <1>5, <1>6 DEF Handle

LEMMA RestKeeps ==
  ASSUME IInv, TypeOK',
         \/ Go \/ Dies
         \/ \E f \in Files \cup {None} : SetImage(f)
         \/ \E f \in Files : ReplaceFile(f)
  PROVE  (Arming /\ Panics /\ Versions /\ Owned /\ StampIsPicture)'
<1> USE PanicHoldAssumption DEF IInv, panics, held
<1>1. CASE Go
  <2>1. /\ Install("cue", pipe) /\ ops' = ops + 1
        /\ UNCHANGED <<setting, content, standby, arm, pc, reg>>
    BY <1>1 DEF Go
  <2>2. deck' = "cue" /\ \A q \in Pipes : pipe'[q] = IF q = deck THEN Free ELSE pipe[q]
    BY <2>1 DEF Install
  <2>3. Owned'
    BY <2>1, <2>2 DEF Owned, TypeOK, AnyPipe, Free
  <2>4. Panics' /\ Versions'
    BY <2>1 DEF Panics, Versions, TypeOK
  <2>5. Arming'
    BY <2>1, <2>2 DEF Arming, Stamp, Owned, TypeOK, AnyPipe
  <2>6. StampIsPicture'
    BY <2>1, <2>2 DEF StampIsPicture, Stamp, Owned, TypeOK, AnyPipe
  <2> QED BY <2>3, <2>4, <2>5, <2>6
<1>2. CASE Dies
  <2>1. /\ standby.p \in Pipes /\ pipe[standby.p].at = "armed"
        /\ pipe' = [pipe EXCEPT ![standby.p].at = "dead"]
        /\ UNCHANGED <<setting, content, standby, arm, deck, pc, reg, ops>>
    BY <1>2 DEF Dies, TypeOK, AnyPipe
  <2>2. Owned'
    BY <2>1 DEF Owned, TypeOK, AnyPipe
  <2>3. Arming' /\ Panics' /\ Versions' /\ StampIsPicture'
    BY <2>1 DEF Arming, Panics, Versions, StampIsPicture, Stamp, TypeOK, AnyPipe
  <2> QED BY <2>2, <2>3
<1>3. ASSUME NEW f \in Files \cup {None}, SetImage(f)
      PROVE  (Arming /\ Panics /\ Versions /\ Owned /\ StampIsPicture)'
  BY <1>3 DEF SetImage, Arming, Panics, Versions, Owned, StampIsPicture, Stamp, TypeOK
<1>4. ASSUME NEW f \in Files, ReplaceFile(f)
      PROVE  (Arming /\ Panics /\ Versions /\ Owned /\ StampIsPicture)'
  <2>1. /\ \/ content' = [content EXCEPT ![f] = ops + 2]
           \/ content' = [content EXCEPT ![f] = 0]
        /\ ops \in Nat /\ ops' = ops + 1
        /\ UNCHANGED <<setting, standby, arm, pipe, deck, pc, reg>>
    BY <1>4 DEF ReplaceFile, TypeOK
  <2>2. \A g \in Files : content'[g] \in {content[g], ops + 2, 0} /\ content[g] \in Nat
    BY <2>1 DEF TypeOK
  <2>3. Versions'
    BY <2>1, <2>2 DEF Versions, TypeOK
  <2>4. Arming'
    BY <2>1, <2>2 DEF Arming, Versions, Stamp, TypeOK
  <2>5. StampIsPicture'
    BY <2>1, <2>2 DEF StampIsPicture, Versions, Stamp, TypeOK
  <2>6. Panics' /\ Owned'
    BY <2>1 DEF Panics, Owned
  <2> QED BY <2>3, <2>4, <2>5, <2>6
<1> QED BY <1>1, <1>2, <1>3, <1>4

LEMMA StepInv == IInv /\ [Next]_vars => IInv'
<1> SUFFICES ASSUME IInv, [Next]_vars PROVE IInv'
  OBVIOUS
<1>1. CASE UNCHANGED vars
  BY <1>1 DEF IInv, vars, held, panics, TypeOK, Arming, Panics, Versions, Owned,
              StampIsPicture, Stamp
<1>2. CASE Reconcile
  BY <1>2, ReconcilerTyped, ReconcilerKeeps DEF IInv
<1>3. ASSUME NEW t \in Handlers, Press(t) \/ Handle(t) PROVE IInv'
  BY <1>3, PanicsTyped, PanicsKeep DEF IInv
<1>4. CASE \/ Go \/ Dies
           \/ \E f \in Files \cup {None} : SetImage(f)
           \/ \E f \in Files : ReplaceFile(f)
  BY <1>4, RestTyped, RestKeeps DEF IInv
<1> QED BY <1>1, <1>2, <1>3, <1>4 DEF Next

-----------------------------------------------------------------------------
\* Type correctness, for any number of pipelines, stills and panics.
THEOREM TypeCorrect == Spec => []TypeOK
<1>1. IInv => TypeOK
  BY DEF IInv
<1> QED BY <1>1, InitInv, StepInv, PTL DEF Spec

\* panichold.go 96 to 147: whatever is armed, taken, raised and adopted at
\* once, no copy leaks and none has two owners.
THEOREM OneOwner == Spec => []Owned
<1>1. IInv => Owned
  BY DEF IInv
<1> QED BY <1>1, InitInv, StepInv, PTL DEF Spec

\* panichold.go 64: no panic cuts to a picture the file no longer holds.
THEOREM NoOldPicture == Spec => []StampIsPicture
<1>1. IInv => StampIsPicture
  BY DEF IInv
<1> QED BY <1>1, InitInv, StepInv, PTL DEF Spec

\* remotePanic: on whichever path a panic ends, warm, cold or black, the cue
\* it was pressed on is off the deck.
THEOREM EveryPanicLands == Spec => PanicLands
<1>1. ASSUME IInv, [Next]_vars, NEW t \in Handlers, pc[t] # "idle", pc'[t] = "idle"
      PROVE  ~still'[t]
  <2> USE DEF IInv, TypeOK, held, panics
  <2>1. pc' # pc
    BY <1>1
  <2>2. PICK u \in Handlers : Press(u) \/ Handle(u)
    BY <1>1, <2>1 DEF Next, vars, Reconcile, Poll, ReadSetting, Match, Build, InstallArmed,
                      Go, Dies, SetImage, ReplaceFile
  <2>3. Adopt(u) \/ Black(u) \/ \E p \in Pipes : Install(p, [pipe EXCEPT ![p].shows = content[reg[u].file]])
    BY <1>1, <2>2 DEF Handle, Press, Take, Raise, NotReady, Cold, Goto
  <2> QED BY <2>3 DEF Adopt, Black, Install
<1>2. IInv /\ [Next]_vars =>
        [\A t \in Handlers : pc[t] # "idle" /\ pc'[t] = "idle" => ~still'[t]]_vars
  BY <1>1
<1> QED BY <1>2, InitInv, StepInv, PTL DEF Spec, PanicLands

-----------------------------------------------------------------------------
\* The wall of those pipelines, under a name of its own.
CONSTANTS Hold, Planes, Writers, Places, FirstLevels, On, Late, MaxPosts
VARIABLES busy, alpha, zpos, layer, listed, stack, pending, writer, pad, start, ends, fade, panic,
          posts, stained

Video == INSTANCE Wall

\* The values of the records the state is made of.
Plans == [level : Video!Levels, at : Places \cup {"bottom", Video!None}, ref : Pipes \cup {Video!None}]

Quills == [at : {"none", "wait", "write", "gone"}, plane : Planes \cup {0},
           want : Video!Levels, hand : Video!Levels, last : Video!Levels \cup {Video!Unset},
           kick : BOOLEAN, quit : BOOLEAN]

Slabs == [plane : Planes \cup {0}, visible : BOOLEAN, parked : BOOLEAN]

WellTyped ==
  /\ busy \in SUBSET Planes /\ stained \in SUBSET Planes /\ listed \in SUBSET Pipes
  /\ alpha \in [Planes -> Video!Levels]
  /\ layer \in [Pipes -> Slabs]
  /\ pending \in [Pipes -> Plans]
  /\ pad \in [Pipes -> [at : {"idle", "failed", "place", "level", "done"}, show : Plans]]
  /\ start \in [Pipes -> [at : {"idle", "about", "level", "done"}, show : Plans]]
  /\ ends \in [Pipes -> {"live", "unlisted", "gone"}]
  /\ fade \in [Pipes -> [at : {"no", "waits", "released", "fades"}, over : Pipes \cup {Video!None}]]
  /\ writer \in [Pipes -> Quills]
  /\ panic = [at |-> panic.at, z |-> panic.z]

\* A set of planes that is not empty has a first one.
LEMMA FirstPlane ==
  ASSUME Video!WallAssumption, NEW S \in SUBSET Planes, S # {}
  PROVE  Video!Min(S) \in S
<1> DEFINE Upto == {1 .. x : x \in S}
<1>1. S \subseteq Nat \ {0}
  BY DEF Video!WallAssumption
<1>2. Upto \subseteq SUBSET Planes /\ Upto # {}
  <2>1. PICK n \in Nat : Planes = 1 .. n
    BY DEF Video!WallAssumption
  <2>2. \A x \in S : 1 .. x \subseteq Planes
    BY <1>1, <2>1
  <2> QED BY <2>2
<1>3. IsWellFoundedOn(StrictSubsetOrdering(Planes), SUBSET Planes)
  <2>1. IsFiniteSet(Planes)
    BY FS_Interval DEF Video!WallAssumption
  <2> QED BY <2>1, FS_FiniteSubsetsOfFinite, FS_StrictSubsetOrderingWellFounded
<1>4. PICK z \in Upto : \A y \in Upto : ~ (<<y, z>> \in StrictSubsetOrdering(Planes))
  <2> HIDE DEF Upto
  <2> QED BY <1>2, <1>3, WFMin
<1>5. PICK x \in S : z = 1 .. x
  BY <1>4
<1>6. ASSUME NEW y \in S, y < x PROVE FALSE
  <2>1. 1 .. y \subseteq 1 .. x /\ x \in 1 .. x /\ x \notin 1 .. y /\ 1 .. y \in Upto
    BY <1>1, <1>6
  <2>2. <<1 .. y, z>> \in StrictSubsetOrdering(Planes)
    BY <1>2, <1>5, <2>1 DEF StrictSubsetOrdering
  <2> QED BY <1>4, <2>1, <2>2
<1>7. \A y \in S : x =< y
  BY <1>1, <1>6
<1> QED BY <1>7 DEF Video!Min

\* Edits of a writer's record.
LEMMA Edited ==
  ASSUME Video!WallAssumption, NEW w \in Quills, NEW a \in {"wait", "write", "gone"},
         NEW v \in Video!Levels, NEW x \in Planes \cup {0}, NEW k \in BOOLEAN
  PROVE  /\ [w EXCEPT !.kick = k, !.at = a, !.hand = v] \in Quills
         /\ [w EXCEPT !.at = a, !.last = w.hand, !.hand = v] \in Quills
         /\ [w EXCEPT !.want = v, !.kick = k] \in Quills
         /\ [w EXCEPT !.at = a, !.plane = x] \in Quills
         /\ [w EXCEPT !.quit = k] \in Quills
         /\ [Video!NoWriter EXCEPT !.at = a] \in Quills
<1> DEFINE W == [at : {"none", "wait", "write", "gone"}, plane : Planes \cup {0},
                 want : Video!Levels, hand : Video!Levels, last : Video!Levels \cup {Video!Unset},
                 kick : BOOLEAN, quit : BOOLEAN]
<1>1. w \in W
  BY DEF Quills
<1>2. [w EXCEPT !.kick = k, !.at = a, !.hand = v] \in W
  BY <1>1
<1>3. [w EXCEPT !.at = a, !.last = w.hand, !.hand = v] \in W
  BY <1>1
<1>4. [w EXCEPT !.want = v, !.kick = k] \in W
  BY <1>1
<1>5. [w EXCEPT !.at = a, !.plane = x] \in W
  BY <1>1
<1>6. [w EXCEPT !.quit = k] \in W
  BY <1>1
<1>7. [Video!NoWriter EXCEPT !.at = a] \in W
  <2>1. Video!NoWriter \in W
    BY DEF Video!NoWriter, Video!Levels, Video!Clear, Video!Full, Video!Unset
  <2> QED BY <2>1
<1> QED BY <1>2, <1>3, <1>4, <1>5, <1>6, <1>7 DEF Quills

LEMMA InitIndex ==
  ASSUME Video!WallAssumption, NEW i \in 1 .. Len(On)
  PROVE  Video!IndexOf(On, On[i]) = i
<1>1. {j \in 1 .. Len(On) : On[j] = On[i]} = {i}
  BY DEF Video!WallAssumption, Video!IsInjective
<1>2. Video!Min({i}) = i
  BY DEF Video!Min
<1> QED BY <1>1, <1>2 DEF Video!IndexOf, Video!SelectInSeq

-----------------------------------------------------------------------------
\* Where a pipeline is on its way over the wall.
Stage(p) ==
  /\ p \in listed => /\ ends[p] = "live" /\ pad[p].at \in {"place", "level", "done"}
                     /\ pending[p] = Video!NoShow
  /\ ends[p] = "live" /\ p \notin listed => pad[p].at \in {"idle", "failed"}
  /\ pad[p].at \in {"place", "level"} => p \in listed
  /\ Video!Keeps(p) <=> p \in listed \/ ends[p] = "unlisted"
  /\ layer[p].visible => Video!Keeps(p)

\* Where its show is.
Staged(p) ==
  /\ pad[p].at = "level" => layer[p].visible
  /\ start[p].at = "about" => start[p].show # Video!NoShow
  /\ start[p].at = "level" => layer[p].visible \/ ends[p] = "gone"
  /\ ends[p] = "live" /\ start[p].at \in {"level", "done"} =>
       layer[p].visible \/ pad[p].at = "place" \/ (p \notin listed /\ pending[p] # Video!NoShow)

\* What its writer may write.
Quill(p) ==
  /\ p \notin Writers => writer[p].at = "none"
  /\ writer[p].at \in {"wait", "write"} =>
       /\ writer[p].plane \in Planes
       /\ ends[p] # "gone" => writer[p].plane = layer[p].plane
  /\ writer[p].kick \/ writer[p].at = "write" => layer[p].visible \/ ends[p] = "gone"

\* A fade that waits, or waited, knows what for.
Awaits(p) == fade[p].at # "no" => fade[p].over \in Pipes

Raised == panic.at = "raised" => Hold \in listed /\ layer[Hold].visible

WallInv ==
  /\ WellTyped /\ Video!PlanesOwned /\ Video!NothingEarly /\ Video!Handover /\ Raised
  /\ \A p \in Pipes : Stage(p) /\ Staged(p) /\ Quill(p) /\ Awaits(p)

LEMMA Records ==
  ASSUME Video!WallAssumption
  PROVE  /\ Video!NoShow \in Plans
         /\ \A p \in Pipes : Video!Shows(p) \subseteq Plans /\ Video!NoShow \notin Video!Shows(p)
         /\ 0 \notin Planes /\ 0 \in Video!Levels /\ 1 \in Video!Levels
<1>1. Video!NoShow \in Plans
  BY DEF Video!NoShow, Plans, Video!Levels, Video!Clear, Video!Full
<1>2. ASSUME NEW p \in Pipes, NEW s \in Video!Shows(p)
      PROVE  s \in Plans /\ s # Video!NoShow
  <2>1. /\ s \in [level : FirstLevels, at : Places \cup {"bottom"}, ref : Pipes \cup {Video!None}]
        /\ FirstLevels \subseteq Video!Levels
    BY DEF Video!Shows, Video!WallAssumption, Video!Levels, Video!Clear, Video!Full
  <2>2. s \in Plans
    BY <2>1 DEF Plans
  <2>3. s.at # Video!None
    BY <2>1 DEF Video!WallAssumption, Video!None
  <2> QED BY <2>2, <2>3 DEF Video!NoShow
<1> QED BY <1>1, <1>2 DEF Video!WallAssumption, Video!Levels, Video!Clear, Video!Full

\* The wall as a run finds it.
LEMMA WallInit == ASSUME Video!WallAssumption, Video!Init PROVE WallInv
<1> DEFINE n == Len(On)
<1>0. /\ n \in Nat /\ 1 .. n \subseteq Planes /\ 0 \notin Planes
      /\ Video!Range(On) = {On[i] : i \in 1 .. n}
      /\ Video!Range(On) \subseteq Pipes \ (Writers \cup {Hold})
      /\ Video!NoShow \in Plans
  BY Records DEF Video!WallAssumption, Video!Range
<1>1. \A i \in 1 .. n : Video!IndexOf(On, On[i]) = i
  BY InitIndex
<1>2. \A p : p \notin Video!Range(On) => Video!IndexOf(On, p) = 0
  BY <1>0 DEF Video!IndexOf, Video!SelectInSeq
<1>3. layer = [p \in Pipes |-> [plane |-> Video!IndexOf(On, p), visible |-> p \in Video!Range(On),
                                parked |-> FALSE]]
      /\ busy = 1 .. n /\ listed = Video!Range(On)
  BY DEF Video!Init
<1> HIDE DEF n
<1>4. \A p \in Video!Range(On) : Video!IndexOf(On, p) \in 1 .. n
  BY <1>0, <1>1
<1>5. \A p, q \in Video!Range(On) : Video!IndexOf(On, p) = Video!IndexOf(On, q) => p = q
  BY <1>0, <1>1
<1>6. Video!PlanesOwned
  <2>1. \A p \in Pipes : Video!Keeps(p) <=> p \in Video!Range(On)
    BY <1>0, <1>2, <1>3, <1>4 DEF Video!Keeps
  <2>2. busy = {layer[p].plane : p \in {q \in Pipes : Video!Keeps(q)}}
    <3>1. \A i \in 1 .. n : On[i] \in Video!Range(On) /\ layer[On[i]].plane = i
      BY <1>0, <1>1, <1>3
    <3> QED BY <1>0, <1>3, <1>4, <2>1, <3>1
  <2> QED BY <1>0, <1>3, <1>5, <2>1, <2>2 DEF Video!PlanesOwned
<1>7. WellTyped
  <2>1. layer \in [Pipes -> Slabs]
    BY <1>0, <1>2, <1>3, <1>4 DEF Slabs
  <2>2. Video!NoWriter \in Quills
    BY DEF Video!NoWriter, Quills, Video!Levels, Video!Clear, Video!Full, Video!Unset
  <2> QED BY <1>0, <1>3, <2>1, <2>2 DEF Video!Init, WellTyped, Slabs, Video!Begun, Video!Levels,
                                        Video!Clear, Video!Full
<1>8. Video!NothingEarly /\ Video!Handover /\ Raised
  <2>1. \A p \in listed : layer[p].visible
    BY <1>0, <1>3
  <2>2. panic.at = "arming" /\ \A p \in Pipes : fade[p].at = "no"
    BY DEF Video!Init
  <2> QED BY <2>1, <2>2 DEF Video!NothingEarly, Video!Handover, Raised
<1>9. ASSUME NEW p \in Pipes PROVE Stage(p) /\ Staged(p) /\ Quill(p) /\ Awaits(p)
  <2>1. /\ pad[p] = Video!Begun(p) /\ start[p] = Video!Begun(p) /\ ends[p] = "live" /\ pending[p] = Video!NoShow
        /\ writer[p] = Video!NoWriter /\ fade[p].at = "no"
    BY DEF Video!Init
  <2>2. /\ layer[p].plane = Video!IndexOf(On, p) /\ layer[p].visible = (p \in Video!Range(On))
        /\ p \in listed <=> p \in Video!Range(On)
    BY <1>3
  <2>3. p \in Video!Range(On) <=> layer[p].plane # 0
    BY <1>0, <1>2, <1>4, <2>2
  <2>4. writer[p].at = "none" /\ ~writer[p].kick
    BY <2>1 DEF Video!NoWriter
  <2>5. pad[p].at = IF p \in Video!Range(On) THEN "done" ELSE "idle"
    BY <2>1 DEF Video!Begun
  <2>6. start[p].at = pad[p].at
    BY <2>1
  <2>7. Stage(p)
    BY <2>1, <2>2, <2>3, <2>5 DEF Stage, Video!Keeps
  <2>8. Staged(p)
    BY <2>1, <2>2, <2>5, <2>6 DEF Staged
  <2>9. Quill(p) /\ Awaits(p)
    BY <2>1, <2>4 DEF Quill, Awaits
  <2> QED BY <2>7, <2>8, <2>9
<1> QED BY <1>6, <1>7, <1>8, <1>9 DEF WallInv

-----------------------------------------------------------------------------
\* The writers.
LEMMA WriterInv ==
  ASSUME Video!WallAssumption, WallInv, NEW p \in Pipes, Video!Writer(p)
  PROVE  WallInv'
<1> USE DEF WallInv, Video!layers, Video!planes, Video!calls
<1>0. /\ UNCHANGED <<busy, listed, layer, pending, pad, start, ends, fade, panic>>
      /\ \A q \in Pipes \ {p} : writer'[q] = writer[q]
  BY DEF Video!Writer, Video!Kicked, Video!Writes, Video!Quits, WellTyped
<1>1. /\ Video!PlanesOwned' /\ Video!Handover' /\ Raised'
      /\ \A q \in Pipes : Stage(q)' /\ Staged(q)' /\ Awaits(q)'
  BY <1>0 DEF Video!PlanesOwned, Video!Keeps, Video!Handover, Raised, Stage, Staged, Awaits
<1>2. CASE Video!Kicked(p)
  <2>1. WellTyped'
    <3> DEFINE same == writer[p].want = writer[p].last
               r == [writer[p] EXCEPT !.kick = FALSE, !.at = IF same THEN "wait" ELSE "write",
                                      !.hand = IF same THEN Video!Clear ELSE writer[p].want]
    <3>0. /\ writer[p] \in Quills /\ (IF same THEN "wait" ELSE "write") \in {"wait", "write", "gone"}
          /\ (IF same THEN Video!Clear ELSE writer[p].want) \in Video!Levels
      BY DEF WellTyped, Quills, Video!Levels, Video!Clear, Video!Full
    <3>1. r \in Quills
      <4> HIDE DEF same
      <4> QED BY <3>0, Edited
    <3>2. writer' = [writer EXCEPT ![p] = r]
      BY <1>2 DEF Video!Kicked, WellTyped
    <3> HIDE DEF r
    <3> QED BY <1>0, <3>1, <3>2, <1>2 DEF Video!Kicked, WellTyped
  <2>2. Quill(p)' /\ \A q \in Pipes : Quill(q)'
    BY <1>0, <1>2 DEF Video!Kicked, WellTyped, Quill
  <2>3. Video!NothingEarly'
    BY <1>0, <1>2 DEF Video!Kicked, Video!NothingEarly
  <2> QED BY <1>1, <2>1, <2>2, <2>3
<1>3. CASE Video!Writes(p)
  <2>1. writer[p].plane \in Planes
    BY <1>3 DEF Video!Writes, Quill
  <2>2. WellTyped'
    <3> DEFINE r == [writer[p] EXCEPT !.at = "wait", !.last = writer[p].hand, !.hand = Video!Clear]
    <3>0. writer[p] \in Quills /\ writer[p].hand \in Video!Levels /\ Video!Clear \in Video!Levels
      BY DEF WellTyped, Quills, Video!Levels, Video!Clear, Video!Full
    <3>1. r \in Quills
      BY <2>1, <3>0, Edited
    <3>2. writer' = [writer EXCEPT ![p] = r]
      BY <1>3 DEF Video!Writes, WellTyped
    <3> HIDE DEF r
    <3>3. writer' \in [Pipes -> Quills]
      BY <3>1, <3>2 DEF WellTyped
    <3>4. alpha' = [alpha EXCEPT ![writer[p].plane] = writer[p].hand]
          /\ (stained' = stained \cup {writer[p].plane} \/ stained' = stained \ {writer[p].plane})
      BY <1>3 DEF Video!Writes
    <3>5. alpha' \in [Planes -> Video!Levels] /\ stained' \in SUBSET Planes
      BY <2>1, <3>0, <3>4 DEF WellTyped
    <3> QED BY <1>0, <3>3, <3>5 DEF WellTyped
  <2>3. \A q \in Pipes : Quill(q)'
    BY <1>0, <1>3 DEF Video!Writes, WellTyped, Quill
  <2>4. Video!NothingEarly'
    <3> SUFFICES ASSUME NEW q \in listed, ~layer[q].visible
                 PROVE  alpha'[layer[q].plane] = Video!Clear \/ layer[q].plane \in stained'
      BY <1>0 DEF Video!NothingEarly
    <3>1. q \in Pipes /\ Video!Keeps(q) /\ layer[q].plane \in Planes
      BY DEF WellTyped, Slabs, Stage, Video!Keeps
    <3>2. CASE writer[p].plane # layer[q].plane
      BY <1>3, <3>1, <3>2 DEF Video!Writes, Video!NothingEarly, WellTyped
    <3>3. CASE writer[p].plane = layer[q].plane
      <4>1. ends[p] = "gone"
        <5>1. SUFFICES ASSUME ends[p] # "gone" PROVE FALSE
          OBVIOUS
        <5>2. layer[p].visible /\ layer[p].plane = layer[q].plane
          BY <1>3, <3>3, <5>1 DEF Video!Writes, Quill
        <5>3. p = q
          BY <3>1, <5>2 DEF Video!PlanesOwned, Stage
        <5> QED BY <5>2, <5>3
      <4> QED BY <1>3, <3>3, <4>1 DEF Video!Writes
    <3> QED BY <3>2, <3>3
  <2> QED BY <1>1, <2>2, <2>3, <2>4
<1>4. CASE Video!Quits(p)
  <2>1. WellTyped'
    <3> DEFINE r == [Video!NoWriter EXCEPT !.at = "gone"]
    <3>0. writer[p] \in Quills /\ Video!Clear \in Video!Levels
      BY DEF WellTyped, Video!Levels, Video!Clear, Video!Full
    <3>1. r \in Quills
      BY <3>0, Edited
    <3>2. writer' = [writer EXCEPT ![p] = r] /\ alpha' = alpha /\ stained' = stained
      BY <1>4 DEF Video!Quits
    <3> HIDE DEF r
    <3> QED BY <1>0, <3>1, <3>2 DEF WellTyped
  <2>2. \A q \in Pipes : Quill(q)'
    BY <1>0, <1>4 DEF Video!Quits, WellTyped, Quill, Video!NoWriter
  <2>3. Video!NothingEarly'
    BY <1>0, <1>4 DEF Video!Quits, Video!NothingEarly
  <2> QED BY <1>1, <2>1, <2>2, <2>3
<1> QED BY <1>2, <1>3, <1>4 DEF Video!Writer

-----------------------------------------------------------------------------
\* What is said of a pipeline stays true while nothing of it changes.
LEMMA Untouched ==
  ASSUME NEW q \in Pipes, Stage(q), Staged(q), Quill(q),
         q \in listed' <=> q \in listed, layer'[q] = layer[q], pending'[q] = pending[q],
         pad'[q] = pad[q], start'[q] = start[q], ends'[q] = ends[q], writer'[q] = writer[q]
  PROVE  Stage(q)' /\ Staged(q)' /\ Quill(q)'
  BY DEF Stage, Staged, Quill, Video!Keeps

\* Planes change hands only with a layer's.
LEMMA SamePlanes ==
  ASSUME Video!PlanesOwned, busy' = busy, \A q \in Pipes : layer'[q].plane = layer[q].plane
  PROVE  Video!PlanesOwned'
<1>1. \A q \in Pipes : Video!Keeps(q)' <=> Video!Keeps(q)
  BY DEF Video!Keeps
<1>2. {layer'[q].plane : q \in {r \in Pipes : Video!Keeps(r)'}}
        = {layer[q].plane : q \in {r \in Pipes : Video!Keeps(r)}}
  BY <1>1
<1> QED BY <1>1, <1>2 DEF Video!PlanesOwned

\* An edit of a writer's record.
LEMMA Rewritten ==
  ASSUME WellTyped, NEW p \in Pipes, NEW r \in Quills, writer' = [writer EXCEPT ![p] = r]
  PROVE  /\ writer' \in [Pipes -> Quills] /\ writer'[p] = r
         /\ \A q \in Pipes \ {p} : writer'[q] = writer[q]
  BY DEF WellTyped

\* A level posted wakes the writer and changes nothing else of it.
LEMMA Posted ==
  ASSUME Video!WallAssumption, WellTyped, NEW p \in Pipes, NEW v \in Video!Levels, Video!Post(p, v)
  PROVE  /\ writer' \in [Pipes -> Quills]
         /\ \A q \in Pipes \ {p} : writer'[q] = writer[q]
         /\ writer'[p].at = writer[p].at /\ writer'[p].plane = writer[p].plane
<1>1. CASE p \in Writers
  <2> DEFINE r == [writer[p] EXCEPT !.want = v, !.kick = TRUE]
  <2>1. writer[p] \in Quills
    BY DEF WellTyped
  <2>2. r \in Quills /\ r.at = writer[p].at /\ r.plane = writer[p].plane
    <3>1. r \in Quills
      BY <2>1, Edited
    <3> QED BY <2>1, <3>1 DEF Quills
  <2>3. writer' = [writer EXCEPT ![p] = r]
    BY <1>1 DEF Video!Post, WellTyped
  <2> HIDE DEF r
  <2> QED BY <2>2, <2>3, Rewritten
<1>2. CASE p \notin Writers
  BY <1>2 DEF Video!Post, WellTyped
<1> QED BY <1>1, <1>2

LEMMA LeveledAt ==
  ASSUME Video!WallAssumption, WellTyped, NEW p \in Pipes, NEW v \in Video!Levels, Video!Leveled(p, v)
  PROVE  /\ writer' \in [Pipes -> Quills]
         /\ \A q \in Pipes \ {p} : writer'[q] = writer[q]
         /\ writer'[p].at = writer[p].at /\ writer'[p].plane = writer[p].plane
         /\ writer'[p].kick => writer[p].kick \/ layer[p].visible
  BY Posted DEF Video!Leveled, WellTyped

\* The writers' side of a level that was posted, or not.
LEMMA LeveledQuill ==
  ASSUME Video!WallAssumption, WellTyped, NEW p \in Pipes, NEW v \in Video!Levels, Video!Leveled(p, v),
         UNCHANGED <<layer, ends>>, \A q \in Pipes : Quill(q)
  PROVE  \A q \in Pipes : Quill(q)'
<1> SUFFICES ASSUME NEW q \in Pipes PROVE Quill(q)'
  OBVIOUS
<1>1. CASE q = p
  BY <1>1, LeveledAt DEF Quill
<1>2. CASE q # p
  BY <1>2, LeveledAt DEF Quill
<1> QED BY <1>1, <1>2

\* Fades released: nothing but "waits" turns into "released", and only of those over p.
LEMMA ReleasedOver ==
  ASSUME WellTyped, NEW p \in Pipes, Video!Released(p), \A q \in Pipes : Awaits(q)
  PROVE  /\ fade' \in [Pipes -> [at : {"no", "waits", "released", "fades"},
                                 over : Pipes \cup {Video!None}]]
         /\ \A q \in Pipes : Awaits(q)'
         /\ \A q \in Pipes : fade'[q].at = "released" =>
              /\ fade'[q].over = fade[q].over
              /\ fade[q].at = "released" \/ fade[q].over = p
<1>1. \A q \in Pipes : fade'[q] \in {fade[q], [fade[q] EXCEPT !.at = "released"]}
  BY DEF Video!Released
<1>2. \A q \in Pipes : fade[q] # [at |-> "waits", over |-> p] => fade'[q] = fade[q]
  BY DEF Video!Released
<1>3. DOMAIN fade' = Pipes /\ fade' = [q \in Pipes |-> fade'[q]]
  BY DEF Video!Released
<1>4. ASSUME NEW q \in Pipes
      PROVE  fade'[q] \in [at : {"no", "waits", "released", "fades"}, over : Pipes \cup {Video!None}]
  <2>1. fade[q] \in [at : {"no", "waits", "released", "fades"}, over : Pipes \cup {Video!None}]
    BY DEF WellTyped
  <2> QED BY <1>1, <2>1
<1>5. \A q \in Pipes : fade'[q].over = fade[q].over
  BY <1>1 DEF WellTyped
<1>6. \A q \in Pipes : fade[q].at = "no" => fade'[q].at = "no"
  BY <1>2
<1>7. \A q \in Pipes : fade[q] = [at |-> "waits", over |-> p] => fade[q].over = p
  OBVIOUS
<1> QED BY <1>2, <1>3, <1>4, <1>5, <1>6, <1>7 DEF Awaits

\* What a fade was released for stays so.
Landed(n) == layer[n].visible \/ pending[n] # Video!NoShow \/ pad[n].at = "place" \/ ends[n] = "gone"

LEMMA HandedOver ==
  ASSUME Video!Handover, \A q \in Pipes : Awaits(q)',
         \A n \in Pipes : Landed(n) => Landed(n)',
         \A q \in Pipes : fade'[q].at = "released" =>
           /\ fade'[q].over = fade[q].over
           /\ fade[q].at = "released" \/ Landed(fade[q].over)'
  PROVE  Video!Handover'
  BY DEF Video!Handover, Landed, Awaits

-----------------------------------------------------------------------------
\* The pad: a layer without a plane ...
LEMMA NoPlaneInv ==
  ASSUME Video!WallAssumption, WallInv, NEW p \in Pipes, Video!NewLayer(p), Planes \subseteq busy
  PROVE  WallInv'
<1> USE DEF WallInv, Video!layers, Video!planes, Video!calls
<1>0. /\ UNCHANGED <<busy, alpha, stained, layer, listed, pending, writer, start, ends, fade, panic>>
      /\ pad[p].at = "idle" /\ ends[p] = "live" /\ pad' = [pad EXCEPT ![p].at = "failed"]
  BY DEF Video!NewLayer
<1>1. pad'[p].at = "failed" /\ \A q \in Pipes \ {p} : pad'[q] = pad[q]
  BY <1>0 DEF WellTyped
<1>2. WellTyped'
  BY <1>0 DEF WellTyped
<1>3. Video!PlanesOwned' /\ Video!NothingEarly' /\ Raised' /\ \A q \in Pipes : Awaits(q)'
  BY <1>0 DEF Video!PlanesOwned, Video!Keeps, Video!NothingEarly, Raised, Awaits
<1>4. Video!Handover'
  BY <1>0, <1>1, <1>3, HandedOver DEF Landed
<1>5. p \notin listed
  BY <1>0 DEF Stage
<1>6. Stage(p)' /\ Staged(p)' /\ Quill(p)'
  BY <1>0, <1>1, <1>5 DEF Stage, Staged, Quill, Video!Keeps
<1>7. \A q \in Pipes : Stage(q)' /\ Staged(q)' /\ Quill(q)'
  BY <1>0, <1>1, <1>6, Untouched
<1> QED BY <1>2, <1>3, <1>4, <1>7

\* ... and one with the first plane that is free.
LEMMA NewLayerInv ==
  ASSUME Video!WallAssumption, WallInv, NEW p \in Pipes, Video!NewLayer(p), ~ Planes \subseteq busy
  PROVE  WallInv'
<1> USE DEF WallInv, Video!layers, Video!planes, Video!calls
<1> DEFINE x == Video!Acquired
           at == IF pending[p] = Video!NoShow THEN "done" ELSE "place"
<1>0. /\ pad[p].at = "idle" /\ ends[p] = "live"
      /\ busy' = busy \cup {x} /\ alpha' = [alpha EXCEPT ![x] = Video!Clear] /\ stained' = stained \ {x}
      /\ layer' = [layer EXCEPT ![p].plane = x]
      /\ writer' = IF p \in Writers THEN [writer EXCEPT ![p].at = "wait", ![p].plane = x] ELSE writer
      /\ listed' = listed \cup {p} /\ pending' = [pending EXCEPT ![p] = Video!NoShow]
      /\ pad' = [pad EXCEPT ![p] = [at |-> at, show |-> pending[p]]]
      /\ UNCHANGED <<start, ends, fade, panic>>
  BY DEF Video!NewLayer
<1>1. x \in Planes \ busy
  <2>1. Planes \ busy \in SUBSET Planes /\ Planes \ busy # {}
    OBVIOUS
  <2> QED BY <2>1, FirstPlane DEF Video!Acquired
<1> HIDE DEF x
<1>2. p \notin listed /\ ~Video!Keeps(p) /\ ~layer[p].visible
  BY <1>0 DEF Stage
<1>3. /\ layer'[p].plane = x /\ layer'[p].visible = FALSE /\ pending'[p] = Video!NoShow
      /\ pad'[p].at = at /\ at \in {"done", "place"}
      /\ \A q \in Pipes \ {p} : /\ layer'[q] = layer[q] /\ pending'[q] = pending[q] /\ pad'[q] = pad[q]
                                /\ q \in listed' <=> q \in listed
  BY <1>0, <1>2 DEF WellTyped
<1>4. /\ writer' \in [Pipes -> Quills] /\ \A q \in Pipes \ {p} : writer'[q] = writer[q]
      /\ p \in Writers => writer'[p].at = "wait" /\ writer'[p].plane = x
      /\ p \notin Writers => writer'[p] = writer[p]
      /\ writer'[p].kick = writer[p].kick
  <2>1. CASE p \in Writers
    <3> DEFINE r == [writer[p] EXCEPT !.at = "wait", !.plane = x]
    <3>1. writer[p] \in Quills /\ Video!Clear \in Video!Levels
      BY DEF WellTyped, Video!Levels, Video!Clear, Video!Full
    <3>2. r \in Quills
      BY <1>1, <3>1, Edited
    <3>3. r.at = "wait" /\ r.plane = x /\ r.kick = writer[p].kick
      BY <3>1 DEF Quills
    <3>4. writer' = [writer EXCEPT ![p] = r]
      BY <1>0, <2>1 DEF WellTyped
    <3> HIDE DEF r
    <3> QED BY <2>1, <3>2, <3>3, <3>4, Rewritten
  <2>2. CASE p \notin Writers
    BY <1>0, <2>2 DEF WellTyped
  <2> QED BY <2>1, <2>2
<1>5. WellTyped'
  <2>1. Video!NoShow \in Plans /\ Video!Clear \in Video!Levels
    BY Records DEF Video!Clear
  <2>2. busy' \in SUBSET Planes /\ stained' \in SUBSET Planes /\ listed' \in SUBSET Pipes
        /\ alpha' \in [Planes -> Video!Levels]
    BY <1>0, <1>1, <2>1 DEF WellTyped
  <2>3. layer' \in [Pipes -> Slabs]
    <3> DEFINE r == [layer[p] EXCEPT !.plane = x]
    <3>1. layer[p] \in Slabs
      BY DEF WellTyped
    <3>2. r \in Slabs
      BY <1>1, <3>1 DEF Slabs
    <3>3. layer' = [layer EXCEPT ![p] = r]
      BY <1>0 DEF WellTyped
    <3> HIDE DEF r
    <3> QED BY <3>2, <3>3 DEF WellTyped
  <2>4. pending' \in [Pipes -> Plans]
    BY <1>0, <2>1 DEF WellTyped
  <2>5. pad' \in [Pipes -> [at : {"idle", "failed", "place", "level", "done"}, show : Plans]]
    <3>1. [at |-> at, show |-> pending[p]]
            \in [at : {"idle", "failed", "place", "level", "done"}, show : Plans]
      BY DEF WellTyped
    <3> HIDE DEF at
    <3> QED BY <1>0, <3>1 DEF WellTyped
  <2> QED BY <1>0, <1>4, <2>2, <2>3, <2>4, <2>5 DEF WellTyped
<1>6. Video!PlanesOwned'
  <2>1. \A q \in Pipes : Video!Keeps(q)' <=> Video!Keeps(q) \/ q = p
    BY <1>1, <1>2, <1>3, Records DEF Video!Keeps
  <2>2. \A q \in Pipes : Video!Keeps(q) => q # p /\ layer[q].plane \in busy /\ layer'[q].plane = layer[q].plane
    BY <1>2, <1>3 DEF Video!PlanesOwned
  <2>3. \A q, r \in Pipes : Video!Keeps(q)' /\ Video!Keeps(r)' /\ layer'[q].plane = layer'[r].plane => q = r
    BY <1>1, <1>3, <2>1, <2>2 DEF Video!PlanesOwned
  <2>4. busy' = {layer'[q].plane : q \in {r \in Pipes : Video!Keeps(r)'}}
    <3>1. \A y \in busy : \E q \in Pipes : Video!Keeps(q) /\ y = layer[q].plane
      BY DEF Video!PlanesOwned
    <3> QED BY <1>0, <1>3, <2>1, <2>2, <3>1
  <2> QED BY <2>3, <2>4 DEF Video!PlanesOwned
<1>7. Video!NothingEarly'
  <2> SUFFICES ASSUME NEW q \in listed', ~layer'[q].visible
               PROVE  alpha'[layer'[q].plane] = Video!Clear \/ layer'[q].plane \in stained'
    BY DEF Video!NothingEarly
  <2>1. CASE q = p
    BY <1>0, <1>1, <1>3, <2>1 DEF WellTyped
  <2>2. CASE q # p
    <3>1. q \in Pipes /\ q \in listed /\ Video!Keeps(q)
      BY <1>0, <2>2 DEF Stage, WellTyped
    <3>2. layer[q].plane # x /\ layer[q].plane \in Planes
      BY <1>1, <3>1 DEF Video!PlanesOwned, Video!Keeps, WellTyped
    <3> QED BY <1>0, <1>1, <1>3, <2>2, <3>1, <3>2 DEF Video!NothingEarly, WellTyped
  <2> QED BY <2>1, <2>2
<1>8. Raised' /\ \A q \in Pipes : Awaits(q)'
  <2>1. panic.at = "raised" => Hold # p /\ Hold \in Pipes
    BY <1>2 DEF Raised, WellTyped
  <2> QED BY <1>0, <1>3, <2>1 DEF Raised, Awaits
<1>9. Video!Handover'
  <2>1. ASSUME NEW n \in Pipes, Landed(n) PROVE Landed(n)'
    <3>1. CASE n = p
      BY <1>0, <1>2, <1>3, <2>1, <3>1 DEF Landed
    <3>2. CASE n # p
      BY <1>0, <1>3, <2>1, <3>2 DEF Landed
    <3> QED BY <3>1, <3>2
  <2> QED BY <1>0, <1>8, <2>1, HandedOver
<1>10. Stage(p)' /\ Staged(p)' /\ Quill(p)'
  <2>1. Video!Keeps(p)'
    BY <1>1, <1>3, Records DEF Video!Keeps
  <2>2. Stage(p)'
    BY <1>0, <1>3, <2>1 DEF Stage
  <2>3. Staged(p)'
    BY <1>0, <1>2, <1>3 DEF Staged
  <2>4. Quill(p)'
    BY <1>0, <1>1, <1>2, <1>3, <1>4 DEF Quill
  <2> QED BY <2>2, <2>3, <2>4
<1>11. \A q \in Pipes : Stage(q)' /\ Staged(q)' /\ Quill(q)'
  BY <1>0, <1>3, <1>4, <1>10, Untouched
<1> QED BY <1>5, <1>6, <1>7, <1>8, <1>9, <1>11

\* A layer that is shown: at its place in the stack, where its level follows.
LEMMA Placed ==
  ASSUME Video!WallAssumption, WallInv, NEW p \in listed, NEW show, Video!Place(p, show),
         UNCHANGED <<busy, alpha, stained, listed, pending, writer, ends, fade, panic>>
  PROVE  /\ p \in Pipes /\ layer' \in [Pipes -> Slabs]
         /\ layer'[p].visible /\ \A q \in Pipes \ {p} : layer'[q] = layer[q]
         /\ \A q \in Pipes : layer'[q].plane = layer[q].plane /\ (layer[q].visible => layer'[q].visible)
         /\ Video!PlanesOwned' /\ Video!NothingEarly' /\ Raised' /\ \A q \in Pipes : Awaits(q)'
<1>1. p \in Pipes /\ layer' = [layer EXCEPT ![p].visible = TRUE]
  BY DEF Video!Place, WallInv, WellTyped
<1> DEFINE r == [layer[p] EXCEPT !.visible = TRUE]
<1>a. layer[p] \in Slabs
  BY <1>1 DEF WallInv, WellTyped
<1>b. r \in Slabs /\ r.visible /\ r.plane = layer[p].plane
  BY <1>a DEF Slabs
<1>c. layer' = [layer EXCEPT ![p] = r]
  BY <1>1 DEF WallInv, WellTyped
<1>2. /\ layer' \in [Pipes -> Slabs]
      /\ layer'[p].visible /\ \A q \in Pipes \ {p} : layer'[q] = layer[q]
      /\ \A q \in Pipes : layer'[q].plane = layer[q].plane /\ (layer[q].visible => layer'[q].visible)
  <2> HIDE DEF r
  <2>0. layer \in [Pipes -> Slabs]
    BY DEF WallInv, WellTyped
  <2>1. layer' \in [Pipes -> Slabs] /\ layer'[p] = r
    BY <1>1, <1>b, <1>c, <2>0
  <2>2. \A q \in Pipes \ {p} : layer'[q] = layer[q]
    BY <1>1, <1>c, <2>0
  <2> QED BY <1>1, <1>b, <2>1, <2>2
<1>3. Video!PlanesOwned'
  BY <1>2, SamePlanes DEF WallInv
<1>4. Video!NothingEarly'
  BY <1>2 DEF Video!NothingEarly, WallInv, WellTyped
<1>5. Raised'
  BY <1>2 DEF Raised, WallInv, WellTyped
<1>6. \A q \in Pipes : Awaits(q)'
  BY DEF Awaits, WallInv
<1> QED BY <1>1, <1>2, <1>3, <1>4, <1>5, <1>6

\* Other pipelines do not notice that p is shown.
LEMMA PlaceKeptInv ==
  ASSUME Video!WallAssumption, WallInv, NEW p \in Pipes, Video!PlaceKept(p)
  PROVE  WallInv'
<1>0. /\ pad[p].at = "place" /\ Video!Place(p, pad[p].show) /\ pad' = [pad EXCEPT ![p].at = "level"]
      /\ UNCHANGED <<busy, alpha, stained, listed, pending, writer, start, ends, fade, panic>>
  BY DEF Video!PlaceKept
<1>1. p \in listed
  BY <1>0 DEF WallInv, Stage
<1>2. pad' \in [Pipes -> [at : {"idle", "failed", "place", "level", "done"}, show : Plans]]
      /\ pad'[p].at = "level" /\ \A q \in Pipes \ {p} : pad'[q] = pad[q]
  <2>1. pad \in [Pipes -> [at : {"idle", "failed", "place", "level", "done"}, show : Plans]]
    BY DEF WallInv, WellTyped
  <2> QED BY <1>0, <2>1
<1>3. /\ layer' \in [Pipes -> Slabs]
      /\ layer'[p].visible /\ \A q \in Pipes \ {p} : layer'[q] = layer[q]
      /\ \A q \in Pipes : layer'[q].plane = layer[q].plane /\ (layer[q].visible => layer'[q].visible)
      /\ Video!PlanesOwned' /\ Video!NothingEarly' /\ Raised' /\ \A q \in Pipes : Awaits(q)'
  BY <1>0, <1>1, Placed
<1>4. WellTyped'
  BY <1>0, <1>2, <1>3 DEF WallInv, WellTyped
<1>5. Video!Handover'
  <2>1. \A n \in Pipes : Landed(n) => Landed(n)'
    BY <1>0, <1>2, <1>3 DEF Landed
  <2> QED BY <1>0, <1>3, <2>1, HandedOver DEF WallInv
<1>6. Stage(p)' /\ Staged(p)' /\ Quill(p)'
  BY <1>0, <1>1, <1>2, <1>3 DEF WallInv, Stage, Staged, Quill, Video!Keeps
<1>7. \A q \in Pipes : Stage(q)' /\ Staged(q)' /\ Quill(q)'
  BY <1>0, <1>2, <1>3, <1>6, Untouched DEF WallInv
<1> QED BY <1>3, <1>4, <1>5, <1>7 DEF WallInv

LEMMA LevelKeptInv ==
  ASSUME Video!WallAssumption, WallInv, NEW p \in Pipes, Video!LevelKept(p)
  PROVE  WallInv'
<1>0. /\ pad[p].at = "level" /\ Video!Leveled(p, pad[p].show.level)
      /\ pad' = [pad EXCEPT ![p] = [at |-> "done", show |-> Video!NoShow]]
      /\ UNCHANGED <<busy, alpha, stained, layer, listed, pending, start, ends, fade, panic>>
  BY DEF Video!LevelKept, Video!planes, Video!layers
<1>1. pad \in [Pipes -> [at : {"idle", "failed", "place", "level", "done"}, show : Plans]]
      /\ pad[p].show.level \in Video!Levels
  BY DEF WallInv, WellTyped, Plans
<1>2. pad' \in [Pipes -> [at : {"idle", "failed", "place", "level", "done"}, show : Plans]]
      /\ pad'[p].at = "done" /\ \A q \in Pipes \ {p} : pad'[q] = pad[q]
  BY <1>0, <1>1, Records
<1>3. writer' \in [Pipes -> Quills] /\ \A q \in Pipes : Quill(q)'
  BY <1>0, <1>1, LeveledAt, LeveledQuill DEF WallInv
<1>4. WellTyped'
  BY <1>0, <1>2, <1>3 DEF WallInv, WellTyped
<1>5. Video!PlanesOwned' /\ Video!NothingEarly' /\ Raised' /\ \A q \in Pipes : Awaits(q)'
  BY <1>0 DEF WallInv, Video!PlanesOwned, Video!Keeps, Video!NothingEarly, Raised, Awaits
<1>6. Video!Handover'
  <2>1. \A n \in Pipes : Landed(n) => Landed(n)'
    BY <1>0, <1>2 DEF Landed
  <2> QED BY <1>0, <1>5, <2>1, HandedOver DEF WallInv
<1>7. Stage(p)' /\ Staged(p)'
  BY <1>0, <1>2 DEF WallInv, Stage, Staged, Video!Keeps
<1>8. \A q \in Pipes : Stage(q)' /\ Staged(q)'
  BY <1>0, <1>2, <1>7 DEF WallInv, Stage, Staged, Video!Keeps
<1> QED BY <1>3, <1>4, <1>5, <1>6, <1>8 DEF WallInv

LEMMA PadInv ==
  ASSUME Video!WallAssumption, WallInv, NEW p \in Pipes, Video!Pad(p)
  PROVE  WallInv'
  BY NoPlaneInv, NewLayerInv, PlaceKeptInv, LevelKeptInv DEF Video!Pad

-----------------------------------------------------------------------------
\* The start of a cue: it decides where to show ...
LEMMA DecideInv ==
  ASSUME Video!WallAssumption, WallInv, NEW p \in Pipes, Video!Start(p)
  PROVE  WallInv'
<1>0. PICK show \in Video!Shows(p) : start' = [start EXCEPT ![p] = [at |-> "about", show |-> show]]
  BY DEF Video!Start
<1>1. UNCHANGED <<busy, alpha, stained, layer, listed, pending, writer, pad, ends, fade, panic>>
  BY DEF Video!Start, Video!planes, Video!layers
<1>2. start \in [Pipes -> [at : {"idle", "about", "level", "done"}, show : Plans]]
  BY DEF WallInv, WellTyped
<1>3. start' \in [Pipes -> [at : {"idle", "about", "level", "done"}, show : Plans]]
      /\ start'[p].at = "about" /\ start'[p].show # Video!NoShow
      /\ \A q \in Pipes \ {p} : start'[q] = start[q]
  BY <1>0, <1>2, Records
<1>4. WellTyped'
  BY <1>1, <1>3 DEF WallInv, WellTyped
<1>5. Video!PlanesOwned' /\ Video!NothingEarly' /\ Raised' /\ \A q \in Pipes : Awaits(q)'
  BY <1>1 DEF WallInv, Video!PlanesOwned, Video!Keeps, Video!NothingEarly, Raised, Awaits
<1>6. Video!Handover'
  BY <1>1, <1>5, HandedOver DEF WallInv, Landed
<1>7. Stage(p)' /\ Staged(p)' /\ Quill(p)'
  BY <1>1, <1>3 DEF WallInv, Stage, Staged, Quill, Video!Keeps
<1>8. \A q \in Pipes : Stage(q)' /\ Staged(q)' /\ Quill(q)'
  BY <1>1, <1>3, <1>7, Untouched DEF WallInv
<1> QED BY <1>4, <1>5, <1>6, <1>8 DEF WallInv

\* ... shows at once ...
LEMMA ShowNowInv ==
  ASSUME Video!WallAssumption, WallInv, NEW p \in Pipes, Video!Show(p), p \in listed
  PROVE  WallInv'
<1>0. /\ start[p].at = "about" /\ Video!Place(p, start[p].show) /\ start' = [start EXCEPT ![p].at = "level"]
      /\ UNCHANGED <<busy, alpha, stained, listed, pending, writer, pad, ends, fade, panic>>
  BY DEF Video!Show
<1>1. start \in [Pipes -> [at : {"idle", "about", "level", "done"}, show : Plans]]
  BY DEF WallInv, WellTyped
<1>2. start' \in [Pipes -> [at : {"idle", "about", "level", "done"}, show : Plans]]
      /\ start'[p].at = "level" /\ \A q \in Pipes \ {p} : start'[q] = start[q]
  BY <1>0, <1>1
<1>3. /\ layer' \in [Pipes -> Slabs]
      /\ layer'[p].visible /\ \A q \in Pipes \ {p} : layer'[q] = layer[q]
      /\ \A q \in Pipes : layer'[q].plane = layer[q].plane /\ (layer[q].visible => layer'[q].visible)
      /\ Video!PlanesOwned' /\ Video!NothingEarly' /\ Raised' /\ \A q \in Pipes : Awaits(q)'
  BY <1>0, Placed
<1>4. WellTyped'
  BY <1>0, <1>2, <1>3 DEF WallInv, WellTyped
<1>5. Video!Handover'
  <2>1. \A n \in Pipes : Landed(n) => Landed(n)'
    BY <1>0, <1>3 DEF Landed
  <2> QED BY <1>0, <1>3, <2>1, HandedOver DEF WallInv
<1>6. Stage(p)' /\ Staged(p)' /\ Quill(p)'
  BY <1>0, <1>2, <1>3 DEF WallInv, Stage, Staged, Quill, Video!Keeps
<1>7. \A q \in Pipes : Stage(q)' /\ Staged(q)' /\ Quill(q)'
  BY <1>0, <1>2, <1>3, <1>6, Untouched DEF WallInv
<1> QED BY <1>3, <1>4, <1>5, <1>7 DEF WallInv

\* ... or leaves its show to the pad that is to come.
LEMMA ShowLaterInv ==
  ASSUME Video!WallAssumption, WallInv, NEW p \in Pipes, Video!Show(p), p \notin listed
  PROVE  WallInv'
<1>0. /\ start[p].at = "about" /\ pending' = [pending EXCEPT ![p] = start[p].show]
      /\ start' = [start EXCEPT ![p] = [at |-> "done", show |-> Video!NoShow]] /\ Video!Released(p)
      /\ UNCHANGED <<busy, alpha, stained, layer, listed, writer, pad, ends, panic>>
  BY DEF Video!Show
<1>1. start \in [Pipes -> [at : {"idle", "about", "level", "done"}, show : Plans]]
      /\ pending \in [Pipes -> Plans] /\ start[p].show \in Plans /\ start[p].show # Video!NoShow
  BY <1>0 DEF WallInv, WellTyped, Staged
<1>2. start' \in [Pipes -> [at : {"idle", "about", "level", "done"}, show : Plans]]
      /\ start'[p].at = "done" /\ \A q \in Pipes \ {p} : start'[q] = start[q]
  BY <1>0, <1>1, Records
<1>3. pending' \in [Pipes -> Plans] /\ pending'[p] # Video!NoShow /\ \A q \in Pipes \ {p} : pending'[q] = pending[q]
  BY <1>0, <1>1
<1>4. /\ fade' \in [Pipes -> [at : {"no", "waits", "released", "fades"},
                              over : Pipes \cup {Video!None}]]
      /\ \A q \in Pipes : Awaits(q)'
      /\ \A q \in Pipes : fade'[q].at = "released" =>
           fade'[q].over = fade[q].over /\ (fade[q].at = "released" \/ fade[q].over = p)
  BY <1>0, ReleasedOver DEF WallInv
<1>5. WellTyped'
  BY <1>0, <1>2, <1>3, <1>4 DEF WallInv, WellTyped
<1>6. Video!PlanesOwned' /\ Video!NothingEarly' /\ Raised'
  BY <1>0 DEF WallInv, Video!PlanesOwned, Video!Keeps, Video!NothingEarly, Raised
<1>7. Video!Handover'
  <2>1. Landed(p)' /\ \A n \in Pipes : Landed(n) => Landed(n)'
    BY <1>0, <1>3 DEF Landed
  <2> QED BY <1>4, <2>1, HandedOver DEF WallInv
<1>8. Stage(p)' /\ Staged(p)' /\ Quill(p)'
  BY <1>0, <1>2, <1>3 DEF WallInv, Stage, Staged, Quill, Video!Keeps
<1>9. \A q \in Pipes : Stage(q)' /\ Staged(q)' /\ Quill(q)'
  BY <1>0, <1>2, <1>3, <1>8, Untouched DEF WallInv
<1> QED BY <1>4, <1>5, <1>6, <1>7, <1>9 DEF WallInv

\* Its level, and the fades that waited for it.
LEMMA ShownInv ==
  ASSUME Video!WallAssumption, WallInv, NEW p \in Pipes, Video!Shown(p)
  PROVE  WallInv'
<1>0. /\ start[p].at = "level" /\ Video!Leveled(p, start[p].show.level) /\ Video!Released(p)
      /\ start' = [start EXCEPT ![p] = [at |-> "done", show |-> Video!NoShow]]
      /\ UNCHANGED <<busy, alpha, stained, layer, listed, pending, pad, ends, panic>>
  BY DEF Video!Shown, Video!planes, Video!layers
<1>1. start \in [Pipes -> [at : {"idle", "about", "level", "done"}, show : Plans]]
      /\ start[p].show.level \in Video!Levels /\ (layer[p].visible \/ ends[p] = "gone")
  BY <1>0 DEF WallInv, WellTyped, Staged, Plans
<1>2. start' \in [Pipes -> [at : {"idle", "about", "level", "done"}, show : Plans]]
      /\ start'[p].at = "done" /\ \A q \in Pipes \ {p} : start'[q] = start[q]
  BY <1>0, <1>1, Records
<1>3. writer' \in [Pipes -> Quills] /\ \A q \in Pipes : Quill(q)'
  BY <1>0, <1>1, LeveledAt, LeveledQuill DEF WallInv
<1>4. /\ fade' \in [Pipes -> [at : {"no", "waits", "released", "fades"},
                              over : Pipes \cup {Video!None}]]
      /\ \A q \in Pipes : Awaits(q)'
      /\ \A q \in Pipes : fade'[q].at = "released" =>
           fade'[q].over = fade[q].over /\ (fade[q].at = "released" \/ fade[q].over = p)
  BY <1>0, ReleasedOver DEF WallInv
<1>5. WellTyped'
  BY <1>0, <1>2, <1>3, <1>4 DEF WallInv, WellTyped
<1>6. Video!PlanesOwned' /\ Video!NothingEarly' /\ Raised'
  BY <1>0 DEF WallInv, Video!PlanesOwned, Video!Keeps, Video!NothingEarly, Raised
<1>7. Video!Handover'
  <2>1. Landed(p)' /\ \A n \in Pipes : Landed(n) => Landed(n)'
    BY <1>0, <1>1 DEF Landed
  <2> QED BY <1>4, <2>1, HandedOver DEF WallInv
<1>8. Stage(p)' /\ Staged(p)'
  BY <1>0, <1>1, <1>2 DEF WallInv, Stage, Staged, Video!Keeps
<1>9. \A q \in Pipes : Stage(q)' /\ Staged(q)'
  BY <1>0, <1>2, <1>8 DEF WallInv, Stage, Staged, Video!Keeps
<1> QED BY <1>3, <1>4, <1>5, <1>6, <1>7, <1>9 DEF WallInv

LEMMA StarterInv ==
  ASSUME Video!WallAssumption, WallInv, NEW p \in Pipes, Video!Starter(p)
  PROVE  WallInv'
  BY DecideInv, ShowNowInv, ShowLaterInv, ShownInv DEF Video!Starter

-----------------------------------------------------------------------------
\* The fades: a level on its way, a cue that is to fade away, and one that begins to.
LEMMA SetLevelInv ==
  ASSUME Video!WallAssumption, WallInv, NEW p \in Pipes, NEW v \in Video!Levels, Video!SetLevel(p, v)
  PROVE  WallInv'
<1>0. /\ Video!Leveled(p, v)
      /\ UNCHANGED <<busy, alpha, stained, layer, listed, pending, pad, start, ends, fade, panic>>
  BY DEF Video!SetLevel, Video!planes, Video!layers
<1>1. writer' \in [Pipes -> Quills] /\ \A q \in Pipes : Quill(q)'
  BY <1>0, LeveledAt, LeveledQuill DEF WallInv
<1>2. WellTyped'
  BY <1>0, <1>1 DEF WallInv, WellTyped
<1>3. /\ Video!PlanesOwned' /\ Video!NothingEarly' /\ Video!Handover' /\ Raised'
      /\ \A q \in Pipes : Stage(q)' /\ Staged(q)' /\ Awaits(q)'
  BY <1>0 DEF WallInv, Video!PlanesOwned, Video!Keeps, Video!NothingEarly, Video!Handover, Raised,
              Stage, Staged, Awaits
<1> QED BY <1>1, <1>2, <1>3 DEF WallInv

LEMMA FadeInv ==
  ASSUME Video!WallAssumption, WallInv, NEW p \in Pipes,
         Video!Fades(p) \/ \E n \in Pipes : Video!Outgoing(p, n)
  PROVE  WallInv'
<1>0. UNCHANGED <<busy, alpha, stained, layer, listed, pending, writer, pad, start, ends, panic>>
  BY DEF Video!Fades, Video!Outgoing, Video!planes, Video!layers
<1>1. fade \in [Pipes -> [at : {"no", "waits", "released", "fades"}, over : Pipes \cup {Video!None}]]
  BY DEF WallInv, WellTyped
<1>2. /\ fade' \in [Pipes -> [at : {"no", "waits", "released", "fades"},
                              over : Pipes \cup {Video!None}]]
      /\ fade'[p].at \in {"waits", "fades"} /\ fade'[p].over \in Pipes
      /\ \A q \in Pipes \ {p} : fade'[q] = fade[q]
  <2>1. CASE Video!Fades(p)
    BY <1>1, <2>1 DEF Video!Fades, WallInv, Awaits
  <2>2. ASSUME NEW n \in Pipes, Video!Outgoing(p, n)
        PROVE  fade' = [fade EXCEPT ![p] = [at |-> "waits", over |-> n]]
    BY <2>2 DEF Video!Outgoing
  <2> QED BY <1>1, <2>1, <2>2
<1>3. WellTyped'
  BY <1>0, <1>2 DEF WallInv, WellTyped
<1>4. \A q \in Pipes : Awaits(q)'
  BY <1>2 DEF WallInv, Awaits
<1>5. Video!Handover'
  BY <1>0, <1>2, <1>4, HandedOver DEF WallInv, Landed
<1>6. /\ Video!PlanesOwned' /\ Video!NothingEarly' /\ Raised'
      /\ \A q \in Pipes : Stage(q)' /\ Staged(q)' /\ Quill(q)'
  BY <1>0 DEF WallInv, Video!PlanesOwned, Video!Keeps, Video!NothingEarly, Raised, Stage, Staged,
              Quill
<1> QED BY <1>3, <1>4, <1>5, <1>6 DEF WallInv

-----------------------------------------------------------------------------
\* The retirement: out of the layers ...
LEMMA UnlistInv ==
  ASSUME Video!WallAssumption, WallInv, NEW p \in Pipes, Video!Unlist(p)
  PROVE  WallInv'
<1>0. /\ ends[p] = "live" /\ pad[p].at \in {"idle", "failed", "done"}
      /\ p = Hold => panic.at # "raised"
      /\ ends' = [ends EXCEPT ![p] = IF p \in listed THEN "unlisted" ELSE "gone"]
      /\ listed' = listed \ {p} /\ pending' = [pending EXCEPT ![p] = Video!NoShow]
      /\ IF p \in listed THEN UNCHANGED fade ELSE Video!Released(p)
      /\ UNCHANGED <<busy, alpha, stained, layer, writer, pad, start, panic>>
  BY DEF Video!Unlist, Video!planes
<1>1. ends \in [Pipes -> {"live", "unlisted", "gone"}] /\ pending \in [Pipes -> Plans]
  BY DEF WallInv, WellTyped
<1>2. /\ ends' \in [Pipes -> {"live", "unlisted", "gone"}] /\ pending' \in [Pipes -> Plans]
      /\ ends'[p] = IF p \in listed THEN "unlisted" ELSE "gone"
      /\ pending'[p] = Video!NoShow /\ p \notin listed'
      /\ \A q \in Pipes \ {p} : /\ ends'[q] = ends[q] /\ pending'[q] = pending[q]
                                /\ q \in listed' <=> q \in listed
  BY <1>0, <1>1, Records
<1>3. /\ fade' \in [Pipes -> [at : {"no", "waits", "released", "fades"},
                              over : Pipes \cup {Video!None}]]
      /\ \A q \in Pipes : Awaits(q)'
      /\ \A q \in Pipes : fade'[q].at = "released" =>
           /\ fade'[q].over = fade[q].over
           /\ fade[q].at = "released" \/ (fade[q].over = p /\ p \notin listed)
  <2>1. CASE p \in listed
    <3>1. fade' = fade
      BY <1>0, <2>1
    <3>2. fade \in [Pipes -> [at : {"no", "waits", "released", "fades"},
                              over : Pipes \cup {Video!None}]]
      BY DEF WallInv, WellTyped
    <3>3. \A q \in Pipes : Awaits(q)
      BY DEF WallInv
    <3> QED BY <3>1, <3>2, <3>3 DEF Awaits
  <2>2. CASE p \notin listed
    BY <1>0, <2>2, ReleasedOver DEF WallInv
  <2> QED BY <2>1, <2>2
<1>4. WellTyped'
  BY <1>0, <1>2, <1>3 DEF WallInv, WellTyped
<1>5. Video!PlanesOwned' /\ Video!NothingEarly'
  BY <1>0 DEF WallInv, Video!PlanesOwned, Video!Keeps, Video!NothingEarly
<1>6. Raised'
  BY <1>0 DEF WallInv, Raised
<1>7. Video!Handover'
  <2>1. ASSUME NEW n \in Pipes, Landed(n) PROVE Landed(n)'
    <3>1. CASE n = p /\ p \in listed
      BY <1>0, <2>1, <3>1 DEF WallInv, Landed, Stage
    <3>2. CASE n = p /\ p \notin listed
      BY <1>2, <3>2 DEF Landed
    <3>3. CASE n # p
      BY <1>0, <1>2, <2>1, <3>3 DEF Landed
    <3> QED BY <3>1, <3>2, <3>3
  <2>2. p \notin listed => Landed(p)'
    BY <1>2 DEF Landed
  <2> QED BY <1>3, <2>1, <2>2, HandedOver DEF WallInv
<1>8. Stage(p)' /\ Staged(p)' /\ Quill(p)'
  <2>1. Stage(p) /\ Staged(p) /\ Quill(p)
    BY DEF WallInv
  <2>2. Stage(p)'
    BY <1>0, <1>2, <2>1 DEF Stage, Video!Keeps
  <2>3. Staged(p)'
    BY <1>0, <1>2, <2>1 DEF Staged
  <2>4. Quill(p)'
    BY <1>0, <1>2, <2>1 DEF Quill
  <2> QED BY <2>2, <2>3, <2>4
<1>9. \A q \in Pipes : Stage(q)' /\ Staged(q)' /\ Quill(q)'
  BY <1>0, <1>2, <1>8, Untouched DEF WallInv
<1> QED BY <1>3, <1>4, <1>5, <1>6, <1>7, <1>9 DEF WallInv

\* ... and off its plane.
LEMMA ReleaseInv ==
  ASSUME Video!WallAssumption, WallInv, NEW p \in Pipes, Video!Release(p)
  PROVE  WallInv'
<1> DEFINE x == layer[p].plane
<1>0. /\ ends[p] = "unlisted" /\ ends' = [ends EXCEPT ![p] = "gone"]
      /\ writer' = IF p \in Writers THEN [writer EXCEPT ![p].quit = TRUE] ELSE writer
      /\ alpha' = [alpha EXCEPT ![x] = Video!Clear] /\ stained' = stained \ {x}
      /\ busy' = busy \ {x} /\ Video!Released(p) /\ layer' = [layer EXCEPT ![p] = Video!NoLayer]
      /\ UNCHANGED <<listed, pending, pad, start, panic>>
  BY DEF Video!Release
<1>1. /\ Video!Keeps(p) /\ p \notin listed /\ pad[p].at \notin {"place", "level"}
      /\ layer \in [Pipes -> Slabs] /\ writer \in [Pipes -> Quills]
      /\ ends \in [Pipes -> {"live", "unlisted", "gone"}]
      /\ alpha \in [Planes -> Video!Levels]
  BY <1>0 DEF WallInv, Stage, WellTyped
<1>2. x \in Planes /\ x # 0
  BY <1>1 DEF Video!Keeps, Slabs
<1>3. /\ layer' \in [Pipes -> Slabs] /\ ends' \in [Pipes -> {"live", "unlisted", "gone"}]
      /\ layer'[p] = Video!NoLayer /\ ends'[p] = "gone" /\ Video!NoLayer.plane = 0
      /\ ~ Video!NoLayer.visible
      /\ \A q \in Pipes \ {p} : layer'[q] = layer[q] /\ ends'[q] = ends[q]
  <2>1. Video!NoLayer \in Slabs /\ Video!NoLayer.plane = 0 /\ ~ Video!NoLayer.visible
    BY DEF Video!NoLayer, Slabs
  <2> QED BY <1>0, <1>1, <2>1
<1>4. /\ writer' \in [Pipes -> Quills] /\ \A q \in Pipes \ {p} : writer'[q] = writer[q]
      /\ writer'[p].at = writer[p].at /\ writer'[p].plane = writer[p].plane
  <2>1. CASE p \in Writers
    <3> DEFINE r == [writer[p] EXCEPT !.quit = TRUE]
    <3>1. writer[p] \in Quills /\ Video!Clear \in Video!Levels
      BY <1>1 DEF Video!Levels, Video!Clear, Video!Full
    <3>2. r \in Quills
      BY <3>1, Edited
    <3>3. r.at = writer[p].at /\ r.plane = writer[p].plane
      BY <3>1 DEF Quills
    <3>4. writer' = [writer EXCEPT ![p] = r]
      BY <1>0, <1>1, <2>1
    <3> HIDE DEF r
    <3> QED BY <3>2, <3>3, <3>4, Rewritten DEF WallInv
  <2>2. CASE p \notin Writers
    BY <1>0, <1>1, <2>2
  <2> QED BY <2>1, <2>2
<1>5. /\ fade' \in [Pipes -> [at : {"no", "waits", "released", "fades"},
                              over : Pipes \cup {Video!None}]]
      /\ \A q \in Pipes : Awaits(q)'
      /\ \A q \in Pipes : fade'[q].at = "released" =>
           fade'[q].over = fade[q].over /\ (fade[q].at = "released" \/ fade[q].over = p)
  BY <1>0, ReleasedOver DEF WallInv
<1>6. WellTyped'
  <2>1. alpha' \in [Planes -> Video!Levels]
    BY <1>0, <1>1, Records DEF Video!Clear
  <2> QED BY <1>0, <1>3, <1>4, <1>5, <2>1 DEF WallInv, WellTyped
<1>7. \A q \in Pipes \ {p} : Video!Keeps(q) => layer[q].plane # x
  BY <1>1 DEF WallInv, Video!PlanesOwned
<1>8. Video!PlanesOwned'
  <2>1. /\ ~Video!Keeps(p)'
        /\ \A q \in Pipes \ {p} :
             (Video!Keeps(q)' <=> Video!Keeps(q)) /\ layer'[q].plane = layer[q].plane
    BY <1>3 DEF Video!Keeps
  <2>2. \A q, r \in Pipes : Video!Keeps(q)' /\ Video!Keeps(r)' /\ layer'[q].plane = layer'[r].plane => q = r
    BY <2>1 DEF WallInv, Video!PlanesOwned
  <2>3. busy = {layer[q].plane : q \in {r \in Pipes : Video!Keeps(r)}}
    BY DEF WallInv, Video!PlanesOwned
  <2>4. busy' = {layer'[q].plane : q \in {r \in Pipes : Video!Keeps(r)'}}
    BY <1>0, <1>7, <2>1, <2>3
  <2> QED BY <2>2, <2>4 DEF Video!PlanesOwned
<1>9. Video!NothingEarly'
  <2> SUFFICES ASSUME NEW q \in listed, ~layer'[q].visible
               PROVE  alpha'[layer'[q].plane] = Video!Clear \/ layer'[q].plane \in stained'
    BY <1>0 DEF Video!NothingEarly
  <2>1. q \in Pipes /\ q # p /\ Video!Keeps(q)
    BY <1>1 DEF WallInv, WellTyped, Stage
  <2>2. layer'[q] = layer[q] /\ layer[q].plane \in Planes \ {x}
    BY <1>1, <1>3, <1>7, <2>1 DEF Video!Keeps, Slabs
  <2>3. alpha'[layer[q].plane] = alpha[layer[q].plane]
    BY <1>0, <1>1, <2>2
  <2> QED BY <1>0, <2>2, <2>3 DEF WallInv, Video!NothingEarly
<1>10. Raised'
  BY <1>0, <1>1, <1>3 DEF WallInv, Raised, WellTyped
<1>11. Video!Handover'
  <2>1. Landed(p)' /\ \A n \in Pipes : Landed(n) => Landed(n)'
    BY <1>0, <1>3 DEF Landed
  <2> QED BY <1>5, <2>1, HandedOver DEF WallInv
<1>12. Stage(p)' /\ Staged(p)' /\ Quill(p)'
  <2>1. Stage(p) /\ Staged(p) /\ Quill(p)
    BY DEF WallInv
  <2>2. Stage(p)'
    BY <1>0, <1>1, <1>3 DEF Stage, Video!Keeps
  <2>3. Staged(p)'
    BY <1>0, <1>1, <1>3, <2>1 DEF Staged
  <2>4. Quill(p)'
    BY <1>3, <1>4, <2>1 DEF Quill
  <2> QED BY <2>2, <2>3, <2>4
<1>13. \A q \in Pipes : Stage(q)' /\ Staged(q)' /\ Quill(q)'
  BY <1>0, <1>3, <1>4, <1>12, Untouched DEF WallInv
<1> QED BY <1>5, <1>6, <1>8, <1>9, <1>10, <1>11, <1>13 DEF WallInv

LEMMA RetireInv ==
  ASSUME Video!WallAssumption, WallInv, NEW p \in Pipes, Video!Retire(p)
  PROVE  WallInv'
  BY UnlistInv, ReleaseInv DEF Video!Retire

-----------------------------------------------------------------------------
\* The panic image: parked ...
LEMMA ParkInv ==
  ASSUME Video!WallAssumption, WallInv, Video!Park
  PROVE  WallInv'
<1>0. /\ Hold \in Pipes /\ panic' = [panic EXCEPT !.at = "armed"]
      /\ layer' = layer \/ layer' = [layer EXCEPT ![Hold].parked = TRUE]
      /\ UNCHANGED <<busy, alpha, stained, listed, pending, writer, pad, start, ends, fade>>
  BY DEF Video!Park
<1>1. /\ layer' \in [Pipes -> Slabs]
      /\ \A q \in Pipes : layer'[q].plane = layer[q].plane /\ layer'[q].visible = layer[q].visible
  <2> DEFINE r == [layer[Hold] EXCEPT !.parked = TRUE]
  <2>1. layer \in [Pipes -> Slabs] /\ layer[Hold] \in Slabs
    BY <1>0 DEF WallInv, WellTyped
  <2>2. r \in Slabs /\ r.plane = layer[Hold].plane /\ r.visible = layer[Hold].visible
    BY <2>1 DEF Slabs
  <2>3. layer' = layer \/ layer' = [layer EXCEPT ![Hold] = r]
    BY <1>0, <2>1
  <2> HIDE DEF r
  <2> QED BY <1>0, <2>1, <2>2, <2>3
<1>2. panic' = [at |-> panic'.at, z |-> panic'.z] /\ panic'.at = "armed"
  BY <1>0 DEF WallInv, WellTyped
<1>3. WellTyped'
  BY <1>0, <1>1, <1>2 DEF WallInv, WellTyped
<1>4. Video!PlanesOwned'
  BY <1>0, <1>1, SamePlanes DEF WallInv
<1>5. Video!NothingEarly' /\ Raised' /\ \A q \in Pipes : Awaits(q)'
  BY <1>0, <1>1, <1>2 DEF WallInv, Video!NothingEarly, Raised, Awaits, WellTyped
<1>6. Video!Handover'
  <2>1. \A n \in Pipes : Landed(n) => Landed(n)'
    BY <1>0, <1>1 DEF Landed
  <2> QED BY <1>0, <1>5, <2>1, HandedOver DEF WallInv
<1>7. \A q \in Pipes : Stage(q)' /\ Staged(q)' /\ Quill(q)'
  BY <1>0, <1>1 DEF WallInv, Stage, Staged, Quill, Video!Keeps
<1> QED BY <1>3, <1>4, <1>5, <1>6, <1>7 DEF WallInv

\* ... raised ...
LEMMA RaiseInv ==
  ASSUME Video!WallAssumption, WallInv, Video!Raise
  PROVE  WallInv'
<1>0. /\ Hold \in listed /\ Hold \in Pipes
      /\ layer' = [layer EXCEPT ![Hold].visible = TRUE, ![Hold].parked = FALSE]
      /\ panic' = [at |-> "raised", z |-> IF layer[Hold].parked THEN 0 ELSE Len(stack')]
      /\ UNCHANGED <<busy, alpha, stained, listed, pending, writer, pad, start, ends, fade>>
  BY DEF Video!Raise, WallInv, WellTyped, Video!planes
<1>1. /\ layer' \in [Pipes -> Slabs] /\ layer'[Hold].visible
      /\ \A q \in Pipes : layer'[q].plane = layer[q].plane /\ (layer[q].visible => layer'[q].visible)
      /\ \A q \in Pipes \ {Hold} : layer'[q] = layer[q]
  <2> DEFINE r == [layer[Hold] EXCEPT !.visible = TRUE, !.parked = FALSE]
  <2>1. layer \in [Pipes -> Slabs] /\ layer[Hold] \in Slabs
    BY <1>0 DEF WallInv, WellTyped
  <2>2. r \in Slabs /\ r.plane = layer[Hold].plane /\ r.visible
    BY <2>1 DEF Slabs
  <2>3. layer' = [layer EXCEPT ![Hold] = r]
    BY <1>0, <2>1
  <2> HIDE DEF r
  <2> QED BY <1>0, <2>1, <2>2, <2>3
<1>3. panic' = [at |-> panic'.at, z |-> panic'.z]
  BY <1>0
<1>4. WellTyped'
  BY <1>0, <1>1, <1>3 DEF WallInv, WellTyped
<1>5. Video!PlanesOwned'
  BY <1>0, <1>1, SamePlanes DEF WallInv
<1>6. Video!NothingEarly' /\ Raised' /\ \A q \in Pipes : Awaits(q)'
  BY <1>0, <1>1 DEF WallInv, Video!NothingEarly, Raised, Awaits, WellTyped
<1>7. Video!Handover'
  <2>1. \A n \in Pipes : Landed(n) => Landed(n)'
    BY <1>0, <1>1 DEF Landed
  <2> QED BY <1>0, <1>6, <2>1, HandedOver DEF WallInv
<1>8. Stage(Hold)' /\ Staged(Hold)' /\ Quill(Hold)'
  BY <1>0, <1>1 DEF WallInv, Stage, Staged, Quill, Video!Keeps
<1>9. \A q \in Pipes : Stage(q)' /\ Staged(q)' /\ Quill(q)'
  BY <1>0, <1>1, <1>8, Untouched DEF WallInv
<1> QED BY <1>4, <1>5, <1>6, <1>7, <1>9 DEF WallInv

\* ... and cut in.
LEMMA CutInv ==
  ASSUME Video!WallAssumption, WallInv, Video!Cut
  PROVE  WallInv'
<1> DEFINE x == layer[Hold].plane
<1>0. /\ panic.at = "raised" /\ panic' = [panic EXCEPT !.at = "up"]
      /\ alpha' = [alpha EXCEPT ![x] = Video!Full] /\ stained' = stained \ {x}
      /\ Video!Post(Hold, Video!Full)
      /\ UNCHANGED <<busy, listed, layer, pending, pad, start, ends, fade>>
  BY DEF Video!Cut, Video!layers
<1>1. /\ Hold \in listed /\ Hold \in Pipes /\ layer[Hold].visible /\ Video!Keeps(Hold)
      /\ alpha \in [Planes -> Video!Levels] /\ layer \in [Pipes -> Slabs]
  BY <1>0 DEF WallInv, Raised, Stage, WellTyped
<1>2. x \in Planes /\ Video!Full \in Video!Levels
  BY <1>1, Records DEF Video!Keeps, Slabs, Video!Full
<1>3. /\ writer' \in [Pipes -> Quills] /\ \A q \in Pipes \ {Hold} : writer'[q] = writer[q]
      /\ writer'[Hold].at = writer[Hold].at /\ writer'[Hold].plane = writer[Hold].plane
  BY <1>0, <1>1, <1>2, Posted DEF WallInv
<1>4. panic' = [at |-> panic'.at, z |-> panic'.z] /\ panic'.at = "up"
  <2>1. panic = [at |-> panic.at, z |-> panic.z]
    BY DEF WallInv, WellTyped
  <2> QED BY <1>0, <2>1
<1>5. WellTyped'
  BY <1>0, <1>1, <1>2, <1>3, <1>4 DEF WallInv, WellTyped
<1>6. Video!PlanesOwned' /\ Video!Handover' /\ Raised' /\ \A q \in Pipes : Awaits(q)'
  BY <1>0, <1>4 DEF WallInv, Video!PlanesOwned, Video!Keeps, Video!Handover, Raised, Awaits
<1>7. Video!NothingEarly'
  <2> SUFFICES ASSUME NEW q \in listed, ~layer[q].visible
               PROVE  alpha'[layer[q].plane] = Video!Clear \/ layer[q].plane \in stained'
    BY <1>0 DEF Video!NothingEarly
  <2>1. q \in Pipes /\ q # Hold /\ Video!Keeps(q)
    BY <1>1 DEF WallInv, WellTyped, Stage
  <2>2. layer[q].plane \in Planes \ {x}
    BY <1>1, <2>1 DEF WallInv, Video!PlanesOwned, Video!Keeps, Slabs
  <2>3. alpha'[layer[q].plane] = alpha[layer[q].plane]
    BY <1>0, <1>1, <2>2
  <2> QED BY <1>0, <2>2, <2>3 DEF WallInv, Video!NothingEarly
<1>8. \A q \in Pipes : Stage(q)' /\ Staged(q)'
  BY <1>0 DEF WallInv, Stage, Staged, Video!Keeps
<1>9. Quill(Hold)'
  BY <1>0, <1>1, <1>3 DEF WallInv, Quill
<1>10. \A q \in Pipes : Quill(q)'
  BY <1>0, <1>3, <1>9 DEF WallInv, Quill
<1> QED BY <1>5, <1>6, <1>7, <1>8, <1>10 DEF WallInv

-----------------------------------------------------------------------------
LEMMA StutterInv == ASSUME WallInv, UNCHANGED Video!vars PROVE WallInv'
<1>0. UNCHANGED <<busy, alpha, stained, listed, layer, pending, writer, pad, start, ends, fade, panic>>
  BY DEF Video!vars, Video!planes, Video!layers, Video!calls
<1>1. WellTyped'
  BY <1>0 DEF WallInv, WellTyped
<1>2. Video!PlanesOwned' /\ Video!NothingEarly' /\ Video!Handover' /\ Raised'
  BY <1>0 DEF WallInv, Video!PlanesOwned, Video!Keeps, Video!NothingEarly, Video!Handover, Raised
<1>3. \A q \in Pipes : Stage(q)' /\ Staged(q)' /\ Quill(q)' /\ Awaits(q)'
  BY <1>0 DEF WallInv, Stage, Staged, Quill, Awaits, Video!Keeps
<1> QED BY <1>1, <1>2, <1>3 DEF WallInv

LEMMA WallStep == ASSUME Video!WallAssumption, WallInv, [Video!Next]_(Video!vars) PROVE WallInv'
<1>1. CASE \E p \in Pipes : Video!Writer(p) \/ Video!Pad(p) \/ Video!Starter(p) \/ Video!Retire(p)
  BY <1>1, WriterInv, PadInv, StarterInv, RetireInv
<1>2. CASE \E p \in Pipes : Video!Fades(p) \/ \E n \in Pipes : Video!Outgoing(p, n)
  BY <1>2, FadeInv
<1>3. CASE \E p \in Pipes, v \in Video!Levels : Video!SetLevel(p, v)
  BY <1>3, SetLevelInv
<1>4. CASE Video!Park \/ Video!Raise \/ Video!Cut
  BY <1>4, ParkInv, RaiseInv, CutInv
<1> QED BY <1>1, <1>2, <1>3, <1>4, StutterInv DEF Video!Next

LEMMA WallStays == ASSUME Video!WallAssumption PROVE Video!Spec => []WallInv
<1>1. Video!Init => WallInv
  BY WallInit
<1>2. WallInv /\ [Video!Next]_(Video!vars) => WallInv'
  BY WallStep
<1> QED BY <1>1, <1>2, PTL DEF Video!Spec

\* No two layers are on one plane, and a plane is busy exactly while a layer is on it:
\* whatever pads, starts, fades, panics and retirements overlap (acquire, release).
THEOREM NoSharedPlane == ASSUME Video!WallAssumption PROVE Video!Spec => []Video!PlanesOwned
<1>1. WallInv => Video!PlanesOwned
  BY DEF WallInv
<1> QED BY <1>1, WallStays, PTL

\* Nothing of a cue is on screen before it is shown, but for the one level that the
\* writer of the plane's former layer may have had in hand (newWallLayer, dropLayer).
THEOREM ClearUntilShown == ASSUME Video!WallAssumption PROVE Video!Spec => []Video!NothingEarly
<1>1. WallInv => Video!NothingEarly
  BY DEF WallInv
<1> QED BY <1>1, WallStays, PTL

\* A show that came before the video pad is given to its layer (showLayer, pendingShow).
THEOREM NoShowLost == ASSUME Video!WallAssumption PROVE Video!Spec => []Video!KeptShows
<1>1. WallInv => Video!KeptShows
  BY DEF WallInv, Video!KeptShows, Stage, Staged
<1> QED BY <1>1, WallStays, PTL

\* The old picture goes only once the new one is shown, kept for its layer, or retired
\* (awaitIncoming, incomingShown).
THEOREM OldPictureWaits == ASSUME Video!WallAssumption PROVE Video!Spec => []Video!Handover
<1>1. WallInv => Video!Handover
  BY DEF WallInv
<1> QED BY <1>1, WallStays, PTL

-----------------------------------------------------------------------------
\* The listeners of the remote protocols, under a name of their own.
CONSTANTS Protocols, Limited, MaxClients, Addrs, Conns, Requests, MaxSaves, MaxSocks, MaxFaults
VARIABLES config, run, open, lock, req, conn, socks, saves, faults

Link == INSTANCE RemoteLink

LEMMA SameSize == \A S : Link!Cardinality(S) = Cardinality(S)
  BY Zenon DEF Link!Cardinality, Cardinality

LEMMA SameFinite == \A S : Link!IsFiniteSet(S) <=> IsFiniteSet(S)
  BY Zenon DEF Link!IsFiniteSet, IsFiniteSet

\* Who applies the settings holds the lock, and only one does.
Locked == \A r \in Requests : req[r].at \in {"apply", "hangup"} <=> lock = r

\* The row a request hangs up is a protocol's, and its socket is closed.
Closing ==
  \A r \in Requests :
    req[r].at = "hangup" => req[r].p \in Protocols /\ run[req[r].p].sock \notin open

\* Sockets have fresh numbers.
Numbered ==
  /\ \A p \in Protocols : run[p].sock <= socks
  /\ open \subseteq 1..socks

LinkInv == Link!TypeOK /\ Locked /\ Closing /\ Numbered /\ Link!NoLeakedSocket /\ Link!DeckLimit

Stages == {"idle", "read", "lock", "apply", "hangup"}
Settings == [Protocols -> Addrs \cup {0}]
Errands == [at : Stages, want : Settings, p : Protocols \cup {Link!None}]
Rows == [addr : Addrs \cup {0}, sock : 0..MaxSocks]
Links == [st : {"free", "accepted", "serving", "hungup"}, p : Protocols \cup {Link!None},
          sock : 0..MaxSocks, wd : BOOLEAN, peer : BOOLEAN]

LEMMA RecordsTyped ==
  ASSUME Link!RemoteLinkAssumption
  PROVE  Link!NoReq \in Errands /\ Link!Off \in Rows /\ Link!NoConn \in Links
  BY DEF Link!RemoteLinkAssumption, Link!NoReq, Errands, Stages, Settings, Link!Off, Rows, Link!NoConn, Links

-----------------------------------------------------------------------------
LEMMA LinkInit ==
  ASSUME Link!RemoteLinkAssumption, Link!Init
  PROVE  LinkInv
<1>1. Link!TypeOK
  BY RecordsTyped
  DEF Link!RemoteLinkAssumption, Link!Init, Link!TypeOK, Errands, Stages, Settings, Rows, Links
<1>2. Locked /\ Closing
  BY DEF Link!RemoteLinkAssumption, Link!Init, Locked, Closing, Link!NoReq
<1>3. Numbered /\ Link!NoLeakedSocket
  BY DEF Link!Init, Numbered, Link!NoLeakedSocket, Link!Off
<1>4. Link!Registry(Limited) = {}
  BY DEF Link!Init, Link!Registry, Link!NoConn
<1>5. Link!DeckLimit
  BY <1>4, FS_EmptySet, SameSize DEF Link!DeckLimit, Link!RemoteLinkAssumption
<1> QED BY <1>1, <1>2, <1>3, <1>5 DEF LinkInv

LEMMA ErrandTyped ==
  ASSUME NEW e \in Errands, NEW l \in Stages, NEW w \in Settings, NEW p \in Protocols \cup {Link!None}
  PROVE  /\ [e EXCEPT !.at = l] \in Errands
         /\ [e EXCEPT !.at = l, !.want = w] \in Errands
         /\ [e EXCEPT !.at = l, !.p = p] \in Errands
<1>1. [e EXCEPT !.at = l] \in Errands
  BY DEF Errands
<1>2. [e EXCEPT !.at = l, !.want = w] \in Errands
  BY DEF Errands
<1>3. [e EXCEPT !.at = l, !.p = p] \in Errands
  BY DEF Errands
<1> QED BY <1>1, <1>2, <1>3

\* Types: the requests ...
LEMMA RequestsTyped ==
  ASSUME Link!RemoteLinkAssumption, LinkInv, NEW r \in Requests,
         Link!Apply(r) \/ \E p \in Protocols, a \in Addrs \cup {0} : Link!Save(r, p, a)
  PROVE  Link!TypeOK'
<1> USE DEF Link!RemoteLinkAssumption, LinkInv, Link!TypeOK, Link!At
<1>0. req \in [Requests -> Errands] /\ config \in Settings
  BY DEF Errands, Stages, Settings
<1> DEFINE Sent == req' \in [Requests -> Errands]
<1>a. ASSUME Sent PROVE req' \in [Requests -> [at : {"idle", "read", "lock", "apply", "hangup"},
                     want : [Protocols -> Addrs \cup {0}], p : Protocols \cup {Link!None}]]
  BY <1>a DEF Errands, Stages, Settings
<1>1. ASSUME NEW p \in Protocols, NEW a \in Addrs \cup {0}, Link!Save(r, p, a) PROVE Link!TypeOK'
  <2>1. req' = [req EXCEPT ![r] = [req[r] EXCEPT !.at = "read"]] /\ "read" \in Stages
    BY <1>0, <1>1 DEF Link!Save, Stages
  <2>2. Sent
    BY <1>0, <2>1, ErrandTyped
  <2>3. config' \in [Protocols -> Addrs \cup {0}] /\ saves' \in 0..MaxSaves
        /\ UNCHANGED <<run, open, lock, conn, socks, faults>>
    BY <1>1 DEF Link!Save
  <2> HIDE DEF Sent
  <2> QED BY <1>a, <2>2, <2>3
<1>2. CASE Link!ReadWanted(r)
  <2>1. req' = [req EXCEPT ![r] = [req[r] EXCEPT !.at = "lock", !.want = config]] /\ "lock" \in Stages
    BY <1>0, <1>2 DEF Link!ReadWanted, Stages
  <2>2. Sent
    BY <1>0, <2>1, ErrandTyped
  <2> HIDE DEF Sent
  <2> QED BY <1>a, <1>2, <2>2 DEF Link!ReadWanted
<1>3. CASE Link!LockApply(r)
  BY <1>3 DEF Link!LockApply
<1>4. CASE Link!HangUp(r)
  <2>1. run' \in [Protocols -> Rows]
    <3>1. run \in [Protocols -> Rows]
      BY DEF Rows
    <3>2. run' = [run EXCEPT ![req[r].p] = Link!Off]
      BY <1>4 DEF Link!HangUp
    <3> QED BY <3>1, <3>2, RecordsTyped
  <2>2. conn' \in [Conns -> Links]
    BY <1>4 DEF Link!HangUp, Links
  <2>3. req' = [req EXCEPT ![r] = [req[r] EXCEPT !.at = "apply", !.p = Link!None]] /\ "apply" \in Stages
    BY <1>0, <1>4 DEF Link!HangUp, Stages
  <2>4. Sent
    BY <1>0, <2>3, ErrandTyped
  <2> HIDE DEF Sent
  <2> QED BY <1>a, <1>4, <2>1, <2>2, <2>4 DEF Link!HangUp, Rows, Links
<1>5. CASE Link!Applied(r)
  <2>1. req \in [Requests -> Errands]
    BY DEF Errands, Stages, Settings
  <2>2. req' \in [Requests -> Errands]
    BY <1>5, <2>1, RecordsTyped DEF Link!Applied
  <2> QED BY <1>5, <2>2 DEF Link!Applied, Errands, Stages, Settings
<1>6. ASSUME NEW p \in Protocols, Link!Stop(r, p) PROVE Link!TypeOK'
  <2>1. req' = [req EXCEPT ![r] = [req[r] EXCEPT !.at = "hangup", !.p = p]] /\ "hangup" \in Stages
    BY <1>0, <1>6 DEF Link!Stop, Stages
  <2>2. Sent
    BY <1>0, <2>1, ErrandTyped
  <2> HIDE DEF Sent
  <2> QED BY <1>a, <1>6, <2>2 DEF Link!Stop, Link!StopRow
<1>7. ASSUME NEW p \in Protocols, Link!Bind(r, p) PROVE Link!TypeOK'
  <2>1. req[r].want[p] \in Addrs \cup {0}
    OBVIOUS
  <2>2. CASE socks < MaxSocks /\ socks' = socks + 1 /\ open' = open \cup {socks + 1}
             /\ run' = [run EXCEPT ![p] = [addr |-> req[r].want[p], sock |-> socks + 1]]
             /\ UNCHANGED faults
    <3>1. [addr |-> req[r].want[p], sock |-> socks + 1] \in Rows /\ socks + 1 \in 0..MaxSocks
      BY <2>1, <2>2 DEF Rows
    <3> QED BY <1>7, <2>2, <3>1 DEF Link!Bind, Rows
  <2>3. CASE faults < MaxFaults /\ faults' = faults + 1
             /\ run' = [run EXCEPT ![p] = [addr |-> req[r].want[p], sock |-> 0]]
             /\ UNCHANGED <<open, socks>>
    BY <1>7, <2>1, <2>3 DEF Link!Bind
  <2> QED BY <1>7, <2>2, <2>3 DEF Link!Bind
<1> QED BY <1>1, <1>2, <1>3, <1>4, <1>5, <1>6, <1>7 DEF Link!Apply

\* ... and the connections.
LEMMA ConnsTyped ==
  ASSUME Link!RemoteLinkAssumption, Link!TypeOK, NEW c \in Conns,
         \/ Link!Register(c) \/ Link!Watchdog(c) \/ Link!Vanish(c) \/ Link!Unregister(c) \/ Link!Quit(c)
         \/ \E p \in Protocols : Link!Accept(c, p)
  PROVE  Link!TypeOK'
<1> USE DEF Link!TypeOK, Link!requests
<1>0. conn \in [Conns -> Links]
  BY DEF Links
<1>1. conn' \in [Conns -> Links] /\ UNCHANGED Link!requests /\ UNCHANGED open
  <2>1. CASE Link!Register(c)
    BY <1>0, <2>1, RecordsTyped DEF Link!Register, Links
  <2>2. CASE Link!Watchdog(c)
    <3>1. \A l \in Links : [l EXCEPT !.wd = TRUE] \in Links
      BY DEF Links
    <3> QED BY <1>0, <2>2, <3>1 DEF Link!Watchdog
  <2>3. CASE Link!Vanish(c)
    <3>1. \A l \in Links : [l EXCEPT !.peer = FALSE] \in Links
      BY DEF Links
    <3> QED BY <1>0, <2>3, <3>1 DEF Link!Vanish
  <2>4. CASE Link!Unregister(c) \/ Link!Quit(c)
    BY <1>0, <2>4, RecordsTyped DEF Link!Unregister, Link!Quit
  <2>5. ASSUME NEW p \in Protocols, Link!Accept(c, p)
        PROVE  conn' \in [Conns -> Links] /\ UNCHANGED Link!requests /\ UNCHANGED open
    <3>1. run[p].sock \in 0..MaxSocks
      OBVIOUS
    <3> QED BY <2>5, <3>1 DEF Link!Accept, Link!NoConn, Links
  <2> QED BY <2>1, <2>2, <2>3, <2>4, <2>5
<1> QED BY <1>1 DEF Links

-----------------------------------------------------------------------------
\* The listeners: sockets change hands under the lock.
LEMMA RequestsKeep ==
  ASSUME Link!RemoteLinkAssumption, LinkInv, Link!TypeOK', NEW r \in Requests,
         Link!Apply(r) \/ \E p \in Protocols, a \in Addrs \cup {0} : Link!Save(r, p, a)
  PROVE  (Locked /\ Closing /\ Numbered /\ Link!NoLeakedSocket)'
<1> USE DEF Link!RemoteLinkAssumption, LinkInv, Link!At
<1>1. ASSUME NEW p \in Protocols, NEW a \in Addrs \cup {0}, Link!Save(r, p, a)
      PROVE  (Locked /\ Closing /\ Numbered /\ Link!NoLeakedSocket)'
  BY <1>1 DEF Link!Save, Link!TypeOK, Locked, Closing, Numbered, Link!NoLeakedSocket
<1>2. CASE Link!ReadWanted(r)
  BY <1>2 DEF Link!ReadWanted, Link!TypeOK, Locked, Closing, Numbered, Link!NoLeakedSocket
<1>3. CASE Link!LockApply(r)
  BY <1>3 DEF Link!LockApply, Link!TypeOK, Locked, Closing, Numbered, Link!NoLeakedSocket
<1>4. CASE Link!HangUp(r)
  <2>1. /\ req[r].at = "hangup" /\ req[r].p \in Protocols /\ lock = r
        /\ run[req[r].p].sock \notin open
        /\ run' = [run EXCEPT ![req[r].p] = Link!Off]
        /\ req' = [req EXCEPT ![r].at = "apply", ![r].p = Link!None]
        /\ UNCHANGED <<open, lock, socks>>
    BY <1>4 DEF Link!HangUp, Locked, Closing
  <2>2. Locked'
    BY <2>1 DEF Locked, Link!TypeOK
  <2>3. Closing'
    BY <2>1, <2>2 DEF Locked, Closing, Link!TypeOK
  <2>4. Numbered'
    BY <2>1 DEF Numbered, Link!TypeOK, Link!Off
  <2>5. Link!NoLeakedSocket'
    BY <2>1 DEF Link!NoLeakedSocket, Link!TypeOK, Link!Off
  <2> QED BY <2>2, <2>3, <2>4, <2>5
<1>5. CASE Link!Applied(r)
  BY <1>5 DEF Link!Applied, Link!NoReq, Link!TypeOK, Locked, Closing, Numbered, Link!NoLeakedSocket
<1>6. ASSUME NEW p \in Protocols, Link!Stop(r, p)
      PROVE  (Locked /\ Closing /\ Numbered /\ Link!NoLeakedSocket)'
  <2>1. /\ req[r].at = "apply" /\ lock = r
        /\ open' = open \ {run[p].sock}
        /\ req' = [req EXCEPT ![r].at = "hangup", ![r].p = p]
        /\ UNCHANGED <<run, lock, socks>>
    BY <1>6 DEF Link!Stop, Link!StopRow, Locked
  <2>2. Locked'
    BY <2>1 DEF Locked, Link!TypeOK
  <2>3. Closing'
    BY <2>1, <2>2 DEF Locked, Closing, Link!TypeOK
  <2>4. Numbered' /\ Link!NoLeakedSocket'
    BY <2>1 DEF Numbered, Link!NoLeakedSocket
  <2> QED BY <2>2, <2>3, <2>4
<1>7. ASSUME NEW p \in Protocols, Link!Bind(r, p)
      PROVE  (Locked /\ Closing /\ Numbered /\ Link!NoLeakedSocket)'
  <2>1. /\ req[r].at = "apply" /\ lock = r /\ run[p].sock = 0
        /\ UNCHANGED <<lock, req>>
        /\ \/ /\ socks' = socks + 1 /\ open' = open \cup {socks + 1}
              /\ run' = [run EXCEPT ![p] = [addr |-> req[r].want[p], sock |-> socks + 1]]
           \/ /\ run' = [run EXCEPT ![p] = [addr |-> req[r].want[p], sock |-> 0]]
              /\ UNCHANGED <<open, socks>>
    BY <1>7 DEF Link!Bind, Link!Known, Link!Off, Locked
  <2>2. /\ socks \in Nat /\ \A q \in Protocols : run[q].sock \in Nat
        /\ \A q \in Protocols : q # p => run'[q] = run[q]
        /\ \/ run'[p].sock = socks + 1 /\ socks' = socks + 1 /\ open' = open \cup {socks + 1}
           \/ run'[p].sock = 0 /\ socks' = socks /\ open' = open
    BY <2>1 DEF Link!TypeOK
  <2>3. Locked' /\ Closing'
    BY <2>1 DEF Locked, Closing
  <2>4. /\ \A q \in Protocols : run[q].sock <= socks /\ run[q].sock # socks + 1
        /\ open \subseteq 1..socks /\ 0 \notin open
        /\ open \subseteq {run[q].sock : q \in Protocols}
    BY <2>2 DEF Numbered, Link!NoLeakedSocket
  <2>5. CASE run'[p].sock = socks + 1 /\ socks' = socks + 1 /\ open' = open \cup {socks + 1}
    <3>1. Numbered'
      <4>1. ASSUME NEW q \in Protocols PROVE run'[q].sock <= socks'
        BY <2>2, <2>4, <2>5
      <4>2. open' \subseteq 1..socks'
        BY <2>2, <2>4, <2>5
      <4> QED BY <4>1, <4>2 DEF Numbered
    <3>2. ASSUME NEW s \in open' PROVE \E q \in Protocols : s = run'[q].sock
      <4>1. CASE s = socks + 1
        BY <2>5, <4>1
      <4>2. CASE s \in open
        <5>1. PICK q \in Protocols : s = run[q].sock
          BY <2>4, <4>2
        <5>2. q # p
          BY <2>1, <2>4, <4>2, <5>1
        <5> QED BY <2>2, <5>1, <5>2
      <4> QED BY <2>5, <3>2, <4>1, <4>2
    <3>3. ASSUME NEW q1 \in Protocols, NEW q2 \in Protocols, q1 # q2, run'[q1].sock # 0
          PROVE  run'[q1].sock # run'[q2].sock
      BY <2>2, <2>4, <2>5, <3>3 DEF Link!NoLeakedSocket
    <3> QED BY <2>3, <3>1, <3>2, <3>3 DEF Link!NoLeakedSocket
  <2>6. CASE run'[p].sock = 0 /\ socks' = socks /\ open' = open
    <3>1. \A q \in Protocols : run'[q].sock = run[q].sock
      BY <2>1, <2>2, <2>6
    <3> QED BY <2>3, <2>4, <2>6, <3>1 DEF Numbered, Link!NoLeakedSocket
  <2> QED BY <2>2, <2>5, <2>6
<1> QED BY <1>1, <1>2, <1>3, <1>4, <1>5, <1>6, <1>7 DEF Link!Apply

\* The registry: it grows by one, and only where there is room.
LEMMA RegistryKept ==
  ASSUME Link!RemoteLinkAssumption, LinkInv, [Link!Next]_(Link!vars)
  PROVE  Link!DeckLimit'
<1> DEFINE R == Link!Registry(Limited)
<1>1. IsFiniteSet(R) /\ Cardinality(R) \in Nat /\ Cardinality(R) <= MaxClients
  <2>1. R \subseteq Conns
    BY DEF Link!Registry
  <2> QED BY <2>1, FS_Subset, FS_CardinalityType, SameSize, SameFinite
    DEF Link!RemoteLinkAssumption, LinkInv, Link!DeckLimit
<1>2. CASE R' \subseteq R
  <2>1. IsFiniteSet(R') /\ Cardinality(R') <= Cardinality(R) /\ Cardinality(R') \in Nat
    BY <1>1, <1>2, FS_Subset, FS_CardinalityType
  <2> QED BY <1>1, <2>1, SameSize DEF Link!DeckLimit, Link!RemoteLinkAssumption
<1>3. ASSUME NEW c \in Conns, Link!Register(c), ~ (R' \subseteq R)
      PROVE  Link!DeckLimit'
  <2>1. R' \subseteq R \cup {c} /\ ~Link!Full(Limited)
    BY <1>3 DEF LinkInv, Link!TypeOK, Link!Register, Link!Registry, Link!NoConn
  <2>2. Cardinality(R) < MaxClients
    BY <1>1, <2>1, SameSize DEF Link!Full, Link!RemoteLinkAssumption
  <2>3. IsFiniteSet(R \cup {c}) /\ Cardinality(R \cup {c}) <= Cardinality(R) + 1
        /\ Cardinality(R \cup {c}) \in Nat
    BY <1>1, FS_AddElement, FS_CardinalityType
  <2>4. Cardinality(R') <= Cardinality(R \cup {c}) /\ Cardinality(R') \in Nat
    BY <2>1, <2>3, FS_Subset, FS_CardinalityType
  <2> QED BY <1>1, <2>2, <2>3, <2>4, SameSize DEF Link!DeckLimit, Link!RemoteLinkAssumption
<1>4. (\E c \in Conns : Link!Register(c)) \/ R' \subseteq R
  <2> USE DEF LinkInv, Link!TypeOK, Link!Registry, Link!requests
  <2>1. CASE UNCHANGED Link!vars
    BY <2>1 DEF Link!vars
  <2>2. ASSUME NEW r \in Requests,
               Link!Apply(r) \/ \E p \in Protocols, a \in Addrs \cup {0} : Link!Save(r, p, a)
        PROVE  R' \subseteq R
    <3>1. CASE Link!HangUp(r)
      BY <3>1 DEF Link!HangUp
    <3>2. CASE UNCHANGED conn
      BY <3>2
    <3> QED BY <2>2, <3>1, <3>2
        DEF Link!Apply, Link!Save, Link!ReadWanted, Link!LockApply, Link!Applied, Link!Stop, Link!Bind
  <2>3. ASSUME NEW c \in Conns,
               \/ Link!Watchdog(c) \/ Link!Vanish(c) \/ Link!Unregister(c) \/ Link!Quit(c)
               \/ \E p \in Protocols : Link!Accept(c, p)
        PROVE  R' \subseteq R
    <3>1. CASE Link!Watchdog(c) \/ Link!Vanish(c)
      BY <3>1 DEF Link!Watchdog, Link!Vanish
    <3>2. CASE Link!Unregister(c) \/ Link!Quit(c)
      <4>1. conn' = [conn EXCEPT ![c] = Link!NoConn]
        BY <3>2 DEF Link!Unregister, Link!Quit
      <4>2. Link!NoConn.st = "free"
        BY DEF Link!NoConn
      <4> QED BY <4>1, <4>2
    <3>3. ASSUME NEW p \in Protocols, Link!Accept(c, p) PROVE R' \subseteq R
      BY <3>3 DEF Link!Accept, Link!NoConn
    <3> QED BY <2>3, <3>1, <3>2, <3>3
  <2> QED BY <2>1, <2>2, <2>3 DEF Link!Next
<1> QED BY <1>2, <1>3, <1>4

LEMMA LinkStep ==
  ASSUME Link!RemoteLinkAssumption, LinkInv, [Link!Next]_(Link!vars)
  PROVE  LinkInv'
<1>1. CASE UNCHANGED Link!vars
  BY <1>1, RegistryKept
  DEF LinkInv, Link!vars, Link!TypeOK, Locked, Closing, Numbered, Link!NoLeakedSocket
<1>2. ASSUME NEW r \in Requests,
             Link!Apply(r) \/ \E p \in Protocols, a \in Addrs \cup {0} : Link!Save(r, p, a)
      PROVE  LinkInv'
  BY <1>2, RequestsTyped, RequestsKeep, RegistryKept DEF LinkInv
<1>3. ASSUME NEW c \in Conns,
             \/ Link!Register(c) \/ Link!Watchdog(c) \/ Link!Vanish(c) \/ Link!Unregister(c) \/ Link!Quit(c)
             \/ \E p \in Protocols : Link!Accept(c, p)
      PROVE  LinkInv'
  <2>1. UNCHANGED <<run, open, lock, req, socks>>
    BY <1>3
    DEF Link!Register, Link!Watchdog, Link!Vanish, Link!Unregister, Link!Quit, Link!Accept, Link!requests
  <2>2. (Locked /\ Closing /\ Numbered /\ Link!NoLeakedSocket)'
    BY <2>1 DEF LinkInv, Locked, Closing, Numbered, Link!NoLeakedSocket
  <2> QED BY <1>3, <2>2, ConnsTyped, RegistryKept DEF LinkInv
<1> QED BY <1>1, <1>2, <1>3 DEF Link!Next

-----------------------------------------------------------------------------
\* remotectl.go 63: through any number of concurrent saves and failed binds no
\* socket listens that no row can close any more.
THEOREM NoSocketLeaks ==
  ASSUME Link!RemoteLinkAssumption
  PROVE  Link!Spec => []Link!NoLeakedSocket
<1>1. Link!Init => LinkInv
  BY LinkInit
<1>2. LinkInv /\ [Link!Next]_(Link!vars) => LinkInv'
  BY LinkStep
<1>3. LinkInv => Link!NoLeakedSocket
  BY DEF LinkInv
<1> QED BY <1>1, <1>2, <1>3, PTL DEF Link!Spec

\* hyperdeck.go: the deck never serves more clients than it has room for.
THEOREM DeckNeverCrowded ==
  ASSUME Link!RemoteLinkAssumption
  PROVE  Link!Spec => []Link!DeckLimit
<1>1. Link!Init => LinkInv
  BY LinkInit
<1>2. LinkInv /\ [Link!Next]_(Link!vars) => LinkInv'
  BY LinkStep
<1>3. LinkInv => Link!DeckLimit
  BY DEF LinkInv
<1> QED BY <1>1, <1>2, <1>3, PTL DEF Link!Spec
=============================================================================
