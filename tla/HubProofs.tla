----------------------------- MODULE HubProofs ------------------------------
(***************************************************************************)
(* Proofs about Hub for any number of browsers, connections and changes:   *)
(* type correctness, that no client sleeps on a set flag, that no sync     *)
(* hint is lost, and that the hub implements Push.                         *)
(*                                                                         *)
(* The invariant below is inductive.  Bounded says how the counters relate *)
(* (a bump that has not reached the coalescer was counted); Fresh says     *)
(* that nothing touches a connection before it is registered, so that a    *)
(* new client starts with clean flags; OneWriter says that a writer writes *)
(* all it took before it takes again, so that taking overwrites nothing.   *)
(***************************************************************************)
EXTENDS Hub, TLAPS

Bounded ==
  /\ version["sheet"] + version["play"] + version["media"] <= MaxVersion
  /\ soon <= version["play"]

Fresh ==
  /\ \A c \in Conns : c \in clients <=> link[c] \in {"hint", "open"}
  /\ \A c, d \in clients : Owner(c) = Owner(d) => c = d
  /\ \A g \in Calls : \A c \in todo[g] : link[c] # "unused"
  /\ \A c \in Conns : link[c] = "unused" => pending[c] = {}

OneWriter == \A c \in Conns : awake[c] => out[c] = {}

IInv == TypeOK /\ Bounded /\ Fresh /\ OneWriter /\ NoSleepOnFlag /\ NoSyncLost

\* Facts about the constants that most steps use.
LEMMA PartFacts ==
  /\ "sheet" \in Parts /\ "play" \in Parts /\ "media" \in Parts
  /\ "sync" \in Hints /\ "media" \in Hints
  /\ \A p \in Parts : HintOf(p) \in Hints
  /\ \A g \in Calls : g[1] \in Parts /\ CallHint(g) \in Hints
  /\ \A c \in Conns : Owner(c) \in Browsers
BY DEF Parts, Hints, HintOf, Calls, CallHint, Conns, Owner

\* The initial state satisfies the invariant.
LEMMA InitInv == Init => IInv
BY HubAssumption, PartFacts
DEF Init, IInv, TypeOK, Bounded, Fresh, OneWriter, NoSleepOnFlag, NoSyncLost, Stages, Parts

-----------------------------------------------------------------------------
\* A step keeps the types and the bounds on the counters.
LEMMA TypeStep ==
  ASSUME TypeOK, Bounded, [Next]_vars
  PROVE  (TypeOK /\ Bounded)'
<1> USE HubAssumption, PartFacts DEF source, calls, socket, flags, vars
<1>1. ASSUME NEW p \in Parts, Bump(p)
      PROVE  (TypeOK /\ Bounded)'
  BY <1>1 DEF Bump, TypeOK, Bounded, Changes, Stages, Hints, Parts, Calls
<1>2. ASSUME PlayBump
      PROVE  (TypeOK /\ Bounded)'
  BY <1>2 DEF PlayBump, TypeOK, Bounded, Changes, Stages, Hints, Parts
<1>3. ASSUME BroadcastSoon
      PROVE  (TypeOK /\ Bounded)'
  BY <1>3 DEF BroadcastSoon, TypeOK, Bounded, Changes, Stages, Hints, Parts
<1>4. ASSUME TimerFires
      PROVE  (TypeOK /\ Bounded)'
  BY <1>4 DEF TimerFires, TypeOK, Bounded, Changes, Stages, Hints, Parts, Calls
<1>5. ASSUME NEW g \in Calls, Snapshot(g)
      PROVE  (TypeOK /\ Bounded)'
  BY <1>5 DEF Snapshot, TypeOK, Bounded, Changes, Stages, Hints, Parts
<1>6. ASSUME NEW g \in Calls, Wake(g)
      PROVE  (TypeOK /\ Bounded)'
  BY <1>6 DEF Wake, TypeOK, Bounded, Changes, Stages, Hints, Parts
<1>7. ASSUME NEW g \in Calls, BroadcastEnds(g)
      PROVE  (TypeOK /\ Bounded)'
  BY <1>7 DEF BroadcastEnds, TypeOK, Bounded, Changes, Stages, Hints, Parts
<1>8. ASSUME NEW g \in Calls, NEW c \in Conns, SetFlag(g, c)
      PROVE  (TypeOK /\ Bounded)'
  BY <1>8 DEF SetFlag, TypeOK, Bounded, Changes, Stages, Hints, Parts
<1>9. ASSUME NEW c \in Conns, Register(c)
      PROVE  (TypeOK /\ Bounded)'
  BY <1>9 DEF Register, TypeOK, Bounded, Changes, Stages, Hints, Parts
<1>10. ASSUME NEW c \in Conns, ConnectHint(c)
      PROVE  (TypeOK /\ Bounded)'
  BY <1>10 DEF ConnectHint, TypeOK, Bounded, Changes, Stages, Hints, Parts, Learn,
     Owner, Conns
<1>11. ASSUME NEW c \in Conns, WriterWakes(c)
      PROVE  (TypeOK /\ Bounded)'
  BY <1>11 DEF WriterWakes, TypeOK, Bounded, Changes, Stages, Hints, Parts
<1>12. ASSUME NEW c \in Conns, TakeFlags(c)
      PROVE  (TypeOK /\ Bounded)'
  BY <1>12 DEF TakeFlags, TypeOK, Bounded, Changes, Stages, Hints, Parts
<1>13. ASSUME NEW c \in Conns, Write(c)
      PROVE  (TypeOK /\ Bounded)'
  BY <1>13 DEF Write, TypeOK, Bounded, Changes, Stages, Hints, Parts, Learn,
     Owner, Conns
<1>14. ASSUME NEW c \in Conns, Drop(c)
      PROVE  (TypeOK /\ Bounded)'
  BY <1>14 DEF Drop, TypeOK, Bounded, Changes, Stages, Hints, Parts
<1>15. CASE UNCHANGED vars
  BY <1>15 DEF TypeOK, Bounded, Changes, Stages, Hints, Parts
<1> QED
  BY <1>1, <1>2, <1>3, <1>4, <1>5, <1>6, <1>7, <1>8, <1>9, <1>10, <1>11, <1>12,
     <1>13, <1>14, <1>15 DEF Next

\* A step keeps unregistered connections untouched and the writer in order.
LEMMA FreshStep ==
  ASSUME TypeOK, Fresh, OneWriter, [Next]_vars
  PROVE  (Fresh /\ OneWriter)'
<1> USE HubAssumption, PartFacts DEF source, calls, socket, flags, vars
<1>1. ASSUME NEW p \in Parts, Bump(p)
      PROVE  (Fresh /\ OneWriter)'
  BY <1>1 DEF Bump, TypeOK, Fresh, OneWriter
<1>2. ASSUME PlayBump
      PROVE  (Fresh /\ OneWriter)'
  BY <1>2 DEF PlayBump, TypeOK, Fresh, OneWriter
<1>3. ASSUME BroadcastSoon
      PROVE  (Fresh /\ OneWriter)'
  BY <1>3 DEF BroadcastSoon, TypeOK, Fresh, OneWriter
<1>4. ASSUME TimerFires
      PROVE  (Fresh /\ OneWriter)'
  BY <1>4 DEF TimerFires, TypeOK, Fresh, OneWriter
<1>5. ASSUME NEW g \in Calls, Snapshot(g)
      PROVE  (Fresh /\ OneWriter)'
  BY <1>5 DEF Snapshot, TypeOK, Fresh, OneWriter
<1>6. ASSUME NEW g \in Calls, Wake(g)
      PROVE  (Fresh /\ OneWriter)'
  BY <1>6 DEF Wake, TypeOK, Fresh, OneWriter
<1>7. ASSUME NEW g \in Calls, BroadcastEnds(g)
      PROVE  (Fresh /\ OneWriter)'
  BY <1>7 DEF BroadcastEnds, TypeOK, Fresh, OneWriter
<1>8. ASSUME NEW g \in Calls, NEW c \in Conns, SetFlag(g, c)
      PROVE  (Fresh /\ OneWriter)'
  BY <1>8 DEF SetFlag, TypeOK, Fresh, OneWriter
<1>9. ASSUME NEW c \in Conns, Register(c)
      PROVE  (Fresh /\ OneWriter)'
  BY <1>9 DEF Register, TypeOK, Fresh, OneWriter, Live
<1>10. ASSUME NEW c \in Conns, ConnectHint(c)
      PROVE  (Fresh /\ OneWriter)'
  BY <1>10 DEF ConnectHint, TypeOK, Fresh, OneWriter
<1>11. ASSUME NEW c \in Conns, WriterWakes(c)
      PROVE  (Fresh /\ OneWriter)'
  BY <1>11 DEF WriterWakes, TypeOK, Fresh, OneWriter
<1>12. ASSUME NEW c \in Conns, TakeFlags(c)
      PROVE  (Fresh /\ OneWriter)'
  BY <1>12 DEF TakeFlags, TypeOK, Fresh, OneWriter
<1>13. ASSUME NEW c \in Conns, Write(c)
      PROVE  (Fresh /\ OneWriter)'
  BY <1>13 DEF Write, TypeOK, Fresh, OneWriter
<1>14. ASSUME NEW c \in Conns, Drop(c)
      PROVE  (Fresh /\ OneWriter)'
  BY <1>14 DEF Drop, TypeOK, Fresh, OneWriter
<1>15. CASE UNCHANGED vars
  BY <1>15 DEF TypeOK, Fresh, OneWriter
<1> QED
  BY <1>1, <1>2, <1>3, <1>4, <1>5, <1>6, <1>7, <1>8, <1>9, <1>10, <1>11, <1>12,
     <1>13, <1>14, <1>15 DEF Next

\* A step leaves no client asleep on a set flag.
LEMMA SleepStep ==
  ASSUME TypeOK, Fresh, NoSleepOnFlag, [Next]_vars
  PROVE  NoSleepOnFlag'
<1> USE HubAssumption, PartFacts DEF source, calls, socket, flags, vars
<1>1. ASSUME NEW p \in Parts, Bump(p)
      PROVE  NoSleepOnFlag'
  BY <1>1 DEF Bump, TypeOK, Fresh, NoSleepOnFlag
<1>2. ASSUME PlayBump
      PROVE  NoSleepOnFlag'
  BY <1>2 DEF PlayBump, TypeOK, Fresh, NoSleepOnFlag
<1>3. ASSUME BroadcastSoon
      PROVE  NoSleepOnFlag'
  BY <1>3 DEF BroadcastSoon, TypeOK, Fresh, NoSleepOnFlag
<1>4. ASSUME TimerFires
      PROVE  NoSleepOnFlag'
  BY <1>4 DEF TimerFires, TypeOK, Fresh, NoSleepOnFlag
<1>5. ASSUME NEW g \in Calls, Snapshot(g)
      PROVE  NoSleepOnFlag'
  BY <1>5 DEF Snapshot, TypeOK, Fresh, NoSleepOnFlag
<1>6. ASSUME NEW g \in Calls, Wake(g)
      PROVE  NoSleepOnFlag'
  BY <1>6 DEF Wake, TypeOK, Fresh, NoSleepOnFlag
<1>7. ASSUME NEW g \in Calls, BroadcastEnds(g)
      PROVE  NoSleepOnFlag'
  BY <1>7 DEF BroadcastEnds, TypeOK, Fresh, NoSleepOnFlag
<1>8. ASSUME NEW g \in Calls, NEW c \in Conns, SetFlag(g, c)
      PROVE  NoSleepOnFlag'
  BY <1>8 DEF SetFlag, TypeOK, Fresh, NoSleepOnFlag
<1>9. ASSUME NEW c \in Conns, Register(c)
      PROVE  NoSleepOnFlag'
  BY <1>9 DEF Register, TypeOK, Fresh, NoSleepOnFlag
<1>10. ASSUME NEW c \in Conns, ConnectHint(c)
      PROVE  NoSleepOnFlag'
  BY <1>10 DEF ConnectHint, TypeOK, Fresh, NoSleepOnFlag
<1>11. ASSUME NEW c \in Conns, WriterWakes(c)
      PROVE  NoSleepOnFlag'
  BY <1>11 DEF WriterWakes, TypeOK, Fresh, NoSleepOnFlag
<1>12. ASSUME NEW c \in Conns, TakeFlags(c)
      PROVE  NoSleepOnFlag'
  BY <1>12 DEF TakeFlags, TypeOK, Fresh, NoSleepOnFlag
<1>13. ASSUME NEW c \in Conns, Write(c)
      PROVE  NoSleepOnFlag'
  BY <1>13 DEF Write, TypeOK, Fresh, NoSleepOnFlag
<1>14. ASSUME NEW c \in Conns, Drop(c)
      PROVE  NoSleepOnFlag'
  BY <1>14 DEF Drop, TypeOK, Fresh, NoSleepOnFlag
<1>15. CASE UNCHANGED vars
  BY <1>15 DEF TypeOK, Fresh, NoSleepOnFlag
<1> QED
  BY <1>1, <1>2, <1>3, <1>4, <1>5, <1>6, <1>7, <1>8, <1>9, <1>10, <1>11, <1>12,
     <1>13, <1>14, <1>15 DEF Next

\* A step loses no sync hint.
LEMMA SyncStep ==
  ASSUME TypeOK, OneWriter, NoSyncLost, [Next]_vars
  PROVE  NoSyncLost'
<1> USE HubAssumption, PartFacts DEF source, calls, socket, flags, vars
<1>1. ASSUME NEW p \in Parts, Bump(p)
      PROVE  NoSyncLost'
  BY <1>1 DEF Bump, TypeOK, OneWriter, NoSyncLost, OnItsWay, Calls, CallHint,
     HintOf, Parts, Changes
<1>2. ASSUME PlayBump
      PROVE  NoSyncLost'
  BY <1>2 DEF PlayBump, TypeOK, OneWriter, NoSyncLost, OnItsWay
<1>3. ASSUME BroadcastSoon
      PROVE  NoSyncLost'
  BY <1>3 DEF BroadcastSoon, TypeOK, OneWriter, NoSyncLost, OnItsWay
<1>4. ASSUME TimerFires
      PROVE  NoSyncLost'
  BY <1>4 DEF TimerFires, TypeOK, OneWriter, NoSyncLost, OnItsWay, Calls,
     CallHint, HintOf, Parts
<1>5. ASSUME NEW g \in Calls, Snapshot(g)
      PROVE  NoSyncLost'
  BY <1>5 DEF Snapshot, TypeOK, OneWriter, NoSyncLost, OnItsWay
<1>6. ASSUME NEW g \in Calls, Wake(g)
      PROVE  NoSyncLost'
  BY <1>6 DEF Wake, TypeOK, OneWriter, NoSyncLost, OnItsWay
<1>7. ASSUME NEW g \in Calls, BroadcastEnds(g)
      PROVE  NoSyncLost'
  BY <1>7 DEF BroadcastEnds, TypeOK, OneWriter, NoSyncLost, OnItsWay
<1>8. ASSUME NEW g \in Calls, NEW c \in Conns, SetFlag(g, c)
      PROVE  NoSyncLost'
  BY <1>8 DEF SetFlag, TypeOK, OneWriter, NoSyncLost, OnItsWay, CallHint, HintOf
<1>9. ASSUME NEW c \in Conns, Register(c)
      PROVE  NoSyncLost'
  BY <1>9 DEF Register, TypeOK, OneWriter, NoSyncLost, OnItsWay
<1>10. ASSUME NEW c \in Conns, ConnectHint(c)
      PROVE  NoSyncLost'
  BY <1>10 DEF ConnectHint, TypeOK, OneWriter, NoSyncLost, OnItsWay, Learn, HintOf
<1>11. ASSUME NEW c \in Conns, WriterWakes(c)
      PROVE  NoSyncLost'
  BY <1>11 DEF WriterWakes, TypeOK, OneWriter, NoSyncLost, OnItsWay
<1>12. ASSUME NEW c \in Conns, TakeFlags(c)
      PROVE  NoSyncLost'
  BY <1>12 DEF TakeFlags, TypeOK, OneWriter, NoSyncLost, OnItsWay
<1>13. ASSUME NEW c \in Conns, Write(c)
      PROVE  NoSyncLost'
  BY <1>13 DEF Write, TypeOK, OneWriter, NoSyncLost, OnItsWay, Learn, HintOf,
     Hints
<1>14. ASSUME NEW c \in Conns, Drop(c)
      PROVE  NoSyncLost'
  BY <1>14 DEF Drop, TypeOK, OneWriter, NoSyncLost, OnItsWay
<1>15. CASE UNCHANGED vars
  BY <1>15 DEF TypeOK, OneWriter, NoSyncLost, OnItsWay
<1> QED
  BY <1>1, <1>2, <1>3, <1>4, <1>5, <1>6, <1>7, <1>8, <1>9, <1>10, <1>11, <1>12,
     <1>13, <1>14, <1>15 DEF Next

-----------------------------------------------------------------------------
\* The invariant holds in every reachable state.
LEMMA Invariance == Spec => []IInv
<1>1. IInv /\ [Next]_vars => IInv'
  BY TypeStep, FreshStep, SleepStep, SyncStep DEF IInv
<1> QED
  BY InitInv, <1>1, PTL DEF Spec

\* The variables of the hub keep their types, for any number of browsers,
\* connections and changes.
THEOREM TypeCorrect == Spec => []TypeOK
BY Invariance, PTL DEF IInv

\* No client sleeps on a set flag (ws/hub.go broadcast and writer): whenever
\* a registered connection has a pending flag there is a token in its wake
\* channel, a writer that has taken one, or a broadcast about to send one.
THEOREM FlagsAreServed == Spec => []NoSleepOnFlag
BY Invariance, PTL DEF IInv

\* A registered connection whose browser was last hinted before the newest
\* sheet or playback change has a sync hint on its way (bump, coalescer,
\* broadcast, flag, writer, or the connect hint of Handle).
THEOREM SyncHintsSurvive == Spec => []NoSyncLost
BY Invariance, PTL DEF IInv

-----------------------------------------------------------------------------
(* The hub implements Push: an initial state of Hub is one of Push, and      *)
(* every step of Hub is a step of Push or leaves its variables alone.        *)

\* owed for one connection.
HintsFor(c) == {h \in Hints : OnItsWay(c, h)}

\* A browser is owed what its one registered connection is owed.
OwedFacts ==
  /\ owed \in [Browsers -> SUBSET Hints]
  /\ \A c \in clients : Owner(c) \in Browsers /\ owed[Owner(c)] = HintsFor(c)
  /\ \A b \in Browsers : (\A c \in clients : Owner(c) # b) => owed[b] = {}

LEMMA OwedIs == IInv => OwedFacts
BY PartFacts DEF IInv, TypeOK, Fresh, owed, HintsFor, OwedFacts

LEMMA InitMaps == Init => Abstract!Init
BY DEF Init, Abstract!Init, owed, Parts, Abstract!Parts

\* Steps that move a hint along change nothing Push sees.
LEMMA Inside ==
  ASSUME IInv, IInv', clients' = clients, version' = version, told' = told,
         \A c \in clients : HintsFor(c)' = HintsFor(c)
  PROVE  UNCHANGED Abstract!pushVars
BY DEF Abstract!pushVars, owed, HintsFor, IInv

\* Only the hints of connection c changed: only its browser's entry does.
LEMMA OwedMoves ==
  ASSUME IInv, IInv', NEW c \in Conns, c \in clients',
         clients' \in {clients, clients \cup {c}},
         \A d \in clients \ {c} : HintsFor(d)' = HintsFor(d)
  PROVE  owed' = [owed EXCEPT ![Owner(c)] = HintsFor(c)']
<1>1. OwedFacts /\ OwedFacts'
  BY OwedIs, PTL
<1>2. \A d \in clients' : Owner(d) = Owner(c) => d = c
  BY DEF IInv, Fresh
<1>3. ASSUME NEW b \in Browsers
      PROVE  owed'[b] = [owed EXCEPT ![Owner(c)] = HintsFor(c)'][b]
  <2>1. CASE b = Owner(c)
    BY <1>1, <2>1 DEF OwedFacts
  <2>2. CASE b # Owner(c) /\ \E d \in clients : Owner(d) = b
    BY <1>1, <2>2 DEF OwedFacts
  <2>3. CASE b # Owner(c) /\ ~\E d \in clients : Owner(d) = b
    BY <1>1, <2>3 DEF OwedFacts
  <2> QED
    BY <2>1, <2>2, <2>3
<1> QED
  BY <1>1, <1>3 DEF OwedFacts

\* A hint written on connection c is a Hint step for its browser.
LEMMA Hinted ==
  ASSUME IInv, IInv', NEW c \in clients, NEW h \in HintsFor(c),
         clients' = clients, version' = version,
         told' = [told EXCEPT ![Owner(c)] = [p \in Parts |->
                    IF HintOf(p) = h THEN version[p] ELSE @[p]]],
         \A d \in clients \ {c} : HintsFor(d)' = HintsFor(d),
         HintsFor(c)' = HintsFor(c) \/ HintsFor(c)' = HintsFor(c) \ {h}
  PROVE  Abstract!Hint(Owner(c), h)
<1>1. owed' \in {owed, [owed EXCEPT ![Owner(c)] = @ \ {h}]}
  <2>1. owed' = [owed EXCEPT ![Owner(c)] = HintsFor(c)']
    BY OwedMoves DEF IInv, TypeOK
  <2>2. owed[Owner(c)] = HintsFor(c) /\ owed \in [Browsers -> SUBSET Hints]
    BY OwedIs DEF OwedFacts
  <2> QED
    BY <2>1, <2>2
<1>2. h \in owed[Owner(c)]
  BY OwedIs DEF OwedFacts
<1> QED
  BY <1>1, <1>2 DEF Abstract!Hint, Abstract!Parts, Abstract!HintOf, Parts, HintOf

LEMMA StepMaps ==
  ASSUME IInv, IInv', [Next]_vars
  PROVE  [Abstract!Next]_(Abstract!pushVars)
<1> USE HubAssumption, PartFacts DEF source, calls, socket, flags, vars
<1>1. ASSUME NEW p \in Parts, Bump(p)
      PROVE  Abstract!Change(p)
  <2>1. \A c \in clients : HintsFor(c)' = HintsFor(c) \cup {HintOf(p)}
    BY <1>1 DEF IInv, TypeOK, Bump, HintsFor, OnItsWay, Hints, Calls, CallHint, Changes
  <2> QED
    BY <1>1, <2>1 DEF Bump, Abstract!Change, owed, HintsFor, IInv, TypeOK, Abstract!HintOf, HintOf
<1>2. ASSUME PlayBump
      PROVE  Abstract!Change("play")
  <2>1. \A c \in clients : HintsFor(c)' = HintsFor(c) \cup {"sync"}
    BY <1>2 DEF IInv, TypeOK, PlayBump, HintsFor, OnItsWay, Hints
  <2> QED
    BY <1>2, <2>1 DEF PlayBump, Abstract!Change, owed, HintsFor, IInv, TypeOK, Abstract!HintOf
<1>3. ASSUME BroadcastSoon
      PROVE  UNCHANGED Abstract!pushVars
  BY <1>3, Inside DEF BroadcastSoon, HintsFor, OnItsWay, IInv, TypeOK
<1>4. ASSUME TimerFires
      PROVE  UNCHANGED Abstract!pushVars
  BY <1>4, Inside DEF TimerFires, HintsFor, OnItsWay, IInv, TypeOK, Calls, CallHint, HintOf
<1>5. ASSUME NEW g \in Calls, Snapshot(g)
      PROVE  UNCHANGED Abstract!pushVars
  BY <1>5, Inside DEF Snapshot, HintsFor, OnItsWay, IInv, TypeOK
<1>6. ASSUME NEW g \in Calls, Wake(g)
      PROVE  UNCHANGED Abstract!pushVars
  BY <1>6, Inside DEF Wake, HintsFor, OnItsWay, IInv, TypeOK
<1>7. ASSUME NEW g \in Calls, BroadcastEnds(g)
      PROVE  UNCHANGED Abstract!pushVars
  BY <1>7, Inside DEF BroadcastEnds, HintsFor, OnItsWay, IInv, TypeOK
<1>8. ASSUME NEW g \in Calls, NEW c \in Conns, SetFlag(g, c)
      PROVE  UNCHANGED Abstract!pushVars
  <2>1. ASSUME NEW k \in clients, k # c
        PROVE  HintsFor(k)' = HintsFor(k)
    BY <1>8, <2>1 DEF SetFlag, HintsFor, OnItsWay, IInv, TypeOK
  <2>2. ASSUME c \in clients, NEW h \in Hints
        PROVE  OnItsWay(c, h)' <=> OnItsWay(c, h)
    <3>1. pending[c] # {} => wake[c] \/ awake[c] \/ \E k \in Calls : c \in sending[k]
      BY <2>2 DEF IInv, NoSleepOnFlag
    <3>2. CASE h = CallHint(g)
      BY <1>8, <3>2 DEF SetFlag, OnItsWay, IInv, TypeOK
    <3>3. CASE h # CallHint(g)
      BY <1>8, <2>2, <3>1, <3>3 DEF SetFlag, OnItsWay, IInv, TypeOK
    <3> QED
      BY <3>2, <3>3
  <2> QED
    BY <1>8, <2>1, <2>2, Inside DEF SetFlag, HintsFor
<1>9. ASSUME NEW c \in Conns, Register(c)
      PROVE  Abstract!Link(Owner(c))
  <2> DEFINE b == Owner(c)
  <2>1. \A d \in clients : Owner(d) # b
    BY <1>9 DEF Register, Live, IInv, TypeOK, Fresh
  <2>2. {Owner(d) : d \in clients}' = {Owner(d) : d \in clients} \cup {b}
    BY <1>9 DEF Register
  <2>3. \A d \in clients : HintsFor(d)' = HintsFor(d)
    BY <1>9, <2>1 DEF Register, HintsFor, OnItsWay, IInv, TypeOK
  <2>4. "sync" \in HintsFor(c)'
    BY <1>9 DEF Register, HintsFor, OnItsWay, IInv, TypeOK
  <2>5. owed' = [owed EXCEPT ![b] = {"sync"} \cup HintsFor(c)']
    <3>1. HintsFor(c)' = {"sync"} \cup HintsFor(c)'
      BY <2>4
    <3> QED
      BY <1>9, <2>3, <3>1, OwedMoves DEF Register
  <2>6. HintsFor(c)' \in SUBSET Abstract!Hints
    BY DEF HintsFor, Abstract!Hints, Hints
  <2> QED
    BY <1>9, <2>1, <2>2, <2>5, <2>6 DEF Register, Abstract!Link
<1>10. ASSUME NEW c \in Conns, ConnectHint(c)
      PROVE  Abstract!Hint(Owner(c), "sync")
  <2>1. c \in clients /\ "sync" \in HintsFor(c)
    BY <1>10 DEF ConnectHint, IInv, TypeOK, Fresh, HintsFor, OnItsWay
  <2>2. \A d \in clients \ {c} : HintsFor(d)' = HintsFor(d)
    BY <1>10 DEF ConnectHint, HintsFor, OnItsWay, IInv, TypeOK
  <2>3. HintsFor(c)' = HintsFor(c) \/ HintsFor(c)' = HintsFor(c) \ {"sync"}
    BY <1>10 DEF ConnectHint, HintsFor, OnItsWay, IInv, TypeOK, Hints
  <2> QED
    BY <1>10, <2>1, <2>2, <2>3, Hinted DEF ConnectHint, Learn, HintOf
<1>11. ASSUME NEW c \in Conns, WriterWakes(c)
      PROVE  UNCHANGED Abstract!pushVars
  BY <1>11, Inside DEF WriterWakes, HintsFor, OnItsWay, IInv, TypeOK
<1>12. ASSUME NEW c \in Conns, TakeFlags(c)
      PROVE  UNCHANGED Abstract!pushVars
  BY <1>12, Inside DEF TakeFlags, HintsFor, OnItsWay, IInv, TypeOK, OneWriter
<1>13. ASSUME NEW c \in Conns, Write(c)
      PROVE  \E h \in Hints : Abstract!Hint(Owner(c), h)
  <2>1. PICK h \in out[c] : /\ out' = [out EXCEPT ![c] = @ \ {h}]
                            /\ Learn(Owner(c), h)
    BY <1>13 DEF Write
  <2>2. h \in Hints /\ c \in clients /\ h \in HintsFor(c)
    BY <1>13, <2>1 DEF Write, IInv, TypeOK, Fresh, HintsFor, OnItsWay
  <2>3. \A d \in clients \ {c} : HintsFor(d)' = HintsFor(d)
    BY <1>13, <2>1 DEF Write, HintsFor, OnItsWay, IInv, TypeOK
  <2>4. HintsFor(c)' = HintsFor(c) \/ HintsFor(c)' = HintsFor(c) \ {h}
    BY <1>13, <2>1, <2>2 DEF Write, HintsFor, OnItsWay, IInv, TypeOK
  <2> QED
    BY <1>13, <2>1, <2>2, <2>3, <2>4, Hinted DEF Write, Learn, HintOf
<1>14. ASSUME NEW c \in Conns, Drop(c)
      PROVE  Abstract!Unlink(Owner(c))
  <2>1. c \in clients /\ \A d \in clients \ {c} : Owner(d) # Owner(c)
    BY <1>14 DEF Drop, IInv, Fresh
  <2>2. {Owner(d) : d \in clients}' = {Owner(d) : d \in clients} \ {Owner(c)}
    BY <1>14, <2>1 DEF Drop
  <2>3. \A d \in clients \ {c} : HintsFor(d)' = HintsFor(d)
    BY <1>14 DEF Drop, HintsFor, OnItsWay, IInv, TypeOK
  <2>4. owed' = [owed EXCEPT ![Owner(c)] = {}]
    <3>1. OwedFacts /\ OwedFacts'
      BY OwedIs, PTL
    <3>2. ASSUME NEW b \in Browsers
          PROVE  owed'[b] = [owed EXCEPT ![Owner(c)] = {}][b]
      <4>1. clients' = clients \ {c}
        BY <1>14 DEF Drop
      <4>2. CASE b = Owner(c)
        BY <2>1, <3>1, <4>1, <4>2 DEF OwedFacts
      <4>3. CASE b # Owner(c) /\ \E d \in clients : Owner(d) = b
        BY <2>3, <3>1, <4>1, <4>3 DEF OwedFacts
      <4>4. CASE b # Owner(c) /\ ~\E d \in clients : Owner(d) = b
        BY <3>1, <4>1, <4>4 DEF OwedFacts
      <4> QED
        BY <4>2, <4>3, <4>4
    <3> QED
      BY <3>1, <3>2 DEF OwedFacts
  <2> QED
    BY <1>14, <2>1, <2>2, <2>4 DEF Drop, Abstract!Unlink
<1>15. CASE UNCHANGED vars
  BY <1>15 DEF Abstract!pushVars, owed, OnItsWay
<1> QED
  BY <1>1, <1>2, <1>3, <1>4, <1>5, <1>6, <1>7, <1>8, <1>9, <1>10, <1>11, <1>12, <1>13,
     <1>14, <1>15 DEF Next, Abstract!Next, Abstract!Parts, Abstract!Hints, Parts, Hints

\* The hub (ws/hub.go with its bumps) implements the push channel: every
\* change owes each linked browser a hint, and an owed hint leaves only by
\* being written to its socket or with the connection.
THEOREM HubImplementsPush == Spec => PushRefined
<1>1. Spec => []IInv
  BY Invariance
<1>2. Init => Abstract!Init
  BY InitMaps
<1>3. IInv /\ IInv' /\ [Next]_vars => [Abstract!Next]_(Abstract!pushVars)
  BY StepMaps
<1> QED
  BY <1>1, <1>2, <1>3, PTL DEF Spec, PushRefined, Abstract!PushSafety
=============================================================================
