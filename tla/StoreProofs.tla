---------------------------- MODULE StoreProofs ----------------------------
(***************************************************************************)
(* What MediaPool promises for any number of names and requests, and       *)
(* LiveCache for any number of live cues and pages.                        *)
(***************************************************************************)
EXTENDS MediaPool, FiniteSetTheorems, WellFoundedInduction, TLAPS

\* A set of numbers that is not empty has a least one.
LEMMA LeastNumber ==
  ASSUME NEW S \in SUBSET Nat, S # {}
  PROVE  \E n \in S : \A m \in S : n <= m
<1> DEFINE R == {r \in Nat \X Nat : r[1] < r[2]}
<1>1. IsWellFoundedOn(R, Nat)
  BY NatLessThanWellFounded DEF OpToRel
<1>2. PICK n \in S : \A m \in S : ~(<<m, n>> \in R)
  <2> HIDE DEF R
  <2> QED BY <1>1, WFMin
<1>3. \A m \in S : ~(m < n)
  BY <1>2
<1> QED BY <1>3

\* A number after every one of S, the first such.
LEMMA FirstAfter ==
  ASSUME NEW k \in Nat, NEW S \in SUBSET (1..k)
  PROVE  \E i \in 1..(k + 1) : i - 1 \in S \cup {0} /\ \A j \in S : j < i
<1> DEFINE T == {i \in 1..(k + 1) : \A j \in S : j < i}
<1>1. T \in SUBSET Nat /\ k + 1 \in T
  OBVIOUS
<1>2. PICK i \in T : \A m \in T : i <= m
  <2> HIDE DEF T
  <2> QED BY <1>1, LeastNumber
<1>3. CASE i = 1
  BY <1>2, <1>3
<1>4. CASE i # 1 /\ i - 1 \notin S
  <2>1. i - 1 \in 1..(k + 1) /\ i - 1 \notin T
    BY <1>2, <1>4
  <2>2. PICK j \in S : ~(j < i - 1)
    BY <2>1
  <2> QED BY <1>2, <1>4, <2>2
<1> QED BY <1>2, <1>3, <1>4

-----------------------------------------------------------------------------
\* Requests that import, and those that are between two steps with names held.
Importing == {"check", "probe", "park", "move", "register"}
Flight == {t \in Requests : req[t].at \in Importing}

\* The names a request holds.
Owns(t) ==
  {n \in {req[t].n} : req[t].at \in Importing \cup {"old", "file", "row"}}
    \cup {n \in {req[t].from} : req[t].at \in {"file", "row"}}

\* A name is held for one request.
Holding ==
  /\ \A t \in Requests : Owns(t) \subseteq held
  /\ \A t, u \in Requests : t # u => Owns(t) \cap Owns(u) = {}

\* What a request at this place asks for.
Errand(t) ==
  /\ req[t].at \in Importing =>
       /\ req[t].op \in {"new", "rename", "replace"} /\ req[t].n \in Names
       /\ req[t].from = 0 /\ req[t].c > 0
  /\ req[t].at \in {"new", "old", "file", "row"} =>
       req[t].op = "name" /\ req[t].n \in Names /\ req[t].from \in Names \ {req[t].n}
  /\ req[t].at \in {"drow", "dfile"} => req[t].op = "delete" /\ req[t].n \in Names

\* What is under the names it holds: nothing where it did not ask to replace, nothing or
\* its own once it is under way, and the row is that of the file it has in hand.
Fits(t) ==
  /\ req[t].at \in {"check", "probe", "park"} /\ req[t].op # "replace" => disk[req[t].n] = 0
  /\ req[t].at = "move" => disk[req[t].n] = 0
  /\ req[t].at = "register" =>
       disk[req[t].n] \in {0, req[t].c} /\ (disk[req[t].n] = req[t].c \/ req[t].n \in torn)
  /\ req[t].at \in {"move", "register"} /\ Registered(req[t].n) =>
       req[t].n \in torn \/ row[req[t].n].c = req[t].old
  /\ req[t].at \in {"old", "file", "row"} /\ Registered(req[t].n) => req[t].n \in torn
  /\ req[t].at = "row" /\ Registered(req[t].from) =>
       req[t].from \in torn \/ row[req[t].from].c = disk[req[t].n]

\* Rows are of files that were there.
Probed == \A n \in Names : Registered(n) => row[n].c > 0

\* Ids are given in turn: there are no more of them than imports that are over.
Numbered ==
  /\ IsFiniteSet(Flight)
  /\ \A i \in Used \cup {0} : i + Cardinality(Flight) <= ops

\* The worker's hands.
Job == [n : Names, id : Ids \cup {0}, thumb : BOOLEAN, wave : BOOLEAN]
Hands == [at : {"wait", "next", "thumb", "decode", "store"}, todo : SUBSET Job,
          m : Job \cup {NoWork}, got : Nat]
Working == worker \in Hands /\ (worker.at \in {"thumb", "decode", "store"} => worker.m \in Job)

IInv ==
  /\ TypeOK /\ Working /\ Holding /\ Probed /\ Numbered /\ RowHasItsFile
  /\ \A t \in Requests : Errand(t) /\ Fits(t)

Places == {"idle", "check", "probe", "park", "move", "register", "new", "old", "file", "row",
           "drow", "dfile"}
Asking == [at : Places,
           op : {"none", "new", "rename", "replace", "name", "delete"},
           n : AnyName, from : AnyName, c : Nat, old : Nat]
Kept == [id : Ids \cup {0}, c : Nat, thumb : BOOLEAN, wave : BOOLEAN, missing : BOOLEAN]

-----------------------------------------------------------------------------
\* The worker waits with empty hands.
LEMMA WaitingWorks == Waiting \in Hands /\ Waiting.at = "wait" /\ Waiting.todo = {}
  BY DEF Waiting, Hands

LEMMA InitInv == ASSUME MediaPoolAssumption, Init PROVE IInv
<1>1. TypeOK /\ Used = {}
  BY DEF MediaPoolAssumption, Init, TypeOK, NoRow, NoReq, NoWork, Waiting, AnyName, Names,
         Registered, Used
<1>2. Working
  BY WaitingWorks DEF Init, Working
<1>3. Flight = {} /\ \A t \in Requests : Owns(t) = {}
  BY DEF Init, Flight, Owns, Importing, NoReq
<1>4. Numbered
  BY <1>1, <1>3, FS_EmptySet DEF Numbered, Init
<1>5. \A t \in Requests : Errand(t) /\ Fits(t)
  BY DEF Init, NoReq, Errand, Fits, Importing
<1> QED BY <1>1, <1>2, <1>3, <1>4, <1>5 DEF IInv, Init, Holding, Probed, RowHasItsFile, Registered, NoRow

\* Where a request moves, with the rest in place.
Step(t) == t \in Requests /\ \A u \in Requests \ {t} : req'[u] = req[u]

\* What holds of the types of a request follows from what is written to it.
LEMMA Requested ==
  ASSUME TypeOK, NEW t \in Requests, NEW e \in Asking, req' = [req EXCEPT ![t] = e]
  PROVE  req' \in [Requests -> Asking] /\ req'[t] = e /\ Step(t)
  BY DEF TypeOK, Asking, Step, Places

\* Names that are let go were the request's own ...
LEMMA HoldingKept ==
  ASSUME Holding, NEW t \in Requests, Step(t), NEW out, held' = held \ out,
         Owns(t)' \subseteq Owns(t), out \cap held \subseteq Owns(t), Owns(t)' \cap out = {}
  PROVE  Holding'
<1>1. \A u \in Requests \ {t} : Owns(u)' = Owns(u)
  BY DEF Step, Owns
<1>2. \A u \in Requests \ {t} : Owns(u) \cap out = {}
  BY DEF Holding
<1> QED BY <1>1, <1>2 DEF Holding

\* ... and those it takes nobody else had.
LEMMA HoldingTaken ==
  ASSUME Holding, NEW t \in Requests, Step(t), NEW in, in \cap held = {}, held' = held \cup in,
         Owns(t)' \subseteq Owns(t) \cup in
  PROVE  Holding'
<1>1. \A u \in Requests \ {t} : Owns(u)' = Owns(u)
  BY DEF Step, Owns
<1>2. \A u \in Requests \ {t} : Owns(u) \cap Owns(t)' = {}
  BY DEF Holding
<1>3. \A u \in Requests : Owns(u)' \subseteq held'
  BY <1>1 DEF Holding
<1>4. \A u, v \in Requests : u # v => Owns(u)' \cap Owns(v)' = {}
  <2> SUFFICES ASSUME NEW u \in Requests, NEW v \in Requests, u # v
               PROVE  Owns(u)' \cap Owns(v)' = {}
    OBVIOUS
  <2>1. CASE u = t
    BY <1>1, <1>2, <2>1
  <2>2. CASE v = t
    BY <1>1, <1>2, <2>2
  <2>3. CASE u # t /\ v # t
    BY <1>1, <2>3 DEF Holding
  <2> QED BY <2>1, <2>2, <2>3
<1> QED BY <1>3, <1>4 DEF Holding

LEMMA HoldingSame ==
  ASSUME Holding, NEW t \in Requests, Step(t), held' = held, Owns(t)' \subseteq Owns(t)
  PROVE  Holding'
<1>1. \A u \in Requests \ {t} : Owns(u)' = Owns(u)
  BY DEF Step, Owns
<1> QED BY <1>1 DEF Holding

\* Ids are numbers.
LEMMA IdsAreNumbers == ASSUME TypeOK PROVE Used \cup {0} \subseteq Nat /\ ops \in Nat
  BY DEF TypeOK, Used, Ids

\* The requests that import, after one of them is through, or one more came.
LEMMA FlightEnds ==
  ASSUME TypeOK, Numbered, NEW t \in Requests, Step(t), t \in Flight' => t \in Flight,
         Used' \subseteq Used, ops' = ops
  PROVE  Numbered'
<1>1. Flight' \subseteq Flight
  BY DEF Flight, Step
<1>2. IsFiniteSet(Flight') /\ Cardinality(Flight') <= Cardinality(Flight)
  BY <1>1, FS_Subset DEF Numbered
<1>3. Cardinality(Flight) \in Nat /\ Cardinality(Flight') \in Nat
  BY <1>2, FS_CardinalityType DEF Numbered
<1>4. \A i \in Used' \cup {0} : i + Cardinality(Flight') <= ops
  BY <1>2, <1>3, IdsAreNumbers DEF Numbered
<1> QED BY <1>2, <1>4 DEF Numbered

LEMMA FlightGrows ==
  ASSUME TypeOK, Numbered, NEW t \in Requests, Step(t), Used' = Used, ops' = ops + 1
  PROVE  Numbered'
<1>1. IsFiniteSet(Flight) /\ Cardinality(Flight) \in Nat
  BY FS_CardinalityType DEF Numbered
<1>2. Flight' \subseteq Flight \cup {t}
  BY DEF Flight, Step
<1> DEFINE F == Flight \cup {t}
<1>3. IsFiniteSet(F) /\ Cardinality(F) = IF t \in Flight THEN Cardinality(Flight)
                                         ELSE Cardinality(Flight) + 1
  BY <1>1, FS_AddElement
<1>4. IsFiniteSet(Flight') /\ Cardinality(Flight') <= Cardinality(F)
  BY <1>2, <1>3, FS_Subset
<1>5. Cardinality(Flight') \in Nat
  BY <1>4, FS_CardinalityType
<1>6. Cardinality(F) <= Cardinality(Flight) + 1
  BY <1>1, <1>3
<1>7. Cardinality(F) \in Nat
  BY <1>3, FS_CardinalityType
<1>8. \A i \in Used' \cup {0} : i + Cardinality(Flight') <= ops'
  BY <1>1, <1>4, <1>5, <1>6, <1>7, IdsAreNumbers DEF Numbered
<1> QED BY <1>4, <1>8 DEF Numbered

\* The next id is free, and there is one for every import that is under way.
LEMMA NextIsFree ==
  ASSUME MediaPoolAssumption, TypeOK, Numbered, Flight # {}
  PROVE  NextId \in Ids /\ NextId - 1 \in Used \cup {0} /\ (\A j \in Used : j < NextId)
<1>1. Cardinality(Flight) \in Nat /\ Cardinality(Flight) # 0
  BY FS_CardinalityType, FS_EmptySet DEF Numbered
<1>2. ops \in Nat /\ MaxOps \in Nat /\ ops <= MaxOps /\ Used \cup {0} \subseteq Nat
  BY IdsAreNumbers DEF TypeOK, MediaPoolAssumption
<1>3. MaxOps - 1 \in Nat /\ Used \in SUBSET (1..(MaxOps - 1))
  <2>1. \A i \in Used \cup {0} : i + 1 <= MaxOps
    BY <1>1, <1>2 DEF Numbered
  <2>2. 0 \notin Used
    BY DEF Used
  <2> QED BY <1>2, <2>1, <2>2
<1> DEFINE Next1(i) == i - 1 \in Used \cup {0} /\ \A j \in Used : j < i
<1>4. \E i \in Ids : Next1(i)
  <2>1. \E i \in 1..(MaxOps - 1 + 1) : Next1(i)
    BY <1>3, FirstAfter
  <2> QED BY <1>2, <2>1 DEF Ids
<1>5. NextId = CHOOSE i \in Ids : Next1(i)
  BY DEF NextId
<1> HIDE DEF Next1
<1>6. NextId \in Ids /\ Next1(NextId)
  BY <1>4, <1>5, Zenon
<1> QED BY <1>6 DEF Next1

LEMMA FlightLands ==
  ASSUME MediaPoolAssumption, TypeOK, Numbered, NEW t \in Flight, Step(t), t \notin Flight',
         Used' \subseteq Used \cup {NextId}, ops' = ops
  PROVE  Numbered'
<1>1. Flight' = Flight \ {t}
  BY DEF Flight, Step
<1>2. IsFiniteSet(Flight') /\ Cardinality(Flight') = Cardinality(Flight) - 1
  BY <1>1, FS_RemoveElement DEF Numbered
<1>3. Cardinality(Flight) \in Nat
  BY FS_CardinalityType DEF Numbered
<1>4. NextId - 1 \in Used \cup {0} /\ NextId \in Nat
  BY NextIsFree DEF Ids
<1>5. \A i \in Used' \cup {0} : i + Cardinality(Flight') <= ops
  BY <1>2, <1>3, <1>4, IdsAreNumbers DEF Numbered
<1> QED BY <1>2, <1>5 DEF Numbered

\* What a request writes of itself.
LEMMA Going ==
  ASSUME TypeOK, NEW t \in Requests, NEW l \in Places, Goto(t, l)
  PROVE  req' \in [Requests -> Asking] /\ req'[t] = [req[t] EXCEPT !.at = l] /\ Step(t)
  BY DEF TypeOK, Asking, Step, Goto, Places

LEMMA Finishing ==
  ASSUME TypeOK, NEW t \in Requests, Done(t)
  PROVE  req' \in [Requests -> Asking] /\ req'[t] = NoReq /\ Step(t) /\ Owns(t)' = {}
<1>1. NoReq \in Asking
  BY DEF NoReq, Asking, Places, AnyName
<1>2. req' \in [Requests -> Asking] /\ req'[t] = NoReq /\ Step(t)
  BY <1>1 DEF TypeOK, Asking, Step, Done, Places
<1>3. req'[t].at = "idle"
  BY <1>2 DEF NoReq
<1> QED BY <1>2, <1>3 DEF Owns, Importing

\* What another request has under its names.
LEMMA FitsKept ==
  ASSUME IInv, NEW u \in Requests, req'[u] = req[u],
         \A n \in Owns(u) : /\ disk'[n] = disk[n]
                            /\ row'[n].id = row[n].id /\ row'[n].c = row[n].c
                            /\ n \in torn => n \in torn'
  PROVE  Errand(u)' /\ Fits(u)'
  BY DEF IInv, Fits, Errand, Owns, Importing, Registered

\* A request that has a name in hand, between the file and the row.
Midway(t, n) == req[t].at \in {"move", "register", "row"} /\ n \in Owns(t)

LEMMA BusyMidway ==
  ASSUME TypeOK, Holding, \A t \in Requests : Errand(t), NEW n \in Names
  PROVE  Busy(n) <=> \E t \in Requests : Midway(t, n)
  BY DEF TypeOK, Holding, Errand, Busy, Midway, Owns, Importing, Names

\* A step of one request that touches M, names of its own, answers for those alone.
LEMMA Apart ==
  ASSUME IInv, TypeOK', Holding', NEW t \in Requests, Step(t), Errand(t)', Fits(t)',
         NEW M, M \subseteq Owns(t) \cup Owns(t)',
         \A n \in Names \ M : /\ disk'[n] = disk[n]
                              /\ row'[n].id = row[n].id /\ row'[n].c = row[n].c
                              /\ n \in torn => n \in torn',
         \A n \in Names : Midway(t, n) \/ n \in M =>
           Midway(t, n)' \/ (Registered(n)' /\ n \notin torn' => disk'[n] = row'[n].c)
  PROVE  RowHasItsFile' /\ \A u \in Requests : Errand(u)' /\ Fits(u)'
<1>1. \A u \in Requests \ {t} : Owns(u)' = Owns(u) /\ Owns(u) \subseteq Names \ M
  <2>1. \A u \in Requests \ {t} : Owns(u)' = Owns(u)
    BY DEF Step, Owns
  <2>2. \A u \in Requests \ {t} : Owns(u) \cap Owns(t) = {} /\ Owns(u)' \cap Owns(t)' = {}
    BY DEF IInv, Holding
  <2>3. \A u \in Requests : Owns(u) \subseteq Names
    BY DEF IInv, Holding, TypeOK
  <2> QED BY <2>1, <2>2, <2>3
<1>2. \A u \in Requests : Errand(u)' /\ Fits(u)'
  <2> SUFFICES ASSUME NEW u \in Requests \ {t} PROVE Errand(u)' /\ Fits(u)'
    OBVIOUS
  <2> QED BY <1>1, FitsKept DEF Step
<1>3. ASSUME NEW n \in Names, Registered(n)', ~Busy(n)', n \notin torn' PROVE disk'[n] = row'[n].c
  <2>1. \A u \in Requests : ~Midway(u, n)'
    BY <1>2, <1>3, BusyMidway DEF IInv, TypeOK, Holding, Errand, Busy, Midway, Owns, Importing, Names
  <2>2. CASE Midway(t, n) \/ n \in M
    BY <1>3, <2>1, <2>2
  <2>3. CASE ~Midway(t, n) /\ n \notin M
    <3>1. \A u \in Requests : ~Midway(u, n)
      BY <1>1, <2>1, <2>3 DEF Midway, Step
    <3>2. ~Busy(n)
      BY <3>1, BusyMidway DEF IInv
    <3> QED BY <1>3, <2>3, <3>2 DEF IInv, RowHasItsFile, Registered
  <2> QED BY <2>2, <2>3
<1> QED BY <1>2, <1>3 DEF RowHasItsFile

\* A step that leaves the rows alone.
LEMMA Onward ==
  ASSUME IInv, NEW t \in Requests, Step(t), req' \in [Requests -> Asking], Errand(t)', Fits(t)',
         Holding', Numbered', held' \subseteq Names, UNCHANGED <<row, peaks, on, worker, torn>>,
         ops' \in 0..MaxOps, disk' \in [Names -> Nat],
         NEW M, M \subseteq Owns(t) \cup Owns(t)', \A n \in Names \ M : disk'[n] = disk[n],
         \A n \in Names : Midway(t, n) \/ n \in M =>
           Midway(t, n)' \/ (Registered(n) /\ n \notin torn => disk'[n] = row[n].c)
  PROVE  IInv'
<1>1. TypeOK'
  BY DEF IInv, TypeOK, Asking, Places, Used, Registered
<1>2. Working' /\ Probed'
  BY DEF IInv, Working, Probed, Registered
<1>3. RowHasItsFile' /\ \A u \in Requests : Errand(u)' /\ Fits(u)'
  <2>1. \A n \in Names : Registered(n)' <=> Registered(n)
    BY DEF Registered
  <2> QED BY <1>1, <2>1, Apart
<1> QED BY <1>1, <1>2, <1>3 DEF IInv

\* ... nor any file.
LEMMA Quiet ==
  ASSUME IInv, NEW t \in Requests, Step(t), req' \in [Requests -> Asking], Errand(t)', Fits(t)',
         Holding', Numbered', held' \subseteq Names, UNCHANGED <<files, peaks, on, worker, torn>>,
         ops' \in 0..MaxOps, req[t].at \notin {"move", "register", "row"}
  PROVE  IInv'
<1> DEFINE M == {}
<1>1. \A n \in Names : ~Midway(t, n)
  BY DEF Midway
<1>2. disk' = disk /\ row' = row /\ disk' \in [Names -> Nat]
  BY DEF files, IInv, TypeOK
<1>3. M \subseteq Owns(t) \cup Owns(t)' /\ \A n \in Names : n \notin M
  OBVIOUS
<1> HIDE DEF M
<1> QED BY <1>1, <1>2, <1>3, Onward

\* A request that lets its names go.
LEMMA Releasing ==
  ASSUME IInv, NEW t \in Requests, Release(t), req[t].at \in Importing \cup {"file", "row"}
  PROVE  /\ Step(t) /\ req' \in [Requests -> Asking] /\ req'[t] = NoReq /\ Owns(t)' = {}
         /\ Errand(t)' /\ Fits(t)' /\ Holding' /\ held' \subseteq Names /\ t \notin Flight'
<1>1. Step(t) /\ req' \in [Requests -> Asking] /\ req'[t] = NoReq /\ Owns(t)' = {}
  BY Finishing DEF Release, IInv
<1>2. Errand(t)' /\ Fits(t)' /\ t \notin Flight'
  BY <1>1 DEF NoReq, Errand, Fits, Flight, Importing
<1>3. {req[t].n, req[t].from} \cap held \subseteq Owns(t)
  BY DEF IInv, TypeOK, Errand, Owns, Importing, Names
<1>4. Holding'
  BY <1>1, <1>3, HoldingKept DEF Release, IInv
<1> QED BY <1>1, <1>2, <1>4 DEF Release, IInv, TypeOK

\* The names it may write are its own, and no row answers for one that is over.
LEMMA CheckPlayingInv == ASSUME IInv, NEW t \in Requests, CheckPlaying(t) PROVE IInv'
<1>1. Used' = Used /\ ops' = ops /\ ops' \in 0..MaxOps
  BY DEF CheckPlaying, files, Used, Registered, IInv, TypeOK
<1>2. CASE Release(t)
  <2>1. Numbered'
    BY <1>1, <1>2, Releasing, FlightEnds DEF CheckPlaying, IInv, Importing
  <2> QED BY <1>1, <1>2, <2>1, Releasing, Quiet DEF CheckPlaying, Importing
<1>3. CASE Goto(t, "probe") /\ UNCHANGED held
  <2>1. Step(t) /\ req' \in [Requests -> Asking] /\ req'[t] = [req[t] EXCEPT !.at = "probe"]
    BY <1>3, Going DEF IInv, Places
  <2>2. Errand(t)' /\ Fits(t)' /\ Owns(t)' = Owns(t) /\ (t \in Flight' => t \in Flight)
    BY <1>3, <2>1 DEF IInv, TypeOK, CheckPlaying, files, Errand, Fits, Owns, Flight, Importing
  <2>3. Holding' /\ Numbered' /\ held' \subseteq Names
    BY <1>1, <1>3, <2>1, <2>2, FlightEnds, HoldingSame DEF CheckPlaying, IInv, TypeOK
  <2> QED BY <1>1, <2>1, <2>2, <2>3, Quiet DEF CheckPlaying
<1> QED BY <1>2, <1>3 DEF CheckPlaying

LEMMA ProbeInv == ASSUME IInv, NEW t \in Requests, Probe(t) PROVE IInv'
<1>1. Used' = Used /\ ops' = ops /\ ops' \in 0..MaxOps
  BY DEF Probe, files, Used, Registered, IInv, TypeOK
<1>2. CASE Release(t)
  <2>1. Numbered'
    BY <1>1, <1>2, Releasing, FlightEnds DEF Probe, IInv, Importing
  <2> QED BY <1>1, <1>2, <2>1, Releasing, Quiet DEF Probe, Importing
<1>3. CASE Goto(t, "park") /\ UNCHANGED held
  <2>1. Step(t) /\ req' \in [Requests -> Asking] /\ req'[t] = [req[t] EXCEPT !.at = "park"]
    BY <1>3, Going DEF IInv, Places
  <2>2. Errand(t)' /\ Fits(t)' /\ Owns(t)' = Owns(t) /\ (t \in Flight' => t \in Flight)
    BY <1>3, <2>1 DEF IInv, TypeOK, Probe, files, Errand, Fits, Owns, Flight, Importing
  <2>3. Holding' /\ Numbered' /\ held' \subseteq Names
    BY <1>1, <1>3, <2>1, <2>2, FlightEnds, HoldingSame DEF Probe, IInv, TypeOK
  <2> QED BY <1>1, <2>1, <2>2, <2>3, Quiet DEF Probe
<1> QED BY <1>2, <1>3 DEF Probe

\* The file that is set aside leaves its row to the request that will answer for it.
LEMMA ParkInv == ASSUME IInv, NEW t \in Requests, Park(t) PROVE IInv'
<1> DEFINE M == {req[t].n}
<1>1. Used' = Used /\ ops' = ops /\ ops' \in 0..MaxOps
  BY DEF Park, files, Used, Registered, IInv, TypeOK
<1>2. req[t] \in Asking /\ req[t].n \in Names /\ req[t].op \in {"new", "rename", "replace"}
  BY DEF Park, IInv, TypeOK, Errand, Importing, Asking, Places
<1>3. /\ req' \in [Requests -> Asking] /\ Step(t)
      /\ req'[t] = [req[t] EXCEPT !.at = "move", !.old = disk[req[t].n]]
  BY <1>2 DEF Park, IInv, TypeOK, Asking, Places, Step
<1>4. disk' \in [Names -> Nat] /\ disk'[req[t].n] = 0 /\ \A n \in Names \ M : disk'[n] = disk[n]
  BY <1>2 DEF Park, IInv, TypeOK
<1>5. /\ Errand(t)' /\ Owns(t)' = Owns(t) /\ M = Owns(t) /\ (t \in Flight' => t \in Flight)
      /\ \A n \in M : Midway(t, n)'
  BY <1>2, <1>3 DEF IInv, Park, Errand, Owns, Flight, Importing, Midway, Asking
<1>6. Registered(req[t].n) => req[t].n \in torn \/ row[req[t].n].c = disk[req[t].n]
  <2>1. \A u \in Requests : ~Midway(u, req[t].n)
    <3> SUFFICES ASSUME NEW u \in Requests, Midway(u, req[t].n) PROVE FALSE
      OBVIOUS
    <3>1. u # t
      BY DEF Midway, Park
    <3> QED BY <1>5, <3>1 DEF IInv, Holding, Midway
  <2>2. ~Busy(req[t].n)
    BY <1>2, <2>1, BusyMidway DEF IInv
  <2> QED BY <1>2, <2>2 DEF IInv, RowHasItsFile
<1>7. Fits(t)'
  BY <1>2, <1>3, <1>4, <1>6 DEF Fits, Park, Registered, Asking
<1>8. Holding' /\ Numbered' /\ held' \subseteq Names
  BY <1>1, <1>3, <1>5, FlightEnds, HoldingSame DEF Park, IInv, TypeOK
<1>9. \A n \in Names : Midway(t, n) => n \in M
  BY DEF Midway, Park
<1>10. UNCHANGED <<row, peaks, on, worker, torn>>
  BY DEF Park
<1> HIDE DEF M
<1> QED BY <1>1, <1>3, <1>4, <1>5, <1>7, <1>8, <1>9, <1>10, Onward

\* The file is in place, or the old one is back and fits its row again.
LEMMA MoveInv == ASSUME IInv, NEW t \in Requests, Move(t) PROVE IInv'
<1> DEFINE M == {req[t].n}
<1>1. Used' = Used /\ ops' = ops /\ ops' \in 0..MaxOps
  BY DEF Move, Used, Registered, IInv, TypeOK
<1>2. req[t] \in Asking /\ req[t].n \in Names /\ req[t].op \in {"new", "rename", "replace"}
  BY DEF Move, IInv, TypeOK, Errand, Importing, Asking, Places
<1>3. M = Owns(t) /\ \A n \in Names : Midway(t, n) => n \in M
  BY DEF Owns, Move, Importing, Midway
<1>4. UNCHANGED <<row, peaks, on, worker, torn>>
  BY DEF Move
<1>5. CASE disk' = [disk EXCEPT ![req[t].n] = req[t].c] /\ Goto(t, "register") /\ UNCHANGED held
  <2>1. Step(t) /\ req' \in [Requests -> Asking] /\ req'[t] = [req[t] EXCEPT !.at = "register"]
    BY <1>5, Going DEF IInv, Places
  <2>2. /\ disk' \in [Names -> Nat] /\ disk'[req[t].n] = req[t].c
        /\ \A n \in Names \ M : disk'[n] = disk[n]
    BY <1>2, <1>5 DEF IInv, TypeOK, Asking
  <2>3. Errand(t)' /\ Fits(t)' /\ Owns(t)' = Owns(t) /\ (t \in Flight' => t \in Flight)
    BY <1>2, <1>4, <2>1, <2>2
    DEF IInv, Move, Errand, Fits, Owns, Flight, Importing, Registered, Asking
  <2>4. Holding' /\ Numbered' /\ held' \subseteq Names
    BY <1>1, <1>5, <2>1, <2>3, FlightEnds, HoldingSame DEF Move, IInv, TypeOK
  <2>5. \A n \in M : Midway(t, n)'
    BY <1>3, <2>1, <2>3 DEF Midway, IInv, TypeOK
  <2> HIDE DEF M
  <2> QED BY <1>1, <1>3, <1>4, <2>1, <2>2, <2>3, <2>4, <2>5, Onward
<1>6. CASE disk' = [disk EXCEPT ![req[t].n] = Restored(t)] /\ Release(t)
  <2>1. /\ disk' \in [Names -> Nat] /\ disk'[req[t].n] = req[t].old
        /\ \A n \in Names \ M : disk'[n] = disk[n]
    BY <1>2, <1>6 DEF IInv, TypeOK, Asking, Restored
  <2>2. Numbered'
    BY <1>1, <1>6, Releasing, FlightEnds DEF Move, IInv, Importing
  <2>3. \A n \in M : Registered(n) /\ n \notin torn => disk'[n] = row[n].c
    BY <2>1 DEF IInv, Fits, Move
  <2> HIDE DEF M
  <2> QED BY <1>1, <1>3, <1>4, <1>6, <2>1, <2>2, <2>3, Releasing, Onward DEF Move, Importing
<1> QED BY <1>5, <1>6 DEF Move

\* The row is of the file that is in place, or the old file is back.
LEMMA RegisterMediaInv ==
  ASSUME MediaPoolAssumption, IInv, NEW t \in Requests, RegisterMedia(t) PROVE IInv'
<1> DEFINE M == {req[t].n}
<1>1. ops' = ops /\ ops' \in 0..MaxOps /\ Release(t) /\ UNCHANGED <<peaks, on, worker>>
  BY DEF RegisterMedia, IInv, TypeOK
<1>2. req[t] \in Asking /\ req[t].n \in Names /\ req[t].c > 0
  BY DEF RegisterMedia, IInv, TypeOK, Errand, Importing, Asking, Places
<1>3. /\ M = Owns(t) /\ (\A n \in Names : Midway(t, n) => n \in M) /\ t \in Flight
      /\ req[t].at = "register"
  BY DEF Owns, RegisterMedia, Importing, Midway, Flight
<1>4. /\ Step(t) /\ req' \in [Requests -> Asking] /\ req'[t] = NoReq /\ Owns(t)' = {}
      /\ Errand(t)' /\ Fits(t)' /\ Holding' /\ held' \subseteq Names /\ t \notin Flight'
  BY <1>1, <1>3, Releasing DEF Importing
<1>5. CASE disk' = [disk EXCEPT ![req[t].n] = Restored(t)] /\ UNCHANGED <<row, torn>>
  <2>1. /\ disk' \in [Names -> Nat] /\ disk'[req[t].n] = req[t].old
        /\ \A n \in Names \ M : disk'[n] = disk[n]
    BY <1>2, <1>5 DEF IInv, TypeOK, Asking, Restored
  <2>2. Numbered'
    BY <1>1, <1>4, <1>5, FlightEnds DEF IInv, Used, Registered
  <2>3. \A n \in M : Registered(n) /\ n \notin torn => disk'[n] = row[n].c
    BY <1>3, <2>1 DEF IInv, Fits
  <2> HIDE DEF M
  <2> QED BY <1>1, <1>3, <1>4, <1>5, <2>1, <2>2, <2>3, Onward
<1>6. CASE /\ row' = [row EXCEPT ![req[t].n] =
                        [id |-> IF Registered(req[t].n) THEN @.id ELSE NextId,
                         c |-> req[t].c, thumb |-> TRUE, wave |-> TRUE, missing |-> FALSE]]
           /\ torn' = torn \ {m \in {req[t].n} : disk[m] = req[t].c}
           /\ UNCHANGED disk
  <2> DEFINE I == IF Registered(req[t].n) THEN row[req[t].n].id ELSE NextId
  <2>1. NextId \in Ids /\ \A j \in Used : j < NextId
    BY <1>3, NextIsFree DEF IInv
  <2>2. I \in Ids /\ (I \in Used => Registered(req[t].n) /\ I = row[req[t].n].id)
    <3>1. CASE Registered(req[t].n)
      BY <1>2, <3>1 DEF IInv, TypeOK, Registered
    <3>2. CASE ~Registered(req[t].n)
      <4>1. NextId \notin Used
        BY <2>1 DEF Ids
      <4> QED BY <2>1, <3>2, <4>1
    <3> QED BY <3>1, <3>2
  <2>3. /\ row'[req[t].n] = [id |-> I, c |-> req[t].c, thumb |-> TRUE, wave |-> TRUE,
                             missing |-> FALSE]
        /\ \A n \in Names \ M : row'[n] = row[n]
        /\ row' \in [Names -> Kept]
    BY <1>2, <1>6, <2>2 DEF IInv, TypeOK, Kept, Asking
  <2>4. /\ \A n \in Names \ M : Registered(n)' <=> Registered(n)
        /\ (\A n \in M : Registered(n)') /\ I # 0
    <3>1. I # 0
      BY <2>2 DEF Ids
    <3>2. row'[req[t].n].id = I
      BY <2>3
    <3>3. \A n \in M : Registered(n)'
      BY <3>1, <3>2 DEF Registered
    <3> QED BY <2>3, <3>1, <3>3 DEF Registered
  <2>5. Used' = Used \cup {I}
    <3>1. Used' \subseteq Used \cup {I}
      BY <2>3 DEF Used
    <3>2. Used \subseteq Used'
      BY <1>2, <2>3 DEF Used, Registered
    <3>3. I \in Used'
      BY <1>2, <2>3, <2>4 DEF Used
    <3> QED BY <3>1, <3>2, <3>3
  <2>6. \A n, m \in Names : n # m /\ Registered(n)' => row'[n].id # row'[m].id
    <3> SUFFICES ASSUME NEW n \in Names, NEW m \in Names, n # m, Registered(n)'
                 PROVE  row'[n].id # row'[m].id
      OBVIOUS
    <3>1. CASE n = req[t].n
      BY <1>2, <2>2, <2>3, <2>4, <3>1 DEF IInv, TypeOK, Used, Registered
    <3>2. CASE m = req[t].n
      BY <1>2, <2>2, <2>3, <2>4, <3>2 DEF IInv, TypeOK, Used, Registered
    <3>3. CASE n # req[t].n /\ m # req[t].n
      BY <2>3, <3>3 DEF IInv, TypeOK, Registered
    <3> QED BY <3>1, <3>2, <3>3
  <2>7. TypeOK'
    BY <1>1, <1>4, <1>6, <2>3, <2>5, <2>6 DEF IInv, TypeOK, Kept, Asking, Places
  <2>8. Working' /\ Probed'
    BY <1>1, <1>2, <2>3, <2>4 DEF IInv, Working, Probed
  <2>9. Numbered'
    <3>1. Used' \subseteq Used \cup {NextId}
      BY <1>2, <2>5 DEF Used, Registered
    <3> QED BY <1>1, <1>3, <1>4, <3>1, FlightLands DEF IInv
  <2>10. \A n \in M : n \notin torn' => disk'[n] = row'[n].c
    BY <1>3, <1>6, <2>3 DEF IInv, Fits
  <2>11. \A n \in Names \ M : n \in torn => n \in torn'
    BY <1>6
  <2> HIDE DEF M
  <2>12. RowHasItsFile' /\ \A u \in Requests : Errand(u)' /\ Fits(u)'
    BY <1>3, <1>4, <1>6, <2>3, <2>7, <2>10, <2>11, Apart
  <2> QED BY <1>4, <2>7, <2>8, <2>9, <2>12 DEF IInv
<1> QED BY <1>5, <1>6 DEF RegisterMedia

-----------------------------------------------------------------------------
\* A name that is reserved is nobody's, and has no file unless it is to be replaced.
LEMMA ImportInv ==
  ASSUME MediaPoolAssumption, IInv, NEW t \in Requests, NEW n \in Names,
         NEW op \in {"new", "rename", "replace"}, Import(t, op, n)
  PROVE  IInv'
<1>1. /\ Used' = Used /\ ops' = ops + 1 /\ ops' \in 0..MaxOps /\ ops + 1 \in Nat \ {0}
      /\ req[t].at = "idle"
  <2>1. Used' = Used
    BY DEF Import, files, Used, Registered
  <2>2. ops \in Nat /\ MaxOps \in Nat
    BY DEF IInv, TypeOK, MediaPoolAssumption
  <2>3. ops' = ops + 1 /\ ops < MaxOps /\ req[t].at = "idle"
    BY DEF Import, Asks
  <2> QED BY <2>1, <2>2, <2>3
<1>2. CASE UNCHANGED <<held, req>>
  <2>1. Step(t) /\ req' \in [Requests -> Asking] /\ Errand(t)' /\ Fits(t)' /\ held' \subseteq Names
    BY <1>2 DEF Step, IInv, TypeOK, Asking, Places, Errand, Fits, Import, files, Registered
  <2>2. Holding' /\ Numbered'
    BY <1>1, <1>2, <2>1, FlightGrows DEF IInv, Holding, Owns
  <2> QED BY <1>1, <2>1, <2>2, Quiet DEF Import
<1>3. ASSUME NEW m \in Reserved(op, n), held' = held \cup {m},
             req' = [req EXCEPT ![t] = [NoReq EXCEPT !.at = "check", !.op = op, !.n = m,
                                                     !.c = ops + 1]]
      PROVE  IInv'
  <2>1. m \in Names /\ m \notin held /\ (op # "replace" => disk[m] = 0)
    <3>1. CASE op = "new"
      BY <3>1 DEF Reserved, Taken
    <3>2. CASE op = "rename"
      BY <3>2 DEF Reserved, Taken
    <3>3. CASE op = "replace"
      BY <3>3 DEF Reserved
    <3> QED BY <3>1, <3>2, <3>3
  <2>2. [NoReq EXCEPT !.at = "check", !.op = op, !.n = m, !.c = ops + 1] \in Asking
    BY <1>1, <2>1 DEF NoReq, Asking, Places, AnyName
  <2>3. /\ req' \in [Requests -> Asking] /\ Step(t)
        /\ req'[t] = [NoReq EXCEPT !.at = "check", !.op = op, !.n = m, !.c = ops + 1]
    BY <1>3, <2>2, Requested DEF IInv
  <2>4. Errand(t)' /\ Fits(t)' /\ Owns(t)' = {m} /\ Owns(t) = {}
    <3>1. /\ req'[t].at = "check" /\ req'[t].op = op /\ req'[t].n = m /\ req'[t].from = 0
          /\ req'[t].c = ops + 1
      BY <2>3 DEF NoReq
    <3>2. Errand(t)' /\ Owns(t)' = {m} /\ Owns(t) = {}
      BY <1>1, <2>1, <3>1 DEF Errand, Owns, Importing
    <3>3. Fits(t)'
      BY <2>1, <3>1 DEF Fits, Import, files
    <3> QED BY <3>2, <3>3
  <2>5. Holding' /\ Numbered' /\ held' \subseteq Names
    <3> DEFINE in == {m}
    <3>1. in \cap held = {} /\ held' = held \cup in /\ Owns(t)' \subseteq Owns(t) \cup in
      BY <1>3, <2>1, <2>4
    <3> HIDE DEF in
    <3>2. Holding'
      BY <2>3, <3>1, HoldingTaken DEF IInv
    <3> QED BY <1>1, <1>3, <2>1, <2>3, <3>2, FlightGrows DEF IInv, TypeOK
  <2> QED BY <1>1, <2>3, <2>4, <2>5, Quiet DEF Import
<1> QED BY <1>2, <1>3 DEF Import

LEMMA RenameInv ==
  ASSUME MediaPoolAssumption, IInv, NEW t \in Requests, NEW n \in Names, NEW m \in Names,
         Rename(t, n, m)
  PROVE  IInv'
<1>1. Used' = Used /\ ops' = ops + 1 /\ ops' \in 0..MaxOps /\ held' = held /\ req[t].at = "idle"
  BY DEF Rename, Asks, files, Used, Registered, IInv, TypeOK, MediaPoolAssumption
<1>2. Step(t) /\ req' \in [Requests -> Asking] /\ Errand(t)' /\ Fits(t)' /\ Owns(t)' = {}
  <2>1. CASE UNCHANGED req
    BY <1>1, <2>1 DEF Step, IInv, TypeOK, Asking, Places, Errand, Fits, Owns, Importing
  <2>2. CASE req' = [req EXCEPT ![t] = [NoReq EXCEPT !.at = "new", !.op = "name", !.n = m,
                                                     !.from = n]]
    <3>1. [NoReq EXCEPT !.at = "new", !.op = "name", !.n = m, !.from = n] \in Asking
      BY DEF NoReq, Asking, Places, AnyName
    <3>2. /\ req' \in [Requests -> Asking] /\ Step(t)
          /\ req'[t] = [NoReq EXCEPT !.at = "new", !.op = "name", !.n = m, !.from = n]
      BY <2>2, <3>1, Requested DEF IInv
    <3> QED BY <3>2 DEF Errand, Fits, Owns, Importing, NoReq, Rename
  <2> QED BY <2>1, <2>2 DEF Rename
<1>3. Holding' /\ Numbered' /\ held' \subseteq Names
  BY <1>1, <1>2, HoldingSame, FlightGrows DEF IInv, TypeOK
<1> QED BY <1>1, <1>2, <1>3, Quiet DEF Rename

\* The name that is taken first is free: no row answers for it.
LEMMA HoldNewInv == ASSUME IInv, NEW t \in Requests, HoldNew(t) PROVE IInv'
<1>1. /\ Used' = Used /\ ops' = ops /\ ops' \in 0..MaxOps /\ Owns(t) = {} /\ t \notin Flight
      /\ req[t] \in Asking /\ req[t].n \in Names
  BY DEF HoldNew, files, Used, Registered, IInv, TypeOK, Owns, Flight, Importing, Errand, Asking,
         Places
<1>2. CASE Done(t) /\ UNCHANGED held
  <2>1. Step(t) /\ req' \in [Requests -> Asking] /\ req'[t] = NoReq /\ Owns(t)' = {}
    BY <1>2, Finishing DEF IInv
  <2>2. Errand(t)' /\ Fits(t)' /\ t \notin Flight'
    BY <2>1 DEF NoReq, Errand, Fits, Flight, Importing
  <2>3. Holding' /\ Numbered' /\ held' \subseteq Names
    BY <1>1, <1>2, <2>1, <2>2, HoldingSame, FlightEnds DEF IInv, TypeOK
  <2> QED BY <1>1, <2>1, <2>2, <2>3, Quiet DEF HoldNew
<1>3. CASE ~Taken(req[t].n) /\ held' = held \cup {req[t].n} /\ Goto(t, "old")
  <2>1. Step(t) /\ req' \in [Requests -> Asking] /\ req'[t] = [req[t] EXCEPT !.at = "old"]
    BY <1>3, Going DEF IInv, Places
  <2>2. Registered(req[t].n) => req[t].n \in torn
    BY <1>1, <1>3 DEF IInv, RowHasItsFile, Probed, Taken, Busy
  <2>3. Errand(t)' /\ Fits(t)' /\ Owns(t)' = {req[t].n} /\ t \notin Flight'
    BY <1>1, <2>1, <2>2
    DEF IInv, Asking, HoldNew, files, Errand, Fits, Owns, Flight, Importing, Registered
  <2>4. Holding' /\ Numbered' /\ held' \subseteq Names
    <3> DEFINE in == {req[t].n}
    <3>1. in \cap held = {} /\ held' = held \cup in /\ Owns(t)' \subseteq Owns(t) \cup in
      BY <1>3, <2>3 DEF Taken
    <3> HIDE DEF in
    <3>2. Holding'
      BY <2>1, <3>1, HoldingTaken DEF IInv
    <3> QED BY <1>1, <1>3, <2>1, <2>3, <3>2, FlightEnds DEF IInv, TypeOK
  <2> QED BY <1>1, <2>1, <2>3, <2>4, Quiet DEF HoldNew
<1> QED BY <1>2, <1>3 DEF HoldNew

LEMMA HoldOldInv == ASSUME IInv, NEW t \in Requests, HoldOld(t) PROVE IInv'
<1>1. /\ Used' = Used /\ ops' = ops /\ ops' \in 0..MaxOps /\ t \notin Flight
      /\ req[t] \in Asking /\ Owns(t) = {req[t].n} /\ req[t].from \in Names
  BY DEF HoldOld, files, Used, Registered, IInv, TypeOK, Owns, Flight, Importing, Errand, Asking,
         Places
<1>2. CASE held' = held \ {req[t].n} /\ Done(t)
  <2>1. Step(t) /\ req' \in [Requests -> Asking] /\ req'[t] = NoReq /\ Owns(t)' = {}
    BY <1>2, Finishing DEF IInv
  <2>2. Errand(t)' /\ Fits(t)' /\ t \notin Flight'
    BY <2>1 DEF NoReq, Errand, Fits, Flight, Importing
  <2>3. Holding' /\ Numbered' /\ held' \subseteq Names
    BY <1>1, <1>2, <2>1, <2>2, HoldingKept, FlightEnds DEF IInv, TypeOK
  <2> QED BY <1>1, <2>1, <2>2, <2>3, Quiet DEF HoldOld
<1>3. CASE req[t].from \notin held /\ held' = held \cup {req[t].from} /\ Goto(t, "file")
  <2>1. Step(t) /\ req' \in [Requests -> Asking] /\ req'[t] = [req[t] EXCEPT !.at = "file"]
    BY <1>3, Going DEF IInv, Places
  <2>2. Errand(t)' /\ Fits(t)' /\ Owns(t)' = {req[t].n, req[t].from} /\ t \notin Flight'
    BY <1>1, <2>1
    DEF IInv, Asking, HoldOld, files, Errand, Fits, Owns, Flight, Importing, Registered
  <2>3. Holding' /\ Numbered' /\ held' \subseteq Names
    <3> DEFINE in == {req[t].from}
    <3>1. in \cap held = {} /\ held' = held \cup in /\ Owns(t)' \subseteq Owns(t) \cup in
      BY <1>1, <1>3, <2>2
    <3> HIDE DEF in
    <3>2. Holding'
      BY <2>1, <3>1, HoldingTaken DEF IInv
    <3> QED BY <1>1, <1>3, <2>1, <2>2, <3>2, FlightEnds DEF IInv, TypeOK
  <2> QED BY <1>1, <2>1, <2>2, <2>3, Quiet DEF HoldOld
<1> QED BY <1>2, <1>3 DEF HoldOld

\* The file goes over, and the row of the old name is to follow.
LEMMA RenameFileInv == ASSUME IInv, NEW t \in Requests, RenameFile(t) PROVE IInv'
<1> DEFINE M == {req[t].n, req[t].from}
<1>1. /\ Used' = Used /\ ops' = ops /\ ops' \in 0..MaxOps /\ t \notin Flight
      /\ UNCHANGED <<row, peaks, on, worker, torn>>
  BY DEF RenameFile, Used, Registered, IInv, TypeOK, Flight, Importing
<1>2. /\ req[t] \in Asking /\ req[t].n \in Names /\ req[t].from \in Names \ {req[t].n}
      /\ req[t].at = "file" /\ Owns(t) = M
  BY DEF RenameFile, IInv, TypeOK, Errand, Owns, Importing, Asking, Places
<1>3. CASE Release(t) /\ UNCHANGED disk
  <2>1. Numbered'
    BY <1>1, <1>2, <1>3, Releasing, FlightEnds DEF IInv
  <2> QED BY <1>1, <1>2, <1>3, <2>1, Releasing, Quiet DEF files
<1>4. CASE /\ disk' = [disk EXCEPT ![req[t].n] = disk[req[t].from], ![req[t].from] = 0]
           /\ Goto(t, "row") /\ UNCHANGED held
  <2>1. Step(t) /\ req' \in [Requests -> Asking] /\ req'[t] = [req[t] EXCEPT !.at = "row"]
    BY <1>4, Going DEF IInv, Places
  <2>2. /\ disk' \in [Names -> Nat] /\ disk'[req[t].n] = disk[req[t].from]
        /\ \A n \in Names \ M : disk'[n] = disk[n]
    BY <1>2, <1>4 DEF IInv, TypeOK
  <2>3. Registered(req[t].from) => req[t].from \in torn \/ row[req[t].from].c = disk[req[t].from]
    <3>1. \A u \in Requests : ~Midway(u, req[t].from)
      <4> SUFFICES ASSUME NEW u \in Requests, Midway(u, req[t].from) PROVE FALSE
        OBVIOUS
      <4>1. u # t
        BY <1>2 DEF Midway
      <4> QED BY <1>2, <4>1 DEF IInv, Holding, Midway
    <3>2. ~Busy(req[t].from)
      BY <1>2, <3>1, BusyMidway DEF IInv
    <3> QED BY <1>2, <3>2 DEF IInv, RowHasItsFile
  <2>4. /\ req'[t].at = "row" /\ req'[t].n = req[t].n /\ req'[t].from = req[t].from
        /\ req'[t].op = req[t].op
    BY <1>2, <2>1 DEF Asking
  <2>5. Owns(t)' = Owns(t) /\ t \notin Flight' /\ \A n \in M : Midway(t, n)'
    BY <1>2, <2>4 DEF Owns, Flight, Importing, Midway
  <2>6. Errand(t)'
    BY <1>2, <2>4 DEF IInv, Errand, Importing
  <2>7. Fits(t)'
    BY <1>1, <1>2, <2>2, <2>3, <2>4 DEF IInv, Fits, Registered
  <2>8. Holding' /\ Numbered' /\ held' \subseteq Names
    BY <1>1, <1>4, <2>1, <2>5, FlightEnds, HoldingSame DEF IInv, TypeOK
  <2>9. \A n \in Names : Midway(t, n) => n \in M
    BY <1>2 DEF Midway
  <2> HIDE DEF M
  <2> QED BY <1>1, <1>2, <2>1, <2>2, <2>5, <2>6, <2>7, <2>8, <2>9, Onward
<1> QED BY <1>3, <1>4 DEF RenameFile

\* The row goes over, or the file comes back to it.
LEMMA RenameRowInv == ASSUME IInv, NEW t \in Requests, RenameRow(t) PROVE IInv'
<1> DEFINE M == {req[t].n, req[t].from}
<1>1. ops' = ops /\ ops' \in 0..MaxOps /\ Release(t) /\ UNCHANGED <<peaks, on, worker>>
  BY DEF RenameRow, IInv, TypeOK
<1>2. /\ req[t] \in Asking /\ req[t].n \in Names /\ req[t].from \in Names \ {req[t].n}
      /\ req[t].at = "row" /\ Owns(t) = M /\ t \notin Flight
      /\ \A n \in Names : Midway(t, n) => n \in M
  BY DEF RenameRow, IInv, TypeOK, Errand, Owns, Importing, Asking, Places, Flight, Midway
<1>3. /\ Step(t) /\ req' \in [Requests -> Asking] /\ req'[t] = NoReq /\ Owns(t)' = {}
      /\ Errand(t)' /\ Fits(t)' /\ Holding' /\ held' \subseteq Names /\ t \notin Flight'
  BY <1>1, <1>2, Releasing
<1>4. /\ Registered(req[t].n) => req[t].n \in torn
      /\ Registered(req[t].from) => req[t].from \in torn \/ row[req[t].from].c = disk[req[t].n]
  BY <1>2 DEF IInv, Fits
<1>5. CASE /\ disk' = [disk EXCEPT ![req[t].from] = disk[req[t].n], ![req[t].n] = 0]
           /\ UNCHANGED <<row, torn>>
  <2>1. /\ disk' \in [Names -> Nat] /\ disk'[req[t].from] = disk[req[t].n]
        /\ \A n \in Names \ M : disk'[n] = disk[n]
    BY <1>2, <1>5 DEF IInv, TypeOK
  <2>2. Numbered'
    BY <1>1, <1>2, <1>3, <1>5, FlightEnds DEF IInv, Used, Registered
  <2>3. \A n \in M : Registered(n) /\ n \notin torn => disk'[n] = row[n].c
    BY <1>4, <2>1
  <2> HIDE DEF M
  <2> QED BY <1>1, <1>2, <1>3, <1>5, <2>1, <2>2, <2>3, Onward
<1>6. CASE /\ ~Registered(req[t].n)
           /\ torn' = torn \cup {n \in {req[t].n} : req[t].from \in torn}
           /\ row' = [row EXCEPT ![req[t].n] = row[req[t].from], ![req[t].from] = NoRow]
           /\ UNCHANGED disk
  <2>1. NoRow \in Kept
    BY DEF NoRow, Kept
  <2>2. /\ row'[req[t].n] = row[req[t].from] /\ row'[req[t].from] = NoRow
        /\ \A n \in Names \ M : row'[n] = row[n]
        /\ row' \in [Names -> Kept]
    BY <1>2, <1>6, <2>1 DEF IInv, TypeOK, Kept
  <2>3. /\ row'[req[t].n].id = row[req[t].from].id /\ row'[req[t].n].c = row[req[t].from].c
        /\ row'[req[t].from].id = 0
    BY <2>2 DEF NoRow
  <2>4. Used' = Used
    <3>1. Used' \subseteq Used
      BY <1>2, <2>2, <2>3 DEF Used
    <3>2. Used \subseteq Used'
      BY <1>2, <1>6, <2>2, <2>3 DEF Used, Registered
    <3> QED BY <3>1, <3>2
  <2>5. \A n, m \in Names : n # m /\ Registered(n)' => row'[n].id # row'[m].id
    <3> SUFFICES ASSUME NEW n \in Names, NEW m \in Names, n # m, row'[n].id # 0
                 PROVE  row'[n].id # row'[m].id
      BY DEF Registered
    <3>1. CASE n = req[t].n
      BY <1>2, <2>2, <2>3, <3>1 DEF IInv, TypeOK, Registered
    <3>2. CASE m = req[t].n
      BY <1>2, <2>2, <2>3, <3>2 DEF IInv, TypeOK, Registered
    <3>3. CASE n # req[t].n /\ m # req[t].n
      BY <1>2, <2>2, <2>3, <3>3 DEF IInv, TypeOK, Registered
    <3> QED BY <3>1, <3>2, <3>3
  <2>6. TypeOK'
    BY <1>1, <1>2, <1>3, <1>6, <2>2, <2>4, <2>5 DEF IInv, TypeOK, Kept, Asking, Places
  <2>7. Working' /\ Probed'
    BY <1>1, <1>2, <2>2, <2>3 DEF IInv, Working, Probed, Registered
  <2>8. Numbered'
    BY <1>1, <1>2, <1>3, <2>4, FlightEnds DEF IInv
  <2>9. \A n \in M : row'[n].id # 0 /\ n \notin torn' => disk'[n] = row'[n].c
    BY <1>2, <1>4, <1>6, <2>3 DEF Registered
  <2>10. \A n \in Names \ M : n \in torn => n \in torn'
    BY <1>6
  <2> HIDE DEF M
  <2>11. RowHasItsFile' /\ \A u \in Requests : Errand(u)' /\ Fits(u)'
    BY <1>2, <1>3, <1>6, <2>2, <2>6, <2>9, <2>10, Apart DEF Registered
  <2> QED BY <1>3, <2>6, <2>7, <2>8, <2>11 DEF IInv
<1> QED BY <1>5, <1>6 DEF RenameRow

-----------------------------------------------------------------------------
LEMMA DeleteInv ==
  ASSUME MediaPoolAssumption, IInv, NEW t \in Requests, NEW n \in Names, Delete(t, n)
  PROVE  IInv'
<1>1. Used' = Used /\ ops' = ops + 1 /\ ops' \in 0..MaxOps /\ held' = held /\ req[t].at = "idle"
  BY DEF Delete, Asks, files, Used, Registered, IInv, TypeOK, MediaPoolAssumption
<1>2. [NoReq EXCEPT !.at = "drow", !.op = "delete", !.n = n] \in Asking
  BY DEF NoReq, Asking, Places, AnyName
<1>3. /\ req' \in [Requests -> Asking] /\ Step(t)
      /\ req'[t] = [NoReq EXCEPT !.at = "drow", !.op = "delete", !.n = n]
  BY <1>2, Requested DEF Delete, IInv
<1>4. Errand(t)' /\ Fits(t)' /\ Owns(t)' = {}
  BY <1>3 DEF Errand, Fits, Owns, Importing, NoReq
<1>5. Holding' /\ Numbered' /\ held' \subseteq Names
  BY <1>1, <1>3, <1>4, HoldingSame, FlightGrows DEF IInv, TypeOK
<1> QED BY <1>1, <1>3, <1>4, <1>5, Quiet DEF Delete

\* No name is held for it: its row was nobody's to answer for, or is missed by none.
LEMMA DeleteRowInv == ASSUME IInv, NEW t \in Requests, DeleteRow(t) PROVE IInv'
<1>1. /\ ops' = ops /\ UNCHANGED <<disk, held, on, worker, torn>> /\ t \notin Flight
      /\ req[t].n \in Names /\ req[t].op = "delete" /\ Owns(t) = {}
  BY DEF DeleteRow, Flight, Importing, IInv, Errand, Owns
<1>2. CASE Done(t) /\ UNCHANGED <<row, peaks>>
  <2>1. Step(t) /\ req' \in [Requests -> Asking] /\ req'[t] = NoReq /\ Owns(t)' = {}
    BY <1>2, Finishing DEF IInv
  <2>2. Errand(t)' /\ Fits(t)' /\ t \notin Flight'
    BY <2>1 DEF NoReq, Errand, Fits, Flight, Importing
  <2>3. Holding' /\ Numbered' /\ held' \subseteq Names /\ ops' \in 0..MaxOps
    BY <1>1, <1>2, <2>1, <2>2, HoldingSame, FlightEnds DEF IInv, TypeOK, Used, Registered
  <2> QED BY <1>1, <1>2, <2>1, <2>2, <2>3, Quiet DEF DeleteRow, files
<1>3. CASE /\ Registered(req[t].n)
           /\ row' = [row EXCEPT ![req[t].n] = NoRow]
           /\ peaks' = [peaks EXCEPT ![row[req[t].n].id] = 0]
           /\ Goto(t, "dfile")
  <2>1. Step(t) /\ req' \in [Requests -> Asking] /\ req'[t] = [req[t] EXCEPT !.at = "dfile"]
    BY <1>3, Going DEF IInv, Places
  <2>2. Owns(t)' = {} /\ t \notin Flight' /\ Errand(t)'
    BY <1>1, <2>1 DEF Owns, Flight, Importing, Errand, IInv, TypeOK
  <2>3. NoRow \in Kept /\ NoRow.id = 0
    BY DEF NoRow, Kept
  <2>4. /\ row' \in [Names -> Kept] /\ row'[req[t].n].id = 0
        /\ \A n \in Names \ {req[t].n} : row'[n] = row[n]
    BY <1>1, <1>3, <2>3 DEF IInv, TypeOK, Kept
  <2>5. \A n \in Names : row'[n].id # 0 => row'[n] = row[n] /\ row[n].id # 0
    BY <2>4
  <2>6. Used \ {row[req[t].n].id} \subseteq Used' /\ Used' \subseteq Used
    <3>1. Used' \subseteq Used
      BY <2>5 DEF Used
    <3>2. Used \ {row[req[t].n].id} \subseteq Used'
      BY <2>4 DEF Used
    <3> QED BY <3>1, <3>2
  <2>7. peaks' \in [Ids -> Nat] /\ \A i \in Ids : peaks'[i] # 0 => i \in Used'
    BY <1>1, <1>3, <2>6 DEF IInv, TypeOK, Registered
  <2>8. TypeOK'
    BY <1>1, <2>1, <2>4, <2>5, <2>7 DEF IInv, TypeOK, Kept, Asking, Places, Registered
  <2>9. Holding' /\ Numbered'
    BY <1>1, <2>1, <2>2, <2>6, HoldingSame, FlightEnds DEF IInv
  <2>10. Working' /\ Probed'
    BY <1>1, <2>5 DEF IInv, Working, Probed, Registered
  <2>11. \A u \in Requests : Errand(u)' /\ Fits(u)'
    <3> SUFFICES ASSUME NEW u \in Requests PROVE Errand(u)' /\ Fits(u)'
      OBVIOUS
    <3>1. CASE u = t
      BY <2>1, <2>2, <3>1 DEF Fits, IInv, TypeOK
    <3>2. CASE u # t
      <4>1. req'[u] = req[u] /\ Errand(u)'
        BY <2>1, <3>2 DEF Step, IInv, Errand
      <4> QED BY <1>1, <2>5, <4>1 DEF IInv, Fits, Errand, Registered, Importing
    <3> QED BY <3>1, <3>2
  <2>12. \A n \in Names : Busy(n) => Busy(n)'
    BY <1>1, <2>1, <2>2, <2>8, <2>9, <2>11 DEF Busy, Step, DeleteRow
  <2>13. RowHasItsFile'
    BY <1>1, <2>5, <2>12 DEF IInv, RowHasItsFile, Registered
  <2> QED BY <2>8, <2>9, <2>10, <2>11, <2>13 DEF IInv
<1> QED BY <1>2, <1>3 DEF DeleteRow

\* Whoever has this name in hand has it cut in two.
LEMMA DeleteFileInv == ASSUME IInv, NEW t \in Requests, DeleteFile(t) PROVE IInv'
<1>1. /\ ops' = ops /\ UNCHANGED <<row, peaks, held, on, worker>> /\ t \notin Flight
      /\ req[t].n \in Names /\ req[t].op = "delete" /\ Owns(t) = {}
  BY DEF DeleteFile, Flight, Importing, IInv, Errand, Owns
<1>2. Step(t) /\ req' \in [Requests -> Asking] /\ req'[t] = NoReq /\ Owns(t)' = {}
  BY Finishing DEF IInv, DeleteFile
<1>3. Errand(t)' /\ Fits(t)' /\ t \notin Flight'
  BY <1>2 DEF NoReq, Errand, Fits, Flight, Importing
<1>4. Holding' /\ Numbered'
  BY <1>1, <1>2, <1>3, HoldingSame, FlightEnds DEF IInv, Used, Registered
<1>5. /\ disk' \in [Names -> Nat] /\ disk'[req[t].n] = 0
      /\ \A n \in Names \ {req[t].n} : disk'[n] = disk[n]
  BY <1>1 DEF DeleteFile, IInv, TypeOK
<1>6. torn' \subseteq Names /\ torn \subseteq torn'
  <2>1. \A r \in Requests : req[r].at = "row" => req[r].from \in Names
    BY DEF IInv, Errand
  <2> QED BY <1>1, <2>1 DEF DeleteFile, IInv, TypeOK
<1>7. TypeOK'
  BY <1>1, <1>2, <1>5, <1>6 DEF IInv, TypeOK, Asking, Places, Used, Registered
<1>8. Working' /\ Probed'
  BY <1>1 DEF IInv, Working, Probed, Registered
<1>9. \A u \in Requests : Errand(u)' /\ Fits(u)'
  <2> SUFFICES ASSUME NEW u \in Requests \ {t} PROVE Errand(u)' /\ Fits(u)'
    BY <1>3
  <2>1. req'[u] = req[u] /\ Errand(u)' /\ row' = row
    BY <1>1, <1>2 DEF Step, IInv, Errand
  <2>2. CASE req[t].n \in Owns(u)
    <3>1. req[t].n \in torn'
      BY <2>2 DEF DeleteFile, IInv, Holding
    <3>2. req[u].at = "row" /\ req[u].n = req[t].n => req[u].from \in torn'
      BY DEF DeleteFile
    <3> QED BY <1>1, <1>5, <1>6, <2>1, <2>2, <3>1, <3>2
            DEF IInv, Fits, Errand, Owns, Importing, Registered
  <2>3. CASE req[t].n \notin Owns(u)
    <3>1. \A n \in Owns(u) : /\ disk'[n] = disk[n]
                             /\ row'[n].id = row[n].id /\ row'[n].c = row[n].c
                             /\ n \in torn => n \in torn'
      BY <1>1, <1>5, <1>6, <2>3 DEF IInv, Holding, TypeOK
    <3> QED BY <2>1, <3>1, FitsKept
  <2> QED BY <2>2, <2>3
<1>10. RowHasItsFile'
  <2> SUFFICES ASSUME NEW n \in Names, Registered(n)', ~Busy(n)', n \notin torn'
               PROVE  disk'[n] = row'[n].c
    BY DEF RowHasItsFile
  <2>1. n # req[t].n
    BY <1>1 DEF DeleteFile, Registered
  <2>2. ~Busy(n)
    BY <1>1, <1>2 DEF Busy, Step, DeleteFile
  <2> QED BY <1>1, <1>5, <1>6, <2>1, <2>2 DEF IInv, RowHasItsFile, Registered
<1> QED BY <1>4, <1>7, <1>8, <1>9, <1>10 DEF IInv

-----------------------------------------------------------------------------
\* A step that has nothing to do with the requests, nor with what their rows are of.
LEMMA Elsewhere ==
  ASSUME IInv, UNCHANGED <<disk, held, req, torn>>, TypeOK', Working', ops \in Nat, ops <= ops',
         \A n \in Names : row'[n].id = row[n].id /\ row'[n].c = row[n].c
  PROVE  IInv'
<1>1. Used' = Used /\ \A n \in Names : Registered(n)' <=> Registered(n)
  BY DEF Used, Registered
<1>2. Holding' /\ Probed' /\ RowHasItsFile'
  BY <1>1 DEF IInv, Holding, Owns, Probed, RowHasItsFile, Busy
<1>3. Numbered'
  <2>1. Flight' = Flight
    BY DEF Flight
  <2>2. Cardinality(Flight) \in Nat /\ Used \cup {0} \subseteq Nat /\ ops' \in Nat
    BY FS_CardinalityType, IdsAreNumbers DEF IInv, Numbered, TypeOK
  <2> HIDE DEF IInv
  <2>3. \A i \in Used \cup {0} : i + Cardinality(Flight) <= ops'
    BY <2>2 DEF IInv, Numbered
  <2> QED BY <1>1, <2>1, <2>3 DEF IInv, Numbered
<1>4. \A u \in Requests : Errand(u)' /\ Fits(u)'
  <2>1. \A n \in Names : n \in torn => n \in torn'
    OBVIOUS
  <2> QED BY <2>1, FitsKept DEF IInv, Holding, TypeOK
<1> QED BY <1>2, <1>3, <1>4 DEF IInv

LEMMA GoOrStopInv ==
  ASSUME MediaPoolAssumption, IInv, NEW n \in Names \cup {0}, GoOrStop(n) PROVE IInv'
<1>1. ops \in Nat /\ ops' = ops + 1 /\ ops' \in 0..MaxOps
  BY DEF GoOrStop, Asks, IInv, TypeOK, MediaPoolAssumption
<1>2. TypeOK' /\ Working' /\ row' = row
  BY <1>1 DEF GoOrStop, files, IInv, TypeOK, Working, AnyName, Used, Registered
<1> QED BY <1>1, <1>2, Elsewhere DEF GoOrStop, files

LEMMA RequestInv ==
  ASSUME MediaPoolAssumption, IInv, NEW n \in Names, Request(n) PROVE IInv'
<1>1. ops \in Nat /\ ops' = ops + 1 /\ ops' \in 0..MaxOps
  BY DEF Request, Asks, IInv, TypeOK, MediaPoolAssumption
<1>2. /\ row' \in [Names -> Kept]
      /\ \A m \in Names : row'[m].id = row[m].id /\ row'[m].c = row[m].c
  <2> SUFFICES ASSUME NEW f \in {"thumb", "wave"}, row' = [row EXCEPT ![n][f] = TRUE]
               PROVE  /\ row' \in [Names -> Kept]
                      /\ \A m \in Names : row'[m].id = row[m].id /\ row'[m].c = row[m].c
    BY DEF Request
  <2> QED BY DEF IInv, TypeOK, Kept
<1>3. Used' = Used
  BY <1>2 DEF Used
<1>4. TypeOK' /\ Working'
  BY <1>1, <1>2, <1>3 DEF Request, IInv, TypeOK, Working, Kept, Registered
<1> QED BY <1>1, <1>2, <1>4, Elsewhere DEF Request

\* What is in hand when the process dies is cut in two.
LEMMA CrashInv == ASSUME MediaPoolAssumption, IInv, Crash PROVE IInv'
<1>1. ops \in Nat /\ ops' = ops + 1 /\ ops' \in 0..MaxOps
  BY DEF Crash, Asks, IInv, TypeOK, MediaPoolAssumption
<1>2. NoReq \in Asking /\ NoReq.at = "idle"
  BY DEF NoReq, Asking, Places, AnyName
<1>3. req' \in [Requests -> Asking] /\ \A t \in Requests : req'[t].at = "idle"
  BY <1>2 DEF Crash
<1>4. /\ row' \in [Names -> Kept]
      /\ \A m \in Names : row'[m].id = row[m].id /\ row'[m].c = row[m].c
  BY DEF Crash, IInv, TypeOK, Kept, Registered
<1>5. Used' = Used /\ \A n \in Names : Registered(n)' <=> Registered(n)
  BY <1>4 DEF Used, Registered
<1>6. TypeOK'
  BY <1>1, <1>3, <1>4, <1>5 DEF Crash, IInv, TypeOK, Kept, Asking, Places, AnyName, Waiting
<1>7. Working' /\ Probed'
  BY <1>4, <1>5, WaitingWorks DEF Crash, IInv, Working, Probed
<1>8. Flight' = {} /\ \A t \in Requests : Owns(t)' = {} /\ Errand(t)' /\ Fits(t)'
  BY <1>3 DEF Flight, Owns, Errand, Fits, Importing
<1>9. Numbered'
  <2>1. IsFiniteSet({}) /\ Cardinality({}) = 0
    BY FS_EmptySet
  <2>2. Cardinality(Flight) \in Nat /\ Used \cup {0} \subseteq Nat
    BY FS_CardinalityType, IdsAreNumbers DEF IInv, Numbered
  <2>3. \A i \in Used \cup {0} : i <= ops
    BY <1>1, <2>2 DEF IInv, Numbered
  <2>4. \A i \in Used \cup {0} : i + 0 <= ops'
    BY <1>1, <2>2, <2>3
  <2> QED BY <1>5, <1>8, <2>1, <2>4 DEF Numbered
<1>10. RowHasItsFile'
  BY <1>4, <1>5 DEF Crash, IInv, RowHasItsFile, Busy
<1> QED BY <1>6, <1>7, <1>8, <1>9, <1>10 DEF IInv, Holding

LEMMA HandsOnly ==
  ASSUME IInv, Working', UNCHANGED <<files, held, peaks, on, req, ops, torn>> PROVE IInv'
<1>1. TypeOK' /\ ops \in Nat /\ ops' = ops
  BY DEF files, IInv, TypeOK, Used, Registered, Working, Hands
<1> QED BY <1>1, Elsewhere DEF files

LEMMA WorkInv == ASSUME IInv, Work PROVE IInv'
<1>1. /\ ops \in Nat /\ worker.at \in {"wait", "next", "thumb", "decode", "store"}
      /\ worker.todo \subseteq Job /\ worker.got \in Nat
      /\ worker.at \in {"thumb", "decode", "store"} => worker.m \in Job
  BY DEF IInv, TypeOK, Working, Hands
<1>2. ASSUME NEW id, NEW f \in {"thumb", "wave"}, row' = Clear(id, f)
      PROVE  /\ row' \in [Names -> Kept] /\ Used' = Used
             /\ \A m \in Names : row'[m].id = row[m].id /\ row'[m].c = row[m].c
  <2>0. row \in [Names -> Kept]
    BY DEF IInv, TypeOK, Kept
  <2>1. /\ row' \in [Names -> Kept]
        /\ \A m \in Names : row'[m].id = row[m].id /\ row'[m].c = row[m].c
    <3>1. \A m \in Names : row'[m] = row[m] \/ row'[m] = [row[m] EXCEPT ![f] = FALSE]
      BY <1>2, <2>0 DEF Clear
    <3>2. \A r \in Kept : LET s == [r EXCEPT ![f] = FALSE] IN s \in Kept /\ s.id = r.id /\ s.c = r.c
      BY <1>2 DEF Kept
    <3>3. DOMAIN row' = Names /\ row' = [m \in Names |-> row'[m]]
      BY <1>2, <2>0 DEF Clear
    <3>4. \A m \in Names : row'[m] \in Kept /\ row'[m].id = row[m].id /\ row'[m].c = row[m].c
      <4> SUFFICES ASSUME NEW m \in Names
                   PROVE  row'[m] \in Kept /\ row'[m].id = row[m].id /\ row'[m].c = row[m].c
        OBVIOUS
      <4>1. row[m] \in Kept
        BY <2>0
      <4> QED BY <3>1, <3>2, <4>1
    <3> QED BY <3>3, <3>4
  <2> QED BY <2>1 DEF Used
<1>3. CASE Poll
  <2> DEFINE T == {[n |-> n, id |-> row[n].id, thumb |-> row[n].thumb, wave |-> row[n].wave] :
                     n \in {k \in Names : Pending(k)}}
  <2>1. T \subseteq Job
    BY DEF IInv, TypeOK, Job
  <2>2. worker' = [Waiting EXCEPT !.at = "next", !.todo = T]
    BY <1>3 DEF Poll
  <2> HIDE DEF T
  <2>3. Working'
    BY <2>1, <2>2, WaitingWorks DEF Working, Hands
  <2> QED BY <1>3, <2>3, HandsOnly DEF Poll
<1>4. CASE Pick
  <2>1. Working'
    <3>1. CASE worker' = Waiting
      BY <3>1, WaitingWorks DEF Working
    <3>2. ASSUME NEW m \in worker.todo,
                 worker' = [worker EXCEPT !.todo = @ \ {m}, !.m = m,
                                          !.at = IF m.thumb THEN "thumb" ELSE "decode"]
          PROVE  Working'
      BY <1>1, <3>2 DEF IInv, Working, Hands
    <3> QED BY <1>4, <3>1, <3>2 DEF Pick
  <2> QED BY <1>4, <2>1, HandsOnly DEF Pick
<1>5. CASE Thumbnail
  <2>1. Working'
    BY <1>1, <1>5 DEF Thumbnail, IInv, Working, Hands
  <2>2. /\ row' \in [Names -> Kept] /\ Used' = Used
        /\ \A m \in Names : row'[m].id = row[m].id /\ row'[m].c = row[m].c
    BY <1>2, <1>5 DEF Thumbnail
  <2>3. UNCHANGED <<disk, held, peaks, on, req, ops, torn>>
    BY <1>5 DEF Thumbnail
  <2>4. TypeOK'
    BY <2>1, <2>2, <2>3 DEF IInv, TypeOK, Working, Hands, Kept, Registered
  <2> QED BY <1>1, <2>1, <2>2, <2>3, <2>4, Elsewhere
<1>6. CASE Decode
  <2>1. Working'
    <3>1. worker.m \in Job /\ disk[worker.m.n] \in Nat
      BY <1>1, <1>6 DEF Decode, IInv, TypeOK, Job
    <3>2. \E g \in Nat : worker' = [worker EXCEPT !.at = "store", !.got = g]
      BY <1>6, <3>1 DEF Decode
    <3> QED BY <3>1, <3>2 DEF IInv, Working, Hands
  <2> QED BY <1>6, <2>1, HandsOnly DEF Decode
<1>7. CASE Store
  <2>1. peaks' \in [Ids -> Nat] /\ \A i \in Ids : peaks'[i] # 0 => i \in Used
    BY <1>1, <1>7 DEF Store, IInv, TypeOK
  <2>2. Working'
    BY <1>1, <1>7 DEF Store, IInv, Working, Hands
  <2>3. /\ row' \in [Names -> Kept] /\ Used' = Used
        /\ \A m \in Names : row'[m].id = row[m].id /\ row'[m].c = row[m].c
    BY <1>2, <1>7 DEF Store
  <2>4. UNCHANGED <<disk, held, on, req, ops, torn>>
    BY <1>7 DEF Store
  <2>5. TypeOK'
    BY <2>1, <2>2, <2>3, <2>4 DEF IInv, TypeOK, Working, Hands, Kept, Registered
  <2> QED BY <1>1, <2>2, <2>3, <2>4, <2>5, Elsewhere
<1> QED BY <1>3, <1>4, <1>5, <1>6, <1>7 DEF Work

LEMMA NextInv == ASSUME MediaPoolAssumption, IInv, [Next]_vars PROVE IInv'
<1>1. CASE UNCHANGED vars
  <2>1. TypeOK' /\ Working' /\ ops \in Nat /\ ops' = ops
    BY <1>1 DEF vars, files, IInv, TypeOK, Working, Used, Registered
  <2> QED BY <1>1, <2>1, Elsewhere DEF vars, files
<1>2. ASSUME NEW t \in Requests, Handle(t) PROVE IInv'
  BY <1>2, CheckPlayingInv, ProbeInv, ParkInv, MoveInv, RegisterMediaInv, HoldNewInv, HoldOldInv,
     RenameFileInv, RenameRowInv, DeleteRowInv, DeleteFileInv DEF Handle
<1> QED BY <1>1, <1>2, WorkInv, CrashInv, DeleteInv, ImportInv, RenameInv, RequestInv, GoOrStopInv
        DEF Next

\* What is held, on disk and registered stays matched with what each import, rename and delete
\* is doing, at every step of every request: the invariant the theorems below rest on.
THEOREM Invariant == ASSUME MediaPoolAssumption PROVE Spec => []IInv
<1>1. Init => IInv
  BY InitInv
<1>2. IInv /\ [Next]_vars => IInv'
  BY NextInv
<1> QED BY <1>1, <1>2, PTL DEF Spec

\* A name is held by one request, and its row's id is its own.
THEOREM TypesHold == ASSUME MediaPoolAssumption PROVE Spec => []TypeOK
<1>1. IInv => TypeOK
  BY DEF IInv
<1> QED BY <1>1, Invariant, PTL

\* After any imports, renames and deletes of any names, with probes and moves that fail and a
\* crash between any two of their steps, a registered file is the one that was probed, unless
\* a delete or the crash cut an import (or the rename behind it) in two.
THEOREM FilesMatchRows == ASSUME MediaPoolAssumption PROVE Spec => []RowHasItsFile
<1>1. IInv => RowHasItsFile
  BY DEF IInv
<1> QED BY <1>1, Invariant, PTL

\* What NothingOverwritten says of a step.
Answered ==
  \A n \in Names :
    disk[n] # 0 /\ disk'[n] # disk[n]
      => \E t \in Requests :
           /\ req'[t] # req[t]
           /\ \/ req[t].op \in {"replace", "delete"} /\ req[t].n = n
              \/ req[t].op = "name" /\ n \in {req[t].n, req[t].from}
              \/ req[t].c = disk[n]

LEMMA StepAnswered ==
  ASSUME IInv, IInv', NEW t \in Requests, Handle(t), NEW n \in Names, disk[n] # 0, disk'[n] # disk[n]
  PROVE  /\ req'[t] # req[t]
         /\ \/ req[t].op \in {"replace", "delete"} /\ req[t].n = n
            \/ req[t].op = "name" /\ n \in {req[t].n, req[t].from}
            \/ req[t].c = disk[n]
<1>1. req \in [Requests -> Asking] /\ Errand(t) /\ Fits(t) /\ disk \in [Names -> Nat]
  BY DEF IInv, TypeOK, Asking, Places
<1>2. CASE Park(t)
  BY <1>1, <1>2 DEF Park, Errand, Fits, Importing, Asking
<1>3. CASE Move(t)
  BY <1>1, <1>3 DEF Move, Errand, Fits, Importing, Asking
<1>4. CASE RegisterMedia(t)
  <2>1. req[t].at = "register" /\ req[t].n = n /\ disk[n] = req[t].c
    BY <1>1, <1>4 DEF RegisterMedia, Fits
  <2>2. req'[t] = NoReq
    BY <1>1, <1>4 DEF RegisterMedia, Release, Done
  <2> QED BY <2>1, <2>2 DEF NoReq
<1>5. CASE RenameFile(t)
  <2>1. /\ req[t].at = "file" /\ req[t].op = "name" /\ n \in {req[t].n, req[t].from}
    BY <1>1, <1>5 DEF RenameFile, Errand
  <2>2. Goto(t, "row")
    BY <1>5 DEF RenameFile
  <2>3. req'[t].at = "row"
    BY <1>1, <2>2 DEF Goto, Asking
  <2> QED BY <2>1, <2>3
<1>6. CASE RenameRow(t)
  <2>1. /\ req[t].at = "row" /\ req[t].op = "name" /\ n \in {req[t].n, req[t].from}
    BY <1>1, <1>6 DEF RenameRow, Errand
  <2>2. req'[t] = NoReq
    BY <1>1, <1>6 DEF RenameRow, Release, Done
  <2> QED BY <2>1, <2>2 DEF NoReq
<1>7. CASE DeleteFile(t)
  <2>1. req[t].at = "dfile" /\ req[t].op = "delete" /\ req[t].n = n
    BY <1>1, <1>7 DEF DeleteFile, Errand
  <2>2. req'[t] = NoReq
    BY <1>1, <1>7 DEF DeleteFile, Done
  <2> QED BY <2>1, <2>2 DEF NoReq
<1>8. CASE CheckPlaying(t) \/ Probe(t) \/ HoldNew(t) \/ HoldOld(t) \/ DeleteRow(t)
  BY <1>8 DEF CheckPlaying, Probe, HoldNew, HoldOld, DeleteRow, files
<1> QED BY <1>2, <1>3, <1>4, <1>5, <1>6, <1>7, <1>8 DEF Handle

\* No step changes a file on disk but for the request that replaces, renames or deletes it, or
\* that wrote it: reserveMediaName never lets two imports decide on one name.
THEOREM FilesAreAnsweredFor == ASSUME MediaPoolAssumption PROVE Spec => NothingOverwritten
<1>1. ASSUME IInv, IInv', [Next]_vars PROVE [Answered]_vars
  <2>1. CASE \E t \in Requests : Handle(t)
    BY <1>1, <2>1, StepAnswered DEF Answered
  <2>2. CASE Work
    BY <2>2 DEF Work, Poll, Pick, Thumbnail, Decode, Store, files, Answered
  <2>3. CASE Crash
    BY <2>3 DEF Crash, Answered
  <2>4. ASSUME NEW t \in Requests, NEW n \in Names,
               Delete(t, n) \/ \E op \in {"new", "rename", "replace"} : Import(t, op, n)
        PROVE  Answered
    BY <2>4 DEF Delete, Import, files, Answered
  <2>5. ASSUME NEW t \in Requests, NEW n \in Names, NEW m \in Names, Rename(t, n, m) PROVE Answered
    BY <2>5 DEF Rename, files, Answered
  <2>6. ASSUME NEW n \in Names, Request(n) PROVE Answered
    BY <2>6 DEF Request, Answered
  <2>7. ASSUME NEW n \in Names \cup {0}, GoOrStop(n) PROVE Answered
    BY <2>7 DEF GoOrStop, files, Answered
  <2> QED BY <1>1, <2>1, <2>2, <2>3, <2>4, <2>5, <2>6, <2>7 DEF Next
<1>2. Spec => [][Answered]_vars
  BY <1>1, Invariant, PTL DEF Spec
<1> QED BY <1>2 DEF NothingOverwritten, Answered

-----------------------------------------------------------------------------
\* The live cues and the keeper of their cached pages, under names of their own.
CONSTANTS Cues, Pages, MaxFaults
VARIABLES source, cue, edit, cached, preloaded, waits, quiet, caught, keeper, asked, faults

Live == INSTANCE LiveCache WITH op <- edit, ops <- asked

\* A listing of rows names each with its page, and of those it does there is a first.
Listing == SUBSET (Live!Ids \X Pages)

\* The keeper's hands.
Keeping ==
  /\ keeper \in [at : {"rest", "live", "clear", "forget", "drop", "choose", "load"},
                 orphans : Listing, live : Listing]
  /\ keeper.at = "load" => keeper.live # {}

\* Ids are given in turn.
InTurn == \A i \in Live!Rows : i <= asked

\* An edit at rest has no row; one under way has the row it wrote, which nobody else has
\* and no list of the keeper names, unless the keeper listed a row before its cue was there.
Owned ==
  /\ \A c \in Cues : edit[c].at # "idle" =>
       /\ edit[c].id \in Live!Rows \ Live!UsedIds
       /\ \A d \in Cues \ {c} : edit[d].id # edit[c].id
       /\ \A s \in keeper.orphans : s[1] # edit[c].id
  /\ \A c, d \in Cues : c # d /\ cue[c] # 0 => cue[c] # cue[d]
  /\ \A s \in keeper.orphans : s[1] \in Live!Rows \ Live!UsedIds /\ s[2] = source[s[1]]

LiveInv ==
  /\ Live!TypeOK /\ Keeping /\ InTurn
  /\ \A c \in Cues : edit[c].id = 0 <=> edit[c].at = "idle"
  /\ caught \/ Owned

Edits == [at : {"idle", "insert", "repoint"}, id : Live!Ids \cup {0}]

LEMMA LiveInit == ASSUME Live!LiveCacheAssumption, Live!Init PROVE LiveInv
<1>1. Live!Rows = {}
  BY DEF Live!Rows, Live!Init
<1>2. Live!TypeOK
  <2>1. edit \in [Cues -> Edits]
    BY DEF Live!Init, Live!NoOp, Edits
  <2>2. asked \in 0..MaxOps /\ faults \in 0..MaxFaults /\ keeper.at = "rest"
    BY DEF Live!LiveCacheAssumption, Live!Init, Live!Resting
  <2> QED BY <1>1, <2>1, <2>2 DEF Live!Init, Live!TypeOK, Edits
<1> QED BY <1>1, <1>2 DEF LiveInv, Keeping, Listing, InTurn, Owned, Live!Init, Live!NoOp, Live!Resting

\* The next id is free.
LEMMA NextRow ==
  ASSUME Live!LiveCacheAssumption, LiveInv, asked < MaxOps
  PROVE  Live!NextId \in Live!Ids \ Live!Rows /\ Live!NextId <= asked + 1
<1>1. asked \in Nat /\ MaxOps \in Nat /\ Live!Rows \subseteq Live!Ids
  BY DEF LiveInv, Live!TypeOK, Live!LiveCacheAssumption, Live!Rows
<1>2. MaxOps - 1 \in Nat /\ Live!Rows \in SUBSET (1..(MaxOps - 1))
  BY <1>1 DEF LiveInv, InTurn, Live!Ids
<1> DEFINE First(i) == i - 1 \in Live!Rows \cup {0} /\ \A j \in Live!Rows : j < i
<1>3. \E i \in Live!Ids : First(i)
  <2>1. \E i \in 1..(MaxOps - 1 + 1) : First(i)
    BY <1>2, FirstAfter
  <2> QED BY <1>1, <2>1 DEF Live!Ids
<1>4. Live!NextId = CHOOSE i \in Live!Ids : First(i)
  BY DEF Live!NextId
<1> HIDE DEF First
<1>5. Live!NextId \in Live!Ids /\ First(Live!NextId)
  BY <1>3, <1>4, Zenon
<1>6. Live!NextId \in Nat /\ Live!NextId \notin Live!Rows
  BY <1>5 DEF First, Live!Ids
<1>7. Live!NextId - 1 <= asked
  BY <1>1, <1>5 DEF First, LiveInv, InTurn
<1> QED BY <1>1, <1>5, <1>6, <1>7

\* A row of its own for an edit.
LEMMA RowWritten ==
  ASSUME Live!LiveCacheAssumption, LiveInv, Live!Asks, NEW c \in Cues, NEW u \in Pages,
         NEW l \in {"insert", "repoint"}, edit[c].at = "idle",
         source' = [source EXCEPT ![Live!NextId] = u],
         edit' = [edit EXCEPT ![c] = [at |-> l, id |-> Live!NextId]],
         UNCHANGED <<cue, cached, preloaded, waits, quiet, keeper, faults, caught>>
  PROVE  LiveInv'
<1> DEFINE i == Live!NextId
<1>1. asked < MaxOps /\ asked' = asked + 1 /\ asked \in Nat /\ MaxOps \in Nat
  BY DEF Live!Asks, LiveInv, Live!TypeOK, Live!LiveCacheAssumption
<1>2. i \in Live!Ids \ Live!Rows /\ i <= asked + 1
  BY <1>1, NextRow
<1>3. i \in Nat \ {0}
  BY <1>2 DEF Live!Ids
<1>4. u # 0
  BY DEF Live!LiveCacheAssumption
<1> HIDE DEF i
<1>5. /\ source' = [source EXCEPT ![i] = u] /\ edit' = [edit EXCEPT ![c] = [at |-> l, id |-> i]]
  BY DEF i
<1>6. Live!Rows' = Live!Rows \cup {i}
  BY <1>2, <1>4, <1>5 DEF Live!Rows, LiveInv, Live!TypeOK
<1>7. [at |-> l, id |-> i] \in Edits
  BY <1>2 DEF Edits
<1>8. edit' \in [Cues -> Edits] /\ source' \in [Live!Ids -> Pages \cup {0}]
  BY <1>2, <1>5, <1>7 DEF LiveInv, Live!TypeOK, Edits
<1>9. Live!TypeOK'
  BY <1>1, <1>6, <1>8 DEF LiveInv, Live!TypeOK, Edits
<1>10. InTurn' /\ Keeping'
  BY <1>1, <1>2, <1>6 DEF LiveInv, InTurn, Keeping, Live!Rows, Live!Ids
<1>11. edit'[c].at = l /\ edit'[c].id = i /\ \A d \in Cues \ {c} : edit'[d] = edit[d]
  BY <1>5, <1>7 DEF LiveInv, Live!TypeOK
<1>12. \A d \in Cues : edit'[d].id = 0 <=> edit'[d].at = "idle"
  BY <1>3, <1>11 DEF LiveInv
<1>13. Live!UsedIds' = Live!UsedIds /\ Live!UsedIds \subseteq Live!Rows
  BY DEF Live!UsedIds, LiveInv, Live!TypeOK
<1>14. ASSUME Owned PROVE Owned'
  <2>1. \A d \in Cues : edit[d].id # i
    BY <1>2, <1>3, <1>14 DEF Owned, LiveInv
  <2>2. \A d \in Cues : edit'[d].at # "idle" =>
          /\ edit'[d].id \in Live!Rows' \ Live!UsedIds'
          /\ \A e \in Cues \ {d} : edit'[e].id # edit'[d].id
          /\ \A s \in keeper.orphans : s[1] # edit'[d].id
    <3> SUFFICES ASSUME NEW d \in Cues, edit'[d].at # "idle"
                 PROVE  /\ edit'[d].id \in Live!Rows' \ Live!UsedIds'
                        /\ \A e \in Cues \ {d} : edit'[e].id # edit'[d].id
                        /\ \A s \in keeper.orphans : s[1] # edit'[d].id
      OBVIOUS
    <3>1. CASE d = c
      BY <1>2, <1>6, <1>11, <1>13, <1>14, <2>1, <3>1 DEF Owned
    <3>2. CASE d # c
      BY <1>6, <1>11, <1>13, <1>14, <2>1, <3>2 DEF Owned
    <3> QED BY <3>1, <3>2
  <2>3. \A s \in keeper.orphans : s[1] \in Live!Rows' \ Live!UsedIds' /\ s[2] = source'[s[1]]
    BY <1>2, <1>5, <1>6, <1>13, <1>14 DEF Owned, Live!Rows, LiveInv, Live!TypeOK
  <2> QED BY <1>14, <2>2, <2>3 DEF Owned
<1> QED BY <1>9, <1>10, <1>12, <1>14 DEF LiveInv

LEMMA LiveAdd ==
  ASSUME Live!LiveCacheAssumption, LiveInv, NEW c \in Cues, NEW u \in Pages, Live!Add(c, u)
  PROVE  LiveInv'
  BY RowWritten DEF Live!Add, Live!cache

LEMMA LiveSetURL ==
  ASSUME Live!LiveCacheAssumption, LiveInv, NEW c \in Cues, NEW u \in Pages, Live!SetURL(c, u)
  PROVE  LiveInv'
  BY RowWritten DEF Live!SetURL, Live!cache

\* A step that leaves the rows and the edits alone, and lists none.
LEMMA LiveElsewhere ==
  ASSUME LiveInv, UNCHANGED <<source, cue, edit>>, caught' = caught, Keeping',
         cached' \subseteq Pages, preloaded' \in [Live!Ids -> Pages \cup {0}],
         waits' \subseteq Live!Ids, quiet' \in BOOLEAN, asked' = asked, faults' \in 0..MaxFaults,
         keeper'.orphans \subseteq keeper.orphans
  PROVE  LiveInv'
<1>1. Live!TypeOK'
  BY DEF LiveInv, Live!TypeOK, Live!Rows, Keeping
<1>2. InTurn'
  BY DEF LiveInv, InTurn, Live!Rows
<1>3. caught \/ Owned'
  BY DEF LiveInv, Owned, Live!Rows, Live!UsedIds
<1> QED BY <1>1, <1>2, <1>3 DEF LiveInv

\* The cue takes the row that was written for it.
LEMMA CueTakes ==
  ASSUME LiveInv, NEW c \in Cues, edit[c].at # "idle",
         source' = source, edit' = [edit EXCEPT ![c] = Live!NoOp],
         UNCHANGED <<cached, preloaded, waits, quiet, keeper, asked, faults, caught>>,
         \/ cue' = cue
         \/ edit[c].id \in Live!Rows /\ cue' = [cue EXCEPT ![c] = edit[c].id]
  PROVE  LiveInv'
<1>1. Live!NoOp \in Edits /\ Live!NoOp.at = "idle" /\ Live!NoOp.id = 0
  BY DEF Live!NoOp, Edits
<1>2. /\ edit' \in [Cues -> Edits] /\ edit'[c] = Live!NoOp
      /\ \A d \in Cues \ {c} : edit'[d] = edit[d]
  BY <1>1 DEF LiveInv, Live!TypeOK, Edits
<1>3. Live!Rows' = Live!Rows /\ cue' \in [Cues -> Live!Rows \cup {0}]
  BY DEF LiveInv, Live!TypeOK, Live!Rows
<1>4. Live!TypeOK'
  BY <1>2, <1>3 DEF LiveInv, Live!TypeOK, Edits
<1>5. InTurn' /\ Keeping' /\ \A d \in Cues : edit'[d].id = 0 <=> edit'[d].at = "idle"
  BY <1>1, <1>2, <1>3 DEF LiveInv, InTurn, Keeping
<1>6. ASSUME Owned PROVE Owned'
  <2>1. \A d \in Cues : cue'[d] = cue[d] \/ (d = c /\ cue'[d] = edit[c].id)
    BY DEF LiveInv, Live!TypeOK
  <2>2. Live!UsedIds' \subseteq Live!UsedIds \cup {edit[c].id}
    BY <2>1 DEF Live!UsedIds
  <2>3. \A d \in Cues : cue[d] # edit[c].id
    BY <1>6 DEF Owned, LiveInv, Live!UsedIds
  <2>4. \A d, e \in Cues : d # e /\ cue'[d] # 0 => cue'[d] # cue'[e]
    BY <1>6, <2>1, <2>3 DEF Owned
  <2>5. \A d \in Cues : edit'[d].at # "idle" =>
          /\ edit'[d].id \in Live!Rows' \ Live!UsedIds'
          /\ \A e \in Cues \ {d} : edit'[e].id # edit'[d].id
          /\ \A s \in keeper.orphans : s[1] # edit'[d].id
    <3> SUFFICES ASSUME NEW d \in Cues, edit'[d].at # "idle"
                 PROVE  /\ edit'[d].id \in Live!Rows' \ Live!UsedIds'
                        /\ \A e \in Cues \ {d} : edit'[e].id # edit'[d].id
                        /\ \A s \in keeper.orphans : s[1] # edit'[d].id
      OBVIOUS
    <3>1. d # c /\ edit'[d] = edit[d]
      BY <1>1, <1>2
    <3>2. edit[d].id \in Live!Rows \ Live!UsedIds /\ edit[d].id # edit[c].id /\ edit[d].id # 0
      BY <1>6, <3>1 DEF Owned, LiveInv
    <3> QED BY <1>1, <1>2, <1>3, <1>6, <2>2, <3>1, <3>2 DEF Owned
  <2>6. \A s \in keeper.orphans : s[1] \in Live!Rows' \ Live!UsedIds' /\ s[2] = source'[s[1]]
    BY <1>3, <1>6, <2>2 DEF Owned
  <2> QED BY <2>4, <2>5, <2>6 DEF Owned
<1> QED BY <1>4, <1>5, <1>6 DEF LiveInv

LEMMA LiveInsert ==
  ASSUME LiveInv, NEW c \in Cues, Live!Insert(c) PROVE LiveInv'
<1>1. CASE edit[c].id \in Live!Rows
  BY <1>1, CueTakes DEF Live!Insert, Live!cache
<1>2. CASE edit[c].id \notin Live!Rows
  <2>1. edit[c].id \in Live!Ids /\ source[edit[c].id] = 0
    BY <1>2 DEF Live!Insert, LiveInv, Live!TypeOK, Live!Rows
  <2>2. source' = source
    BY <1>2, <2>1 DEF Live!Insert, LiveInv, Live!TypeOK
  <2> QED BY <1>2, <2>2, CueTakes DEF Live!Insert, Live!cache
<1> QED BY <1>1, <1>2

LEMMA LiveRepoint ==
  ASSUME LiveInv, NEW c \in Cues, Live!Repoint(c) PROVE LiveInv'
  BY CueTakes DEF Live!Repoint, Live!cache

LEMMA LiveDelete ==
  ASSUME Live!LiveCacheAssumption, LiveInv, NEW c \in Cues, Live!Delete(c) PROVE LiveInv'
<1>1. asked' = asked + 1 /\ asked \in Nat /\ asked' \in 0..MaxOps
  BY DEF Live!Delete, Live!Asks, LiveInv, Live!TypeOK, Live!LiveCacheAssumption
<1>2. UNCHANGED <<source, edit, cached, preloaded, waits, quiet, keeper, faults, caught>>
  BY DEF Live!Delete, Live!cache
<1>3. \A d \in Cues : cue'[d] \in {0, cue[d]}
  BY DEF Live!Delete, LiveInv, Live!TypeOK
<1>4. Live!Rows' = Live!Rows /\ cue' \in [Cues -> Live!Rows \cup {0}]
  BY <1>2 DEF Live!Delete, LiveInv, Live!TypeOK, Live!Rows
<1>5. Live!TypeOK'
  BY <1>1, <1>2, <1>4 DEF LiveInv, Live!TypeOK
<1>6. InTurn' /\ Keeping'
  BY <1>1, <1>2, <1>4 DEF LiveInv, InTurn, Keeping, Live!Rows, Live!Ids
<1>7. Live!UsedIds' \subseteq Live!UsedIds
  BY <1>3 DEF Live!UsedIds
<1>8. ASSUME Owned PROVE Owned'
  BY <1>2, <1>3, <1>4, <1>7, <1>8 DEF Owned
<1> QED BY <1>2, <1>5, <1>6, <1>8 DEF LiveInv

-----------------------------------------------------------------------------
\* The keeper's hands, with a list that lost some and the other taken anew.
LEMMA KeepingHolds ==
  ASSUME Keeping, NEW l \in {"rest", "live", "clear", "forget", "drop", "choose"},
         NEW orphans \in Listing, NEW live \in Listing,
         keeper' = [at |-> l, orphans |-> orphans, live |-> live]
  PROVE  Keeping' /\ keeper'.orphans = orphans /\ keeper'.live = live /\ keeper'.at = l
  BY DEF Keeping

LEMMA HandsAre ==
  ASSUME Keeping
  PROVE  keeper = [at |-> keeper.at, orphans |-> keeper.orphans, live |-> keeper.live]
         /\ keeper.orphans \in Listing /\ keeper.live \in Listing
  BY DEF Keeping

\* Of some rows that are listed there is a first.
LEMMA FirstListed ==
  ASSUME NEW S \in Listing, S # {}
  PROVE  \E s \in S : \A o \in S : s[1] <= o[1]
<1>1. {s[1] : s \in S} \in SUBSET Nat /\ {s[1] : s \in S} # {}
  BY DEF Listing, Live!Ids
<1>2. PICK n \in {s[1] : s \in S} : \A m \in {s[1] : s \in S} : n <= m
  BY <1>1, LeastNumber
<1> QED BY <1>2

LEMMA LiveOrphans ==
  ASSUME LiveInv, Live!OrphanEndpoints PROVE LiveInv'
<1> DEFINE orphans == {<<i, source[i]>> : i \in Live!Rows \ Live!UsedIds}
<1>1. orphans \in Listing /\ {} \in Listing
  BY DEF Listing, Live!Rows, LiveInv, Live!TypeOK
<1>2. UNCHANGED <<source, cue, edit, cached, preloaded, waits, quiet, asked, faults>>
  BY DEF Live!OrphanEndpoints, Live!rows, Live!cache
<1>3. keeper' = [at |-> "live", orphans |-> orphans, live |-> {}]
  BY DEF Live!OrphanEndpoints, Live!Resting
<1>4. /\ caught' \in BOOLEAN /\ (caught => caught')
      /\ ~caught' => \A c \in Cues : edit[c].id \notin Live!Rows \ Live!UsedIds
  BY DEF Live!OrphanEndpoints, LiveInv, Live!TypeOK
<1>5. \A s \in orphans : s[1] \in Live!Rows \ Live!UsedIds /\ s[2] = source[s[1]]
  OBVIOUS
<1> HIDE DEF orphans
<1>6. Keeping' /\ keeper'.orphans = orphans /\ keeper'.at = "live"
  BY <1>1, <1>3, KeepingHolds DEF LiveInv
<1>7. Live!TypeOK' /\ InTurn'
  BY <1>2, <1>4, <1>6 DEF LiveInv, Live!TypeOK, Live!Rows, InTurn
<1>8. caught' \/ Owned'
  <2> SUFFICES ASSUME ~caught' PROVE Owned'
    OBVIOUS
  <2>1. Owned
    BY <1>4 DEF LiveInv
  <2>2. \A c \in Cues : \A s \in orphans : s[1] # edit[c].id
    BY <1>4, <1>5
  <2> QED BY <1>2, <1>5, <1>6, <2>1, <2>2 DEF Owned, Live!Rows, Live!UsedIds
<1> QED BY <1>2, <1>6, <1>7, <1>8 DEF LiveInv

LEMMA LiveList == ASSUME LiveInv, Live!ListLive PROVE LiveInv'
<1>1. Live!LiveSources \in Listing
  BY DEF Live!LiveSources, Listing, Live!Rows, LiveInv, Live!TypeOK
<1>2. PICK l \in {"clear", "choose"} :
        keeper' = [at |-> l, orphans |-> keeper.orphans, live |-> Live!LiveSources]
  BY HandsAre DEF Live!ListLive, LiveInv
<1>3. Keeping' /\ keeper'.orphans = keeper.orphans
  BY <1>1, <1>2, HandsAre, KeepingHolds DEF LiveInv
<1> QED BY <1>3, LiveElsewhere DEF Live!ListLive, Live!rows, Live!cache, LiveInv, Live!TypeOK

LEMMA LiveClear ==
  ASSUME Live!LiveCacheAssumption, LiveInv, Live!ClearPages PROVE LiveInv'
<1>1. keeper' = [at |-> "forget", orphans |-> keeper.orphans, live |-> keeper.live]
  BY HandsAre DEF Live!ClearPages, LiveInv
<1>2. Keeping' /\ keeper'.orphans = keeper.orphans
  BY <1>1, HandsAre, KeepingHolds DEF LiveInv
<1>3. cached' \subseteq Pages /\ faults' \in 0..MaxFaults
  BY DEF Live!ClearPages, Live!Kept, Live!Fails, LiveInv, Live!TypeOK, Live!LiveCacheAssumption
<1> QED BY <1>2, <1>3, LiveElsewhere DEF Live!ClearPages, Live!rows, LiveInv, Live!TypeOK

LEMMA LiveForget == ASSUME LiveInv, Live!Forget PROVE LiveInv'
<1>1. keeper' = [at |-> "drop", orphans |-> keeper.orphans, live |-> keeper.live]
  BY HandsAre DEF Live!Forget, LiveInv
<1>2. Keeping' /\ keeper'.orphans = keeper.orphans
  BY <1>1, HandsAre, KeepingHolds DEF LiveInv
<1>3. preloaded' \in [Live!Ids -> Pages \cup {0}]
  BY DEF Live!Forget, Live!Forgotten, LiveInv, Live!TypeOK
<1> QED BY <1>2, <1>3, LiveElsewhere DEF Live!Forget, Live!rows, LiveInv, Live!TypeOK

\* The row that goes was listed, and no cue has it.
LEMMA LiveDrop == ASSUME LiveInv, Live!DropRow PROVE LiveInv' /\ cue' = cue
<1>1. UNCHANGED <<edit, cached, preloaded, waits, quiet, asked, faults, caught>>
  BY DEF Live!DropRow, Live!cache
<1>2. CASE keeper.orphans = {}
  <2>1. keeper' = [at |-> "choose", orphans |-> keeper.orphans, live |-> keeper.live]
    BY <1>2, HandsAre DEF Live!DropRow, LiveInv
  <2>2. Keeping' /\ keeper'.orphans = keeper.orphans
    BY <2>1, HandsAre, KeepingHolds DEF LiveInv
  <2> QED BY <1>1, <1>2, <2>2, LiveElsewhere DEF Live!DropRow, Live!rows, LiveInv, Live!TypeOK
<1>3. CASE keeper.orphans # {}
  <2> DEFINE First(s) == \A o \in keeper.orphans : s[1] <= o[1]
             s == CHOOSE s \in keeper.orphans : First(s)
  <2>1. \E x \in keeper.orphans : First(x)
    BY <1>3, FirstListed, HandsAre DEF LiveInv
  <2>2. /\ keeper' = [keeper EXCEPT !.orphans = @ \ {s}]
        /\ IF Live!Unused(s[1])
           THEN /\ source' = [source EXCEPT ![s[1]] = 0]
                /\ cue' = [c \in Cues |-> IF cue[c] = s[1] THEN 0 ELSE cue[c]]
           ELSE source' = source /\ cue' = cue
    BY <1>3 DEF Live!DropRow, Live!rows
  <2> HIDE DEF First
  <2>3. s \in keeper.orphans
    BY <2>1, Zenon
  <2> HIDE DEF s
  <2>4. /\ keeper' = [at |-> keeper.at, orphans |-> keeper.orphans \ {s}, live |-> keeper.live]
        /\ keeper.orphans \ {s} \in Listing /\ keeper.at = "drop"
    BY <2>2, <2>3, HandsAre DEF Live!DropRow, LiveInv, Listing
  <2>5. Keeping' /\ keeper'.orphans = keeper.orphans \ {s}
    BY <2>4, HandsAre, KeepingHolds DEF LiveInv
  <2>6. cue' = cue
    <3>1. CASE Live!Unused(s[1])
      <4>1. s[1] # 0
        BY <2>3, HandsAre DEF LiveInv, Listing, Live!Ids
      <4>2. \A c \in Cues : cue[c] # s[1]
        BY <3>1, <4>1 DEF Live!Unused, Live!UsedIds
      <4> QED BY <2>2, <3>1, <4>2 DEF LiveInv, Live!TypeOK
    <3> QED BY <2>2, <3>1
  <2>7. CASE source' = source
    BY <1>1, <2>5, <2>6, <2>7, LiveElsewhere DEF LiveInv, Live!TypeOK
  <2>8. CASE Live!Unused(s[1]) /\ source' = [source EXCEPT ![s[1]] = 0]
    <3>1. s[1] \in Live!Ids
      BY <2>3, HandsAre DEF LiveInv, Listing
    <3>2. Live!Rows' = Live!Rows \ {s[1]} /\ source' \in [Live!Ids -> Pages \cup {0}]
      BY <2>8, <3>1 DEF Live!Rows, LiveInv, Live!TypeOK
    <3>3. cue \in [Cues -> Live!Rows' \cup {0}]
      BY <2>8, <3>2 DEF Live!Unused, Live!UsedIds, LiveInv, Live!TypeOK
    <3>4. Live!TypeOK' /\ InTurn'
      BY <1>1, <2>5, <2>6, <3>2, <3>3 DEF LiveInv, Live!TypeOK, InTurn, Keeping
    <3>5. ASSUME Owned PROVE Owned'
      <4>1. \A c \in Cues : edit[c].at # "idle" => edit[c].id # s[1]
        BY <2>3, <3>5 DEF Owned
      <4>2. \A o \in keeper.orphans \ {s} : o[1] # s[1]
        BY <2>3, <3>5, HandsAre DEF Owned, LiveInv, Listing
      <4>3. Live!UsedIds' = Live!UsedIds
        BY <2>6 DEF Live!UsedIds
      <4>4. \A o \in keeper.orphans \ {s} : o[1] \in Live!Rows' \ Live!UsedIds' /\ o[2] = source'[o[1]]
        BY <2>8, <3>1, <3>2, <3>5, <4>2, <4>3 DEF Owned, LiveInv, Live!TypeOK, Live!Rows
      <4> QED BY <1>1, <2>5, <2>6, <3>2, <3>5, <4>1, <4>3, <4>4 DEF Owned
    <3> QED BY <1>1, <2>5, <2>6, <3>4, <3>5 DEF LiveInv
  <2> QED BY <2>2, <2>6, <2>7, <2>8
<1> QED BY <1>2, <1>3 DEF Live!DropRow, Live!rows

LEMMA LiveChoose == ASSUME LiveInv, Live!Choose PROVE LiveInv'
<1>1. UNCHANGED <<source, cue, edit, cached, preloaded, waits, quiet, asked, faults, caught>>
  BY DEF Live!Choose, Live!rows, Live!cache
<1>2. Keeping' /\ keeper'.orphans \subseteq keeper.orphans
  <2>1. CASE keeper' = Live!Resting
    <3>1. {} \in Listing /\ keeper' = [at |-> "rest", orphans |-> {}, live |-> {}]
      BY <2>1 DEF Listing, Live!Resting
    <3>2. Keeping' /\ keeper'.orphans = {}
      BY <3>1, KeepingHolds DEF LiveInv
    <3> QED BY <3>2
  <2>2. CASE Live!Todo # {} /\ keeper' # Live!Resting
    <3> DEFINE First(s) == \A o \in Live!Todo : s[1] <= o[1]
               s == CHOOSE s \in Live!Todo : First(s)
    <3>1. Live!Todo \in Listing
      BY HandsAre DEF Live!Todo, Listing, LiveInv
    <3>2. \E x \in Live!Todo : First(x)
      BY <2>2, <3>1, FirstListed
    <3>3. keeper' = [keeper EXCEPT !.at = "load", !.live = {s}]
      BY <2>2 DEF Live!Choose
    <3> HIDE DEF First
    <3>4. s \in Live!Todo
      BY <3>2, Zenon
    <3> HIDE DEF s
    <3>5. {s} \in Listing
      BY <3>1, <3>4 DEF Listing
    <3>6. keeper' = [at |-> "load", orphans |-> keeper.orphans, live |-> {s}]
      BY <3>3, HandsAre DEF LiveInv
    <3> QED BY <3>5, <3>6, HandsAre DEF LiveInv, Keeping
  <2> QED BY <2>1, <2>2 DEF Live!Choose
<1> QED BY <1>1, <1>2, LiveElsewhere DEF LiveInv, Live!TypeOK

LEMMA LivePreload ==
  ASSUME Live!LiveCacheAssumption, LiveInv, Live!Preload PROVE LiveInv'
<1>1. UNCHANGED <<source, cue, edit, quiet, asked, caught>>
  BY DEF Live!Preload, Live!rows
<1>2. Live!TheSource \in Live!Ids \X Pages
  <2>1. keeper.live # {} /\ keeper.live \in Listing
    BY DEF Live!Preload, LiveInv, Keeping
  <2>2. Live!TheSource \in keeper.live
    BY <2>1, Zenon DEF Live!TheSource
  <2> QED BY <2>1, <2>2 DEF Listing
<1>3. Live!TheSource[1] \in Live!Ids /\ Live!TheSource[2] \in Pages
  BY <1>2
<1>4. Keeping' /\ keeper'.orphans = {}
  <2>1. {} \in Listing /\ keeper' = [at |-> "rest", orphans |-> {}, live |-> {}]
    BY DEF Listing, Live!Preload, Live!Resting
  <2> QED BY <2>1, KeepingHolds DEF LiveInv
<1>5. /\ cached' \subseteq Pages /\ preloaded' \in [Live!Ids -> Pages \cup {0}]
      /\ waits' \subseteq Live!Ids /\ faults' \in 0..MaxFaults
  <2>1. /\ cached \subseteq Pages /\ preloaded \in [Live!Ids -> Pages \cup {0}]
        /\ waits \subseteq Live!Ids /\ faults \in 0..MaxFaults /\ MaxFaults \in Nat
    BY DEF LiveInv, Live!TypeOK, Live!LiveCacheAssumption
  <2> QED BY <1>3, <2>1 DEF Live!Preload, Live!Fails, Live!cache
<1> QED BY <1>1, <1>4, <1>5, LiveElsewhere DEF LiveInv, Live!TypeOK

\* The clock and the wall.
LEMMA LiveAround ==
  ASSUME Live!LiveCacheAssumption, LiveInv,
         \/ \E i \in Live!Ids : Live!RetryDue(i)
         \/ Live!GetBusy \/ Live!GetQuiet \/ UNCHANGED Live!vars
  PROVE  LiveInv' /\ cue' = cue
<1>1. /\ UNCHANGED <<source, cue, edit, cached, preloaded, keeper, asked, caught>>
      /\ waits' \subseteq waits /\ quiet' \in BOOLEAN /\ faults' \in 0..MaxFaults
  <2>1. faults \in 0..MaxFaults /\ MaxFaults \in Nat /\ quiet \in BOOLEAN
    BY DEF LiveInv, Live!TypeOK, Live!LiveCacheAssumption
  <2>2. CASE \E i \in Live!Ids : Live!RetryDue(i)
    BY <2>1, <2>2 DEF Live!RetryDue, Live!rows
  <2>3. CASE Live!GetBusy
    <3>1. faults' \in 0..MaxFaults
      BY <2>1, <2>3 DEF Live!GetBusy, Live!Fails
    <3>2. quiet' = FALSE /\ UNCHANGED <<Live!rows, edit, Live!cache, keeper, asked, caught>>
      BY <2>3 DEF Live!GetBusy
    <3> QED BY <3>1, <3>2 DEF Live!rows, Live!cache
  <2>4. CASE Live!GetQuiet
    BY <2>1, <2>4 DEF Live!GetQuiet, Live!rows, Live!cache
  <2>5. CASE UNCHANGED Live!vars
    BY <2>1, <2>5 DEF Live!vars, Live!rows, Live!cache
  <2> QED BY <2>2, <2>3, <2>4, <2>5
<1>2. Keeping'
  BY <1>1 DEF LiveInv, Keeping
<1> QED BY <1>1, <1>2, LiveElsewhere DEF LiveInv, Live!TypeOK

\* Every step keeps the invariant, and takes a cue away only when one is asked for.
LEMMA LiveNext ==
  ASSUME Live!LiveCacheAssumption, LiveInv, [Live!Next]_(Live!vars)
  PROVE  LiveInv' /\ \A c \in Cues : cue[c] # 0 /\ cue'[c] = 0 => asked' # asked
<1>1. CASE \E c \in Cues : Live!Finish(c)
  <2>1. PICK c \in Cues : Live!Insert(c) \/ Live!Repoint(c)
    BY <1>1 DEF Live!Finish
  <2>2. \A d \in Cues : cue[d] # 0 => cue'[d] # 0
    BY <2>1 DEF Live!Insert, Live!Repoint, LiveInv, Live!TypeOK, Live!Rows, Live!Ids
  <2> QED BY <2>1, <2>2, LiveInsert, LiveRepoint
<1>2. CASE \E c \in Cues : Live!Delete(c)
  <2>1. asked' # asked
    BY <1>2 DEF Live!Delete, Live!Asks, LiveInv, Live!TypeOK
  <2> QED BY <1>2, <2>1, LiveDelete
<1>3. CASE \E c \in Cues, u \in Pages : Live!Add(c, u) \/ Live!SetURL(c, u)
  <2>1. cue' = cue
    BY <1>3 DEF Live!Add, Live!SetURL
  <2> QED BY <1>3, <2>1, LiveAdd, LiveSetURL
<1>4. CASE Live!Keep
  <2>1. CASE Live!DropRow
    BY <2>1, LiveDrop
  <2>2. CASE Live!OrphanEndpoints \/ Live!ListLive \/ Live!ClearPages \/ Live!Forget
             \/ Live!Choose \/ Live!Preload
    <3>1. cue' = cue
      BY <2>2 DEF Live!OrphanEndpoints, Live!ListLive, Live!ClearPages, Live!Forget,
                  Live!Choose, Live!Preload, Live!rows
    <3> QED BY <2>2, <3>1, LiveOrphans, LiveList, LiveClear, LiveForget, LiveChoose, LivePreload
  <2> QED BY <1>4, <2>1, <2>2 DEF Live!Keep
<1>5. CASE \/ \E i \in Live!Ids : Live!RetryDue(i)
           \/ Live!GetBusy \/ Live!GetQuiet \/ UNCHANGED Live!vars
  BY <1>5, LiveAround
<1> QED BY <1>1, <1>2, <1>3, <1>4, <1>5 DEF Live!Next

LEMMA LiveInvariant ==
  ASSUME Live!LiveCacheAssumption PROVE Live!Spec => []LiveInv
<1>1. Live!Init => LiveInv
  BY LiveInit
<1>2. LiveInv /\ [Live!Next]_(Live!vars) => LiveInv'
  BY LiveNext
<1> QED BY <1>1, <1>2, PTL DEF Live!Spec

\* AddEndpoint's id, the largest in use plus one, never exceeds the number of adds and edits
\* that were made, and a cue's source is always a row that is there (the foreign key).
THEOREM LiveTypesHold ==
  ASSUME Live!LiveCacheAssumption PROVE Live!Spec => []Live!TypeOK
<1>1. LiveInv => Live!TypeOK
  BY DEF LiveInv
<1> QED BY <1>1, LiveInvariant, PTL

\* However adds and edits of live cues interleave with the keeper's pass, and although the
\* id of a deleted row is given again, no two cues share a source row, as ctp.go says of a
\* live cue, unless the keeper listed a row in the window before its cue was there.
THEOREM LiveCuesOwnTheirRows ==
  ASSUME Live!LiveCacheAssumption PROVE Live!Spec => []Live!OwnsItsRow
<1>1. LiveInv => Live!OwnsItsRow
  BY DEF LiveInv, Owned, Live!OwnsItsRow
<1> QED BY <1>1, LiveInvariant, PTL

\* A row that is deleted takes its cues with it (ON DELETE CASCADE), but the keeper deletes
\* only rows no cue has: whatever was edited since it listed them, its pass removes no cue.
THEOREM LiveKeeperSparesCues ==
  ASSUME Live!LiveCacheAssumption PROVE Live!Spec => Live!KeeperSparesCues
<1>1. LiveInv /\ [Live!Next]_(Live!vars)
      => [\A c \in Cues : cue[c] # 0 /\ cue'[c] = 0 => asked' # asked]_(Live!vars)
  BY LiveNext
<1> QED BY <1>1, LiveInvariant, PTL DEF Live!Spec, Live!KeeperSparesCues
=============================================================================
