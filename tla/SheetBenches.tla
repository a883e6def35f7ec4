---------------------------- MODULE SheetBenches ----------------------------
(***************************************************************************)
(* What is stored, explored side by side: the sheet under edits, the sheet *)
(* under imports of shows, the media pool, and the live pages.  "which" is *)
(* the one that moves, the others rest.  MCCueSheet makes the cues of the  *)
(* sheet symmetric: where fairness matters (pool, live) there are none.    *)
(***************************************************************************)
EXTENDS MCCueSheet

VARIABLES
  which,
  disk, row, held, peaks, on, req, worker, jobs, torn,
  source, page, op, cached, preloaded, waits, quiet, keeper, caught, asked, faults

\* A show of one cue more, without imports.
Sheets == INSTANCE ShowImport WITH
  Start <- 3, MaxGroups <- 2, MaxIndex <- 224, Edits <- Edits \ {"import"}

\* Two requests at a time and the worker, over two names of files.
Pool == INSTANCE MediaPool WITH
  MaxNames <- 2, Requests <- {"r1", "r2"},
  Ops <- {"new", "rename", "replace", "name", "delete", "go", "analyse", "crash"},
  MaxOps <- 3, Faults <- TRUE, ops <- jobs

\* Two live cues, two pages of one site.
Live == INSTANCE LiveCache WITH
  Cues <- {"l1", "l2"}, Pages <- {1, 3}, MaxOps <- 3, MaxFaults <- 1,
  cue <- page, ops <- asked

ASSUME BenchAssumption ==
  Sheets!CueSheetAssumption /\ Pool!MediaPoolAssumption /\ Live!LiveCacheAssumption

poolVars == <<disk, row, held, peaks, on, req, worker, jobs, torn>>
liveVars == <<source, page, op, cached, preloaded, waits, quiet, keeper, caught, asked, faults>>

NoShow == cue = <<>> /\ group = <<>> /\ anchor = 0 /\ set = {} /\ edits = 0

BenchInit ==
  /\ Pool!Init /\ Live!Init
  /\ \/ which = "edits" /\ Sheets!Init
     \/ which = "import" /\ Init
     \/ which \in {"pool", "live"} /\ NoShow

SheetMoves ==
  /\ \/ which = "edits" /\ Sheets!Next
     \/ which = "import" /\ (Next \/ Import)
  /\ UNCHANGED <<poolVars, liveVars, which>>
PoolMoves == which = "pool" /\ Pool!Next /\ UNCHANGED <<vars, liveVars, which>>
LiveMoves == which = "live" /\ Live!Next /\ UNCHANGED <<vars, poolVars, which>>

Benches ==
  /\ BenchInit
  /\ [][SheetMoves \/ PoolMoves \/ LiveMoves]_<<vars, poolVars, liveVars, which>>
  /\ WF_poolVars(which = "pool" /\ Pool!Work)
  /\ \A t \in {"r1", "r2"} : WF_poolVars(which = "pool" /\ Pool!Handle(t))
  /\ WF_liveVars(which = "live" /\ Live!Keep) /\ WF_liveVars(which = "live" /\ Live!GetQuiet)
  /\ \A c \in {"l1", "l2"} : WF_liveVars(which = "live" /\ Live!Finish(c))
  /\ \A i \in Live!Ids : WF_liveVars(which = "live" /\ Live!RetryDue(i))

-----------------------------------------------------------------------------
\* No import overwrites a file nobody asked it to, a row has the file it was probed from
\* unless a crash or a delete cut an import in two, and the worker gets done.
PoolSound ==
  /\ [](which = "pool" => Pool!TypeOK) /\ []Pool!RowHasItsFile
  /\ Pool!NothingOverwritten /\ Pool!WorkEnds

\* The keeper takes no cue away, and every live page ends up on disk.
LiveSound ==
  /\ [](which = "live" => Live!TypeOK) /\ []Live!OwnsItsRow
  /\ Live!KeeperSparesCues /\ Live!PagesPreloaded
=============================================================================
