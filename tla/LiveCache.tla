------------------------------ MODULE LiveCache ------------------------------
(***************************************************************************)
(* Live-page cues and the keeper of their cached pages (routes/livecache.  *)
(* go, ctp.AddLiveCue, SetCueEndpointURL and the endpoint queries).  A     *)
(* live cue owns a source row; the row is written before the cue that uses *)
(* it, and the keeper deletes the rows no cue uses, so the window between  *)
(* the two is the interesting part.                                        *)
(*                                                                         *)
(* A page is a number and its site the number's parity.  A row's id is the *)
(* largest one in use plus one: an id may be used again.  The wait after a *)
(* failed preload (a minute doubling to an hour) is a flag and a timer.    *)
(***************************************************************************)
EXTENDS Naturals, FiniteSets

CONSTANTS
  Cues,      \* cues that may be live pages
  Pages,     \* their addresses, numbers
  MaxOps,    \* bound: adds, edits and deletes
  MaxFaults  \* bound: preloads and clears that fail, times the wall gets busy

LiveCacheAssumption == Pages \subseteq Nat \ {0} /\ MaxOps \in Nat /\ MaxFaults \in Nat

VARIABLES
  source,     \* [Ids -> page]: the endpoint rows of mediapool, 0 = no row
  cue,        \* [Cues -> id]: the cue's source, 0 = no such cue
  op,         \* [Cues -> [at, id]]: the add or edit of the cue
  cached,     \* the pages on disk
  preloaded,  \* [Ids -> page]: preloaded this run
  waits,      \* the ids whose next try is not yet due (preloadAt)
  quiet,      \* nothing has played for the quiet period
  caught,     \* the keeper has listed a row before its cue was there
  keeper,     \* [at, orphans, live]: the keeper's pass
  ops, faults

rows == <<source, cue>>
cache == <<cached, preloaded, waits>>
vars == <<rows, op, cache, quiet, keeper, caught, ops, faults>>

Ids == 1..MaxOps
Site(u) == u % 2
NoOp == [at |-> "idle", id |-> 0]
Resting == [at |-> "rest", orphans |-> {}, live |-> {}]

Init ==
  /\ source = [i \in Ids |-> 0] /\ cue = [c \in Cues |-> 0] /\ op = [c \in Cues |-> NoOp]
  /\ cached = {} /\ preloaded = [i \in Ids |-> 0] /\ waits = {}
  /\ quiet = TRUE /\ keeper = Resting /\ caught = FALSE
  /\ ops = 0 /\ faults = 0

Rows == {i \in Ids : source[i] # 0}
UsedIds == {cue[c] : c \in Cues} \ {0}
NextId == CHOOSE i \in Ids : i - 1 \in Rows \cup {0} /\ \A j \in Rows : j < i

Asks == ops < MaxOps /\ ops' = ops + 1
Fails == faults < MaxFaults /\ faults' = faults + 1

-----------------------------------------------------------------------------
\* AddEndpoint: a row of its own for the page; AddLiveCue ...
Add(c, u) ==
  /\ Asks
  /\ op[c].at = "idle" /\ cue[c] = 0
  /\ source' = [source EXCEPT ![NextId] = u]
  /\ op' = [op EXCEPT ![c] = [at |-> "insert", id |-> NextId]]
  /\ UNCHANGED <<cue, cache, quiet, keeper, faults, caught>>

\* ... and then the cue; without the row the insert is refused, and the add
\* takes the row of that id back.
Insert(c) ==
  /\ op[c].at = "insert"
  /\ IF op[c].id \in Rows
     THEN cue' = [cue EXCEPT ![c] = op[c].id] /\ UNCHANGED source
     ELSE source' = [source EXCEPT ![op[c].id] = 0] /\ UNCHANGED cue
  /\ op' = [op EXCEPT ![c] = NoOp]
  /\ UNCHANGED <<cache, quiet, keeper, ops, faults, caught>>

\* SetCueEndpointURL: a fresh row, unless the page is the same ...
SetURL(c, u) ==
  /\ Asks
  /\ op[c].at = "idle" /\ cue[c] # 0 /\ source[cue[c]] # u
  /\ source' = [source EXCEPT ![NextId] = u]
  /\ op' = [op EXCEPT ![c] = [at |-> "repoint", id |-> NextId]]
  /\ UNCHANGED <<cue, cache, quiet, keeper, faults, caught>>

\* ... and the cue is pointed at it, if both are still there.
Repoint(c) ==
  /\ op[c].at = "repoint"
  /\ cue' = IF cue[c] # 0 /\ op[c].id \in Rows THEN [cue EXCEPT ![c] = op[c].id] ELSE cue
  /\ op' = [op EXCEPT ![c] = NoOp]
  /\ UNCHANGED <<source, cache, quiet, keeper, ops, faults, caught>>

\* The cue is deleted, or its sheet cleared: the row stays.
Delete(c) ==
  /\ Asks
  /\ cue[c] # 0 /\ cue' = [cue EXCEPT ![c] = 0]
  /\ UNCHANGED <<source, op, cache, quiet, keeper, faults, caught>>

-----------------------------------------------------------------------------
LiveSources == {<<i, source[i]>> : i \in Rows \cap UsedIds}

\* keepLiveCache: the rows without a cue ...
OrphanEndpoints ==
  /\ keeper.at = "rest"
  /\ keeper' = [Resting EXCEPT !.at = "live",
                               !.orphans = {<<i, source[i]>> : i \in Rows \ UsedIds}]
  /\ caught' = (caught \/ \E c \in Cues : op[c].id \in Rows \ UsedIds)
  /\ UNCHANGED <<rows, op, cache, quiet, ops, faults>>

\* ... and then those with one.
ListLive ==
  /\ keeper.at = "live"
  /\ keeper' = [keeper EXCEPT !.live = LiveSources,
                              !.at = IF keeper.orphans # {} THEN "clear" ELSE "choose"]
  /\ UNCHANGED <<rows, op, cache, quiet, ops, faults, caught>>

\* The pages that outlive a clear: those of other sites than the orphans', and
\* of sites a live cue uses.
Kept == {u \in cached : (\E s \in keeper.live : Site(s[2]) = Site(u))
                        \/ \A s \in keeper.orphans : Site(s[2]) # Site(u)}

\* dropOrphanSources: the assets of the orphans' sites, not tried again when
\* it fails ...
ClearPages ==
  /\ keeper.at = "clear"
  /\ \/ cached' = Kept /\ UNCHANGED faults
     \/ Fails /\ UNCHANGED cached
  /\ keeper' = [keeper EXCEPT !.at = "forget"]
  /\ UNCHANGED <<rows, op, preloaded, waits, quiet, ops, caught>>

\* Mutant of Forgotten: what was preloaded stays noted.
Remembered == preloaded

Forgotten == [i \in Ids |-> IF \E s \in keeper.orphans : s[1] = i THEN 0 ELSE preloaded[i]]

\* ... what was noted of them ...
Forget ==
  /\ keeper.at = "forget"
  /\ preloaded' = Forgotten
  /\ waits' = waits \ {s[1] : s \in keeper.orphans}
  /\ keeper' = [keeper EXCEPT !.at = "drop"]
  /\ UNCHANGED <<rows, op, cached, quiet, ops, faults, caught>>

\* The guard in the DELETE itself: still no cue uses the row.
Unused(i) == i \notin UsedIds

\* ... and the rows, one by one.  (A row that is deleted takes its cues with it.)
DropRow ==
  /\ keeper.at = "drop"
  /\ IF keeper.orphans = {}
     THEN keeper' = [keeper EXCEPT !.at = "choose"] /\ UNCHANGED rows
     ELSE LET s == CHOOSE s \in keeper.orphans : \A o \in keeper.orphans : s[1] <= o[1] IN
            /\ keeper' = [keeper EXCEPT !.orphans = @ \ {s}]
            /\ IF Unused(s[1])
               THEN /\ source' = [source EXCEPT ![s[1]] = 0]
                    /\ cue' = [c \in Cues |-> IF cue[c] = s[1] THEN 0 ELSE cue[c]]
               ELSE UNCHANGED rows
  /\ UNCHANGED <<op, cache, quiet, ops, faults, caught>>

\* preloadNext: while it is quiet, the first live page that is not preloaded
\* and may be tried.
Todo == {s \in keeper.live : preloaded[s[1]] # s[2] /\ s[1] \notin waits}

Choose ==
  /\ keeper.at = "choose"
  /\ keeper' = IF ~quiet \/ Todo = {} THEN Resting
               ELSE [keeper EXCEPT !.at = "load",
                       !.live = {CHOOSE s \in Todo : \A o \in Todo : s[1] <= o[1]}]
  /\ UNCHANGED <<rows, op, cache, quiet, ops, faults, caught>>

TheSource == CHOOSE s \in keeper.live : TRUE

\* It loads; stops because the wall gets busy; or fails and waits.
Preload ==
  /\ keeper.at = "load"
  /\ \/ /\ quiet
        /\ cached' = cached \cup {TheSource[2]}
        /\ preloaded' = [preloaded EXCEPT ![TheSource[1]] = TheSource[2]]
        /\ waits' = waits \ {TheSource[1]}
        /\ UNCHANGED faults
     \/ ~quiet /\ UNCHANGED <<cache, faults>>
     \/ /\ Fails
        /\ waits' = waits \cup {TheSource[1]}
        /\ UNCHANGED <<cached, preloaded>>
  /\ keeper' = Resting
  /\ UNCHANGED <<rows, op, quiet, ops, caught>>

\* The wait is over.
RetryDue(i) ==
  /\ i \in waits /\ waits' = waits \ {i}
  /\ UNCHANGED <<rows, op, cached, preloaded, quiet, keeper, ops, faults, caught>>

\* Something plays; the quiet period is over.
GetBusy ==
  /\ Fails /\ quiet /\ quiet' = FALSE
  /\ UNCHANGED <<rows, op, cache, keeper, ops, caught>>

GetQuiet ==
  /\ ~quiet /\ quiet' = TRUE
  /\ UNCHANGED <<rows, op, cache, keeper, ops, faults, caught>>

Keep == OrphanEndpoints \/ ListLive \/ ClearPages \/ Forget \/ DropRow \/ Choose \/ Preload
Finish(c) == Insert(c) \/ Repoint(c)

Next ==
  \/ Keep \/ GetBusy \/ GetQuiet
  \/ \E c \in Cues : Finish(c) \/ Delete(c) \/ (\E u \in Pages : Add(c, u) \/ SetURL(c, u))
  \/ \E i \in Ids : RetryDue(i)

\* The keeper runs for ever, a retry falls due, and what plays ends.
Running ==
  /\ WF_vars(Keep) /\ WF_vars(GetQuiet)
  /\ \A c \in Cues : WF_vars(Finish(c))
  /\ \A i \in Ids : WF_vars(RetryDue(i))

Spec == Init /\ [][Next]_vars /\ Running

-----------------------------------------------------------------------------
TypeOK ==
  /\ source \in [Ids -> Pages \cup {0}] /\ cue \in [Cues -> Rows \cup {0}]
  /\ op \in [Cues -> [at : {"idle", "insert", "repoint"}, id : Ids \cup {0}]]
  /\ cached \subseteq Pages /\ preloaded \in [Ids -> Pages \cup {0}]
  /\ waits \subseteq Ids /\ caught \in BOOLEAN
  /\ quiet \in BOOLEAN /\ ops \in 0..MaxOps /\ faults \in 0..MaxFaults
  /\ keeper.at \in {"rest", "live", "clear", "forget", "drop", "choose", "load"}

\* The keeper takes no cue away.
KeeperSparesCues == [][\A c \in Cues : cue[c] # 0 /\ cue'[c] = 0 => ops' # ops]_vars

\* What ctp.go says of a live cue: it owns its row.  So it does, unless the
\* keeper's list fell between a row and its cue.
OwnsItsRow == caught \/ \A c, d \in Cues : c # d /\ cue[c] # 0 => cue[c] # cue[d]

\* Once nothing changes any more, every live page is on disk and every row has a
\* cue: no clear for an orphan takes the site from under a cue that counts as
\* preloaded, no id that is used again passes for the page that had it before.
PagesPreloaded ==
  []~caught => <>[](Rows = UsedIds /\ \A i \in UsedIds : source[i] \in cached)
=============================================================================
