------------------------------ MODULE MediaPool ------------------------------
(***************************************************************************)
(* The media pool: uploads, downloads and show imports (routes/upload.go,  *)
(* routes/youtube.go, importMedia), renames and deletes of pool files, and *)
(* the worker that makes their thumbnails and waveforms.                   *)
(*                                                                         *)
(* A file's content is a number, 0 is no file.  Names are numbers: the     *)
(* candidates "name (2)", "name (3)" of a name that is taken are the       *)
(* numbers after it.  A row's id is the largest one in use plus one, so an *)
(* id may be used again.                                                   *)
(***************************************************************************)
EXTENDS Naturals

CONSTANTS
  MaxNames,   \* bound: how many names of files there are
  Requests,   \* requests handled at a time
  Ops,        \* what they ask for, and "crash"
  MaxOps,     \* bound: how many
  Faults      \* a probe, a move, a decode may fail

MediaPoolAssumption ==
  /\ MaxNames \in Nat /\ MaxOps \in Nat /\ Faults \in BOOLEAN

VARIABLES
  disk,    \* [Names -> content]: the media folder
  row,     \* [Names -> [id, c, thumb, wave, missing]]: mediapool, id 0 = no row;
           \* c is the content that was probed
  held,    \* the names that are reserved (mediaNameHeld)
  peaks,   \* [Ids -> content]: media_waveform, by the row's id
  on,      \* the file that plays, 0 = none
  req,     \* [Requests -> [at, op, n, from, c, old]]: old is the content set aside
  worker,  \* [at, todo, m, got]: the rows still to do, the one at hand, what was decoded
  ops,     \* what was asked for so far
  torn     \* names of which a delete or a crash cut an import in two

files == <<disk, row>>
vars == <<files, held, peaks, on, req, worker, ops, torn>>

Names == 1..MaxNames
Ids == 1..MaxOps
NoRow == [id |-> 0, c |-> 0, thumb |-> FALSE, wave |-> FALSE, missing |-> FALSE]
NoReq == [at |-> "idle", op |-> "none", n |-> 0, from |-> 0, c |-> 0, old |-> 0]
NoWork == [n |-> 0, id |-> 0, thumb |-> FALSE, wave |-> FALSE]
Waiting == [at |-> "wait", todo |-> {}, m |-> NoWork, got |-> 0]

Init ==
  /\ disk = [n \in Names |-> 0] /\ row = [n \in Names |-> NoRow]
  /\ held = {} /\ peaks = [i \in Ids |-> 0] /\ on = 0
  /\ req = [t \in Requests |-> NoReq] /\ worker = Waiting
  /\ ops = 0 /\ torn = {}

Registered(n) == row[n].id # 0
Used == {row[n].id : n \in Names} \ {0}
NextId == CHOOSE i \in Ids : i - 1 \in Used \cup {0} /\ \A j \in Used : j < i

Asks(op) == op \in Ops /\ ops < MaxOps /\ ops' = ops + 1
Goto(t, l) == req' = [req EXCEPT ![t].at = l]
Done(t) == req' = [req EXCEPT ![t] = NoReq]

-----------------------------------------------------------------------------
Taken(n) == n \in held \/ disk[n] # 0

\* reserveMediaName: the name an import may write in its mode.
Reserved(op, n) ==
  CASE op = "new" -> {m \in {n} : ~Taken(m)}
    [] op = "rename" -> {m \in Names : m >= n /\ ~Taken(m) /\ \A k \in n..(m - 1) : Taken(k)}
    [] op = "replace" -> {n} \ held

\* An upload, a download (rename) or a file of a show (replace) reserves its
\* name; a refusal ends it.  Its content is new.
Import(t, op, n) ==
  /\ req[t].at = "idle" /\ Asks(op)
  /\ IF Reserved(op, n) = {}
     THEN UNCHANGED <<held, req>>
     ELSE \E m \in Reserved(op, n) :
            /\ held' = held \cup {m}
            /\ req' = [req EXCEPT ![t] = [NoReq EXCEPT !.at = "check", !.op = op, !.n = m,
                                                       !.c = ops + 1]]
  /\ UNCHANGED <<files, peaks, on, worker, torn>>

\* The name is released when the import is over.
Release(t) == held' = held \ {req[t].n, req[t].from} /\ Done(t)

\* importMedia: not the clip that plays; then the file is probed.
CheckPlaying(t) ==
  /\ req[t].at = "check"
  /\ IF on = req[t].n /\ disk[req[t].n] # 0 THEN Release(t)
     ELSE Goto(t, "probe") /\ UNCHANGED held
  /\ UNCHANGED <<files, peaks, on, worker, ops, torn>>

Probe(t) ==
  /\ req[t].at = "probe"
  /\ \/ Goto(t, "park") /\ UNCHANGED held
     \/ Faults /\ Release(t)
  /\ UNCHANGED <<files, peaks, on, worker, ops, torn>>

\* A file of that name is set aside ...
Park(t) ==
  /\ req[t].at = "park"
  /\ req' = [req EXCEPT ![t].at = "move", ![t].old = disk[req[t].n]]
  /\ disk' = [disk EXCEPT ![req[t].n] = 0]
  /\ UNCHANGED <<row, held, peaks, on, worker, ops, torn>>

Restored(t) == req[t].old

\* ... the new one moved into place, or the old one restored ...
Move(t) ==
  /\ req[t].at = "move"
  /\ \/ disk' = [disk EXCEPT ![req[t].n] = req[t].c] /\ Goto(t, "register") /\ UNCHANGED held
     \/ Faults /\ disk' = [disk EXCEPT ![req[t].n] = Restored(t)] /\ Release(t)
  /\ UNCHANGED <<row, peaks, on, worker, ops, torn>>

\* ... and registered: a row of that name keeps its id and is worked on again.
RegisterMedia(t) ==
  /\ req[t].at = "register"
  /\ \/ /\ row' = [row EXCEPT ![req[t].n] =
                     [id |-> IF Registered(req[t].n) THEN @.id ELSE NextId,
                      c |-> req[t].c, thumb |-> TRUE, wave |-> TRUE, missing |-> FALSE]]
        /\ torn' = torn \ {m \in {req[t].n} : disk[m] = req[t].c}
        /\ UNCHANGED disk
     \/ Faults /\ disk' = [disk EXCEPT ![req[t].n] = Restored(t)] /\ UNCHANGED <<row, torn>>
  /\ Release(t)
  /\ UNCHANGED <<peaks, on, worker, ops>>

-----------------------------------------------------------------------------
\* handleYoutubeRename: not the clip that plays, and the file must be there.
Rename(t, n, m) ==
  /\ req[t].at = "idle" /\ Asks("name")
  /\ n # m
  /\ IF on # n /\ disk[n] # 0
     THEN req' = [req EXCEPT ![t] = [NoReq EXCEPT !.at = "new", !.op = "name", !.n = m,
                                                  !.from = n]]
     ELSE UNCHANGED req
  /\ UNCHANGED <<files, held, peaks, on, worker, torn>>

\* Both names are held, the new one first.
HoldNew(t) ==
  /\ req[t].at = "new"
  /\ IF Taken(req[t].n) THEN Done(t) /\ UNCHANGED held
     ELSE held' = held \cup {req[t].n} /\ Goto(t, "old")
  /\ UNCHANGED <<files, peaks, on, worker, ops, torn>>

HoldOld(t) ==
  /\ req[t].at = "old"
  /\ IF req[t].from \in held THEN held' = held \ {req[t].n} /\ Done(t)
     ELSE held' = held \cup {req[t].from} /\ Goto(t, "file")
  /\ UNCHANGED <<files, peaks, on, worker, ops, torn>>

\* A file that is gone by now refuses the rename.
RenameFile(t) ==
  /\ req[t].at = "file"
  /\ IF disk[req[t].from] = 0 THEN Release(t) /\ UNCHANGED disk
     ELSE /\ disk' = [disk EXCEPT ![req[t].n] = disk[req[t].from], ![req[t].from] = 0]
          /\ Goto(t, "row") /\ UNCHANGED held
  /\ UNCHANGED <<row, peaks, on, worker, ops, torn>>

\* RenameMedia: a row of the new name makes the file go back.  (What was cut in
\* two takes its new name.)
RenameRow(t) ==
  /\ req[t].at = "row"
  /\ IF Registered(req[t].n)
     THEN /\ disk' = [disk EXCEPT ![req[t].from] = disk[req[t].n], ![req[t].n] = 0]
          /\ UNCHANGED <<row, torn>>
     ELSE /\ torn' = torn \cup {n \in {req[t].n} : req[t].from \in torn}
          /\ row' = [row EXCEPT ![req[t].n] = row[req[t].from], ![req[t].from] = NoRow]
          /\ UNCHANGED disk
  /\ Release(t)
  /\ UNCHANGED <<peaks, on, worker, ops>>

-----------------------------------------------------------------------------
\* The pool's delete: not the clip that plays; the row, then the file, and no
\* name is held.
Delete(t, n) ==
  /\ req[t].at = "idle" /\ Asks("delete")
  /\ Registered(n) /\ on # n
  /\ req' = [req EXCEPT ![t] = [NoReq EXCEPT !.at = "drow", !.op = "delete", !.n = n]]
  /\ UNCHANGED <<files, held, peaks, on, worker, torn>>

DeleteRow(t) ==
  /\ req[t].at = "drow"
  /\ IF Registered(req[t].n)
     THEN /\ row' = [row EXCEPT ![req[t].n] = NoRow]
          /\ peaks' = [peaks EXCEPT ![row[req[t].n].id] = 0]
          /\ Goto(t, "dfile")
     ELSE Done(t) /\ UNCHANGED <<row, peaks>>
  /\ UNCHANGED <<disk, held, on, worker, ops, torn>>

\* (An import of this name that began since then is cut in two, and so is a rename to it.)
DeleteFile(t) ==
  /\ req[t].at = "dfile"
  /\ disk' = [disk EXCEPT ![req[t].n] = 0]
  /\ torn' = torn \cup {n \in {req[t].n} : n \in held \/ Registered(n)}
                  \cup {req[u].from : u \in {r \in Requests : req[r].at = "row" /\ req[r].n = req[t].n}}
  /\ Done(t)
  /\ UNCHANGED <<row, held, peaks, on, worker, ops>>

\* The operator plays a file of the pool, or stops.
GoOrStop(n) ==
  /\ Asks("go")
  /\ on # n /\ on' = n
  /\ n # 0 => Registered(n) /\ disk[n] # 0
  /\ UNCHANGED <<files, held, peaks, req, worker, torn>>

\* The refresh and Analyse buttons.
Request(n) ==
  /\ Asks("analyse")
  /\ Registered(n)
  /\ \/ row' = [row EXCEPT ![n].thumb = TRUE]
     \/ row' = [row EXCEPT ![n].wave = TRUE]
  /\ UNCHANGED <<disk, held, peaks, on, req, worker, torn>>

\* The process dies and is started again: MarkMissingFiles.
Crash ==
  /\ Asks("crash")
  /\ req' = [t \in Requests |-> NoReq] /\ worker' = Waiting
  /\ held' = {} /\ on' = 0 /\ torn' = torn \cup held
  /\ row' = [n \in Names |-> [row[n] EXCEPT !.missing = Registered(n) /\ disk[n] = 0]]
  /\ UNCHANGED <<disk, peaks>>

-----------------------------------------------------------------------------
\* Mutant of Pending: the rows without a thumbnail only.
NoThumbnail(n) == Registered(n) /\ row[n].thumb

\* PendingThumbnails.
Pending(n) == Registered(n) /\ (row[n].thumb \/ row[n].wave)

\* RunThumbnailWorker: every two seconds the rows that are pending ...
Poll ==
  /\ worker.at = "wait"
  /\ \E n \in Names : Pending(n)
  /\ worker' = [Waiting EXCEPT !.at = "next",
                  !.todo = {[n |-> n, id |-> row[n].id, thumb |-> row[n].thumb,
                             wave |-> row[n].wave] : n \in {k \in Names : Pending(k)}}]
  /\ UNCHANGED <<files, held, peaks, on, req, ops, torn>>

\* ... one by one ...
Pick ==
  /\ worker.at = "next"
  /\ IF worker.todo = {} THEN worker' = Waiting
     ELSE \E m \in worker.todo :
            worker' = [worker EXCEPT !.todo = @ \ {m}, !.m = m,
                                     !.at = IF m.thumb THEN "thumb" ELSE "decode"]
  /\ UNCHANGED <<files, held, peaks, on, req, ops, torn>>

\* An UPDATE ... WHERE media_id = id.
Clear(id, f) ==
  [n \in Names |-> IF Registered(n) /\ row[n].id = id THEN [row[n] EXCEPT ![f] = FALSE]
                   ELSE row[n]]

\* ... the thumbnail, whose failure ends this row's turn (MarkThumbnailDone) ...
Thumbnail ==
  /\ worker.at = "thumb"
  /\ row' = Clear(worker.m.id, "thumb")
  /\ \/ disk[worker.m.n] # 0
        /\ worker' = [worker EXCEPT !.at = IF worker.m.wave THEN "decode" ELSE "next"]
     \/ (Faults \/ disk[worker.m.n] = 0) /\ worker' = [worker EXCEPT !.at = "next"]
  /\ UNCHANGED <<disk, held, peaks, on, req, ops, torn>>

\* ... the loudness and the peaks of the file as it is now ...
Decode ==
  /\ worker.at = "decode"
  /\ \/ worker' = [worker EXCEPT !.at = "store", !.got = disk[worker.m.n]]
     \/ Faults /\ worker' = [worker EXCEPT !.at = "store", !.got = 0]
  /\ UNCHANGED <<files, held, peaks, on, req, ops, torn>>

\* ... stored under its id (StoreWaveform; a row that is gone refuses the
\* peaks), or given up (FailWaveform).
Store ==
  /\ worker.at = "store"
  /\ peaks' = IF worker.got # 0 /\ worker.m.id \in Used
              THEN [peaks EXCEPT ![worker.m.id] = worker.got] ELSE peaks
  /\ row' = Clear(worker.m.id, "wave")
  /\ worker' = [worker EXCEPT !.at = "next", !.got = 0]
  /\ UNCHANGED <<disk, held, on, req, ops, torn>>

Work == Poll \/ Pick \/ Thumbnail \/ Decode \/ Store

Handle(t) ==
  \/ CheckPlaying(t) \/ Probe(t) \/ Park(t) \/ Move(t) \/ RegisterMedia(t)
  \/ HoldNew(t) \/ HoldOld(t) \/ RenameFile(t) \/ RenameRow(t)
  \/ DeleteRow(t) \/ DeleteFile(t)

Next ==
  \/ Work \/ Crash
  \/ \E t \in Requests : Handle(t)
  \/ \E t \in Requests, n \in Names :
       Delete(t, n) \/ (\E op \in {"new", "rename", "replace"} : Import(t, op, n))
  \/ \E t \in Requests, n, m \in Names : Rename(t, n, m)
  \/ \E n \in Names : Request(n)
  \/ \E n \in Names \cup {0} : GoOrStop(n)

\* The worker and the handlers run on; nobody has to ask for anything.
Running == WF_vars(Work) /\ \A t \in Requests : WF_vars(Handle(t))
Spec == Init /\ [][Next]_vars /\ Running

-----------------------------------------------------------------------------
AnyName == Names \cup {0}

TypeOK ==
  /\ disk \in [Names -> Nat] /\ held \subseteq Names
  /\ row \in [Names -> [id : Ids \cup {0}, c : Nat, thumb : BOOLEAN, wave : BOOLEAN,
                        missing : BOOLEAN]]
  /\ \A n, m \in Names : n # m /\ Registered(n) => row[n].id # row[m].id
  /\ peaks \in [Ids -> Nat] /\ \A i \in Ids : peaks[i] # 0 => i \in Used
  /\ on \in AnyName /\ ops \in 0..MaxOps /\ torn \subseteq Names
  /\ req \in [Requests -> [at : {"idle", "check", "probe", "park", "move", "register", "new",
                                 "old", "file", "row", "drow", "dfile"},
                           op : {"none", "new", "rename", "replace", "name", "delete"},
                           n : AnyName, from : AnyName, c : Nat, old : Nat]]
  /\ worker.at \in {"wait", "next", "thumb", "decode", "store"}

\* A request is between the file and the row of n.
Busy(n) == \E t \in Requests : n \in {req[t].n, req[t].from} /\ n \in held
                               /\ req[t].at \in {"move", "register", "row"}

\* Every row has the file it was probed from, also after an import that failed
\* at any step, a rename that was turned back, a file that was replaced: except
\* where a delete or a crash cut an import in two.
RowHasItsFile ==
  \A n \in Names : Registered(n) /\ ~Busy(n) /\ n \notin torn => disk[n] = row[n].c

\* A file is taken away by who asked to replace, rename or delete it, and by
\* the import that wrote it: two imports never decide on the same name.
NothingOverwritten ==
  [][\A n \in Names :
       disk[n] # 0 /\ disk'[n] # disk[n]
         => \E t \in Requests :
              /\ req'[t] # req[t]
              /\ \/ req[t].op \in {"replace", "delete"} /\ req[t].n = n
                 \/ req[t].op = "name" /\ n \in {req[t].n, req[t].from}
                 \/ req[t].c = disk[n]]_vars

\* What is registered is worked on: no thumbnail and no waveform stays pending.
WorkEnds == <>[](\A n \in Names : ~row[n].thumb /\ ~row[n].wave)

\* What ctp.go says of a file that is replaced: its background work is queued
\* again, so the peaks end up being those of the file (or none).
Requeued ==
  <>[](\A n \in Names : Registered(n) /\ n \notin torn => peaks[row[n].id] \in {0, row[n].c})
=============================================================================
