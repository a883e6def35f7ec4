----------------------------- MODULE ShowImport ------------------------------
(***************************************************************************)
(* Importing a .CTP show into the sheet (routes/show.go, ctp/export.go):   *)
(* over the sheet or after it, the groups first, then the cues one by one; *)
(* a cue that is refused takes the import back.                            *)
(*                                                                         *)
(* A manifest is what an export wrote: the groups in the order of their    *)
(* ids, and for every cue, by position, the group it is in.  Both name a   *)
(* group by its number in the manifest, 0 is none.  A group that was moved *)
(* into a younger one comes before it.                                     *)
(***************************************************************************)
EXTENDS CueSheet

CONSTANT Shows   \* the manifests: [groups : Seq([up, fold]), cues : Seq(number), selected]

ASSUME ShowImportAssumption ==
  \A m \in Shows :
    /\ m.groups \in Seq([up : 0..Len(m.groups), fold : BOOLEAN])
    /\ m.cues \in Seq(0..Len(m.groups)) /\ m.cues # <<>>
    /\ m.selected \in 0..Len(m.cues)

Modes == {"overwrite", "append"}

\* The local ids are given in turn, from the first free one.
LocalId(s, k) == IF k = 0 THEN 0 ELSE NextGroupId(s) - 1 + k

\* ImportGroups: each one last in the sheet, under its group if that is already
\* there.
ImportGroup(s, start, m, k) ==
  LET up == m.groups[k].up
      new == CreateGroup(s, IF up < k THEN LocalId(start, up) ELSE 0)
  IN  [new EXCEPT !.group[LocalId(start, k)].collapse = m.groups[k].fold]
ImportGroups(s, m) ==
  FoldLeft(LAMBDA t, k : ImportGroup(t, s, m, k), s, [k \in DOMAIN m.groups |-> k])

\* Mutant of Seat: a member is placed by its position, too.
SeatByPosition(s, p) == (LastPos(s) + 1) * Step

\* Where a cue goes: at its position, or after the members of its group.
Seat(s, p) ==
  IF p = 0 THEN (LastPos(s) + 1) * Step
  ELSE s.group[p].idx + (Cardinality({d \in DOMAIN s.cue : s.cue[d].parent = p}) + 1) * One

\* AddCueFull: the cue gets the next position.
AddCueFull(s, c, p) ==
  [s EXCEPT !.cue = With(@, c, [pos |-> LastPos(s) + 1, parent |-> p, idx |-> Seat(s, p)])]

\* The sheet the groups and cues are added to, and the offset of the import.
Target(s, mode) == IF mode = "overwrite" THEN ClearCueSheet ELSE s
Offset(s, mode) == IF mode = "overwrite" THEN 0 ELSE Cardinality(DOMAIN s.cue)

\* The first n cues of the manifest are in.
Filled(s, m, n) ==
  LET cues == SetToSeq(Cues \ DOMAIN s.cue)
  IN  FoldLeft(LAMBDA t, i : AddCueFull(t, cues[i], LocalId(s, m.cues[i])),
               ImportGroups(s, m), [i \in 1..n |-> i])

RemovePosition(s, p) ==
  FoldLeft(LAMBDA t, c : RemoveCue(t, c), s, SetToSeq(Named(s, p)))

\* DeleteGroup: what was in it is released.
DeleteGroupOnly(s, g) ==
  LET out(p) == IF p = g THEN 0 ELSE p
  IN  [s EXCEPT
        !.cue = [c \in DOMAIN s.cue |-> [s.cue[c] EXCEPT !.parent = out(@)]],
        !.group = [h \in DOMAIN s.group \ {g} |-> [s.group[h] EXCEPT !.up = out(@)]],
        !.anchor = IF @ = -g THEN 0 ELSE @, !.set = IF s.anchor = -g THEN {} ELSE @]

\* The positions an import takes back: from the last one up.
RemovedPositions(offset, n) == [i \in 1..n |-> offset + n + 1 - i]

\* The cues that were inserted, then the groups.
Rollback(t, s, m, offset, n) ==
  FoldLeft(DeleteGroupOnly, FoldLeft(RemovePosition, t, RemovedPositions(offset, n)),
           [k \in DOMAIN m.groups |-> LocalId(s, k)])

\* The import of a show of which n cues are accepted.
ImportShow(s, m, mode, n) ==
  LET target == Target(s, mode)
      filled == Filled(target, m, n)
  IN  IF n < Len(m.cues) THEN Rollback(filled, target, m, Offset(s, mode), n)
      ELSE IF m.selected = 0 THEN filled
      ELSE SetSelected(filled, m.selected + Offset(s, mode))

Fits(s, m, mode) ==
  Len(m.cues) <= Cardinality(Cues) - Cardinality(DOMAIN Target(s, mode).cue)

Import ==
  \E m \in Shows : \E mode \in Modes : \E n \in 0..Len(m.cues) :
    Fits(Sheet, m, mode) /\ Edit("import", ImportShow(Sheet, m, mode, n))

ImportSpec == Init /\ [][Next \/ Import]_vars

-----------------------------------------------------------------------------
\* A cue of no group goes to a whole multiple of Step: the members of an import do not
\* reach it if so many fit between the last row of the sheet and the next one.
Room(s, m) == (LastIndex(s, Rows(s)) % Step) + Len(m.cues) * One < Step

\* A show that is imported is gathered: each of its groups shows its members
\* right below its header, in the order of the manifest, wherever in the sheet
\* the rest of it is.
Gathers(sheet, mode) ==
  LET s == Target(sheet, mode)
      cues == SetToSeq(Cues \ DOMAIN s.cue)
  IN  \A m \in Shows : Fits(sheet, m, mode) /\ Room(s, m) =>
        \A t \in {ImportShow(sheet, m, mode, Len(m.cues))} : \A k \in DOMAIN m.groups :
          LET members == InOrder([i \in DOMAIN m.cues |-> cues[i]],
                                 {c \in DOMAIN t.cue : t.cue[c].parent = LocalId(s, k)})
          IN  /\ Len(members) = Cardinality({i \in DOMAIN m.cues : m.cues[i] = k})
              /\ Together(LoadSequence(t), <<LocalId(s, k)>> \o members)

\* The cues are numbered in order, and what is added next lands below every row.
Tidy(s) ==
  /\ \A i \in DOMAIN CueOrder(s) : s.cue[CueOrder(s)[i]].pos = i
  /\ LastIndex(s, Rows(s)) <= (LastPos(s) + 1) * Step

\* An import that fails takes back what it put in, no more and no less, although it
\* removes cues by positions that move meanwhile and groups that hold other groups:
\* over the sheet, which is left empty, and after it if the sheet is tidy.
FailureUndone(sheet, mode) ==
  LET s == Target(sheet, mode)
  IN  \A m \in Shows : Fits(sheet, m, mode) /\ Tidy(s) => \A n \in 0..(Len(m.cues) - 1) :
        \A t \in {ImportShow(sheet, m, mode, n)} : t.cue = s.cue /\ t.group = s.group

\* An import over the rows of a sheet or after them gathers its groups, and one that fails
\* is taken back.  (Into an empty sheet both are what an import over any sheet is.)
ImportsSound ==
  Rows(Sheet) # {} => \A mode \in Modes : Gathers(Sheet, mode) /\ FailureUndone(Sheet, mode)

\* What show.go says of an import that fails: it rolls back only its own
\* inserts.
RollbackOnlyImport ==
  \A m \in Shows : Fits(Sheet, m, "append") =>
    \A n \in 0..(Len(m.cues) - 1) : Rows(Sheet) \subseteq Rows(ImportShow(Sheet, m, "append", n))
=============================================================================
