------------------------------ MODULE CueSheet ------------------------------
(***************************************************************************)
(* The stored cue sheet (ctp/sheet.go, groups.go, ctp.go): the order and   *)
(* the membership of cues and group headers, the selection, and what each  *)
(* edit, drag and key press of the page does to them.                      *)
(*                                                                         *)
(* A row of the sheet is a cue or a group id.  An edit is a function from  *)
(* one sheet to the next: it takes the sheet as a record, and the action   *)
(* saves what it returns.  Requests run one at a time and name rows the    *)
(* page shows.                                                             *)
(***************************************************************************)
EXTENDS Integers, FiniteSets, SequencesExt

CONSTANTS
  Cues,        \* identities of cues (cue_id)
  Start,       \* how many cues the show that was opened has
  MaxGroups,   \* bound: group ids
  MaxNesting,  \* depth of the group tree (8)
  Step,        \* sheetIndexStep (1000)
  One,         \* the +1 of AddCueToGroup, on the same scale
  MaxIndex,    \* bound: sheet_index
  MaxEdits,    \* bound: edits and changes of the selection
  Edits        \* which of them the operator makes

ASSUME CueSheetAssumption ==
  /\ IsFiniteSet(Cues) /\ Cues \cap Int = {}
  /\ Start \in 0..Cardinality(Cues)
  /\ MaxGroups \in Nat \ {0} /\ MaxNesting \in Nat /\ MaxEdits \in Nat
  /\ One \in Nat \ {0} /\ Step \in Nat /\ Step > 2 * One * Cardinality(Cues)
  /\ Step % 2 = 0 /\ MaxIndex \in Nat /\ MaxIndex >= Step * (Start + 1)

VARIABLES
  cue,      \* [cues of the sheet -> cuePos, sheet_index and parent]
  group,    \* [groups of the sheet -> sheet_index, parent_group_id, collapse]
  anchor,   \* selectedCuePos: a position, minus a group id, or 0
  set,      \* selectedCueSet: the same, without the anchor
  edits     \* edits and changes of the selection so far

vars == <<cue, group, anchor, set, edits>>

Sheet == [cue |-> cue, group |-> group, anchor |-> anchor, set |-> set]

---------------------------------------------------------------------------
(* Reading the sheet *)

IsCue(s, r) == r \in DOMAIN s.cue
IsGroup(s, r) == r \in DOMAIN s.group
Rows(s) == DOMAIN s.cue \cup DOMAIN s.group
Index(s, r) == IF IsCue(s, r) THEN s.cue[r].idx ELSE s.group[r].idx
Number(s, r) == IF IsCue(s, r) THEN s.cue[r].pos ELSE r

\* Order by index; rows of one kind with the same index by position or id, and
\* of a cue and a header at one index the one in leaders is first.
Precedes(s, a, b, leaders) ==
  \/ Index(s, a) < Index(s, b)
  \/ /\ Index(s, a) = Index(s, b)
     /\ IF IsCue(s, a) = IsCue(s, b) THEN Number(s, a) < Number(s, b) ELSE a \in leaders
Ordered(s, rows, leaders) ==
  LET rank == [r \in rows |-> Cardinality({q \in rows : Precedes(s, q, r, leaders)})]
  IN  [i \in 1..Cardinality(rows) |-> CHOOSE r \in rows : rank[r] = i - 1]

\* The merged sequence the edits work on: a cue before a header.
LoadSequence(s) == Ordered(s, Rows(s), DOMAIN s.cue)
\* The sequence the renderer works on: a header before a cue.
Items(s) == Ordered(s, Rows(s), DOMAIN s.group)
CueOrder(s) == Ordered(s, DOMAIN s.cue, {})

At(seq, r) == CHOOSE i \in DOMAIN seq : seq[i] = r
InOrder(seq, rows) ==
  LET at == {i \in DOMAIN seq : seq[i] \in rows}
  IN  [k \in 1..Cardinality(at) |-> seq[CHOOSE i \in at : Cardinality({j \in at : j < i}) = k - 1]]

\* The groups above g, the nearest first, and the groups below it.
Above(s, g) ==
  LET up(h) == {s.group[h].up} \cap DOMAIN s.group
      climb[n \in 0..Cardinality(DOMAIN s.group)] ==
        IF n = 0 THEN up(g) ELSE LET low == climb[n - 1] IN low \cup UNION {up(h) : h \in low}
  IN  climb[Cardinality(DOMAIN s.group)]
Below(s, g) == {h \in DOMAIN s.group : g \in Above(s, h)}
Depth(s, g) == Cardinality(Above(s, g))

\* The group whose gap it is after the first i rows: the last header of them.
GapOwner(s, seq, i) ==
  LET headers == {k \in 1..i : IsGroup(s, seq[k])}
  IN  IF headers = {} THEN 0 ELSE seq[Max(headers)]

\* Mutant of ValidParent: any group of the sheet will do.
ParentIfThere(s, g, p) == p = 0 \/ IsGroup(s, p)

\* Whether g, or a new group (0), may go under p.
ValidParent(s, g, p) ==
  \/ p = 0
  \/ /\ IsGroup(s, p) /\ p # g /\ g \notin Above(s, p)
     /\ Depth(s, p) < MaxNesting

\* The cue at a position: a set of one, or of none.
Named(s, p) == {c \in DOMAIN s.cue : s.cue[c].pos = p}
LastPos(s) == Max({0} \cup {s.cue[c].pos : c \in DOMAIN s.cue})
LastIndex(s, rows) == IF rows = {} THEN 0 ELSE Max({Index(s, r) : r \in rows})

---------------------------------------------------------------------------
(* Rendering: the rows of the page, with their depth *)

Hidden(s, g) == \E a \in Above(s, g) : s.group[a].collapse
Inside(s, c, g) ==
  LET p == s.cue[c].parent IN p = g \/ (IsGroup(s, p) /\ g \in Above(s, p))

\* One more item: the spans that are open, outermost first, and the rows.
Render(s, page, r) ==
  LET d == Depth(s, r)
      parent == s.cue[r].parent
      upTo(depth) ==
        SubSeq(page.open, 1, Cardinality({i \in DOMAIN page.open : Depth(s, page.open[i]) <= depth}))
      open == IF parent \in ToSet(page.open) THEN upTo(Depth(s, parent)) ELSE page.open
      top == Last(open)
      shut(g) == Hidden(s, g) \/ s.group[g].collapse
      Show(spans, depth) == [open |-> spans, rows |-> Append(page.rows, [row |-> r, depth |-> depth])]
  IN  CASE IsGroup(s, r) /\ Hidden(s, r) -> [page EXCEPT !.open = Append(upTo(d - 1), r)]
        [] IsGroup(s, r) /\ ~Hidden(s, r) -> Show(Append(upTo(d - 1), r), d)
        [] IsCue(s, r) /\ page.open = <<>> -> Show(<<>>, 0)
        [] OTHER -> IF shut(top) /\ Inside(s, r, top) THEN [page EXCEPT !.open = open]
                    ELSE Show(open, IF parent = top THEN Depth(s, top) + 1 ELSE 0)

FlattenSheet(s) ==
  FoldLeft(LAMBDA page, r : Render(s, page, r), [open |-> <<>>, rows |-> <<>>], Items(s)).rows

RowsOf(page) == [i \in DOMAIN page |-> page[i].row]
SelectUnits(s) == RowsOf(FlattenSheet(s))
Shown(s) == ToSet(SelectUnits(s))
Id(s, r) == IF IsGroup(s, r) THEN -r ELSE s.cue[r].pos

---------------------------------------------------------------------------
(* Storing the sheet *)

\* applyOrder: the rows in this order, the cues with these parents.
ApplyOrder(s, seq, parents) ==
  [s EXCEPT
    !.cue = [c \in DOMAIN s.cue |->
               [s.cue[c] EXCEPT !.idx = (At(seq, c) - 1) * Step, !.parent = parents[c]]],
    !.group = [g \in DOMAIN s.group |->
                 [s.group[g] EXCEPT !.idx = (At(seq, g) - 1) * Step]]]

StoredParents(s) == [c \in DOMAIN s.cue |-> s.cue[c].parent]
Parented(s, cues, p) == [c \in DOMAIN s.cue |-> IF c \in cues THEN p ELSE s.cue[c].parent]

\* cuePos becomes 1..N in the order of the sheet.
Renumbered(s) ==
  [s EXCEPT !.cue = [c \in DOMAIN s.cue |-> [s.cue[c] EXCEPT !.pos = At(CueOrder(s), c)]]]

\* Where renumbering takes the cue at p: nowhere (0) if there is none.
OldToNew(s, p) ==
  IF Named(s, p) = {} THEN 0 ELSE At(CueOrder(s), CHOOSE c \in Named(s, p) : TRUE)

Without(s, cues) == [s EXCEPT !.cue = Restrict(@, DOMAIN @ \ cues)]
SetSelected(s, id) == [s EXCEPT !.anchor = id, !.set = {}]
ExpandGroup(s, g) == IF g = 0 THEN s ELSE [s EXCEPT !.group[g].collapse = FALSE]

---------------------------------------------------------------------------
(* Contiguity after a full-order replace *)

BelongsBefore(s, r, g) ==
  IF IsGroup(s, r) THEN r = g \/ r \in Below(s, g)
  ELSE s.cue[r].parent \in {g} \cup Below(s, g)
BelongsAfter(s, r, g) ==
  IF IsGroup(s, r) THEN r \in Below(s, g) ELSE s.cue[r].parent = g

Separated(s, seq) ==
  {c \in DOMAIN s.cue :
     LET p == s.cue[c].parent
         i == At(seq, c)
     IN  /\ p # 0
         /\ \E d \in DOMAIN s.cue \ {c} : s.cue[d].parent = p
         /\ ~(i > 1 /\ BelongsBefore(s, seq[i - 1], p))
         /\ ~(i < Len(seq) /\ BelongsAfter(s, seq[i + 1], p))}

\* Mutant of HealSeparated: releases nobody.
HealNothing(s, seq) == s

\* Passes until none is separated; a pass that changes nothing is the last, and
\* each other one releases a cue.
HealSeparated(s, seq) ==
  FoldLeft(LAMBDA t, i : [t EXCEPT !.cue = [c \in DOMAIN t.cue |->
             [t.cue[c] EXCEPT !.parent = IF c \in Separated(t, seq) THEN 0 ELSE @]]],
           s, seq)

\* ReorderCues as its callers use it, with the order the sheet has.
ReorderCues(s) ==
  LET seq == LoadSequence(s)
      healed == HealSeparated(ApplyOrder(s, seq, StoredParents(s)), seq)
      new == Renumbered(healed)
  IN  IF DOMAIN s.cue = {} THEN s
      ELSE IF Named(s, s.anchor) = {} THEN new
      ELSE SetSelected(new, OldToNew(healed, s.anchor))

---------------------------------------------------------------------------
(* Adding and removing cues *)

\* The rows f with one more.
With(f, r, new) == [q \in DOMAIN f \cup {r} |-> IF q = r THEN new ELSE f[q]]

AddCue(s, c) ==
  [s EXCEPT !.cue = With(@, c, [pos |-> LastPos(s) + 1, parent |-> 0,
                                idx |-> LastIndex(s, DOMAIN s.cue) + Step])]

\* Before the cue t; above the header when t opens its group's run.
Slot(s, t) ==
  LET seq == LoadSequence(s)
      i == At(seq, t) - 1
  IN  IF i > 0 /\ IsGroup(s, seq[i]) /\ s.cue[t].parent = seq[i] THEN i - 1 ELSE i

\* The neighbours of the gap after the first at rows (at is never the end here).
GapAbove(s, at) == IF at = 0 THEN 0 ELSE Index(s, LoadSequence(s)[at])
GapBelow(s, at) ==
  LET hi == Index(s, LoadSequence(s)[at + 1])
  IN  IF at > 0 /\ hi <= GapAbove(s, at) THEN GapAbove(s, at) + Step ELSE hi
Halves(s, at) == (GapBelow(s, at) - GapAbove(s, at)) % 2 = 0

InsertCue(s, c, t) ==
  LET at == Slot(s, t)
      bumped == [d \in DOMAIN s.cue |->
                   [s.cue[d] EXCEPT !.pos = IF @ >= s.cue[t].pos THEN @ + 1 ELSE @]]
  IN  [s EXCEPT !.cue = With(bumped, c,
         [pos |-> s.cue[t].pos, parent |-> GapOwner(s, LoadSequence(s), at),
          idx |-> GapAbove(s, at) + (GapBelow(s, at) - GapAbove(s, at)) \div 2])]

AddCueToGroup(s, c, g, first) ==
  LET members == {d \in DOMAIN s.cue : s.cue[d].parent = g}
      seat == IF first \/ members = {} THEN s.group[g].idx
              ELSE Max({s.cue[d].idx : d \in members})
  IN  [ExpandGroup(s, g) EXCEPT !.cue =
         With(@, c, [pos |-> LastPos(s) + 1, parent |-> g, idx |-> seat + One])]

RemoveCue(s, c) ==
  LET rest == Without(s, {c})
  IN  [Renumbered(rest) EXCEPT !.anchor =
         IF @ = s.cue[c].pos THEN 0 ELSE OldToNew(rest, @)]

DeleteGroupWithCues(s, g) ==
  LET gone == {g} \cup (IF IsGroup(s, g) THEN Below(s, g) ELSE {})
      rest == Without(s, {c \in DOMAIN s.cue : s.cue[c].parent \in gone})
  IN  ReorderCues([rest EXCEPT !.group = Restrict(@, DOMAIN @ \ gone),
                               !.anchor = IF @ = -g THEN 0 ELSE @, !.set = {}])

\* The cues first, then the groups from the top of the page down.
BulkDelete(s, cues, groups) ==
  LET rest == ReorderCues(Without(s, cues))
      lost == \E c \in cues : rest.anchor = s.cue[c].pos
      cut == IF lost THEN SetSelected(rest, 0) ELSE rest
  IN  FoldLeft(DeleteGroupWithCues, IF cues = {} THEN s ELSE cut,
               InOrder(LoadSequence(s), groups))

\* The media file of some cues is deleted: the rows cascade, nothing else moves.
DeleteMedia(s, cues) == Without(s, cues)

ClearCueSheet == [cue |-> <<>>, group |-> <<>>, anchor |-> 0, set |-> {}]

---------------------------------------------------------------------------
(* Moving rows *)

\* The dragged rows out of the sequence, and back in after the first at of the rest.
Lifted(seq, block) == InOrder(seq, ToSet(seq) \ ToSet(block))
Kept(seq, block, i) == Len(Lifted(SubSeq(seq, 1, i), block))
Splice(seq, block, at) ==
  LET rest == Lifted(seq, block)
  IN  SubSeq(rest, 1, at) \o block \o SubSeq(rest, at + 1, Len(rest))

\* Where the line is: above a row, below a cue, or under the sheet.
SlotAbove(seq, block, r) == Kept(seq, block, At(seq, r) - 1)
\* Mutant of SlotBelow: counts the dragged rows too.
SlotBelowAll(seq, block, r) == Min({At(seq, r), Len(Lifted(seq, block))})
SlotBelow(seq, block, r) == Kept(seq, block, At(seq, r))
SlotEnd(seq, block) == Len(Lifted(seq, block))
\* Joining g: below its header, or below the last of its members that stays.
SlotFirst(seq, block, g) == SlotAbove(seq, block, g) + 1
SlotLast(s, seq, block, g) ==
  LET rest == Lifted(seq, block)
      members == {i \in DOMAIN rest : IsCue(s, rest[i]) /\ s.cue[rest[i]].parent = g}
  IN  IF members = {} THEN At(rest, g) ELSE Max(members)

\* SheetDrop of cues: to the slot, as members of p (0: of none).
DropCues(s, block, at, p) ==
  ApplyOrder(ExpandGroup(s, p), Splice(LoadSequence(s), block, at), Parented(s, ToSet(block), p))

\* SheetDrop of a group: the header, its subgroups and all their cues, under p.
Block(s, g) ==
  LET ids == {g} \cup Below(s, g)
  IN  InOrder(LoadSequence(s), ids \cup {c \in DOMAIN s.cue : s.cue[c].parent \in ids})
DropGroup(s, g, at, p) ==
  LET nested == [ExpandGroup(s, p) EXCEPT !.group[g].up = p]
  IN  ApplyOrder(nested, Splice(LoadSequence(s), Block(s, g), at), StoredParents(s))

\* setCueGroup(0): above the first header, or at the end.
ReleaseSlot(s, c) ==
  LET seq == LoadSequence(s)
      headers == {i \in DOMAIN seq : IsGroup(s, seq[i])}
  IN  IF headers = {} THEN SlotEnd(seq, <<c>>) ELSE SlotAbove(seq, <<c>>, seq[Min(headers)])

\* BulkEdit group: join g as one block (g = 0: leave in place).
BulkGroup(s, cues, g) ==
  LET block == InOrder(CueOrder(s), cues)
  IN  IF g = 0 THEN [s EXCEPT !.cue = [c \in DOMAIN s.cue |->
                                         [s.cue[c] EXCEPT !.parent = IF c \in cues THEN 0 ELSE @]]]
      ELSE DropCues(s, block, SlotLast(s, LoadSequence(s), block, g), g)

NextGroupId(s) == Max({0} \cup DOMAIN s.group) + 1
CreateGroup(s, p) ==
  [s EXCEPT !.group = With(@, NextGroupId(s),
     [idx |-> LastIndex(s, Rows(s)) + Step, up |-> p, collapse |-> FALSE])]

\* A new group in the slot of the cue at, with these cues in it.
BulkGroupNewAt(s, cues, at) ==
  LET g == NextGroupId(s)
      new == CreateGroup(s, s.cue[at].parent)
      seq == Lifted(LoadSequence(new), <<g>>)
      members == InOrder(seq, cues)
  IN  ApplyOrder(new, Splice(seq, <<g>> \o members, SlotAbove(seq, members, at)),
                 Parented(s, cues, g))

---------------------------------------------------------------------------
(* A restart: InitDB fills in what has index 0, HealSheet what is broken *)

Backfilled(s) ==
  LET cues == [c \in DOMAIN s.cue |->
                 [s.cue[c] EXCEPT !.idx = IF @ = 0 THEN s.cue[c].pos * Step ELSE @]]
      members(g) == {c \in DOMAIN cues : cues[c].parent = g}
      seat(g) == IF members(g) = {} THEN (LastPos(s) + 1) * Step
                 ELSE Min({cues[c].idx : c \in members(g)}) - Step \div 2
  IN  [s EXCEPT !.cue = cues,
                !.group = [g \in DOMAIN s.group |->
                             [s.group[g] EXCEPT !.idx = IF @ = 0 THEN seat(g) ELSE @]]]

\* Groups still without an index go to the end; InitDB leaves no cue without one.
HealSheet(s) ==
  LET bare == {g \in DOMAIN s.group : s.group[g].idx = 0}
      place(g) == LastIndex(s, Rows(s)) + Cardinality({h \in bare : h <= g}) * Step
  IN  [s EXCEPT
        !.cue = [c \in DOMAIN s.cue |->
                   [s.cue[c] EXCEPT !.parent = IF IsGroup(s, @) THEN @ ELSE 0]],
        !.group = [g \in DOMAIN s.group |->
                     [s.group[g] EXCEPT !.idx = IF g \in bare THEN place(g) ELSE @]]]

Restart(s) == HealSheet(Backfilled(s))

---------------------------------------------------------------------------
(* The selection *)

\* Where the selected row is among the rows of the page; with nothing selected
\* (anchor 0) the first header passes for it.
UnitIndex(s, units) ==
  LET pos(r) == IF IsGroup(s, r) THEN 0 ELSE s.cue[r].pos
  IN  SelectInSeq(units, LAMBDA r : IF s.anchor < 0 THEN r = -s.anchor ELSE pos(r) = s.anchor)

SelectStep(s, units, dir) ==
  LET i == UnitIndex(s, units) + dir
  IN  IF i \in DOMAIN units THEN SetSelected(s, Id(s, units[i])) ELSE s

\* The next cue of the sheet, hidden or not.
NextCue(s) ==
  LET order == CueOrder(s)
      i == SelectInSeq(order, LAMBDA c : s.cue[c].pos = s.anchor)
  IN  IF i \in 1..(Len(order) - 1) THEN SetSelected(s, s.cue[order[i + 1]].pos) ELSE s

\* The rows between two places of the page, as a selection without the anchor.
Span(s, units, i, j) ==
  {Id(s, units[k]) : k \in Min({i, j})..Max({i, j})} \ {s.anchor}
LiveSet(s) == s.set \cap {Id(s, r) : r \in Rows(s)}

\* Shift-click on a row of the page.
ExtendSelection(s, units, r) ==
  LET from == UnitIndex(s, units)
  IN  IF from = 0 THEN SetSelected(s, Id(s, r))
      ELSE [s EXCEPT !.set = Span(s, units, from, At(units, r)) \cup LiveSet(s)]

\* Shift-arrow: the head is the selected row farthest from the anchor, of two
\* the one in the direction of the step.
Marked(s, units, from) ==
  {from} \cup {i \in DOMAIN units : Id(s, units[i]) \in s.set}
FarEnd(marked, from, dir) ==
  LET lo == Min(marked)
      hi == Max(marked)
  IN  IF from - lo > hi - from \/ (from - lo = hi - from /\ dir < 0) THEN lo ELSE hi
MoveHead(s, units, from, head) ==
  IF head \notin DOMAIN units THEN s
  ELSE [s EXCEPT !.set = IF head = from THEN {} ELSE Span(s, units, from, head)]

\* Mutant of ExtendStep: the head is the selected row furthest down.
ExtendDown(s, units, dir) ==
  LET from == UnitIndex(s, units)
  IN  IF from = 0 THEN SelectStep(s, units, dir)
      ELSE MoveHead(s, units, from, Max(Marked(s, units, from)) + dir)
ExtendStep(s, units, dir) ==
  LET from == UnitIndex(s, units)
  IN  IF from = 0 THEN SelectStep(s, units, dir)
      ELSE MoveHead(s, units, from, FarEnd(Marked(s, units, from), from, dir) + dir)

\* Ctrl-click; on a cue it takes a group anchor away.
Toggle(s, r) ==
  LET id == Id(s, r)
  IN  [s EXCEPT !.set = IF id \in @ THEN @ \ {id} ELSE IF id = s.anchor THEN @ ELSE @ \cup {id},
                !.anchor = IF @ = 0 THEN id ELSE IF IsCue(s, r) /\ @ < 0 THEN 0 ELSE @]

SelectAll(s) ==
  LET units == SelectUnits(s)
      lead == IF s.anchor = 0 /\ units # <<>> THEN Id(s, Head(units)) ELSE s.anchor
  IN  [s EXCEPT !.anchor = lead, !.set = {Id(s, r) : r \in Shown(s)} \ {lead}]

---------------------------------------------------------------------------
(* What the page sends: highlighted rows, and drops where it draws a line *)

Highlighted(s) == {r \in Shown(s) : Id(s, r) \in {s.anchor} \cup s.set}
Picked(s) == Highlighted(s) \cap DOMAIN s.cue
\* Dragging a highlighted cue drags them all, and so does a menu opened on one cue
\* when any are highlighted.
Dragged(s, c) == IF c \in Picked(s) THEN InOrder(SelectUnits(s), Picked(s)) ELSE <<c>>
Menu(s, c) == IF Picked(s) = {} THEN {c} ELSE Picked(s)

Bands(s, block) ==
  LET seq == LoadSequence(s)
      cues == Shown(s) \cap DOMAIN s.cue
      parent(r) == IF IsCue(s, r) THEN s.cue[r].parent ELSE 0
  IN  {[at |-> SlotAbove(seq, block, r), parent |-> parent(r)] : r \in Shown(s)}
      \cup {[at |-> SlotBelow(seq, block, r), parent |-> parent(r)] : r \in cues}
      \cup {[at |-> SlotEnd(seq, block), parent |-> 0]}

\* The body of a header: last in a closed group, first in an open one.
Body(s, block, g) ==
  LET seq == LoadSequence(s)
  IN  [at |-> IF s.group[g].collapse THEN SlotLast(s, seq, block, g) ELSE SlotFirst(seq, block, g),
       parent |-> g]

---------------------------------------------------------------------------
(* The show that was opened, and the requests *)

\* A group, if there is one, is on top, with some of the first cues in it.
Init ==
  /\ \E show \in {c \in SUBSET Cues : Cardinality(c) = Start} : \E members \in 0..Start :
       LET order == SetToSeq(show)
           inside(c) == At(order, c) <= members
       IN  /\ cue = [c \in show |-> [pos |-> At(order, c), idx |-> (At(order, c) + 1) * Step,
                                    parent |-> IF inside(c) THEN 1 ELSE 0]]
           /\ group = IF members = 0 THEN <<>> ELSE <<[idx |-> Step, up |-> 0, collapse |-> FALSE]>>
  /\ anchor = 0 /\ set = {} /\ edits = 0

Save(s) == cue' = s.cue /\ group' = s.group /\ anchor' = s.anchor /\ set' = s.set

\* One edit, within the bounds.
Edit(name, s) ==
  /\ name \in Edits /\ edits < MaxEdits
  /\ DOMAIN s.group \subseteq 1..MaxGroups /\ \A r \in Rows(s) : Index(s, r) <= MaxIndex
  /\ Save(s)
  /\ edits' = edits + 1

ShownCues == Shown(Sheet) \cap DOMAIN cue
ShownGroups == Shown(Sheet) \cap DOMAIN group
New == Cues \ DOMAIN cue

AddLast == \E c \in New : Edit("add", AddCue(Sheet, c))
Insert == \E c \in New : \E t \in ShownCues :
            Halves(Sheet, Slot(Sheet, t)) /\ Edit("insert", InsertCue(Sheet, c, t))
AddToGroup == \E c \in New : \E g \in ShownGroups : \E first \in BOOLEAN :
                Edit("addto", AddCueToGroup(Sheet, c, g, first))
RemoveOne == \E c \in ShownCues : Edit("remove", RemoveCue(Sheet, c))
DeleteSelected == /\ Highlighted(Sheet) # {}
                  /\ Edit("delete", BulkDelete(Sheet, Picked(Sheet), Highlighted(Sheet) \ Picked(Sheet)))
DeleteGroup == \E g \in ShownGroups : Edit("delete", DeleteGroupWithCues(Sheet, g))
MediaGone == \E c \in DOMAIN cue : Edit("media", DeleteMedia(Sheet, {c}))
Clear == Edit("clear", ClearCueSheet)
DragCue == \E c \in ShownCues : LET block == Dragged(Sheet, c) IN
             \E b \in Bands(Sheet, block) : Edit("drag", DropCues(Sheet, block, b.at, b.parent))
JoinGroup == \E c \in ShownCues : \E g \in ShownGroups : LET b == Body(Sheet, <<c>>, g) IN
               Edit("join", DropCues(Sheet, <<c>>, b.at, g))
LeaveGroup == \E c \in ShownCues : Edit("join", DropCues(Sheet, <<c>>, ReleaseSlot(Sheet, c), 0))
DragGroup == \E g \in ShownGroups : LET block == Block(Sheet, g) IN
               \E b \in Bands(Sheet, block) \cup {Body(Sheet, block, h) : h \in ShownGroups \ ToSet(block)} :
                 ValidParent(Sheet, g, b.parent) /\ Edit("dragg", DropGroup(Sheet, g, b.at, b.parent))
Regroup == \E c \in ShownCues : \E g \in {0} \cup DOMAIN group :
             Edit("bulk", BulkGroup(Sheet, Menu(Sheet, c), g))
GroupNew == \E c \in ShownCues :
              ValidParent(Sheet, 0, cue[c].parent) /\ Edit("bulk", BulkGroupNewAt(Sheet, Menu(Sheet, c), c))
AddGroup == Edit("group", SetSelected(CreateGroup(Sheet, 0), -NextGroupId(Sheet)))
Nest == \E g \in DOMAIN group : \E p \in {0} \cup DOMAIN group :
          ValidParent(Sheet, g, p) /\ Edit("nest", [Sheet EXCEPT !.group[g].up = p])
Fold == \E g \in ShownGroups : Edit("fold", [Sheet EXCEPT !.group[g].collapse = ~@])
Reopen == Edit("restart", Restart(Sheet))

Select(s) == "select" \in Edits /\ edits < MaxEdits /\ Save(s) /\ edits' = edits + 1
Click == \E r \in Shown(Sheet) : Select(SetSelected(Sheet, Id(Sheet, r)))
ShiftClick == \E r \in Shown(Sheet) : Select(ExtendSelection(Sheet, SelectUnits(Sheet), r))
CtrlClick == \E r \in Shown(Sheet) : Select(Toggle(Sheet, r))
Arrow == \E dir \in {1, -1} : Select(SelectStep(Sheet, SelectUnits(Sheet), dir))
ShiftArrow == \E dir \in {1, -1} : Select(ExtendStep(Sheet, SelectUnits(Sheet), dir))
All == Select(SelectAll(Sheet))
Advance == Select(NextCue(Sheet))

Next ==
  \/ AddLast \/ Insert \/ AddToGroup \/ RemoveOne \/ DeleteSelected \/ DeleteGroup \/ MediaGone \/ Clear
  \/ DragCue \/ JoinGroup \/ LeaveGroup \/ DragGroup \/ Regroup \/ GroupNew \/ AddGroup \/ Nest
  \/ Fold \/ Reopen
  \/ Click \/ ShiftClick \/ CtrlClick \/ Arrow \/ ShiftArrow \/ All \/ Advance

Spec == Init /\ [][Next]_vars

---------------------------------------------------------------------------
\* Type invariant of the stored sheet.
TypeOK ==
  /\ \E D \in SUBSET Cues : cue \in [D -> [pos : Nat \ {0}, idx : Int, parent : Nat]]
  /\ \E D \in SUBSET (1..MaxGroups) : group \in [D -> [idx : Int, up : Nat, collapse : BOOLEAN]]
  /\ anchor \in Int /\ set \subseteq Int /\ edits \in 0..MaxEdits

\* References are sound after any sequence of edits: positions are distinct, every parent is a group of the
\* sheet, and no group is inside itself.
SheetSound ==
  /\ \A c, d \in DOMAIN cue : cue[c].pos = cue[d].pos => c = d
  /\ \A c \in DOMAIN cue : cue[c].parent \in {0} \cup DOMAIN group
  /\ \A g \in DOMAIN group : group[g].up \in {0} \cup DOMAIN group /\ g \notin Above(Sheet, g)

\* References of the sheet are sound after any sequence of edits and imports, failed ones
\* included.
ReferencesSound == TypeOK /\ SheetSound

SameOrder(s, t, rows) == InOrder(LoadSequence(s), rows) = InOrder(LoadSequence(t), rows)
Together(seq, part) ==
  \E i \in 1..(Len(seq) - Len(part) + 1) : SubSeq(seq, i, i + Len(part) - 1) = part
DepthOf(page, r) == page[SelectInSeq(page, LAMBDA x : x.row = r)].depth

\* A cue the page shows although its group is inside a closed one: it is apart from it.
Stray(s, r) == IsCue(s, r) /\ IsGroup(s, s.cue[r].parent) /\ Hidden(s, s.cue[r].parent)

\* SheetDrop lands where the line was: the dragged cues, in their order, next to the row
\* on whose band they were dropped, in the sheet and on the page, as deep as that row
\* (above a header: at the top level); and no other rows change order.  A band of a stray
\* cue is another matter: the dragged cues may well go where its group is, out of sight.
DropsLand ==
  \A cues \in (SUBSET ShownCues) \ {{}} : \A r \in {q \in Shown(Sheet) \ cues : ~Stray(Sheet, q)} :
    LET block == InOrder(SelectUnits(Sheet), cues)
        seq == LoadSequence(Sheet)
        rest == Rows(Sheet) \ cues
        parent == IF IsCue(Sheet, r) THEN cue[r].parent ELSE 0
        Lands(at, part) ==
          \A t \in {DropCues(Sheet, block, at, parent)} :
            /\ \A new \in {LoadSequence(t)} :
                 InOrder(new, rest) = InOrder(seq, rest) /\ Together(new, part)
            /\ \A page \in {FlattenSheet(t)} :
                 /\ Together(RowsOf(page), part)
                 /\ \A c \in cues : DepthOf(page, c) = IF IsCue(t, r) THEN DepthOf(page, r) ELSE 0
    IN  /\ Lands(SlotAbove(seq, block, r), Append(block, r))
        /\ IsCue(Sheet, r) => Lands(SlotBelow(seq, block, r), <<r>> \o block)

\* A cue that joins a group on its header (setCueGroup) or as a new cue (AddCueToGroup)
\* is seen, also when the group was closed; on an open group it is the first row of it.
JoinsShow ==
  \A g \in ShownGroups :
    /\ \A c \in ShownCues :
         LET t == DropCues(Sheet, <<c>>, Body(Sheet, <<c>>, g).at, g)
         IN  /\ c \in Shown(t)
             /\ ~group[g].collapse => /\ Together(SelectUnits(t), <<g, c>>)
                                     /\ DepthOf(FlattenSheet(t), c) = Depth(t, g) + 1
    /\ \A c \in New : \A first \in BOOLEAN : c \in Shown(AddCueToGroup(Sheet, c, g, first))

\* A drop lands where the page drew the line, and a cue that joins a group is seen.
MovesLand == DropsLand /\ JoinsShow

\* Deleting rows (BulkEdit, then DeleteGroupWithCues) leaves the others in their order,
\* numbers the cues from 1 in it, and leaves no member apart from its group.
DeletesKeepOrder ==
  \A cues \in (SUBSET DOMAIN cue) \ {{}} : \A groups \in SUBSET ShownGroups :
    \A t \in {BulkDelete(Sheet, cues, groups)} :
      /\ SameOrder(Sheet, t, Rows(t))
      /\ \A i \in DOMAIN CueOrder(t) : t.cue[CueOrder(t)[i]].pos = i
      /\ Separated(t, LoadSequence(t)) = {}

\* RemoveCue renumbers the cues, and the selection follows: another cue that was
\* selected still is.
RemoveKeepsSelection ==
  \A c \in DOMAIN cue : \A d \in DOMAIN cue \ {c} :
    LET t == RemoveCue(SetSelected(Sheet, cue[d].pos), c)
    IN  t.anchor = t.cue[d].pos

\* Deleting rows keeps the order of the others and the selection of another cue.
RemovalsSound == DeletesKeepOrder /\ RemoveKeepsSelection

\* A step back with Shift undoes the one before it, although ExtendStep guesses which
\* end of the selection moves.
ShiftUndoes ==
  \A units \in {SelectUnits(Sheet)} : \A r \in ToSet(units) : \A dir \in {1, -1} :
    \A one \in {SetSelected(Sheet, Id(Sheet, r))} : \A two \in {ExtendStep(one, units, dir)} :
      \A three \in {ExtendStep(two, units, dir)} :
        /\ two # one => ExtendStep(two, units, -dir) = one
        /\ three # two => ExtendStep(three, units, -dir) = two

\* AddCue puts a new cue right above the one it names, or above the header of the group
\* that cue opens.
InsertLands ==
  \A c \in New : \A t \in ShownCues : Halves(Sheet, Slot(Sheet, t)) =>
    LoadSequence(InsertCue(Sheet, c, t)) = InsertAt(LoadSequence(Sheet), Slot(Sheet, t) + 1, c)

\* The edits (loadSheetSequence) and the page (FlattenSheet) read the same order.
RowsAgree == LoadSequence(Sheet) = Items(Sheet)

\* A restart (InitDB, HealSheet) keeps the order of the sheet.
RestartKeepsOrder == SameOrder(Sheet, Restart(Sheet), Rows(Sheet))

\* The selected cue stays selected when AddCue puts another above it.
InsertKeepsSelection ==
  \A c \in New : \A t \in ShownCues : \A d \in DOMAIN cue :
    LET new == InsertCue(SetSelected(Sheet, cue[d].pos), c, t)
    IN  new.anchor = new.cue[d].pos

\* ValidateGroupParent caps how deep groups are nested.
NestingCapped == \A g \in DOMAIN group : Depth(Sheet, g) <= MaxNesting

=============================================================================
