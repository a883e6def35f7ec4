------------------------------- MODULE Wall --------------------------------
(***************************************************************************)
(* The layers of the wall on the display's own planes (gsp/wall.go,        *)
(* gsp/kms.go): a pipeline takes a plane when its video pad appears, is    *)
(* shown at a place in the stack, faded by its writer goroutine, raised if *)
(* it is the panic image, and gives the plane back when it is retired.     *)
(*                                                                         *)
(* A pipeline shows once.  Planes are numbered in the order they are       *)
(* handed out; 0 is no plane.  A level is the alpha it gives.              *)
(***************************************************************************)
EXTENDS Naturals, Sequences, FiniteSetsExt, SequencesExt

CONSTANTS
  Pipes,      \* pipelines of a run
  Hold,       \* the one among them that is the panic image, if any
  Planes,     \* overlay planes, 1 .. n
  Writers,    \* the pipelines whose alpha is followed
  Places,     \* where cues are shown; "bottom" is for cues that replace others
  FirstLevels,  \* levels cues are shown at: with a fade-in, without
  On,         \* cues that are on the wall already, bottom to top
  Late,       \* those whose video pad may appear after the cue has started
  MaxPosts    \* bound: levels that fades post

WallAssumption ==
  /\ MaxPosts \in Nat /\ Max(Planes) \in Nat /\ Planes = 1 .. Max(Planes)
  /\ FirstLevels \subseteq {0, 1} /\ Places \subseteq {"bottom", "under", "top"}
  /\ On \in Seq(Pipes \ (Writers \cup {Hold})) /\ Len(On) <= Max(Planes) /\ IsInjective(On)

Clear == 0
Full == 1               \* the cue's opacity
Levels == Clear .. Full
Unset == Full + 1       \* no level written yet
ZposTop == 17
None == "none"
NoShow == [level |-> Clear, at |-> None, ref |-> None]
NoLayer == [plane |-> 0, visible |-> FALSE, parked |-> FALSE]
NoWriter == [at |-> "none", plane |-> 0, want |-> Clear, hand |-> Clear, last |-> Unset,
             kick |-> FALSE, quit |-> FALSE]

VARIABLES
  busy, alpha, zpos,   \* of the planes
  layer,     \* [Pipes -> wallLayer]
  listed,    \* the domain of layers
  stack,     \* visible layers, bottom to top
  pending,   \* pendingShow: [Pipes -> show or NoShow]
  writer,    \* [Pipes -> the layer's goroutine with its channels]
  pad,       \* [Pipes -> [at, show]]: newWallLayer
  start,     \* [Pipes -> [at, show]]: the start of the cue
  ends,      \* [Pipes -> where retirePipeline is]
  fade,      \* [Pipes -> [at, over]]: fadeOutgoing and the cue it waits for
  panic,     \* [at, z]: PanicToHold; z is the zpos raiseLayer is to write, 0 = none
  posts,     \* levels posted so far
  stained    \* planes that an earlier layer's writer wrote to

planes == <<busy, alpha, zpos, stained>>
layers == <<layer, listed, stack, pending>>
calls == <<pad, start, ends, fade, panic, posts>>
vars == <<planes, layers, writer, calls>>

IndexOf(s, p) == SelectInSeq(s, LAMBDA q : q = p)
Begun(p) == [at |-> IF p \in Range(On) THEN "done" ELSE "idle", show |-> NoShow]

Init ==
  /\ busy = 1 .. Len(On) /\ listed = Range(On) /\ stack = On
  /\ alpha = [x \in Planes |-> Full] /\ zpos = [x \in Planes |-> x]
  /\ layer = [p \in Pipes |-> [plane |-> IndexOf(On, p), visible |-> p \in Range(On), parked |-> FALSE]]
  /\ pending = [p \in Pipes |-> NoShow] /\ writer = [p \in Pipes |-> NoWriter]
  /\ pad = [p \in Pipes |-> Begun(p)] /\ start = [p \in Pipes |-> Begun(p)]
  /\ ends = [p \in Pipes |-> "live"]
  /\ fade = [p \in Pipes |-> [at |-> "no", over |-> None]]
  /\ panic = [at |-> "arming", z |-> 0] /\ posts = 0 /\ stained = {}

-----------------------------------------------------------------------------
\* The writer: a kick wakes it, it takes the last level posted, and writes it unless it
\* wrote the same one before.  When it is told to quit and a kick is there, it may take either.
Post(p, v) ==
  writer' = IF p \in Writers
            THEN [writer EXCEPT ![p].want = v, ![p].kick = TRUE] ELSE writer

Kicked(p) ==
  /\ writer[p].at = "wait" /\ writer[p].kick
  /\ writer' = [writer EXCEPT ![p].kick = FALSE,
                  ![p].at = IF writer[p].want = writer[p].last THEN "wait" ELSE "write",
                  ![p].hand = IF writer[p].want = writer[p].last THEN Clear ELSE writer[p].want]
  /\ UNCHANGED <<planes, layers, calls>>

\* Its layer may have given the plane back, and another one taken it.
Writes(p) ==
  /\ writer[p].at = "write"
  /\ alpha' = [alpha EXCEPT ![writer[p].plane] = writer[p].hand]
  /\ writer' = [writer EXCEPT ![p].at = "wait", ![p].last = writer[p].hand, ![p].hand = Clear]
  /\ stained' = IF ends[p] = "gone" THEN stained \cup {writer[p].plane}
                ELSE stained \ {writer[p].plane}
  /\ UNCHANGED <<busy, zpos, layers, calls>>

Quits(p) ==
  /\ writer[p].at = "wait" /\ writer[p].quit
  /\ writer' = [writer EXCEPT ![p] = [NoWriter EXCEPT !.at = "gone"]]
  /\ UNCHANGED <<planes, layers, calls>>

-----------------------------------------------------------------------------
\* stackIndex: how many layers a show leaves under p.
Under(show) ==
  CASE show.at = "bottom" -> 0
    [] show.at = "under" /\ Contains(stack, show.ref) ->
         IndexOf(stack, show.ref) - 1
    [] OTHER -> Len(stack)

\* Mutant of Restacked: the layers that are there keep their zpos.
OnlyEntered(s) ==
  [x \in Planes |-> LET i == SelectInSeq(s, LAMBDA q : layer[q].plane = x)
                    IN IF i = 0 \/ Contains(stack, s[i]) THEN zpos[x] ELSE i]

\* restackLocked: zpos by place, for the layers of s.
Restacked(s) ==
  [x \in Planes |-> LET i == SelectInSeq(s, LAMBDA q : layer[q].plane = x)
                    IN IF i = 0 THEN zpos[x] ELSE i]

\* The section of showLayer for a layer that is there.
Place(p, show) ==
  /\ stack' = IF layer[p].visible THEN stack ELSE InsertAt(stack, Under(show) + 1, p)
  /\ layer' = [layer EXCEPT ![p].visible = TRUE]
  /\ zpos' = Restacked(stack')

\* setLayerLevel: nothing happens to a layer that has gone.
Leveled(p, v) ==
  IF p \in listed /\ layer[p].visible THEN Post(p, v) ELSE UNCHANGED writer

\* incomingShown: the fades that wait for p begin.
Released(p) ==
  fade' = [q \in Pipes |-> IF fade[q] = [at |-> "waits", over |-> p]
                           THEN [fade[q] EXCEPT !.at = "released"] ELSE fade[q]]

-----------------------------------------------------------------------------
\* acquire, when there is a free plane.
Acquired == Min(Planes \ busy)

\* newWallLayer: the first free plane, transparent; then it enters layers and takes the
\* show that came before it.  Without a free plane the pad fails.
NewLayer(p) ==
  /\ pad[p].at = "idle" /\ ends[p] = "live"
  /\ IF Planes \subseteq busy
     THEN /\ pad' = [pad EXCEPT ![p].at = "failed"]
          /\ UNCHANGED <<planes, layers, writer>>
     ELSE LET x == Acquired IN
          /\ busy' = busy \cup {x} /\ alpha' = [alpha EXCEPT ![x] = Clear]
          /\ stained' = stained \ {x} /\ UNCHANGED <<zpos, stack>>
          /\ layer' = [layer EXCEPT ![p].plane = x]
          /\ writer' = IF p \in Writers THEN [writer EXCEPT ![p].at = "wait", ![p].plane = x]
                       ELSE writer
          /\ listed' = listed \cup {p} /\ pending' = [pending EXCEPT ![p] = NoShow]
          /\ pad' = [pad EXCEPT ![p] = [at |-> IF pending[p] = NoShow THEN "done" ELSE "place",
                                       show |-> pending[p]]]
  /\ UNCHANGED <<start, ends, fade, panic, posts>>

PlaceKept(p) ==
  /\ pad[p].at = "place" /\ Place(p, pad[p].show)
  /\ pad' = [pad EXCEPT ![p].at = "level"]
  /\ UNCHANGED <<busy, alpha, stained, listed, pending, writer, start, ends, fade, panic, posts>>

LevelKept(p) ==
  /\ pad[p].at = "level" /\ Leveled(p, pad[p].show.level)
  /\ pad' = [pad EXCEPT ![p] = [at |-> "done", show |-> NoShow]]
  /\ UNCHANGED <<planes, layers, start, ends, fade, panic, posts>>

-----------------------------------------------------------------------------
\* A cue that replaces others starts under them, one that keeps them goes where it is told.
Shows(p) ==
  LET places == IF p = Hold \/ \E q \in Pipes : fade[q].over = p THEN {"bottom"} ELSE Places
  IN {s \in [level : FirstLevels, at : places, ref : (Pipes \ {p}) \cup {None}] :
        s.ref # None <=> s.at = "under"}

\* The last look at the clip under the manager's lock ...
Start(p) ==
  /\ start[p].at = "idle" /\ ends[p] = "live" /\ fade[p].at = "no"
  /\ p \in Late \/ pad[p].at \in {"failed", "done"}
  /\ p = Hold => panic.at = "up"
  /\ \E show \in Shows(p) : start' = [start EXCEPT ![p] = [at |-> "about", show |-> show]]
  /\ UNCHANGED <<planes, layers, writer, pad, ends, fade, panic, posts>>

\* ... and showLayer after it: a show without a layer is kept for it, retired or not.
Show(p) ==
  /\ start[p].at = "about"
  /\ \/ /\ p \in listed /\ Place(p, start[p].show)
        /\ start' = [start EXCEPT ![p].at = "level"]
        /\ UNCHANGED <<pending, fade>>
     \/ /\ p \notin listed /\ pending' = [pending EXCEPT ![p] = start[p].show]
        /\ start' = [start EXCEPT ![p] = [at |-> "done", show |-> NoShow]] /\ Released(p)
        /\ UNCHANGED <<zpos, layer, stack>>
  /\ UNCHANGED <<busy, alpha, stained, listed, writer, pad, ends, panic, posts>>

Shown(p) ==
  /\ start[p].at = "level" /\ Leveled(p, start[p].show.level) /\ Released(p)
  /\ start' = [start EXCEPT ![p] = [at |-> "done", show |-> NoShow]]
  /\ UNCHANGED <<planes, layers, pad, ends, panic, posts>>

\* A tick of a fade, or an edit of the opacity, of a clip that is still somebody's.
SetLevel(p, v) ==
  /\ ends[p] = "live" /\ fade[p].at \in {"no", "fades"} /\ posts < MaxPosts
  /\ p \in listed /\ layer[p].visible
  /\ Leveled(p, v) /\ posts' = posts + 1
  /\ UNCHANGED <<planes, layers, pad, start, ends, fade, panic>>

\* swap, after its section: the cue p is to fade away over n (awaitIncoming).
Outgoing(p, n) ==
  /\ "bottom" \in Places /\ p # n /\ n # Hold
  /\ p \in listed /\ ends[p] = "live" /\ fade[p].at = "no"
  /\ start[n].at = "idle" /\ fade[n].at = "no"
  /\ p = Hold => panic.at = "up"
  /\ fade' = [fade EXCEPT ![p] = [at |-> "waits", over |-> n]]
  /\ UNCHANGED <<planes, layers, writer, pad, start, ends, panic, posts>>

\* The start was given, or o.wait ran out.
Fades(p) ==
  /\ fade[p].at \in {"waits", "released"} /\ ends[p] = "live"
  /\ fade' = [fade EXCEPT ![p].at = "fades"]
  /\ UNCHANGED <<planes, layers, writer, pad, start, ends, panic, posts>>

-----------------------------------------------------------------------------
\* retirePipeline, whoever calls it: NULL waits for the pad, then dropLayer with its
\* section, and the plane after it.
Unlist(p) ==
  /\ ends[p] = "live" /\ pad[p].at \in {"idle", "failed", "done"}
  /\ p = Hold => panic.at # "raised"
  /\ ends' = [ends EXCEPT ![p] = IF p \in listed THEN "unlisted" ELSE "gone"]
  /\ listed' = listed \ {p} /\ pending' = [pending EXCEPT ![p] = NoShow]
  /\ stack' = Remove(stack, p)
  /\ IF p \in listed THEN UNCHANGED fade ELSE Released(p)
  /\ UNCHANGED <<planes, layer, writer, pad, start, panic, posts>>

Release(p) ==
  /\ ends[p] = "unlisted"
  /\ ends' = [ends EXCEPT ![p] = "gone"]
  /\ writer' = IF p \in Writers THEN [writer EXCEPT ![p].quit = TRUE] ELSE writer
  /\ alpha' = [alpha EXCEPT ![layer[p].plane] = Clear] /\ stained' = stained \ {layer[p].plane}
  /\ busy' = busy \ {layer[p].plane} /\ Released(p)
  /\ layer' = [layer EXCEPT ![p] = NoLayer]
  /\ UNCHANGED <<zpos, listed, stack, pending, pad, start, panic, posts>>

-----------------------------------------------------------------------------
\* parkLayer, when the image is prerolled: nothing is parked before its pad appeared.
Park ==
  /\ Hold \in Pipes /\ panic.at = "arming" /\ ends[Hold] = "live"
  /\ panic' = [panic EXCEPT !.at = "armed"]
  /\ IF Hold \in listed
     THEN /\ zpos' = [zpos EXCEPT ![layer[Hold].plane] = ZposTop]
          /\ layer' = [layer EXCEPT ![Hold].parked = TRUE]
     ELSE UNCHANGED <<zpos, layer>>
  /\ UNCHANGED <<busy, alpha, stained, listed, stack, pending, writer, pad, start, ends, fade, posts>>

\* The section of raiseLayer ...
Raise ==
  /\ panic.at = "armed" /\ Hold \in listed /\ ends[Hold] = "live"
  /\ stack' = Append(Remove(stack, Hold), Hold)
  /\ layer' = [layer EXCEPT ![Hold].visible = TRUE, ![Hold].parked = FALSE]
  /\ panic' = [at |-> "raised", z |-> IF layer[Hold].parked THEN 0 ELSE Len(stack')]
  /\ UNCHANGED <<planes, listed, pending, writer, pad, start, ends, fade, posts>>

\* ... and its commits: the zpos unless it was parked on top, then the alpha.
Cut ==
  /\ panic.at = "raised"
  /\ panic' = [panic EXCEPT !.at = "up"]
  /\ zpos' = IF panic.z = 0 THEN zpos ELSE [zpos EXCEPT ![layer[Hold].plane] = panic.z]
  /\ alpha' = [alpha EXCEPT ![layer[Hold].plane] = Full]
  /\ stained' = stained \ {layer[Hold].plane}
  /\ Post(Hold, Full)
  /\ UNCHANGED <<busy, layers, pad, start, ends, fade, posts>>

-----------------------------------------------------------------------------
Writer(p) == Kicked(p) \/ Writes(p) \/ Quits(p)
Pad(p) == NewLayer(p) \/ PlaceKept(p) \/ LevelKept(p)
Starter(p) == Start(p) \/ Show(p) \/ Shown(p)
Retire(p) == Unlist(p) \/ Release(p)

Next ==
  \/ \E p \in Pipes : Writer(p) \/ Pad(p) \/ Starter(p) \/ Retire(p) \/ Fades(p)
  \/ \E p, n \in Pipes : Outgoing(p, n)
  \/ \E p \in Pipes, v \in Levels : SetLevel(p, v)
  \/ Park \/ Raise \/ Cut

Spec == Init /\ [][Next]_vars

-----------------------------------------------------------------------------
TypeOK ==
  /\ busy \subseteq Planes /\ stained \subseteq Planes /\ listed \subseteq Pipes
  /\ alpha \in [Planes -> Levels] /\ zpos \in [Planes -> 1 .. ZposTop]
  /\ stack \in Seq(listed)
  /\ \A p \in Pipes : layer[p].plane \in Planes \cup {0} /\ layer[p].visible \in BOOLEAN

\* A plane has one layer at most, and is free once its layer gave it back.
Keeps(p) == layer[p].plane # 0
PlanesOwned ==
  /\ \A p, q \in Pipes : Keeps(p) /\ Keeps(q) /\ layer[p].plane = layer[q].plane => p = q
  /\ busy = {layer[p].plane : p \in {q \in Pipes : Keeps(q)}}

\* The display stacks the visible layers as the stack says, through shows, drops and a
\* panic cut that raised a parked layer (one that was not may come to lie in a gap,
\* until its own show).
Unsettled == panic.z # 0 /\ start[Hold].at \notin {"level", "done"}
Ordered ==
  \A i, j \in 1 .. Len(stack) : i < j =>
    \/ zpos[layer[stack[i]].plane] < zpos[layer[stack[j]].plane]
    \/ Unsettled /\ Hold \in {stack[i], stack[j]}

\* Nothing of a cue appears before it is shown: but for what the writer of the plane's
\* former layer still had in hand.
NothingEarly ==
  \A p \in listed : layer[p].visible \/ alpha[layer[p].plane] = Clear
                    \/ layer[p].plane \in stained

\* A show that came before the layer is not lost.
KeptShows ==
  \A p \in Pipes :
    start[p].at \in {"level", "done"} /\ pad[p].at = "done" /\ ends[p] = "live" => layer[p].visible

\* The old picture waits until the new one is on screen, kept for its layer, or retired.
Handover ==
  \A p \in Pipes : fade[p].at = "released" =>
    LET n == fade[p].over
    IN layer[n].visible \/ pending[n] # NoShow \/ pad[n].at = "place" \/ ends[n] = "gone"

\* A cue enters the wall under those on it that are to fade away over it.
GoesUnder ==
  \A p, n \in Pipes :
    fade[p].over = n /\ Contains(stack, p) /\ ~Contains(stack, n) /\ Contains(stack', n)
    => IndexOf(stack', n) < IndexOf(stack', p)
EntersUnder == [][GoesUnder]_vars

\* A writer with nothing to do has put the last level posted on the wall, unless an
\* earlier layer's writer wrote over it.
LevelLands ==
  \A p \in Writers :
    p \in listed /\ writer[p].at = "wait" /\ ~writer[p].kick
    => alpha[layer[p].plane] = writer[p].want \/ layer[p].plane \in stained

\* These three do not hold: the writer of the former layer may write into the first
\* moments of the next one, a panic image that was not parked may be raised level with
\* the layer above a gap, and a show that comes after the retirement is kept for ever.
StartsClear == \A p \in listed : layer[p].visible \/ alpha[layer[p].plane] = Clear
RaisedOnTop ==
  \A i \in 1 .. Len(stack) :
    panic.at = "up" /\ stack[i] # Hold /\ Last(stack) = Hold
    => zpos[layer[stack[i]].plane] < zpos[layer[Hold].plane]
NothingKept == \A p \in Pipes : ends[p] = "gone" => pending[p] = NoShow
=============================================================================
