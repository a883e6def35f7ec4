--------------------------- MODULE PlaybackBenches ---------------------------
(***************************************************************************)
(* Five small instances of Playback explored side by side: the same        *)
(* variables under five sets of cues, calls and faults.  What the cues are *)
(* like is the same on all of them.                                        *)
(***************************************************************************)
EXTENDS MCPlayback

CONSTANT Second   \* one of two clients

VARIABLE bench    \* which of them the state belongs to

\* One client; a cue that crossfades, and one that joins the stack.
Stack == INSTANCE Playback WITH
  Cues <- {1, 2}, Keep <- {2}, Cross <- {1}, Hold <- {}, Loop <- {}, Trim <- {},
  Count <- [c \in {1, 2} |-> 0], Layered <- TRUE, Faults <- FALSE, MaxCalls <- 3,
  Calls <- {"fire", "stop", "panic", "stopCue", "warm"}

\* Two clients; a cue that loops, and one that joins the stack; faults.
Race == INSTANCE Playback WITH
  Cues <- {3, 8}, Keep <- {8}, Cross <- {}, Hold <- {}, Loop <- {3}, Trim <- {},
  Count <- [c \in {3, 8} |-> Count[c]], Layered <- TRUE, Faults <- TRUE, MaxCalls <- 2,
  Calls <- {"fire", "panic", "stopCue", "warm"}

\* Two clients on a display without layers; a plain cue and the transport.
Deck == INSTANCE Playback WITH
  Cues <- {5}, Keep <- {}, Cross <- {}, Hold <- {}, Loop <- {}, Trim <- {},
  Count <- [c \in {5} |-> 0], Layered <- FALSE, Faults <- FALSE, MaxCalls <- 3,
  Calls <- {"fire", "play", "pause", "toggle", "panic", "fade", "stopCue"}

\* One client; a cue that loops to its out-point, and one that crossfades and holds.
Ends == INSTANCE Playback WITH
  Cues <- {6, 7}, Keep <- {}, Cross <- {7}, Hold <- {7}, Loop <- {6}, Trim <- {6},
  Count <- [c \in {6, 7} |-> Count[c]], Layered <- TRUE, Faults <- FALSE, MaxCalls <- 2,
  Calls <- {"fire", "play", "pause", "panic", "fade"}

\* One client; a cue that joins the stack and holds there, and one that loops.
Voices == INSTANCE Playback WITH
  Cues <- {3, 4}, Keep <- {4}, Cross <- {}, Hold <- {4}, Loop <- {3}, Trim <- {},
  Count <- [c \in {3, 4} |-> Count[c]], Layered <- TRUE, Faults <- FALSE, MaxCalls <- 2,
  Calls <- {"fire", "play", "pause", "fade"}

\* One client is under way at a time where the other one is idle; the cues of Ends have
\* the out-points they have on the whole.
ASSUME BenchAssumption ==
  /\ Stack!PlaybackAssumption /\ Race!PlaybackAssumption /\ Deck!PlaybackAssumption
  /\ Ends!PlaybackAssumption /\ Voices!PlaybackAssumption
  /\ \E r \in Requests : Requests \subseteq {r, Second}
  /\ Trim \cap {6, 7} = {6}

\* A pipeline that was built and retired before leaves two to build.
Worn == \E p \in Pipes : gst = [q \in Pipes |-> IF q = p THEN "null" ELSE "new"]

Fresh ==
  /\ focus = NoClip /\ voices = {} /\ warm = NoWarm
  /\ gen = 0 /\ halts = 0 /\ loads = 0
  /\ at = [p \in Pipes |-> "run"] /\ of = [p \in Pipes |-> 0] /\ fade = [p \in Pipes |-> "none"]
  /\ eos = {} /\ watch = {} /\ trim = [p \in Pipes |-> 0]
  /\ pc = [t \in Threads |-> "idle"] /\ reg = [t \in Threads |-> NoRegs]
  /\ calls = 0 /\ reports = {} /\ wish = "run"

BenchInit ==
  /\ bench \in {"stack", "race", "deck", "ends", "voices"}
  /\ IF bench \in {"race", "ends", "voices"} THEN Worn ELSE gst = [p \in Pipes |-> "new"]
  /\ Fresh

OneClient == pc'[Second] = "idle"

BenchNext ==
  /\ UNCHANGED bench
  /\ \/ bench = "stack" /\ Stack!Next /\ OneClient
     \/ bench = "race" /\ Race!Next
     \/ bench = "deck" /\ Deck!Next
     \/ bench = "ends" /\ Ends!Next /\ OneClient
     \/ bench = "voices" /\ Voices!Next /\ OneClient

Benches == BenchInit /\ [][BenchNext]_<<vars, bench>>

-----------------------------------------------------------------------------
\* Without voices that loop, every loser of a race between Play, Pause, Toggle, GO and
\* Panic sends its pipeline back to NULL: two never stay on the output.
OneOutputOnDeck == bench = "deck" => OneOutput

\* A Panic or a fade is final against the transport, the ends of clips, their loops and
\* their holds.  (Stop is not: see HaltSticks of playback_stopgo.)
HaltsStick == bench \in {"deck", "ends"} => HaltSticks

\* Through loops, holds and out-points every running clip keeps its bus watch, and its
\* out-point poll while it plays.
EndsWatched == bench = "ends" => WatchKept /\ OutPointKept

\* While cues replace one another an end is told under the position of the cue that
\* ended.  (A clip that comes to the front between a load and its tag gets the tag.)
EndsNamed == bench = "ends" => TagMatches

\* Without an out-point no end handler sends a clip round again whose count has run out.
\* (With one, the stream's end and the poll both handle the end: see playback_loops.)
LoopsEndByCount == [][bench = "race" => RoundsCounted]_vars
=============================================================================
