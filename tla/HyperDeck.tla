------------------------------ MODULE HyperDeck ------------------------------
(***************************************************************************)
(* A HyperDeck controller (routes/hyperdeck.go): its commands, which hold  *)
(* the write lock from the first line to the reply, the clip list with the *)
(* playhead that "goto" sets, and the notifications: a loop that polls the *)
(* player, a queue, and a pusher that takes the same write lock.           *)
(*                                                                         *)
(* A frame of the queue is the version of the player it shows, or Other.   *)
(* The player is what the commands need of it: the clip on the board, the  *)
(* clips that wait behind a fade, and a version.                           *)
(***************************************************************************)
EXTENDS Naturals, Sequences, FiniteSets

CONSTANTS
  Cues,      \* the cues of the sheet, numbers
  Fades,     \* those with a fade-out: fired over another, they wait for it
  Cap,       \* room of the queue of a client
  Commands,  \* commands the controller sends
  Acts,      \* what the operator does beside it
  MaxCmds,   \* bound: commands
  MaxActs    \* bound: the operator's actions

VARIABLES
  list,     \* the clip list: the cues in play order
  sel,      \* the selected cue, 0 = none
  goto,     \* deckGotoClip: a clip id, 0 = none
  playing, queue, ver,   \* the player
  remote,   \* deckState.remoteEnabled
  sub,      \* subscriptions of the client
  out,      \* its queue
  cmd,      \* [op, id, pc, ver]: the command in hand; pc "idle" = the lock is free
  seen, last, push,      \* locals of the notify loop; push = it has a state to send
  told, missed,          \* history: the version told last; a frame was dropped
  cued,                  \* history: the cue of the last goto, until the deck plays or stops
  cmds, acts

board == <<playing, queue, ver>>
sheet == <<list, sel>>
loop == <<seen, last, push>>
counts == <<cmds, acts>>
vars == <<sheet, goto, board, remote, sub, out, cmd, loop, told, missed, cued, counts>>

Other == 0
Idle == [op |-> "none", id |-> 0, pc |-> "idle", ver |-> 0]
InOrder == CHOOSE s \in [1..Cardinality(Cues) -> Cues] :
             \A i, j \in DOMAIN s : i < j => s[i] < s[j]

Init ==
  /\ list = InOrder /\ sel = 0 /\ goto = 0
  /\ playing = 0 /\ queue = {} /\ ver = 1
  /\ remote = TRUE /\ sub = {} /\ out = <<>> /\ cmd = Idle
  /\ seen = 0 /\ last = 0 /\ push = FALSE
  /\ told = 1 /\ missed = FALSE /\ cued = 0 /\ cmds = 0 /\ acts = 0

Range(s) == {s[i] : i \in DOMAIN s}
\* The clip id of cue c, 0 if it has none (playingClipID, playheadClipID).
ClipOf(c) == IF c \in Range(list) THEN CHOOSE i \in DOMAIN list : list[i] = c ELSE 0

\* deckNotifyAll: a client whose queue is full misses the frame.
Notify(bit, frame) ==
  IF bit \notin sub THEN UNCHANGED <<out, missed>>
  ELSE IF Len(out) < Cap THEN out' = Append(out, frame) /\ UNCHANGED missed
  ELSE missed' = TRUE /\ UNCHANGED out

-----------------------------------------------------------------------------
\* FireCue: the clip waits behind the fade of the one on the board, or starts.
FireCue(c) ==
  \/ playing # 0 /\ c \in Fades /\ queue' = queue \cup {c} /\ UNCHANGED <<playing, ver>>
  \/ (playing = 0 \/ c \notin Fades) /\ playing' = c /\ queue' = {} /\ ver' = ver + 1

\* The fade is over: the clip that waited starts.
FadeEnds(c) ==
  /\ c \in queue
  /\ playing' = c /\ queue' = {} /\ ver' = ver + 1
  /\ UNCHANGED <<sheet, goto, remote, sub, out, cmd, loop, told, missed, cued, counts>>

Operator(act) ==
  /\ act \in Acts /\ acts < MaxActs /\ acts' = acts + 1
  /\ UNCHANGED <<goto, remote, sub, out, cmd, loop, told, missed, cued, cmds>>

GoOn(c) ==
  /\ Operator("go") /\ playing' = c /\ queue' = {} /\ ver' = ver + 1
  /\ UNCHANGED sheet

StopOn ==
  /\ Operator("stop") /\ playing' = 0 /\ queue' = {} /\ ver' = ver + 1
  /\ UNCHANGED sheet

\* The sheet is reordered, or loses a cue.
Reorder ==
  /\ Operator("reorder") /\ Len(list) > 1
  /\ \/ list' = Append(Tail(list), Head(list)) /\ UNCHANGED sel
     \/ list' = Tail(list) /\ sel' = IF sel = Head(list) THEN 0 ELSE sel
  /\ UNCHANGED board

-----------------------------------------------------------------------------
\* A command arrives: the write lock is taken for it.
Receive(op, id) ==
  /\ op \in Commands /\ cmd = Idle /\ cmds < MaxCmds
  /\ cmds' = cmds + 1
  /\ cmd' = [op |-> op, id |-> id, pc |-> "run", ver |-> ver]
  /\ UNCHANGED <<sheet, goto, board, remote, sub, out, loop, told, missed, cued, acts>>

\* A clip id may be in the list or not.
ClipIds(op) == IF op \in {"goto", "playclip"} THEN 1..Cardinality(Cues) + 1 ELSE {0}

Running(op) == cmd.pc = "run" /\ cmd.op = op
Done == cmd' = [cmd EXCEPT !.pc = "reply"]
Fire(id) == cmd' = [cmd EXCEPT !.pc = "fire", !.id = id]

\* With remote control disabled the transport commands answer 111.
Refused ==
  /\ cmd.pc = "run" /\ cmd.op \in {"play", "playclip", "stop", "goto", "seek"} /\ ~remote
  /\ Done
  /\ UNCHANGED <<sheet, goto, board, remote, sub, out, loop, told, missed, cued, counts>>

\* notify: the client asks for the state once it is subscribed.
Subscribe ==
  /\ Running("notify") /\ sub' = {"transport", "remote", "configuration"} /\ told' = ver
  /\ Done
  /\ UNCHANGED <<sheet, goto, board, remote, out, loop, missed, cued, counts>>

\* deckRemote; an invalid parameter ends it, whatever was stored before.
SetRemote ==
  /\ Running("remote")
  /\ \/ remote' = ~remote /\ Notify("remote", Other)
     \/ remote' \in BOOLEAN /\ UNCHANGED <<out, missed>>
  /\ Done
  /\ UNCHANGED <<sheet, goto, board, sub, loop, told, cued, counts>>

\* deckConfigure: checked first, then stored and told.
Configure ==
  /\ Running("configuration")
  /\ \/ Notify("configuration", Other)
     \/ UNCHANGED <<out, missed>>
  /\ Done
  /\ UNCHANGED <<sheet, goto, board, remote, sub, loop, told, cued, counts>>

\* What only reads: transport info, clips get, slot info, ping ...
Query ==
  /\ Running("query")
  /\ Done
  /\ UNCHANGED <<sheet, goto, board, remote, sub, out, loop, told, missed, cued, counts>>

\* jog, shuttle, pause, goto in the clip: the clip on the board is moved.
Seek ==
  /\ Running("seek") /\ remote
  /\ ver' = ver + 1
  /\ Done
  /\ UNCHANGED <<sheet, goto, playing, queue, remote, sub, out, loop, told, missed, cued, counts>>

Stop ==
  /\ Running("stop") /\ remote
  /\ goto' = 0 /\ cued' = 0
  /\ playing' = 0 /\ queue' = {} /\ ver' = ver + 1
  /\ Done
  /\ UNCHANGED <<sheet, remote, sub, out, loop, told, missed, counts>>

\* goto: the cue of the clip is selected ...
GotoSelect ==
  /\ Running("goto") /\ remote
  /\ IF cmd.id \in DOMAIN list
     THEN sel' = list[cmd.id] /\ cued' = list[cmd.id] /\ cmd' = [cmd EXCEPT !.pc = "store"]
     ELSE Done /\ UNCHANGED <<sel, cued>>
  /\ UNCHANGED <<list, goto, board, remote, sub, out, loop, told, missed, counts>>

\* ... and the clip is what the next bare play starts.
GotoStore ==
  /\ cmd.pc = "store" /\ goto' = cmd.id
  /\ Done
  /\ UNCHANGED <<sheet, board, remote, sub, out, loop, told, missed, cued, counts>>

\* Playing a clip by its id takes the goto back.
TakenBack == 0

PlayClip ==
  /\ Running("playclip") /\ remote
  /\ goto' = TakenBack /\ cued' = 0
  /\ Fire(cmd.id)
  /\ UNCHANGED <<sheet, board, remote, sub, out, loop, told, missed, counts>>

\* A bare play: the goto'd clip unless it is on the board, the playhead if
\* nothing is, else the transport goes on.
Play ==
  /\ Running("play") /\ remote
  /\ goto' = 0
  /\ IF goto # 0 /\ goto # ClipOf(playing) THEN Fire(goto) /\ UNCHANGED ver
     ELSE IF playing = 0
     THEN UNCHANGED ver /\ IF list = <<>> THEN Done
                           ELSE Fire(IF ClipOf(sel) = 0 THEN 1 ELSE ClipOf(sel))
     ELSE ver' = ver + 1 /\ Done
  /\ UNCHANGED <<sheet, playing, queue, remote, sub, out, loop, told, missed, cued, counts>>

\* fireClip: the id is looked up, and its cue fired or found broken.
FireClip ==
  /\ cmd.pc = "fire"
  /\ \/ cmd.id \in DOMAIN list /\ FireCue(list[cmd.id]) /\ cmd' = [cmd EXCEPT !.pc = "options"]
     \/ UNCHANGED board /\ Done
  /\ cued' = 0
  /\ UNCHANGED <<sheet, goto, remote, sub, out, loop, told, missed, counts>>

\* Its timecode, speed and loop go to what is on the board by then.
Options ==
  /\ cmd.pc = "options"
  /\ ver' = ver + 1
  /\ Done
  /\ UNCHANGED <<sheet, goto, playing, queue, remote, sub, out, loop, told, missed, cued, counts>>

Reply ==
  /\ cmd.pc = "reply"
  /\ cmd' = Idle
  /\ UNCHANGED <<sheet, goto, board, remote, sub, out, loop, told, missed, cued, counts>>

\* The client quits or does not take its reply: it is closed, another connects.
Leave ==
  /\ cmd' = Idle /\ sub' = {} /\ out' = <<>> /\ told' = ver /\ missed' = FALSE
  /\ UNCHANGED <<sheet, goto, board, remote, loop, cued, counts>>

Quit == Running("quit") /\ Leave
WriteFails == cmd.pc = "reply" /\ sub # {} /\ Leave

-----------------------------------------------------------------------------
\* A version that held for a tick is to be sent, and is marked as sent.
Tick ==
  /\ ~push
  /\ IF ver # seen THEN seen' = ver /\ UNCHANGED <<last, push>>
     ELSE ver # last /\ last' = ver /\ push' = ("transport" \in sub) /\ UNCHANGED seen
  /\ UNCHANGED <<sheet, goto, board, remote, sub, out, cmd, told, missed, cued, counts>>

\* The body is built and queued.
Queue ==
  /\ push /\ push' = FALSE
  /\ Notify("transport", ver)
  /\ UNCHANGED <<seen, last, sheet, goto, board, remote, sub, cmd, told, cued, counts>>

\* Mutant of LockFree: the lock is taken for the reply only.
ReplyOnly == cmd.pc # "reply"

LockFree == cmd = Idle

\* The pusher writes a frame.
Push ==
  /\ out # <<>> /\ LockFree
  /\ out' = Tail(out)
  /\ told' = IF Head(out) = Other THEN told ELSE Head(out)
  /\ UNCHANGED <<sheet, goto, board, remote, sub, cmd, loop, missed, cued, counts>>

Command ==
  \/ Refused \/ Subscribe \/ SetRemote \/ Configure \/ Query \/ Seek \/ Stop
  \/ GotoSelect \/ GotoStore \/ PlayClip \/ Play \/ FireClip \/ Options \/ Reply \/ Quit

Next ==
  \/ \E c \in Cues : FadeEnds(c) \/ GoOn(c)
  \/ StopOn \/ Reorder
  \/ \E op \in Commands : \E i \in ClipIds(op) : Receive(op, i)
  \/ Command \/ WriteFails
  \/ Tick \/ Queue \/ Push

Fairness == WF_vars(Command) /\ WF_vars(Tick \/ Queue) /\ WF_vars(Push)

Spec == Init /\ [][Next]_vars /\ Fairness

-----------------------------------------------------------------------------
TypeOK ==
  /\ Range(list) \subseteq Cues /\ sel \in Cues \cup {0} /\ goto \in 0..Cardinality(Cues)
  /\ playing \in Cues \cup {0} /\ queue \subseteq Fades /\ ver \in Nat
  /\ remote \in BOOLEAN /\ sub \subseteq {"transport", "remote", "configuration"}
  /\ out \in Seq(0..ver) /\ Len(out) <= Cap
  /\ cmd.pc \in {"idle", "run", "store", "fire", "options", "reply"} /\ cmd.id \in 0..Cardinality(Cues) + 1
  /\ seen \in 0..ver /\ last \in 0..ver /\ push \in BOOLEAN /\ told \in 0..ver
  /\ missed \in BOOLEAN /\ cued \in Cues \cup {0} /\ cmds \in 0..MaxCmds /\ acts \in 0..MaxActs

\* No notification of what a command did is written before its reply.
ReplyFirst == [][Push /\ cmd # Idle => Head(out) <= cmd.ver]_vars

\* A bare play starts the clip the last goto cued (while the list is the one it
\* counted in), and never one that a later play or stop of the deck took back.
GotoIsFresh ==
  [][Play /\ cmd'.pc = "fire" /\ goto # 0 =>
       cued # 0 /\ (list = InOrder => list[cmd'.id] = cued)]_vars

\* A subscriber is told the last state of the player, unless its queue was full.
TransportTold ==
  ("transport" \in sub /\ told # ver) ~> ("transport" \notin sub \/ told = ver \/ missed)
=============================================================================
