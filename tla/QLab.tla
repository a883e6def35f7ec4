-------------------------------- MODULE QLab --------------------------------
(***************************************************************************)
(* The QLab workspace over OSC (routes/qlabws.go, qlab.go): the requests   *)
(* of a client and the loop that tells subscribed clients which cues to    *)
(* ask for again.                                                          *)
(*                                                                         *)
(* What a controller shows of a cue is its content (a number that grows    *)
(* with every edit) and whether it runs.  A client that is told of a cue   *)
(* fetches it: what it knows of it is what holds by then.                  *)
(***************************************************************************)
EXTENDS Naturals, FiniteSets

CONSTANTS
  Clients,   \* TCP connections
  Cues,      \* the cues of the sheet, numbers in play order
  MaxEdits,  \* bound: edits of the sheet
  MaxMoves,  \* bound: moves of the playhead and of the player
  Polls      \* the playhead is read every so many passes

VARIABLES
  content, order, sheetVer,    \* the sheet: [Cues -> Nat], how often it was reordered, version
  sel,                         \* the selected cue, 0 = none
  focus, voices, stateVer,     \* the player: the cue in front, the others, version
  updates, known,              \* of each client: subscribed; what it was told
  stopping,                    \* of each client: the stop of a cue it decided, and for which
  pc, subs, msgs, head,        \* the loop: where it is, its clients, what it has to say
  lastState, lastSheet, lastActive, lastPlayhead, lastOrder, sigs, tick,
  based,                       \* history: the client fetched when the loop had its baseline
  edits, moves

sheet == <<content, order, sheetVer>>
player == <<focus, voices, stateVer>>
clients == <<updates, known, stopping, based>>
memory == <<lastState, lastSheet, lastActive, lastPlayhead, lastOrder, sigs, tick>>
loop == <<pc, subs, msgs, head, memory>>
vars == <<sheet, sel, player, clients, loop, edits, moves>>

NoSel == 99     \* lastPlayhead = "": not read yet
List == 0       \* the update of the list itself
NoStop == [how |-> "none", cue |-> 0]
Running == voices \cup (IF focus = 0 THEN {} ELSE {focus})
Shown == [content |-> content, order |-> order, sel |-> sel, run |-> Running]

Init ==
  /\ content = [c \in Cues |-> 0] /\ order = 0 /\ sheetVer = 0
  /\ sel = 0 /\ focus = 0 /\ voices = {} /\ stateVer = 1
  /\ updates = [k \in Clients |-> FALSE] /\ known = [k \in Clients |-> Shown]
  /\ stopping = [k \in Clients |-> NoStop] /\ based = [k \in Clients |-> FALSE]
  /\ pc = "subs" /\ subs = {} /\ msgs = {} /\ head = FALSE
  /\ lastState = 0 /\ lastSheet = 0 /\ lastActive = 0 /\ lastPlayhead = NoSel
  /\ lastOrder = 0 /\ sigs = [c \in Cues |-> 0] /\ tick = 0
  /\ edits = 0 /\ moves = 0

-----------------------------------------------------------------------------
Edit(c) ==
  /\ edits < MaxEdits /\ edits' = edits + 1 /\ sheetVer' = sheetVer + 1
  /\ \/ content' = [content EXCEPT ![c] = @ + 1] /\ UNCHANGED order
     \/ order' = order + 1 /\ UNCHANGED content
  /\ UNCHANGED <<sel, player, clients, loop, moves>>

Move == moves < MaxMoves /\ moves' = moves + 1 /\ UNCHANGED <<content, order, loop, edits>>

\* The playhead moves: every write of the selection is a new version of the sheet.
Select(c) ==
  /\ Move /\ sel # c /\ sel' = c /\ sheetVer' = sheetVer + 1
  /\ UNCHANGED <<player, clients>>

\* A cue is fired: it takes the board, or leaves the others running.
Start(c) ==
  /\ Move /\ focus' = c /\ stateVer' = stateVer + 1
  /\ \/ voices' = {}
     \/ voices' = Running \ {c}
  /\ UNCHANGED <<sheetVer, sel, clients>>

StopAll ==
  /\ Move /\ focus' = 0 /\ voices' = {} /\ stateVer' = stateVer + 1
  /\ UNCHANGED <<sheetVer, sel, clients>>

\* A running cue ends or is stopped: the newest of the others comes to the front.
Leave(c) ==
  /\ c \in Running /\ stateVer' = stateVer + 1
  /\ focus' \in IF c # focus THEN {focus} ELSE IF voices = {} THEN {0} ELSE voices
  /\ voices' = voices \ {c, focus'}

Ends(c) == Move /\ Leave(c) /\ UNCHANGED <<sheetVer, sel, clients>>

\* /cue/{c}/stop: alone when others run, else all, if it is on the board ...
StopCue(k, c) ==
  /\ stopping[k] = NoStop /\ c \in Running /\ moves < MaxMoves
  /\ stopping' = [stopping EXCEPT ![k] =
       [how |-> IF Cardinality(Running) > 1 THEN "alone" ELSE "all", cue |-> c]]
  /\ UNCHANGED <<sheet, sel, player, updates, known, based, loop, edits, moves>>

\* ... as it was when it was looked at.
StopActs(k) ==
  /\ stopping[k] # NoStop
  /\ stopping' = [stopping EXCEPT ![k] = NoStop]
  /\ \/ stopping[k].how = "all" /\ focus' = 0 /\ voices' = {} /\ stateVer' = stateVer + 1
     \/ stopping[k].how = "alone" /\ Leave(stopping[k].cue)
     \/ stopping[k].how = "alone" /\ stopping[k].cue \notin Running /\ UNCHANGED player
  /\ UNCHANGED <<sheet, sel, updates, known, based, loop, edits, moves>>

\* /updates 1; a client that has it fetches the list, the playhead, the running cues.
Subscribe(k) ==
  /\ ~updates[k]
  /\ updates' = [updates EXCEPT ![k] = TRUE]
  /\ UNCHANGED <<sheet, sel, player, known, stopping, based, loop, edits, moves>>

Fetch(k) ==
  /\ updates[k] /\ (known[k] # Shown \/ ~based[k])
  /\ moves < MaxMoves
  /\ known' = [known EXCEPT ![k] = Shown]
  /\ based' = [based EXCEPT ![k] = lastSheet # 0 /\ lastPlayhead # NoSel]
  /\ moves' = moves + 1
  /\ UNCHANGED <<sheet, sel, player, updates, stopping, loop, edits>>

\* /updates 0, /disconnect, or the connection is gone.
Unsubscribe(k) ==
  /\ updates[k] /\ moves < MaxMoves /\ moves' = moves + 1
  /\ updates' = [updates EXCEPT ![k] = FALSE]
  /\ based' = [based EXCEPT ![k] = FALSE]
  /\ UNCHANGED <<sheet, sel, player, known, stopping, loop, edits>>

-----------------------------------------------------------------------------
At(label) == pc' = label
World == <<sheet, sel, player, updates, known, stopping, edits, moves>>

\* A pass: with nobody subscribed everything is forgotten.
Subscribers ==
  /\ pc = "subs"
  /\ subs' = {k \in Clients : updates[k]}
  /\ At(IF subs' = {} THEN "forget" ELSE "sheet")
  /\ UNCHANGED <<World, based, msgs, head, memory>>

Forget ==
  /\ pc = "forget"
  /\ lastState' = 0 /\ lastSheet' = 0 /\ lastActive' = 0 /\ lastPlayhead' = NoSel
  /\ lastOrder' = 0 /\ sigs' = [c \in Cues |-> 0]
  /\ based' = [k \in Clients |-> FALSE]
  /\ At("subs")
  /\ UNCHANGED <<World, subs, msgs, head, tick>>

\* Mutant of SaysSheet: the list is compared, the cues are not.
SaysOrder ==
  IF lastSheet # 0 /\ order # lastOrder THEN {List} ELSE {}

\* What changed in the sheet; the first look is the baseline.
SaysSheet ==
  IF lastSheet = 0 THEN {}
  ELSE {c \in Cues : sigs[c] # content[c]} \cup (IF order # lastOrder THEN {List} ELSE {})

Sheet ==
  /\ pc = "sheet"
  /\ IF sheetVer = lastSheet THEN msgs' = {} /\ UNCHANGED <<lastSheet, lastOrder, sigs>>
     ELSE /\ msgs' = SaysSheet
          /\ lastSheet' = sheetVer /\ lastOrder' = order /\ sigs' = content
  /\ At("head")
  /\ UNCHANGED <<World, based, subs, head, lastState, lastActive, lastPlayhead, tick>>

\* The playhead is read on every third pass, and at once for a baseline.
PollsHead == (tick + 1) % Polls = 0 \/ lastPlayhead = NoSel

Playhead ==
  /\ pc = "head"
  /\ tick' = (tick + 1) % Polls
  /\ IF PollsHead /\ sel # lastPlayhead
     THEN head' = (lastPlayhead # NoSel) /\ lastPlayhead' = sel
     ELSE head' = FALSE /\ UNCHANGED lastPlayhead
  /\ At("state")
  /\ UNCHANGED <<World, based, subs, msgs, lastState, lastSheet, lastActive, lastOrder, sigs>>

\* The cue that was on the board and the one that is.
SaysState == {lastActive, focus} \ {0}

State ==
  /\ pc = "state"
  /\ IF stateVer = lastState THEN UNCHANGED <<msgs, lastState, lastActive>>
     ELSE msgs' = msgs \cup SaysState /\ lastState' = stateVer /\ lastActive' = focus
  /\ At("send")
  /\ UNCHANGED <<World, based, subs, head, lastSheet, lastPlayhead, lastOrder, sigs, tick>>

\* Every client of the pass is told, and fetches what it was told of.
Told(k) ==
  [content |-> [c \in Cues |-> IF c \in msgs THEN content[c] ELSE known[k].content[c]],
   order |-> IF List \in msgs THEN order ELSE known[k].order,
   sel |-> IF head THEN sel ELSE known[k].sel,
   run |-> (known[k].run \ msgs) \cup (Running \cap msgs)]

Send ==
  /\ pc = "send"
  /\ known' = [k \in Clients |-> IF k \in subs THEN Told(k) ELSE known[k]]
  /\ msgs' = {} /\ head' = FALSE /\ subs' = {}
  /\ At("subs")
  /\ UNCHANGED <<sheet, sel, player, updates, stopping, edits, moves, based, memory>>

Pass == Subscribers \/ Forget \/ Sheet \/ Playhead \/ State \/ Send

Next ==
  \/ \E c \in Cues : Edit(c) \/ Select(c) \/ Start(c) \/ Ends(c)
  \/ StopAll
  \/ \E k \in Clients : \/ Subscribe(k) \/ Fetch(k) \/ Unsubscribe(k) \/ StopActs(k)
                        \/ \E c \in Cues : StopCue(k, c)
  \/ Pass

Spec == Init /\ [][Next]_vars /\ WF_vars(Pass)

-----------------------------------------------------------------------------
Picture == [content : [Cues -> 0..MaxEdits], order : 0..MaxEdits, sel : Cues \cup {0},
            run : SUBSET Cues]

TypeOK ==
  /\ Shown \in Picture /\ focus \notin voices
  /\ \A k \in Clients : known[k] \in Picture
  /\ pc \in {"subs", "forget", "sheet", "head", "state", "send"}
  /\ subs \subseteq Clients /\ msgs \subseteq Cues \cup {List} /\ head \in BOOLEAN
  /\ lastSheet <= sheetVer /\ lastState <= stateVer /\ lastActive \in Cues \cup {0}
  /\ lastPlayhead \in Cues \cup {0, NoSel} /\ tick \in 0..Polls - 1

\* Every edit of a cue, every change of the list and every move of the playhead
\* reaches client k, if it fetched after the loop had its baseline.
EditsTold(k) ==
  (based[k] /\ (known[k].content # content \/ known[k].order # order \/ known[k].sel # sel))
    ~> (~based[k] \/ (known[k].content = content /\ known[k].order = order /\ known[k].sel = sel))

\* Client k is shown cue c running while it is in front, and no longer once it
\* is over for good after it was.
FocusTold(k, c) ==
  /\ (based[k] /\ focus = c /\ c \notin known[k].run) ~> (~based[k] \/ focus # c \/ c \in known[k].run)
  /\ (based[k] /\ lastActive = c /\ c \notin Running /\ c \in known[k].run)
       ~> (~based[k] \/ c \in Running \/ c \notin known[k].run)
=============================================================================
