----------------------------- MODULE EdgeBenches -----------------------------
(***************************************************************************)
(* The edges of the program explored side by side: the remote protocols,   *)
(* with their listeners, a HyperDeck controller and a QLab client, and the *)
(* layers of the wall on the display's planes.  The components share no    *)
(* variable; "which" is the one that moves, the others rest in their       *)
(* initial state.                                                          *)
(***************************************************************************)
EXTENDS Naturals

VARIABLES
  which,
  config, run, open, lock, req, conn, socks, saves, faults,
  list, sel, goto, playing, queue, ver, remote, sub, out, cmd,
  seen, last, push, told, missed, cued, cmds, acts,
  content, order, sheetVer, head, focus, voices, stateVer, updates, known,
  stopping, pc, subs, msgs, headMoved, lastState, lastSheet, lastActive,
  lastPlayhead, lastOrder, sigs, tick, based, edits, moves,
  busy, alpha, zpos, layer, listed, stack, pending, writer, pad, start, ends, fade, panic,
  posts, stained

\* Two listeners, one with room for one client; two requests save two settings.
Link == INSTANCE RemoteLink WITH
  Protocols <- {"hyperdeck", "osc_tcp"}, Limited <- "hyperdeck", MaxClients <- 1,
  Addrs <- {1, 2}, Conns <- {"c1", "c2"}, Requests <- {"r1", "r2"},
  MaxSaves <- 2, MaxSocks <- 3, MaxFaults <- 1

\* Two clips, one of which waits behind a fade: the transport commands ...
Deck == INSTANCE HyperDeck WITH
  Cues <- {1, 2}, Fades <- {2}, Cap <- 1,
  Commands <- {"notify", "stop", "goto", "playclip", "play"},
  Acts <- {"go", "reorder"}, MaxCmds <- 3, MaxActs <- 1

\* ... and all commands, of a client whose queue has room for one frame.
Panel == INSTANCE HyperDeck WITH
  Cues <- {1, 2}, Fades <- {2}, Cap <- 1,
  Commands <- {"notify", "remote", "stop", "goto", "playclip", "play", "quit", "seek",
               "query", "configuration"},
  Acts <- {"go", "stop", "reorder"}, MaxCmds <- 2, MaxActs <- 1

\* One client; the playhead is read on every other pass.
Desk == INSTANCE QLab WITH
  Clients <- {"k1"}, Cues <- {1, 2}, MaxEdits <- 1, MaxMoves <- 2, Polls <- 2,
  sel <- head, head <- headMoved

\* Two cues that have one plane in turn, with their fades ...
Reuse == INSTANCE Wall WITH
  Pipes <- {"p1", "p2"}, Hold <- "none", Planes <- {1}, On <- <<>>, Late <- {"p1"},
  Writers <- {"p1", "p2"}, Places <- {"top"}, FirstLevels <- {0, 1}, MaxPosts <- 1

\* ... a third over two of a stack, which it replaces or joins ...
Cross == INSTANCE Wall WITH
  Pipes <- {"p1", "p2", "p3"}, Hold <- "none", Planes <- {1, 2, 3}, On <- <<"p1", "p2">>,
  Late <- {"p3"}, Writers <- {}, Places <- {"bottom", "under", "top"}, FirstLevels <- {1},
  MaxPosts <- 0

\* ... and two of a stack that the panic image cuts.
Cut == INSTANCE Wall WITH
  Pipes <- {"p1", "p2", "p3"}, Hold <- "p3", Planes <- {1, 2, 3}, On <- <<"p1">>,
  Late <- {"p2"}, Writers <- {}, Places <- {"top"}, FirstLevels <- {1}, MaxPosts <- 0

ASSUME BenchAssumption ==
  /\ Link!RemoteLinkAssumption
  /\ Reuse!WallAssumption /\ Cross!WallAssumption /\ Cut!WallAssumption


linkVars == <<config, run, open, lock, req, conn, socks, saves, faults>>
deckVars == <<list, sel, goto, playing, queue, ver, remote, sub, out, cmd, seen, last,
              push, told, missed, cued, cmds, acts>>
deskVars == <<content, order, sheetVer, head, focus, voices, stateVer, updates, known,
              stopping, pc, subs, msgs, headMoved, lastState, lastSheet, lastActive,
              lastPlayhead, lastOrder, sigs, tick, based, edits, moves>>
wallVars == <<busy, alpha, zpos, layer, listed, stack, pending, writer, pad, start, ends,
              fade, panic, posts, stained>>
all == <<linkVars, deckVars, deskVars, wallVars, which>>

BenchInit ==
  /\ which \in {"link", "deck", "panel", "desk", "reuse", "cross", "cut"}
  /\ Link!Init /\ Deck!Init /\ Desk!Init
  /\ IF which = "reuse" THEN Reuse!Init ELSE IF which = "cross" THEN Cross!Init ELSE Cut!Init

LinkMoves == which = "link" /\ Link!Next /\ UNCHANGED <<deckVars, deskVars, wallVars, which>>
DeckMoves == which = "deck" /\ Deck!Next /\ UNCHANGED <<linkVars, deskVars, wallVars, which>>
PanelMoves == which = "panel" /\ Panel!Next /\ UNCHANGED <<linkVars, deskVars, wallVars, which>>
DeskMoves == which = "desk" /\ Desk!Next /\ UNCHANGED <<linkVars, deckVars, wallVars, which>>
WallMoves ==
  /\ \/ which = "reuse" /\ Reuse!Next
     \/ which = "cross" /\ Cross!Next
     \/ which = "cut" /\ Cut!Next
  /\ UNCHANGED <<linkVars, deckVars, deskVars, which>>

\* At rest the listeners have nothing that fairness would move.
Benches ==
  /\ BenchInit /\ [][LinkMoves \/ DeckMoves \/ PanelMoves \/ DeskMoves \/ WallMoves]_all
  /\ Link!Fairness
  /\ WF_deckVars(which \in {"deck", "panel"} /\ Deck!Command) /\ WF_deckVars(which \in {"deck", "panel"} /\ (Deck!Tick \/ Deck!Queue))
  /\ WF_deckVars(which \in {"deck", "panel"} /\ Deck!Push) /\ WF_deskVars(which = "desk" /\ Desk!Pass)

-----------------------------------------------------------------------------
\* Through concurrent saves and failed binds every listening socket belongs to the row
\* that can close it, the deck never serves more clients than it has room for, and a
\* watched controller that vanished gives its place back.
LinksServed ==
  /\ []Link!TypeOK /\ []Link!NoLeakedSocket /\ []Link!DeckLimit
  /\ Link!SlotFreed("c1")

\* No notification of a command overtakes its reply, a bare "play" starts what the last
\* "goto" cued, and a subscriber is told the last state unless its queue overflowed.
DeckAnswers ==
  /\ []Deck!TypeOK
  /\ Deck!ReplyFirst /\ Deck!GotoIsFresh /\ Deck!TransportTold

\* A client that fetched is told every edit, every move of the playhead, and which cue
\* is in front.
DeskTold ==
  /\ []Desk!TypeOK
  /\ Desk!EditsTold("k1") /\ Desk!FocusTold("k1", 1)

\* No two layers share a plane, the display stacks them as the stack says and a cue that
\* fades away lies over the one that replaces it; nothing appears before it is shown, a
\* show that came before its layer is kept, and the last level posted lands.
WallSound ==
  /\ [](which = "reuse" => /\ Reuse!TypeOK /\ Reuse!PlanesOwned
                           /\ Reuse!NothingEarly /\ Reuse!KeptShows /\ Reuse!LevelLands)
  /\ [](which = "cross" => Cross!TypeOK /\ Cross!Ordered /\ Cross!KeptShows /\ Cross!Handover)
  /\ [](which = "cut" => Cut!TypeOK /\ Cut!PlanesOwned /\ Cut!Ordered)
  /\ [][which = "cross" => Cross!GoesUnder]_wallVars
=============================================================================
