-------------------------------- MODULE Hub ---------------------------------
(***************************************************************************)
(* The WebSocket hub (ws/hub.go) with the three sources that feed it: the  *)
(* cue-sheet bump (ctp.go bumpCuesheetVersion), the media bump, and the    *)
(* playback bump with its 100 ms trailing-edge coalescer (gsp.go           *)
(* broadcastSoon).                                                         *)
(*                                                                         *)
(* A step is what one goroutine does between two points where another can  *)
(* run: a section under mu or pmu, one channel operation, one socket       *)
(* write.  A browser reconnects with a new client record, so a connection  *)
(* is a pair <<browser, number>> and is used once.                         *)
(***************************************************************************)
EXTENDS Naturals, FiniteSets

CONSTANTS Browsers,     \* browsers that keep reconnecting
          MaxConn,      \* bound: connections a browser makes
          MaxVersion    \* bound: changes of all parts together

ASSUME HubAssumption == MaxConn \in Nat \ {0} /\ MaxVersion \in Nat

Parts == {"sheet", "play", "media"}
Hints == {"sync", "media"}
HintOf(p) == IF p = "media" THEN "media" ELSE "sync"

Conns == Browsers \X (1..MaxConn)
Owner(c) == c[1]

\* A Broadcast call is named by the change that started it; the coalescer's
\* timer broadcasts for every playback change up to its own.
Calls == Parts \X (1..MaxVersion)
CallHint(g) == HintOf(g[1])

VARIABLES
  version,    \* [Parts -> Nat]: gsp's, ctp's counters; media has no counter
  call,       \* [Calls -> stage of the Broadcast goroutine]
  todo,       \* [Calls -> SUBSET Conns]: rest of its client snapshot
  sending,    \* [Calls -> SUBSET Conns]: flag set, wake not yet sent
  soon,       \* playback bumps between m.version++ and broadcastSoon
  timer,      \* "off" | "armed" : bumpTimer is nil or not
  clients,    \* the registered connections (the clients map)
  link,       \* [Conns -> "unused" | "hint" | "open" | "closed"]
  pending,    \* [Conns -> SUBSET Hints]: pendingSync, pendingMedia
  wake,       \* [Conns -> BOOLEAN]: a token in the wake channel (cap 1)
  awake,      \* [Conns -> BOOLEAN]: the writer received, flags not yet taken
  out,        \* [Conns -> SUBSET Hints]: taken by the writer, not yet written
  told        \* [Browsers -> [Parts -> Nat]]: version when last hinted

source == <<version, soon, timer>>
calls == <<call, todo, sending>>
socket == <<clients, link>>
flags == <<pending, wake, awake, out>>
vars == <<source, calls, socket, flags, told>>

Stages == {"none", "start", "loop", "done"}

TypeOK ==
  /\ version \in [Parts -> 0..MaxVersion]
  /\ call \in [Calls -> Stages]
  /\ todo \in [Calls -> SUBSET Conns]
  /\ sending \in [Calls -> SUBSET Conns]
  /\ soon \in 0..MaxVersion
  /\ timer \in {"off", "armed"}
  /\ clients \subseteq Conns
  /\ link \in [Conns -> {"unused", "hint", "open", "closed"}]
  /\ pending \in [Conns -> SUBSET Hints]
  /\ wake \in [Conns -> BOOLEAN]
  /\ awake \in [Conns -> BOOLEAN]
  /\ out \in [Conns -> SUBSET Hints]
  /\ told \in [Browsers -> [Parts -> 0..MaxVersion]]

\* Pages were loaded at version 0; no socket is open yet.
Init ==
  /\ version = [p \in Parts |-> 0]
  /\ call = [g \in Calls |-> "none"]
  /\ todo = [g \in Calls |-> {}]
  /\ sending = [g \in Calls |-> {}]
  /\ soon = 0
  /\ timer = "off"
  /\ clients = {}
  /\ link = [c \in Conns |-> "unused"]
  /\ pending = [c \in Conns |-> {}]
  /\ wake = [c \in Conns |-> FALSE]
  /\ awake = [c \in Conns |-> FALSE]
  /\ out = [c \in Conns |-> {}]
  /\ told = [b \in Browsers |-> [p \in Parts |-> 0]]

-----------------------------------------------------------------------------
Changes == version["sheet"] + version["play"] + version["media"]

\* The connection a browser holds; it dials again only after the close.
Live(b) == {c \in Conns : Owner(c) = b /\ link[c] \in {"hint", "open"}}

\* What a browser learns from a hint: a fetch made now shows this version.
Learn(b, h) ==
  told' = [told EXCEPT ![b] = [p \in Parts |->
             IF HintOf(p) = h THEN version[p] ELSE @[p]]]

\* bumpCuesheetVersion, bumpMediaVersion: count, then `go ws.Broadcast...`.
Bump(p) ==
  /\ p # "play"
  /\ Changes < MaxVersion
  /\ version' = [version EXCEPT ![p] = @ + 1]
  /\ call' = [call EXCEPT ![<<p, version[p] + 1>>] = "start"]
  /\ UNCHANGED <<soon, timer, todo, sending, flags, socket, told>>

\* A change that bumps through the state setter and once more itself.
BumpTwice ==
  /\ Changes < MaxVersion
  /\ version' = [version EXCEPT !["play"] = @ + 1]
  /\ soon' = soon + 2
  /\ UNCHANGED <<timer, calls, flags, socket, told>>

\* manager.bump: m.version++ under m.mu, broadcastSoon after the unlock.
PlayBump ==
  /\ Changes < MaxVersion
  /\ version' = [version EXCEPT !["play"] = @ + 1]
  /\ soon' = soon + 1
  /\ UNCHANGED <<timer, calls, flags, socket, told>>

\* broadcastSoon: arm the timer unless it is armed already.
BroadcastSoon ==
  /\ soon > 0
  /\ soon' = soon - 1
  /\ timer' = "armed"
  /\ UNCHANGED <<version, calls, flags, socket, told>>

\* A throttle without a trailing edge.
ThrottleEnds ==
  /\ timer = "armed"
  /\ timer' = "off"
  /\ UNCHANGED <<version, soon, calls, flags, socket, told>>

\* The timer clears itself first and broadcasts after that.
TimerFires ==
  /\ timer = "armed"
  /\ timer' = "off"
  /\ \E n \in 1..MaxVersion :
       /\ call[<<"play", n>>] = "none"
       /\ \A m \in 1..(n - 1) : call[<<"play", m>>] # "none"
       /\ call' = [call EXCEPT ![<<"play", n>>] = "start"]
  /\ UNCHANGED <<version, soon, todo, sending, flags, socket, told>>

-----------------------------------------------------------------------------
\* broadcast: snapshot the clients map under mu.
Snapshot(g) ==
  /\ call[g] = "start"
  /\ call' = [call EXCEPT ![g] = "loop"]
  /\ todo' = [todo EXCEPT ![g] = clients]
  /\ UNCHANGED <<source, sending, flags, socket, told>>

\* broadcast: set one client's flag under its pmu.
SetFlag(g, c) ==
  /\ call[g] = "loop" /\ sending[g] = {} /\ c \in todo[g]
  /\ todo' = [todo EXCEPT ![g] = @ \ {c}]
  /\ pending' = [pending EXCEPT ![c] = @ \cup {CallHint(g)}]
  /\ sending' = [sending EXCEPT ![g] = {c}]
  /\ UNCHANGED <<source, call, wake, awake, out, socket, told>>

\* The token skipped for a writer that is busy with the last hint.
WakeIfIdle(g) ==
  /\ sending[g] # {}
  /\ wake' = [c \in Conns |-> wake[c] \/ (c \in sending[g] /\ out[c] = {})]
  /\ sending' = [sending EXCEPT ![g] = {}]
  /\ UNCHANGED <<source, call, todo, pending, awake, out, socket, told>>

\* broadcast: the non-blocking send; a token already there is enough.
Wake(g) ==
  /\ sending[g] # {}
  /\ wake' = [c \in Conns |-> wake[c] \/ c \in sending[g]]
  /\ sending' = [sending EXCEPT ![g] = {}]
  /\ UNCHANGED <<source, call, todo, pending, awake, out, socket, told>>

BroadcastEnds(g) ==
  /\ call[g] = "loop" /\ todo[g] = {} /\ sending[g] = {}
  /\ call' = [call EXCEPT ![g] = "done"]
  /\ UNCHANGED <<source, todo, sending, flags, socket, told>>

-----------------------------------------------------------------------------
\* Handle: register before the connect hint.
Register(c) ==
  /\ link[c] = "unused"
  /\ Live(Owner(c)) = {}
  /\ \A n \in 1..(c[2] - 1) : link[<<Owner(c), n>>] = "closed"
  /\ clients' = clients \cup {c}
  /\ link' = [link EXCEPT ![c] = "hint"]
  /\ UNCHANGED <<source, calls, flags, told>>

\* Handle: the connect hint is written; the writer starts.
ConnectHint(c) ==
  /\ link[c] = "hint"
  /\ link' = [link EXCEPT ![c] = "open"]
  /\ Learn(Owner(c), "sync")
  /\ UNCHANGED <<source, calls, flags, clients>>

\* The media hint dropped when both flags were set in one wake.
TakeFirst(c) ==
  /\ link[c] = "open" /\ awake[c]
  /\ awake' = [awake EXCEPT ![c] = FALSE]
  /\ out' = [out EXCEPT ![c] = IF "sync" \in pending[c] THEN {"sync"} ELSE pending[c]]
  /\ pending' = [pending EXCEPT ![c] = {}]
  /\ UNCHANGED <<source, calls, wake, socket, told>>

\* writer: receive the wake token ...
WriterWakes(c) ==
  /\ link[c] = "open" /\ wake[c] /\ ~awake[c] /\ out[c] = {}
  /\ wake' = [wake EXCEPT ![c] = FALSE]
  /\ awake' = [awake EXCEPT ![c] = TRUE]
  /\ UNCHANGED <<source, calls, pending, out, socket, told>>

\* ... then take and clear both flags under pmu ...
TakeFlags(c) ==
  /\ link[c] = "open" /\ awake[c]
  /\ awake' = [awake EXCEPT ![c] = FALSE]
  /\ out' = [out EXCEPT ![c] = pending[c]]
  /\ pending' = [pending EXCEPT ![c] = {}]
  /\ UNCHANGED <<source, calls, wake, socket, told>>

\* ... and write what was taken, sync before media.
Write(c) ==
  /\ link[c] = "open"
  /\ \E h \in out[c] :
       /\ h = "media" => "sync" \notin out[c]
       /\ out' = [out EXCEPT ![c] = @ \ {h}]
       /\ Learn(Owner(c), h)
  /\ UNCHANGED <<source, calls, pending, wake, awake, socket>>

\* drop: a write failed or timed out, or the read loop saw the close.
Drop(c) ==
  /\ link[c] \in {"hint", "open"}
  /\ clients' = clients \ {c}
  /\ link' = [link EXCEPT ![c] = "closed"]
  /\ UNCHANGED <<source, calls, flags, told>>

-----------------------------------------------------------------------------
Next ==
  \/ \E p \in Parts : Bump(p)
  \/ PlayBump \/ BroadcastSoon \/ TimerFires
  \/ \E g \in Calls : Snapshot(g) \/ Wake(g) \/ BroadcastEnds(g)
  \/ \E g \in Calls, c \in Conns : SetFlag(g, c)
  \/ \E c \in Conns : Register(c) \/ ConnectHint(c) \/ WriterWakes(c)
                          \/ TakeFlags(c) \/ Write(c) \/ Drop(c)

\* Goroutines that can run do run, and a socket write returns within its two
\* second deadline (as a write or as a drop).  Nothing makes state change or
\* browsers come and go.
Fairness ==
  /\ WF_vars(BroadcastSoon) /\ WF_vars(TimerFires)
  /\ \A g \in Calls : WF_vars(Snapshot(g)) /\ WF_vars(Wake(g))
  /\ \A g \in Calls, c \in Conns : WF_vars(SetFlag(g, c))
  /\ \A c \in Conns : /\ WF_vars(ConnectHint(c)) /\ WF_vars(WriterWakes(c))
                       /\ WF_vars(TakeFlags(c)) /\ WF_vars(Write(c))

Spec == Init /\ [][Next]_vars

FairSpec == Spec /\ Fairness

-----------------------------------------------------------------------------
\* Hint h is on its way to connection c.
OnItsWay(c, h) ==
  \/ h = "sync" /\ (link[c] = "hint" \/ soon > 0 \/ timer = "armed")
  \/ \E g \in Calls : CallHint(g) = h /\ (call[g] = "start" \/ c \in todo[g])
  \/ h \in pending[c] /\ (wake[c] \/ awake[c] \/ \E g \in Calls : c \in sending[g])
  \/ h \in out[c]

\* A sheet or playback change a connected browser has not been hinted about
\* is still on its way to it: coalescing of bumps, of flags and of wake
\* tokens, and the register-then-hint handshake, never drop the last one.
NoSyncLost ==
  \A c \in clients, p \in {"sheet", "play"} :
    told[Owner(c)][p] < version[p] => OnItsWay(c, "sync")

\* A flag never waits without a token, a receiver or a sender about to put
\* one: no client sleeps on a set flag (the non-blocking send in broadcast).
NoSleepOnFlag ==
  \A c \in clients : pending[c] # {} =>
    wake[c] \/ awake[c] \/ \E g \in Calls : c \in sending[g]

\* The hub keeps the promise of Push.
owed ==
  [b \in Browsers |-> {h \in Hints : \E c \in clients :
                                     Owner(c) = b /\ OnItsWay(c, h)}]

Abstract ==
  INSTANCE Push WITH linked <- {Owner(c) : c \in clients}

\* Every step of the hub is a step of Push or changes nothing Push sees:
\* an owed hint leaves only by being written or with the connection.
PushRefined == Abstract!PushSafety

\* A browser that stays connected sees the newest sheet and playback state
\* hinted, whatever the other browsers do (a stalled peer is never waited on).
HintsArrive ==
  \A b \in Browsers :
    <>[](Live(b) # {}) => <>[](/\ told[b]["sheet"] = version["sheet"]
                              /\ told[b]["play"] = version["play"])

\* ui.js says of a reconnect that it "catches everything up".
ReconnectCatchesUpMedia ==
  \A b \in Browsers :
    <>[](Live(b) # {}) => <>[](told[b]["media"] = version["media"])
=============================================================================
