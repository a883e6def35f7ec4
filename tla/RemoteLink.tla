----------------------------- MODULE RemoteLink -----------------------------
(***************************************************************************)
(* The listeners of the remote protocols and their connections             *)
(* (routes/remotectl.go, hyperdeck.go, qlab.go): saving the settings,      *)
(* ApplyRemote, Accept, the registry with its limit, the watchdog and the  *)
(* hang-up of a listener that is switched off.                             *)
(*                                                                         *)
(* An address is a number, 0 is "switched off".  Every listening socket    *)
(* has a number of its own, so that a connection knows the one it came     *)
(* from after a rebind.                                                    *)
(***************************************************************************)
EXTENDS Naturals, FiniteSets

CONSTANTS
  Protocols,    \* of remoteProtocols
  Limited,      \* the protocol with deckMaxClients and a watchdog
  MaxClients,   \* deckMaxClients
  Addrs,        \* addresses, without 0
  Conns,        \* connections alive at a time
  Requests,     \* HTTP requests that save the settings
  MaxSaves,     \* bound: saves
  MaxSocks,     \* bound: sockets
  MaxFaults     \* bound: binds that fail

VARIABLES
  config,   \* [Protocols -> Addrs \cup {0}]: the saved settings
  run,      \* remoteRun: [Protocols -> [addr, sock]]; sock 0 = the bind failed
  open,     \* sockets that listen
  lock,     \* remoteMu: the request that holds it, or None
  req,      \* [Requests -> [at, want, p]]: where it is, its settings, the row in hand
  conn,     \* [Conns -> [st, p, sock, wd, peer]]
  socks, saves, faults

requests == <<config, run, lock, req, socks, saves, faults>>
vars == <<config, run, open, lock, req, conn, socks, saves, faults>>

None == "none"

RemoteLinkAssumption ==
  /\ MaxClients \in Nat /\ IsFiniteSet(Conns)
  /\ MaxSaves \in Nat /\ MaxSocks \in Nat /\ MaxFaults \in Nat
  /\ None \notin Requests

Off == [addr |-> 0, sock |-> 0]
NoReq == [at |-> "idle", want |-> [p \in Protocols |-> 0], p |-> None]
NoConn == [st |-> "free", p |-> None, sock |-> 0, wd |-> FALSE, peer |-> TRUE]

Init ==
  /\ config = [p \in Protocols |-> 0] /\ run = [p \in Protocols |-> Off]
  /\ open = {} /\ lock = None
  /\ req = [r \in Requests |-> NoReq] /\ conn = [c \in Conns |-> NoConn]
  /\ socks = 0 /\ saves = 0 /\ faults = 0

\* The connections in the registry of p (deckClients, oscTCPServer.conns).
Registry(p) == {c \in Conns : conn[c].st \in {"serving", "hungup"} /\ conn[c].p = p}

At(r, label) == req' = [req EXCEPT ![r].at = label]

-----------------------------------------------------------------------------
\* config.SetRemote, then ApplyRemote: what is wanted is read before the lock.
Save(r, p, a) ==
  /\ req[r].at = "idle" /\ saves < MaxSaves /\ config[p] # a
  /\ config' = [config EXCEPT ![p] = a] /\ saves' = saves + 1
  /\ At(r, "read")
  /\ UNCHANGED <<run, open, lock, conn, socks, faults>>

ReadWanted(r) ==
  /\ req[r].at = "read"
  /\ req' = [req EXCEPT ![r].at = "lock", ![r].want = config]
  /\ UNCHANGED <<config, run, open, lock, conn, socks, saves, faults>>

LockApply(r) ==
  /\ req[r].at = "lock" /\ lock = None
  /\ lock' = r /\ At(r, "apply")
  /\ UNCHANGED <<config, run, open, conn, socks, saves, faults>>

Known(p) == run[p] # Off
\* A row that is kept: wanted, at its address, and bound.
Kept(r, p) == req[r].want[p] # 0 /\ run[p].addr = req[r].want[p] /\ run[p].sock # 0
Stale(r, p) == Known(p) /\ ~Kept(r, p)

\* Stop one row: the socket is closed ...
StopRow(r, p) == open' = open \ {run[p].sock}

Stop(r, p) ==
  /\ req[r].at = "apply" /\ Stale(r, p)
  /\ StopRow(r, p)
  /\ req' = [req EXCEPT ![r].at = "hangup", ![r].p = p]
  /\ UNCHANGED <<config, run, lock, conn, socks, saves, faults>>

\* ... its registered clients are hung up, and the row is gone.
HangUp(r) ==
  /\ req[r].at = "hangup"
  /\ LET p == req[r].p IN
     /\ conn' = [c \in Conns |-> IF c \in Registry(p) THEN [conn[c] EXCEPT !.st = "hungup"]
                                 ELSE conn[c]]
     /\ run' = [run EXCEPT ![p] = Off]
  /\ req' = [req EXCEPT ![r].at = "apply", ![r].p = None]
  /\ UNCHANGED <<config, open, lock, socks, saves, faults>>

\* Bind one that is wanted and has no row.
Bind(r, p) ==
  /\ req[r].at = "apply" /\ ~\E q \in Protocols : Stale(r, q)
  /\ req[r].want[p] # 0 /\ ~Known(p)
  /\ \/ /\ socks < MaxSocks
        /\ socks' = socks + 1 /\ open' = open \cup {socks + 1}
        /\ run' = [run EXCEPT ![p] = [addr |-> req[r].want[p], sock |-> socks + 1]]
        /\ UNCHANGED faults
     \/ /\ faults < MaxFaults /\ faults' = faults + 1
        /\ run' = [run EXCEPT ![p] = [addr |-> req[r].want[p], sock |-> 0]]
        /\ UNCHANGED <<open, socks>>
  /\ UNCHANGED <<config, lock, req, conn, saves>>

Applied(r) ==
  /\ req[r].at = "apply"
  /\ \A p \in Protocols : ~Stale(r, p) /\ (req[r].want[p] # 0 => Known(p))
  /\ lock' = None /\ req' = [req EXCEPT ![r] = NoReq]
  /\ UNCHANGED <<config, run, open, conn, socks, saves, faults>>

-----------------------------------------------------------------------------
\* Accept: the listening goroutine has the connection, nobody else yet.
Accept(c, p) ==
  /\ conn[c].st = "free" /\ run[p].sock \in open
  /\ conn' = [conn EXCEPT ![c] = [NoConn EXCEPT !.st = "accepted", !.p = p, !.sock = run[p].sock]]
  /\ UNCHANGED <<requests, open>>

Full(p) == p = Limited /\ Cardinality(Registry(p)) >= MaxClients

\* The registry takes it, or a deck in use rejects it.
Register(c) ==
  /\ conn[c].st = "accepted"
  /\ conn' = [conn EXCEPT ![c] = IF Full(conn[c].p) THEN NoConn ELSE [@ EXCEPT !.st = "serving"]]
  /\ UNCHANGED <<requests, open>>

\* "watchdog: period: N".
Watchdog(c) ==
  /\ conn[c].st = "serving" /\ conn[c].p = Limited /\ conn[c].peer
  /\ conn' = [conn EXCEPT ![c].wd = TRUE]
  /\ UNCHANGED <<requests, open>>

\* The peer vanishes without a word.
Vanish(c) ==
  /\ conn[c].st \in {"accepted", "serving"} /\ conn[c].peer
  /\ conn' = [conn EXCEPT ![c].peer = FALSE]
  /\ UNCHANGED <<requests, open>>

\* Mutant of Ended: no read deadline.
OnlyClosed(c) == conn[c].st = "hungup"

\* The read returns: hung up, or nothing came within the period.
Ended(c) == conn[c].st = "hungup" \/ (conn[c].st = "serving" /\ conn[c].wd /\ ~conn[c].peer)

Unregister(c) ==
  /\ Ended(c)
  /\ conn' = [conn EXCEPT ![c] = NoConn]
  /\ UNCHANGED <<requests, open>>

\* The peer quits.
Quit(c) ==
  /\ conn[c].st = "serving" /\ conn[c].peer
  /\ conn' = [conn EXCEPT ![c] = NoConn]
  /\ UNCHANGED <<requests, open>>

Apply(r) ==
  \/ ReadWanted(r) \/ LockApply(r) \/ HangUp(r) \/ Applied(r)
  \/ \E p \in Protocols : Stop(r, p) \/ Bind(r, p)

Next ==
  \/ \E r \in Requests : Apply(r) \/ \E p \in Protocols, a \in Addrs \cup {0} : Save(r, p, a)
  \/ \E c \in Conns : Register(c) \/ Watchdog(c) \/ Vanish(c) \/ Unregister(c) \/ Quit(c)
                      \/ \E p \in Protocols : Accept(c, p)

Fairness ==
  /\ \A r \in Requests : WF_vars(Apply(r))
  /\ \A c \in Conns : WF_vars(Register(c)) /\ WF_vars(Unregister(c))

Spec == Init /\ [][Next]_vars /\ Fairness

-----------------------------------------------------------------------------
TypeOK ==
  /\ config \in [Protocols -> Addrs \cup {0}]
  /\ run \in [Protocols -> [addr : Addrs \cup {0}, sock : 0..MaxSocks]]
  /\ open \subseteq 1..MaxSocks /\ lock \in Requests \cup {None}
  /\ req \in [Requests -> [at : {"idle", "read", "lock", "apply", "hangup"},
                           want : [Protocols -> Addrs \cup {0}], p : Protocols \cup {None}]]
  /\ conn \in [Conns -> [st : {"free", "accepted", "serving", "hungup"},
                         p : Protocols \cup {None}, sock : 0..MaxSocks, wd : BOOLEAN, peer : BOOLEAN]]
  /\ socks \in 0..MaxSocks /\ saves \in 0..MaxSaves /\ faults \in 0..MaxFaults

\* No socket listens that no row can close any more, and a row has only its own.
NoLeakedSocket ==
  /\ open \subseteq {run[p].sock : p \in Protocols}
  /\ \A p, q \in Protocols : p # q /\ run[p].sock # 0 => run[p].sock # run[q].sock

\* The deck serves no more clients than it has room for.
DeckLimit == Cardinality(Registry(Limited)) <= MaxClients

\* A controller c that set the watchdog and vanished leaves its place to the next.
SlotFreed(c) ==
  (conn[c].st = "serving" /\ conn[c].wd /\ ~conn[c].peer) ~> conn[c].st = "free"
=============================================================================
