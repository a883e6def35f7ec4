-------------------------------- MODULE Push --------------------------------
(***************************************************************************)
(* What the push channel promises its browsers (ws/hub.go).                *)
(*                                                                         *)
(* The server state has three parts, each with a version: the cue sheet    *)
(* and its selection, the playback state, and the media pool.  A browser   *)
(* never receives state, only a hint that a part may have changed; hints   *)
(* may coalesce, but a change made while a browser is linked is followed   *)
(* by a hint for it.  "owed" holds the hints still to come.                *)
(***************************************************************************)
EXTENDS Naturals

CONSTANT Browsers    \* the browsers that keep a socket to the server

Parts == {"sheet", "play", "media"}
Hints == {"sync", "media"}

\* The hint that announces a part: one sync covers the sheet and playback.
HintOf(p) == IF p = "media" THEN "media" ELSE "sync"

VARIABLES
  version,   \* [Parts -> Nat]: changes made to each part so far
  linked,    \* the browsers whose socket is registered
  owed,      \* [Browsers -> SUBSET Hints]: hints on their way
  told       \* [Browsers -> [Parts -> Nat]]: version when last hinted

pushVars == <<version, linked, owed, told>>

Init ==
  /\ version = [p \in Parts |-> 0]
  /\ linked = {}
  /\ owed = [b \in Browsers |-> {}]
  /\ told = [b \in Browsers |-> [p \in Parts |-> 0]]

\* A part changes: every linked browser is now owed its hint.
Change(p) ==
  /\ version' = [version EXCEPT ![p] = @ + 1]
  /\ owed' = [b \in Browsers |-> IF b \in linked THEN owed[b] \cup {HintOf(p)}
                                                 ELSE owed[b]]
  /\ UNCHANGED <<linked, told>>

\* A browser registers.  It is owed the connect hint, which is a sync; a
\* broadcast that has yet to look at the clients may reach it as well.
Link(b) ==
  /\ b \notin linked
  /\ linked' = linked \cup {b}
  /\ \E extra \in SUBSET Hints :
        owed' = [owed EXCEPT ![b] = {"sync"} \cup extra]
  /\ UNCHANGED <<version, told>>

\* The socket is gone: nothing more will come through it.
Unlink(b) ==
  /\ b \in linked
  /\ linked' = linked \ {b}
  /\ owed' = [owed EXCEPT ![b] = {}]
  /\ UNCHANGED <<version, told>>

\* An owed hint arrives.  A later broadcast may owe the same hint again.
Hint(b, h) ==
  /\ b \in linked /\ h \in owed[b]
  /\ told' = [told EXCEPT ![b] = [p \in Parts |->
                IF HintOf(p) = h THEN version[p] ELSE @[p]]]
  /\ owed' \in {owed, [owed EXCEPT ![b] = @ \ {h}]}
  /\ UNCHANGED <<version, linked>>

Next ==
  \/ \E p \in Parts : Change(p)
  \/ \E b \in Browsers : Link(b) \/ Unlink(b)
  \/ \E b \in Browsers, h \in Hints : Hint(b, h)

PushSafety == Init /\ [][Next]_pushVars
=============================================================================
