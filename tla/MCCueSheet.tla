----------------------------- MODULE MCCueSheet -----------------------------
(***************************************************************************)
(* Small instances of ShowImport and CueSheet; cues are interchangeable.   *)
(***************************************************************************)
EXTENDS ShowImport

Symm == Permutations(Cues)

\* Manifests: a group that was moved into a younger one; one in an older one;
\* no group.
MCShows ==
  {[groups |-> <<[up |-> 2, fold |-> FALSE], [up |-> 0, fold |-> TRUE]>>,
    cues |-> <<0, 1, 2>>, selected |-> 2],
   [groups |-> <<[up |-> 0, fold |-> FALSE], [up |-> 1, fold |-> FALSE]>>,
    cues |-> <<2, 1>>, selected |-> 0],
   [groups |-> <<>>, cues |-> <<0, 0>>, selected |-> 1]}
=============================================================================
