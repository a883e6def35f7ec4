----------------------------- MODULE MCPlayback -----------------------------
(***************************************************************************)
(* Small instances of Playback: which cues exist and how they behave.      *)
(***************************************************************************)
EXTENDS Playback, TLC

\* LoopCount by cue: two passes for the cues that loop a finite count.
MCCount == [c \in Cues |-> IF c \in {1, 3, 6} THEN 2 ELSE 0]

Symm == Permutations(Pipes)
=============================================================================
