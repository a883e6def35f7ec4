---------------------------- MODULE MCAutomation ----------------------------
(***************************************************************************)
(* Small instances of Automation; the goroutines are interchangeable.      *)
(***************************************************************************)
EXTENDS Automation, TLC

Symm == Permutations(Workers)
=============================================================================
