------------------------------- MODULE MCHub --------------------------------
(***************************************************************************)
(* The small instance of Hub: one browser that connects, is lost and       *)
(* reconnects.                                                             *)
(***************************************************************************)
EXTENDS Hub
=============================================================================
