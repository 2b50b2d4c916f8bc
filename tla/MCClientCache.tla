----------------------------- MODULE MCClientCache -----------------------------
(***************************************************************************)
(* Instances of ClientCache for TLC.                                       *)
(***************************************************************************)
EXTENDS ClientCache

=============================================================================
