---------------------------- MODULE MCDatabaseOwnership ----------------------------
(***************************************************************************)
(* Instances of DatabaseOwnership for TLC.                                 *)
(***************************************************************************)
EXTENDS DatabaseOwnership, TLC

\* Databases and PostgreSQL names are interchangeable.
MCSymmetry == Permutations(Databases) \cup Permutations(Names)

=============================================================================
