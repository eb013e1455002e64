------------------------------ MODULE MCConfig ------------------------------
(***************************************************************************)
(* ConfigCommit for TLC.                                                   *)
(***************************************************************************)
EXTENDS ConfigCommit, TLC

Symmetry == Permutations(Session) \cup Permutations(Changeset)

=============================================================================
