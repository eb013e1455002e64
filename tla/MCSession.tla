----------------------------- MODULE MCSession ------------------------------
(***************************************************************************)
(* DeskaSession for TLC.                                                   *)
(***************************************************************************)
EXTENDS DeskaSession, TLC

Symmetry == Permutations(Session)

=============================================================================
