---------------------------- MODULE MCChangesets ----------------------------
(***************************************************************************)
(* Changesets and its refinement of RevisionLog for TLC.  The backends are *)
(* interchangeable as long as Restorer is empty or all of Session;         *)
(* symmetry serves the safety runs.                                        *)
(***************************************************************************)
EXTENDS ChangesetsLog, TLC

Symmetry == Permutations(Session)

=============================================================================
