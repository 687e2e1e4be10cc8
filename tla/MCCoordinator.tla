----------------------------- MODULE MCCoordinator -----------------------------
(* Small instances of Coordinator for TLC. *)
EXTENDS Coordinator, TLC

Symmetry == Permutations(Workspace) \cup Permutations(Plan) \cup Permutations(Run)

=============================================================================
