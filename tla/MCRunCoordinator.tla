-------------------------- MODULE MCRunCoordinator --------------------------
(* Small instances of RunCoordinator: proposals for contracts and a note.   *)
EXTENDS RunCoordinator, TLC

CONSTANTS c1, c2, rule1, rule2, note

CoordinatorSymmetry == Permutations(Coordinator)
=============================================================================
