-------------------------- MODULE MCVersionedState --------------------------
(* Small instances of VersionedState.                                       *)
EXTENDS VersionedState, TLC

CONSTANTS p1, p2, p3, u1, u2, u3, u4

BothSymmetry == Permutations(Client) \cup Permutations(Update)
=============================================================================
