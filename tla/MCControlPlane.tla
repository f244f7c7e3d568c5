--------------------------- MODULE MCControlPlane ---------------------------
(* Small instances of ControlPlane.                                         *)
EXTENDS ControlPlane

CONSTANTS task, c1, c2, front, slot
=============================================================================
