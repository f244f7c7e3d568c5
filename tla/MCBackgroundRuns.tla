-------------------------- MODULE MCBackgroundRuns --------------------------
(* Small instances of BackgroundRuns.                                       *)
EXTENDS BackgroundRuns

CONSTANTS c1, w1
=============================================================================
