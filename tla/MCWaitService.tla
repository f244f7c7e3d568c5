---------------------------- MODULE MCWaitService ----------------------------
(* Small instances of WaitService.                                          *)
EXTENDS WaitService

CONSTANTS c1, c2
=============================================================================
