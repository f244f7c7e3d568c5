-------------------------- MODULE MCStandaloneRun --------------------------
(* Small instances of StandaloneRun.                                        *)
EXTENDS StandaloneRun, TLC

CONSTANTS l1, l2, l3

LauncherSymmetry == Permutations(Launcher)

-----------------------------------------------------------------------------
(* What a process remembers counts only while it may still read it, and which *)
(* of the dead is named, or how a process ended, only where an action or a     *)
(* property tells them apart.  Two states that agree on the rest have the      *)
(* same futures, and TLC explores one of them.                                *)

AtEnd      == {"down", "exited", "consumeStop", "verdict", "verdictRead", "verdictWrite"}
Pausing    == AtEnd \cup {"refused", "interrupted", "pausing"}
Inspecting == {"adopt", "inspectStarting", "inspectSettling"}
Operating  == {"operate", "settle", "finalize", "reopen", "project", "conclude", "caught"}
Framed     == {"publish", "consumeRun", "consumeCloseout", "consumeSettled", "finalize",
               "reopen", "project", "conclude"} \cup Inspecting \cup Opening

WhoLives(p) == IF Live(p) THEN p ELSE None

\* An exited process whose end the property asks about.
Answers(p) == pc[p] = "exited" /\ checkpoint.process = p /\ p \notin unrecorded

Remembers(p) ==
  [at        |-> IF Live(p) \/ Answers(p) THEN pc[p] ELSE "down",
   fresh     |-> pc[p] \notin AtEnd /\ fresh[p],
   owner     |-> IF pc[p] \in Inspecting THEN WhoLives(owner[p]) ELSE None,
   aborted   |-> pc[p] \notin Pausing /\ aborted[p],
   error     |-> IF pc[p] = "caught" THEN error[p] ELSE "none",
   submitted |-> pc[p] \in Operating /\ submitted[p],
   frame     |-> IF pc[p] \in Framed THEN frame[p] ELSE "try",
   asked     |-> pc[p] = "pausing" /\ asked[p]]

StandaloneView ==
  <<checkpoint, session, request, WhoLives(lease), overwritten,
    [p \in Launcher |-> Remembers(p)],
    IF stopper.at = "idle" THEN "idle"
    ELSE <<stopper.at, stopper.target, stopper.same /\ stopper.at = "verify">> >>
=============================================================================
