---------------------------- MODULE RunProgress ----------------------------
(***************************************************************************)
(* What a host that watches a run may rely on, whoever drives it, however    *)
(* often a process dies and however many processes hold the run: its stages *)
(* follow each other as the workflow has them, only the coder's rework opens *)
(* a round, nothing moves while the run is paused, and a settled run goes on *)
(* only as its round cap is raised or a contract is reviewed.  The stages    *)
(* between two that a host tells apart (security and gates) belong to code.  *)
(***************************************************************************)
EXTENDS Naturals

VARIABLES
  stage,   \* the stage that is due: plan, research, code, review, or done
  round,   \* the coder's round
  paused   \* whether the run waits for somebody to resume it

progress == <<stage, round, paused>>

ProgressInit == stage \in {"plan", "code"} /\ round = 1 /\ paused = FALSE

\* The stages that may follow one that is over; a driver may end the run after any.
After(s) ==
  CASE s = "plan"     -> {"research", "code", "done"}
    [] s = "research" -> {"code", "done"}
    [] s = "code"     -> {"code", "review", "done"}
    [] s = "review"   -> {"code", "done"}
    [] s = "done"     -> {}

\* Work that was coded or reviewed before goes to another round.
Advance ==
  /\ ~paused /\ stage' \in After(stage)
  /\ round' = IF stage' = "code" /\ stage \in {"code", "review"} THEN round + 1 ELSE round
  /\ UNCHANGED paused

Pause == ~paused /\ stage # "done" /\ paused' = TRUE /\ UNCHANGED <<stage, round>>

Resume == paused /\ paused' = FALSE /\ UNCHANGED <<stage, round>>

\* Under a larger cap the coder gets a round more; a contract sends the work to its review.
Reopen ==
  /\ stage = "done" /\ ~paused
  /\ \/ stage' = "code" /\ round' = round + 1
     \/ stage' = "review" /\ round' = round
  /\ UNCHANGED paused

ProgressNext == Advance \/ Pause \/ Resume \/ Reopen

ProgressSpec == ProgressInit /\ [][ProgressNext]_progress
=============================================================================
