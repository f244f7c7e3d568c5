--------------------------- MODULE RunCoordinator ---------------------------
(***************************************************************************)
(* RunCoordinator (src/project-operations/run-coordinator.ts): the durable  *)
(* checkpoint of a workflow run, the stages it drives, the effects of the   *)
(* follow-ups its stages propose, and the operator decisions that contract  *)
(* proposals need before the run closes.                                    *)
(*                                                                         *)
(* Every save is a compare-and-swap on the checkpoint (VersionedState): a   *)
(* coordinator whose view is no longer fresh fails with checkpoint_conflict *)
(* and is dropped by its caller.  A step here ends at a save, at an effect  *)
(* outside the checkpoint or at an await, and a process may die after each. *)
(*                                                                         *)
(* The stages are WorkflowSession's, told apart as far as the coordinator   *)
(* does: plan, research, code (with security and gates), review.  A         *)
(* decision is named by the follow-up it is about.                          *)
(***************************************************************************)
EXTENDS Naturals, FiniteSets

CONSTANTS
  Coordinator,
  FollowUp,     \* what stages may propose: backlog items, documentation, and
  Contract,     \* contracts, which an operator decides about
  MaxRounds,    \* the rounds a host may configure its session with; a host may configure
                \* them anew for every instance, so each use takes any of them
  MaxRework,    \* bound of the model: drivers rework up to this round
  None

ASSUME FollowUpAssumption == Contract \subseteq FollowUp /\ None \notin FollowUp
ASSUME RoundsAssumption == MaxRounds \subseteq Nat \ {0} /\ MaxRounds # {} /\ MaxRework \in Nat

Stages == {"plan", "research", "code", "review", "done"}
Phases == {"workflow", "follow-ups", "decisions", "closeout", "complete"}

\* Pauses by the act that clears them: "stage" for
\* PAUSES_CLEARED_BY_AN_EXPLICIT_ACT, "research" for the researcher's.
Pauses == {"none", "stage", "research"}

NoStep == [to |-> {}, capped |-> FALSE]
Steps  == [to : SUBSET Stages, capped : BOOLEAN]

Reviews == {"none", "pending", "changes_requested", "decomposition_required", "approved"}

RunCheckpoint ==
  [phase : Phases, stage : Stages, round : Nat, capped : BOOLEAN,
   pause : Pauses, research : {"none", "prepared", "dispatched", "completed"},
   pendingStep : Steps, followUps : SUBSET FollowUp, completedEffects : SUBSET FollowUp,
   decisions : [FollowUp -> {"none", "pending", "accepted", "rejected"}],
   contractReviews : [FollowUp -> Reviews]]

VARIABLES
  checkpoint,  \* on disk
  persisted,   \* each coordinator's view of it
  fresh,       \* whether that view has the version on disk
  pc, item, visited, inRun,
  dispatched,  \* history: researcher calls since an operator last asked for one
  applied      \* the world: how often each follow-up took effect

locals == <<item, visited, inRun>>
world  == <<dispatched, applied>>
vars   == <<checkpoint, persisted, fresh, pc, locals, world>>

PCs == {"down", "idle", "loop", "dispatch", "waiting", "choose", "followUps", "lastFollowUps",
        "decisions", "append", "record", "reviewing", "settle", "closeout"}

\* What every variable holds.
TypeOK ==
  /\ checkpoint \in RunCheckpoint
  /\ persisted \in [Coordinator -> RunCheckpoint]
  /\ fresh \in [Coordinator -> BOOLEAN] /\ pc \in [Coordinator -> PCs]
  /\ item \in [Coordinator -> FollowUp \cup {None}]
  /\ visited \in [Coordinator -> SUBSET FollowUp] /\ inRun \in [Coordinator -> BOOLEAN]
  /\ dispatched \in 0..2 /\ applied \in [FollowUp -> 0..2]

Initial ==
  [phase |-> "workflow", stage |-> "plan", round |-> 1, capped |-> FALSE,
   pause |-> "none", research |-> "none", pendingStep |-> NoStep,
   followUps |-> {}, completedEffects |-> {},
   decisions |-> [f \in FollowUp |-> "none"], contractReviews |-> [f \in FollowUp |-> "none"]]

Init ==
  /\ checkpoint = Initial
  /\ persisted = [c \in Coordinator |-> Initial] /\ fresh = [c \in Coordinator |-> FALSE]
  /\ pc = [c \in Coordinator |-> "down"] /\ item = [c \in Coordinator |-> None]
  /\ visited = [c \in Coordinator |-> {}] /\ inRun = [c \in Coordinator |-> FALSE]
  /\ dispatched = 0 /\ applied = [f \in FollowUp |-> 0]

Goto(c, l) == pc' = [pc EXCEPT ![c] = l]

\* The call throws, or the process dies: the instance is gone.
Drop(c) ==
  /\ Goto(c, "down")
  /\ persisted' = [persisted EXCEPT ![c] = Initial] /\ fresh' = [fresh EXCEPT ![c] = FALSE]
  /\ item' = [item EXCEPT ![c] = None] /\ visited' = [visited EXCEPT ![c] = {}]
  /\ inRun' = [inRun EXCEPT ![c] = FALSE]

\* A save that does not compare versions.
BadWritten(c, value) ==
  /\ checkpoint' = value
  /\ persisted' = [persisted EXCEPT ![c] = value]
  /\ fresh' = [d \in Coordinator |-> d = c]

\* save: other coordinators' versions are stale now.
Written(c, value) ==
  /\ fresh[c]
  /\ checkpoint' = value
  /\ persisted' = [persisted EXCEPT ![c] = value]
  /\ fresh' = [d \in Coordinator |-> d = c]

\* save, then go on at l with i at hand.  From a view that is stale save throws
\* checkpoint_conflict and changes nothing: Stop.
SaveItem(c, value, l, i) ==
  Written(c, value) /\ Goto(c, l) /\ item' = [item EXCEPT ![c] = i] /\ UNCHANGED <<visited, inRun>>

Save(c, value, l) == SaveItem(c, value, l, item[c])

-----------------------------------------------------------------------------
(* Instances come and go.                                                   *)

\* The constructor reads the checkpoint, or has created it.
Construct(c) ==
  /\ pc[c] = "down"
  /\ persisted' = [persisted EXCEPT ![c] = checkpoint] /\ fresh' = [fresh EXCEPT ![c] = TRUE]
  /\ Goto(c, "idle")
  /\ UNCHANGED <<checkpoint, locals, world>>

\* A death, a checkpoint_conflict, or an error that no branch turns into a pause.
Stop(c) == pc[c] # "down" /\ Drop(c) /\ UNCHANGED <<checkpoint, world>>

Run(c) ==
  /\ pc[c] = "idle"
  /\ inRun' = [inRun EXCEPT ![c] = TRUE]
  /\ Goto(c, CASE persisted[c].phase = "workflow"   -> "loop"
               [] persisted[c].phase = "follow-ups" -> "followUps"
               [] persisted[c].phase = "decisions"  -> "decisions"
               [] OTHER                             -> "closeout")
  /\ UNCHANGED <<checkpoint, persisted, fresh, item, visited, world>>

\* run returns paused, awaiting_decision or complete.
Return(c) ==
  /\ Goto(c, "idle")
  /\ inRun' = [inRun EXCEPT ![c] = FALSE] /\ visited' = [visited EXCEPT ![c] = {}]
  /\ UNCHANGED <<checkpoint, persisted, fresh, item, world>>

-----------------------------------------------------------------------------
(* What an operator may ask of a run that is not being driven.              *)

\* The researcher may be asked again.
ResumeResearch(c) ==
  LET v == persisted[c]
  IN /\ pc[c] = "idle" /\ v.pause # "none" /\ v.stage = "research"
     /\ Save(c, [v EXCEPT !.pause = "none",
                          !.research = IF @ = "dispatched" THEN "prepared" ELSE @], "idle")
     /\ dispatched' = 0
     /\ UNCHANGED applied

ResumeStage(c) ==
  /\ pc[c] = "idle" /\ persisted[c].pause = "stage"
  /\ Save(c, [persisted[c] EXCEPT !.pause = "none"], "idle")
  /\ UNCHANGED world

\* A run that its round cap settled is reopened under a larger one, which the
\* host has configured the session with.
ResumeRoundCap(c) ==
  LET v == persisted[c]
  IN /\ pc[c] = "idle" /\ v.stage = "done" /\ v.capped /\ \E n \in MaxRounds : v.round < n
     /\ Save(c, [v EXCEPT !.phase = "workflow", !.stage = "code", !.round = @ + 1,
                          !.capped = FALSE, !.pendingStep = NoStep], "idle")
     /\ UNCHANGED world

\* resolveDecision on what run() reported as awaiting_decision; "rejected" stands
\* for deferred too.
Answer(c, f) ==
  LET v == persisted[c]
  IN /\ pc[c] = "idle" /\ v.phase = "decisions" /\ v.decisions[f] = "pending"
     /\ \/ /\ f \in Contract
           /\ SaveItem(c, [v EXCEPT !.decisions[f] = "accepted"], "append", f)
        \/ /\ f \notin Contract
           /\ Save(c, [v EXCEPT !.decisions[f] = "accepted"], "idle")
        \/ Save(c, [v EXCEPT !.decisions[f] = "rejected"], "idle")
     /\ UNCHANGED world

\* An accepted contract is taken up again where a death or a failed review left it.
AnswerAgain(c, f) ==
  /\ pc[c] = "idle" /\ persisted[c].phase = "decisions"
  /\ f \in Contract /\ persisted[c].decisions[f] = "accepted"
  /\ Goto(c, "append") /\ item' = [item EXCEPT ![c] = f]
  /\ UNCHANGED <<checkpoint, persisted, fresh, visited, inRun, world>>

-----------------------------------------------------------------------------
(* prepareStep.                                                             *)

Runnable(c) ==
  /\ pc[c] = "loop" /\ persisted[c].stage # "done"
  /\ persisted[c].pause = "none" /\ persisted[c].pendingStep = NoStep

Paused(c) ==
  /\ pc[c] = "loop" /\ persisted[c].stage # "done" /\ persisted[c].pause # "none"
  /\ Return(c)

\* A step that was made before the process died is not made again.
Pending(c) ==
  /\ pc[c] = "loop" /\ persisted[c].stage # "done"
  /\ persisted[c].pause = "none" /\ persisted[c].pendingStep # NoStep
  /\ Goto(c, "choose")
  /\ UNCHANGED <<checkpoint, persisted, fresh, locals, world>>

Interrupt(c) ==
  /\ Runnable(c)
  /\ Save(c, [persisted[c] EXCEPT !.pause = "stage"], "loop")
  /\ UNCHANGED world

\* A call that was under way when the process died is made again.
BadAmbiguous(c) ==
  /\ Runnable(c) /\ persisted[c].stage = "research" /\ persisted[c].research = "dispatched"
  /\ Save(c, [persisted[c] EXCEPT !.research = "prepared"], "dispatch")
  /\ UNCHANGED world

\* Nobody knows what became of a call that was dispatched.
Ambiguous(c) ==
  /\ Runnable(c) /\ persisted[c].stage = "research" /\ persisted[c].research = "dispatched"
  /\ Save(c, [persisted[c] EXCEPT !.pause = "research"], "loop")
  /\ UNCHANGED world

\* The request is unsafe or there is no researcher, or the intent is saved.
PrepareResearch(c) ==
  /\ Runnable(c) /\ persisted[c].stage = "research" /\ persisted[c].research = "none"
  /\ \/ Save(c, [persisted[c] EXCEPT !.pause = "research"], "loop")
     \/ Save(c, [persisted[c] EXCEPT !.research = "prepared"], "dispatch")
  /\ UNCHANGED world

\* The dispatch is saved, and the researcher called.
Dispatch(c) ==
  /\ \/ pc[c] = "dispatch"
     \/ Runnable(c) /\ persisted[c].stage = "research" /\ persisted[c].research = "prepared"
  /\ Save(c, [persisted[c] EXCEPT !.research = "dispatched"], "waiting")
  /\ dispatched' = IF dispatched < 2 THEN dispatched + 1 ELSE dispatched
  /\ UNCHANGED applied

StartStage(c) ==
  /\ Runnable(c) /\ persisted[c].stage # "research"
  /\ Goto(c, "waiting")
  /\ UNCHANGED <<checkpoint, persisted, fresh, locals, world>>

\* The stage fails in a way that pauses the run.
StageFails(c) ==
  /\ pc[c] = "waiting"
  /\ \E p \in {"stage"} \cup (IF persisted[c].stage = "research" THEN {"research"} ELSE {}) :
       Save(c, [persisted[c] EXCEPT !.pause = p], "loop")
  /\ UNCHANGED world

\* A review that asks for changes may start another code round.
Rounds(v, n) == IF v.round < n THEN {"code"} ELSE {}

\* A driver may have the coder work again, whatever the cap.
Rework(v) == IF v.round < MaxRework THEN {"code"} ELSE {}

\* The transitions a stage may offer (WorkflowSession): a driver may stop anywhere.
Offers(v) ==
  CASE v.stage = "plan"     -> {[to |-> {s, "done"}, capped |-> v.capped] : s \in {"research", "code"}}
    [] v.stage = "research" -> {[to |-> {"code", "done"}, capped |-> v.capped]}
    [] v.stage = "code"     -> {[to |-> {"review", "done"} \cup Rework(v), capped |-> v.capped]}

\* A review approves, asks for changes, or settles the run.
Approval(v) == [to |-> {"done"} \cup Rework(v), capped |-> v.capped]
Rejections(v, n) ==
  {[to |-> {"done"}, capped |-> FALSE]} \cup
  (IF Rounds(v, n) # {} THEN {[to |-> Rounds(v, n) \cup {"done"}, capped |-> v.capped]}
                     ELSE {[to |-> {"done"}, capped |-> TRUE]})

\* An approval in the workflow settles what contract reviews asked for.
Approved(reviews) ==
  [f \in FollowUp |-> IF reviews[f] = "changes_requested" THEN "approved" ELSE reviews[f]]

\* What the stage offers next is saved with what it proposed.
StageSucceeds(c) ==
  LET v == persisted[c]
      Made(step, reviews) ==
        \E new \in SUBSET (IF v.stage = "research" THEN {} ELSE FollowUp) :
          Save(c, [v EXCEPT !.pendingStep = step, !.contractReviews = reviews,
                            !.followUps = @ \cup new,
                            !.research = IF v.stage = "research" THEN "completed" ELSE @], "choose")
  IN /\ pc[c] = "waiting"
     /\ \/ v.stage # "review" /\ \E step \in Offers(v) : Made(step, v.contractReviews)
        \/ v.stage = "review" /\ Made(Approval(v), Approved(v.contractReviews))
        \/ v.stage = "review" /\ \E n \in MaxRounds : \E step \in Rejections(v, n) : Made(step, v.contractReviews)
     /\ UNCHANGED world

\* commitTransition: the driver chooses among what was offered.
CommitTransition(c) ==
  LET v == persisted[c]
  IN /\ pc[c] = "choose"
     /\ \E s \in v.pendingStep.to :
          Save(c, [v EXCEPT !.phase = IF s = "done" THEN "follow-ups" ELSE "workflow",
                            !.stage = s,
                            !.round = IF s = "code" /\ v.stage \in {"code", "review"} THEN @ + 1 ELSE @,
                            !.capped = v.pendingStep.capped,
                            !.pendingStep = NoStep],
               IF s = "done" THEN "followUps" ELSE "loop")
     /\ UNCHANGED world

-----------------------------------------------------------------------------
(* processFollowUps.                                                        *)

InFollowUps(c) == pc[c] \in {"followUps", "lastFollowUps"}

Todo(c) == persisted[c].followUps \ persisted[c].completedEffects

\* The backlog item or the document is written whether it is there or not.
BadApplied(f) == [applied EXCEPT ![f] = IF @ < 2 THEN @ + 1 ELSE @]

\* Backlog items have the follow-up's id and documents its marker: what is there
\* is not written again.
Applied(f) == [applied EXCEPT ![f] = 1]

\* A contract needs a decision (ensureDecision), and so does documentation whose
\* destination turns out to be unsafe.
AskDecision(c, f) ==
  /\ InFollowUps(c) /\ item[c] = None /\ f \in Todo(c)
  /\ \/ /\ persisted[c].decisions[f] = "none"
        /\ SaveItem(c, [persisted[c] EXCEPT !.decisions[f] = "pending"], pc[c], f)
     \/ /\ persisted[c].decisions[f] # "none"
        /\ item' = [item EXCEPT ![c] = f]
        /\ UNCHANGED <<checkpoint, persisted, fresh, pc, visited, inRun>>
  /\ UNCHANGED world

\* Everything else is done at once, by a coordinator that is stale too.
ApplyEffect(c, f) ==
  /\ InFollowUps(c) /\ item[c] = None /\ f \in Todo(c) \ Contract
  /\ applied' = Applied(f)
  /\ item' = [item EXCEPT ![c] = f]
  /\ UNCHANGED <<checkpoint, persisted, fresh, pc, visited, inRun, dispatched>>

RecordEffect(c) ==
  /\ InFollowUps(c) /\ item[c] # None
  /\ SaveItem(c, [persisted[c] EXCEPT !.completedEffects = @ \cup {item[c]}], pc[c], None)
  /\ UNCHANGED world

Decided(v) == {f \in FollowUp : v.decisions[f] # "none"}

EndFollowUps(c) ==
  LET p == IF Decided(persisted[c]) = {} THEN "closeout" ELSE "decisions"
  IN /\ InFollowUps(c) /\ item[c] = None /\ Todo(c) = {}
     /\ Save(c, [persisted[c] EXCEPT !.phase = p], IF pc[c] = "lastFollowUps" THEN "settle" ELSE p)
     /\ UNCHANGED world

-----------------------------------------------------------------------------
(* The decisions of a run, and resolveDecision for accepted contracts.      *)

\* Only the contracts that have a review which is not approved, not those that
\* have none.
BadUnreviewed(c) ==
  {f \in Contract : /\ persisted[c].decisions[f] = "accepted"
                    /\ persisted[c].contractReviews[f] \notin {"none", "approved"}}

Unreviewed(c) ==
  {f \in Contract : /\ persisted[c].decisions[f] = "accepted"
                    /\ persisted[c].contractReviews[f] # "approved"}

NextDecision(c, f) ==
  /\ pc[c] = "decisions" /\ f \in Unreviewed(c) \ visited[c]
  /\ item' = [item EXCEPT ![c] = f] /\ visited' = [visited EXCEPT ![c] = @ \cup {f}]
  /\ Goto(c, "append")
  /\ UNCHANGED <<checkpoint, persisted, fresh, inRun, world>>

\* The contract text is appended, once.
AppendContract(c) ==
  /\ pc[c] = "append"
  /\ applied' = Applied(item[c])
  /\ Goto(c, "record")
  /\ UNCHANGED <<checkpoint, persisted, fresh, locals, dispatched>>

\* The run goes back to its review.
RecordReview(c) ==
  /\ pc[c] = "record"
  /\ Save(c, [persisted[c] EXCEPT !.stage = "review",
                                  !.contractReviews[item[c]] = IF @ = "none" THEN "pending" ELSE @],
          "reviewing")
  /\ UNCHANGED world

\* reviewCurrent answers: the change is approved, or goes to another code round.
Reviewed(c) ==
  LET v == persisted[c]
      after == IF inRun[c] THEN "decisions" ELSE "idle"
  IN /\ pc[c] = "reviewing"
     /\ \E new \in SUBSET FollowUp :
          \/ SaveItem(c, [v EXCEPT !.stage = "done", !.phase = "follow-ups",
                                   !.contractReviews[item[c]] = "approved",
                                   !.followUps = @ \cup new], after, None)
          \/ /\ \E n \in MaxRounds : Rounds(v, n) # {}
             /\ SaveItem(c, [v EXCEPT !.stage = "code", !.round = @ + 1, !.phase = "workflow",
                                      !.contractReviews[item[c]] = "changes_requested",
                                      !.followUps = @ \cup new], after, None)
     /\ UNCHANGED world

\* Changes are asked for and no code round is left, or a decomposition is: saved, then
\* unresolved_review is thrown.
Unresolved(c) ==
  LET v == persisted[c]
  IN /\ pc[c] = "reviewing"
     /\ \E new \in SUBSET FollowUp, verdict \in {"changes_requested", "decomposition_required"},
           capped \in {FALSE} \cup {Rounds(v, n) = {} : n \in MaxRounds} :
          checkpoint' = IF fresh[c]
                        THEN [v EXCEPT !.contractReviews[item[c]] = verdict,
                                       !.followUps = @ \cup new, !.capped = capped]
                        ELSE checkpoint
     /\ Goto(c, "down")
     /\ persisted' = [persisted EXCEPT ![c] = Initial]
     /\ fresh' = IF fresh[c] THEN [d \in Coordinator |-> FALSE] ELSE fresh
     /\ item' = [item EXCEPT ![c] = None] /\ visited' = [visited EXCEPT ![c] = {}]
     /\ inRun' = [inRun EXCEPT ![c] = FALSE]
     /\ UNCHANGED world

\* After the loop the phase it came to decides how run goes on.
EndDecisions(c) ==
  /\ pc[c] = "decisions" /\ Unreviewed(c) \subseteq visited[c]
  /\ Goto(c, CASE persisted[c].phase = "follow-ups" -> "lastFollowUps"
               [] persisted[c].phase = "workflow"   -> "loop"
               [] OTHER                             -> "settle")
  /\ visited' = [visited EXCEPT ![c] = {}]
  /\ UNCHANGED <<checkpoint, persisted, fresh, item, inRun, world>>

-----------------------------------------------------------------------------
(* The end of a run.                                                        *)

Awaiting(v) == \E f \in FollowUp : v.decisions[f] = "pending"

\* What closeout() asks before it closes.
MayClose(v) ==
  /\ ~Awaiting(v) /\ v.stage = "done"
  /\ \A f \in FollowUp : v.contractReviews[f] \in {"none", "approved"}

Settle(c) ==
  /\ pc[c] = "settle"
  /\ \/ Awaiting(persisted[c]) /\ Return(c)
     \/ /\ ~Awaiting(persisted[c])
        /\ Save(c, [persisted[c] EXCEPT !.phase = "closeout"], "closeout")
        /\ UNCHANGED world

\* closeout: an earlier closeout is returned again, an open decision or stage
\* awaits, and a contract review that is not approved throws unresolved_review.
Closeout(c) ==
  LET v == persisted[c]
  IN /\ pc[c] = "closeout"
     /\ IF v.phase # "complete" /\ MayClose(v)
        THEN Save(c, [v EXCEPT !.phase = "complete"], "closeout") /\ UNCHANGED world
        ELSE IF v.phase = "complete" \/ Awaiting(v) \/ v.stage # "done" THEN Return(c)
        ELSE Drop(c) /\ UNCHANGED <<checkpoint, world>>

-----------------------------------------------------------------------------
Drive(c) ==
  \/ Paused(c) \/ Pending(c) \/ Ambiguous(c) \/ PrepareResearch(c) \/ Dispatch(c) \/ StartStage(c)
  \/ StageFails(c) \/ StageSucceeds(c) \/ CommitTransition(c)
  \/ \E f \in FollowUp : AskDecision(c, f) \/ ApplyEffect(c, f) \/ NextDecision(c, f)
  \/ RecordEffect(c) \/ EndFollowUps(c)
  \/ AppendContract(c) \/ RecordReview(c) \/ Reviewed(c) \/ Unresolved(c) \/ EndDecisions(c)
  \/ Settle(c) \/ Closeout(c)

Operate(c) ==
  \/ Construct(c) \/ Run(c) \/ ResumeResearch(c) \/ ResumeStage(c) \/ ResumeRoundCap(c)
  \/ \E f \in FollowUp : Answer(c, f) \/ AnswerAgain(c, f)

Next == \E c \in Coordinator : Drive(c) \/ Operate(c) \/ Interrupt(c) \/ Stop(c)

Spec == Init /\ [][Next]_vars

-----------------------------------------------------------------------------
\* The researcher is called once for every time an operator asked for it, however
\* often the process dies and whoever else drives the run: "An in-flight or
\* ambiguous action pauses".
ResearchCalledOnce == dispatched <= 1

\* "A proven completed or settled action is not repeated": an effect is in the
\* world at most once, and once when the checkpoint says so.
EffectsExactlyOnce ==
  \A f \in FollowUp :
    /\ applied[f] <= 1
    /\ f \in checkpoint.completedEffects =>
         applied[f] = 1 \/ checkpoint.decisions[f] # "none"
    /\ checkpoint.contractReviews[f] # "none" => applied[f] = 1

\* A closed run leaves nothing open: every follow-up was handled, every decision
\* taken, and every contract that was accepted is written and was reviewed.
CloseoutSound ==
  checkpoint.phase = "complete" =>
    /\ checkpoint.stage = "done" /\ checkpoint.pendingStep = NoStep
    /\ checkpoint.followUps \subseteq checkpoint.completedEffects
    /\ \A f \in FollowUp :
         /\ checkpoint.decisions[f] # "pending"
         /\ checkpoint.decisions[f] = "accepted" /\ f \in Contract =>
              checkpoint.contractReviews[f] = "approved"

\* A paused run is changed by the act that resumes it and by nothing else, and
\* that act changes nothing but the pause.
PausedUntilResumed ==
  [][checkpoint.pause # "none" /\ checkpoint' # checkpoint =>
       /\ \E c \in Coordinator : pc[c] = "idle" /\ pc'[c] = "idle"
       /\ checkpoint' = [checkpoint EXCEPT !.pause = "none", !.research = checkpoint'.research]]_vars

\* A workflow that is not over has a stage to run: the loop of run() goes round
\* without end when prepareStep finds nothing to do and no pause.
WorkflowHasAStage == checkpoint.phase = "workflow" => checkpoint.stage # "done"

Progress == INSTANCE RunProgress
  WITH stage <- checkpoint.stage, round <- checkpoint.round, paused <- checkpoint.pause # "none"

\* However many coordinators drive the run, from whatever views, and wherever they die,
\* the run on disk makes the progress a host may rely on (RunProgress): the versions
\* that save compares refuse a step from a stage that is over.
ImplementsRunProgress == Progress!ProgressSpec
=============================================================================
