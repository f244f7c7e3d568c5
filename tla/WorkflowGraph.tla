---------------------------- MODULE WorkflowGraph ----------------------------
(***************************************************************************)
(* WorkflowSession (src/orchestration/session.ts), the graph of stages a    *)
(* run walks -- plan, research, security, code, gates, review -- and what   *)
(* the coordinator (src/project-operations/run-coordinator.ts) makes of a   *)
(* stage that does not settle: a pause, the usage and the failure it carries *)
(* to the next attempt, the operator's resume, a raised round cap.          *)
(*                                                                         *)
(* One coordinator drives the run; two of them, and the follow-ups, are in  *)
(* RunCoordinator.  A stage is one action, from the dispatch of its role to *)
(* the save of what it offers next: nothing is durable in between, so a     *)
(* process that dies inside it has only spent its turns.  Every model turn  *)
(* has a number; the tree is named after the coder turn that left it.       *)
(***************************************************************************)
EXTENDS Naturals, Sequences, FiniteSets

CONSTANTS
  Configs,      \* how a session may be configured
  Caps,         \* defaults.maxRounds; a host may configure it anew at every resume
  Attempts,     \* plannerHandoffAttempts
  MaxRework,    \* bound of the model: a driver has the coder rework up to this round
  MaxFailures   \* bound of the model: stages that do not settle

ReviewAttempts == 2     \* REVIEW_SUBMISSION_ATTEMPTS

ASSUME ConfigsAssumption ==
  Configs \subseteq [planner : BOOLEAN, security : BOOLEAN, researcher : BOOLEAN, gates : BOOLEAN,
                     autoAdvance : BOOLEAN, onChangesRequested : {"advance", "stop"}, auto : BOOLEAN]
ASSUME BoundsAssumption ==
  /\ Caps \subseteq Nat \ {0} /\ Attempts \in {1, 2} /\ MaxRework \in Nat /\ MaxFailures \in Nat

RolePhases == {"plan", "security", "code", "review"}
Phases     == RolePhases \cup {"research", "gates", "done"}
Blocking   == {"changes_requested", "decomposition_required"}
Statuses   == Blocking \cup {"approved"}

Step       == Phases \X Nat
NoStage    == [step |-> <<"done", 0>>, turns |-> {}]
Stage      == [step : Step, turns : SUBSET Nat]
Metric     == [step : Step, paused : BOOLEAN, turns : SUBSET Nat]
Transition == [isDefault : BOOLEAN, toPhase : Phases, toRound : Nat]

WorkflowState ==
  [phase : Phases, round : Nat, elevated : BOOLEAN, unresolved : BOOLEAN, secured : BOOLEAN,
   verdicts : Seq(Statuses), gate : {"none", "green", "red"}, activeStage : Stage,
   lastStageFailure : Phases \cup {"none"}, stageMetrics : SUBSET Metric,
   escalation : {"none", "role_requested", "blocking_verdicts", "cap_exhausted"},
   done : BOOLEAN, approved : BOOLEAN]

VARIABLES
  config, maxRounds,   \* the session's; auto: the driver takes the default transition
  state,               \* the workflow state of the checkpoint, or of its pending step
  offers,              \* the transitions of the pending step, none when there is none
  pause,               \* whether the run is paused
  failures,            \* bound
  turns,               \* history: the model turns so far
  tree, gated, reviewed  \* history: what the coder left, the gates ran on, a verdict was for

session == <<config, maxRounds>>
history == <<turns, tree, gated, reviewed>>
vars    == <<session, state, offers, pause, failures, history>>

\* What every variable holds.
TypeOK ==
  /\ config \in Configs /\ maxRounds \in Caps
  /\ state \in WorkflowState /\ offers \in SUBSET Transition /\ pause \in BOOLEAN
  /\ failures \in Nat /\ turns \in Nat /\ tree \in Nat /\ gated \in Nat /\ reviewed \in Nat

initialState(c) ==
  [phase |-> IF c.planner THEN "plan" ELSE "code", round |-> 1, elevated |-> FALSE,
   unresolved |-> FALSE, secured |-> FALSE, verdicts |-> <<>>, gate |-> "none",
   activeStage |-> NoStage, lastStageFailure |-> "none", stageMetrics |-> {},
   escalation |-> "none", done |-> FALSE, approved |-> FALSE]

Init ==
  /\ config \in Configs /\ maxRounds \in Caps
  /\ state = initialState(config) /\ offers = {} /\ pause = FALSE
  /\ failures = 0 /\ turns = 0 /\ tree = 0 /\ gated = 0 /\ reviewed = 0

-----------------------------------------------------------------------------
(* One stage.                                                               *)

\* prepareStep: the run goes on, and the next thing it does is this stage.
At(phase) == state.phase = phase /\ ~state.done /\ ~pause /\ offers = {}

step == <<state.phase, state.round>>

\* stageAttempt: a stage that was paused at its limit is taken up again.
resume == state.activeStage.step = step

\* settledStage, for turn t: a resumed attempt replaces what its pauses recorded.
settledStage(t) ==
  IF resume
  THEN {m \in state.stageMetrics : ~(m.step = step /\ m.paused)}
         \cup {[step |-> step, paused |-> FALSE, turns |-> state.activeStage.turns \cup {t}]}
  ELSE state.stageMetrics \cup {[step |-> step, paused |-> FALSE, turns |-> {t}]}

\* The failure of an earlier attempt stays when the stage has settled.
BadSettles(s) == [s EXCEPT !.activeStage = NoStage]

Settles(s) == [s EXCEPT !.activeStage = NoStage, !.lastStageFailure = "none"]

Advance(default, phase, round) == [isDefault |-> default, toPhase |-> phase, toRound |-> round]
Stop(default) == Advance(default, "done", state.round)

\* A driver's rework stays in its round.
BadRework == IF state.round < MaxRework THEN {Advance(FALSE, "code", state.round)} ELSE {}

Rework == IF state.round < MaxRework THEN {Advance(FALSE, "code", state.round + 1)} ELSE {}

\* Where nothing but the host's defaults decide, the run goes on or stops.
Linear(phase, round) == {Advance(config.autoAdvance, phase, round), Stop(~config.autoAdvance)}

\* The step is saved with the transitions it offers.
Offer(s, to) == state' = s /\ offers' = to /\ UNCHANGED <<session, pause, failures>>

Turns(n) == turns' = turns + n

AfterPlan(unresolved, elevated) ==
  IF unresolved THEN "research" ELSE IF elevated /\ config.security THEN "security" ELSE "code"

\* A plan that needs research goes past the security stage, and so does what follows.
BadAfterResearch == "code"

AfterResearch == AfterPlan(FALSE, state.elevated)

\* The planner may be asked again; every turn is counted.
stepPlan ==
  /\ At("plan")
  /\ \E n \in 1..Attempts, unresolved \in BOOLEAN, elevated \in BOOLEAN :
       /\ Offer(Settles([state EXCEPT
                  !.unresolved = unresolved, !.elevated = elevated,
                  !.stageMetrics = settledStage(turns + 1) \cup
                    {[step |-> step, paused |-> FALSE, turns |-> {t}] : t \in (turns + 2)..(turns + n)}]),
                Linear(AfterPlan(unresolved, elevated), state.round))
       /\ Turns(n)
  /\ UNCHANGED <<tree, gated, reviewed>>

\* Research resolves every surface that needed it, or it fails.
stepResearch ==
  /\ At("research") /\ config.researcher
  /\ Offer([state EXCEPT !.unresolved = FALSE,
                         !.stageMetrics = @ \cup {[step |-> step, paused |-> FALSE, turns |-> {turns + 1}]}],
           Linear(AfterResearch, state.round))
  /\ Turns(1) /\ UNCHANGED <<tree, gated, reviewed>>

stepSecurity ==
  /\ At("security")
  /\ Offer(Settles([state EXCEPT !.secured = TRUE, !.stageMetrics = settledStage(turns + 1)]),
           Linear("code", state.round))
  /\ Turns(1) /\ UNCHANGED <<tree, gated, reviewed>>

\* The coder is followed by its review although gates are declared.
BadAfterCode == "review"

AfterCode == IF config.gates THEN "gates" ELSE "review"

stepCode ==
  /\ At("code")
  /\ Offer(Settles([state EXCEPT !.stageMetrics = settledStage(turns + 1)]),
           Linear(AfterCode, state.round) \cup Rework)
  /\ Turns(1) /\ tree' = turns + 1 /\ UNCHANGED <<gated, reviewed>>

\* What red gates may lead to: a coder round, while the cap allows one.
BadRedTo ==
  IF state.round < maxRounds THEN Linear("code", state.round + 1) ELSE {Stop(~config.autoAdvance)}

RedTo == IF state.round < maxRounds THEN Linear("code", state.round + 1) ELSE {Stop(TRUE)}

stepGates ==
  /\ At("gates")
  /\ \/ Offer([state EXCEPT !.gate = "green"], Linear("review", state.round) \cup Rework)
     \/ Offer([state EXCEPT !.gate = "red"], RedTo)
  /\ gated' = tree /\ UNCHANGED <<turns, tree, reviewed>>

-----------------------------------------------------------------------------
(* Review.                                                                  *)

blockingVerdictCount(verdicts) == Cardinality({n \in DOMAIN verdicts : verdicts[n] \in Blocking})

\* The cap is noticed one round late.
BadEscalation(status, verdicts) ==
  IF status = "decomposition_required" THEN "role_requested"
  ELSE IF status = "changes_requested" /\ blockingVerdictCount(verdicts) >= 2 THEN "blocking_verdicts"
  ELSE IF status = "changes_requested" /\ state.round > maxRounds THEN "cap_exhausted"
  ELSE state.escalation

\* The stop rule: a request to decompose, a second blocking verdict, the cap.
Escalation(status, verdicts) ==
  IF status = "decomposition_required" THEN "role_requested"
  ELSE IF status = "changes_requested" /\ blockingVerdictCount(verdicts) >= 2 THEN "blocking_verdicts"
  ELSE IF status = "changes_requested" /\ state.round >= maxRounds THEN "cap_exhausted"
  ELSE state.escalation

ReviewTo(status, escalation) ==
  IF status = "approved" THEN {Stop(TRUE)} \cup Rework
  ELSE IF escalation # "none" THEN {Stop(TRUE)}
  ELSE {Advance(config.onChangesRequested = "advance", "code", state.round + 1),
        Stop(config.onChangesRequested = "stop")}

\* The reviewer may be asked again; only its last turn is counted.
stepReview ==
  /\ At("review")
  /\ \E n \in 1..ReviewAttempts, status \in Statuses :
       LET verdicts   == Append(state.verdicts, status)
           escalation == Escalation(status, verdicts)
       IN /\ Offer(Settles([state EXCEPT !.verdicts = verdicts, !.escalation = escalation,
                                         !.stageMetrics = settledStage(turns + n)]),
                   ReviewTo(status, escalation))
          /\ Turns(n)
  /\ reviewed' = tree /\ UNCHANGED <<tree, gated>>

-----------------------------------------------------------------------------
(* A stage that does not settle.                                            *)

\* Its role took n turns; a coder's changed the tree.
Spent(n) ==
  /\ failures < MaxFailures /\ failures' = failures + 1
  /\ Turns(n)
  /\ tree' = IF state.phase = "code" THEN turns + n ELSE tree
  /\ UNCHANGED <<gated, reviewed>>

Handoffs(phase) ==
  CASE phase = "plan" -> 1..Attempts [] phase = "review" -> 1..ReviewAttempts
    [] phase = "gates" -> {} [] OTHER -> {1}

\* The turn that ended the attempt is recorded as paused.
Recorded(n) ==
  [state EXCEPT !.stageMetrics = @ \cup {[step |-> step, paused |-> TRUE, turns |-> {turns + n}]}]

Pauses(s) == state' = s /\ pause' = TRUE /\ UNCHANGED <<session, offers>>

StageLimit ==
  /\ \E phase \in RolePhases : At(phase)
  /\ \E n \in Handoffs(state.phase) :
       /\ Pauses([Recorded(n) EXCEPT !.activeStage = [step |-> step, turns |-> {turns + n}]])
       /\ Spent(n)

\* A cause is recorded for the next attempt, except a provider's rejection.
StageFailure ==
  /\ \E phase \in RolePhases : At(phase)
  /\ \E n \in Handoffs(state.phase), cause \in {state.phase, state.lastStageFailure} :
       /\ Pauses([Recorded(n) EXCEPT !.lastStageFailure = cause])
       /\ Spent(n)

\* plan_not_submitted, when every attempt is spent, and review_not_run, when the
\* verdict was refused too.
NotSubmitted ==
  /\ At("plan") \/ At("review")
  /\ \E n \in IF state.phase = "plan" THEN {Attempts} ELSE Handoffs("review") :
       /\ Pauses([state EXCEPT !.lastStageFailure = state.phase])
       /\ Spent(n)

NoResearcher ==
  /\ At("research") /\ ~config.researcher
  /\ Pauses(state)
  /\ UNCHANGED <<failures, history>>

\* The request is unsafe, the researcher's turn fails or reaches its limit, or its
\* answer is not usable; only a turn that did not finish is recorded.
ResearchFails ==
  /\ At("research") /\ config.researcher
  /\ \/ Pauses(state) /\ \E n \in {0, 1} : Spent(n)
     \/ Pauses(Recorded(1)) /\ Spent(1)

\* The operator interrupts, before or in a stage.
Interrupted ==
  /\ \E phase \in Phases : At(phase)
  /\ Pauses(state)
  /\ \E n \in {0} \cup Handoffs(state.phase) : Spent(n)

\* The process dies in the stage, or the stage throws what no pause is for.
Dies ==
  /\ \E phase \in RolePhases : At(phase)
  /\ \E n \in Handoffs(state.phase) : Spent(n)
  /\ UNCHANGED <<session, state, offers, pause>>

-----------------------------------------------------------------------------
(* What a driver chooses, and what an operator resumes.                     *)

\* Settling reads the last verdict alone.
BadApproved(s) == s.verdicts # <<>> /\ s.verdicts[Len(s.verdicts)] = "approved"

Approved(s) ==
  s.verdicts # <<>> /\ s.verdicts[Len(s.verdicts)] = "approved" /\ s.gate # "red"

applyTransition(to) ==
  IF to.toPhase = "done"
  THEN [state EXCEPT !.phase = "done", !.done = TRUE, !.approved = Approved(state)]
  ELSE [state EXCEPT !.phase = to.toPhase, !.round = to.toRound]

\* autoDriver takes the default, an operator any of them (readChoice).
Choose ==
  /\ \E to \in offers : (config.auto => to.isDefault) /\ state' = applyTransition(to)
  /\ offers' = {}
  /\ UNCHANGED <<session, pause, failures, history>>

\* resumeStage and resumeResearch, in a session that may have another cap.
Resume ==
  /\ pause /\ pause' = FALSE
  /\ maxRounds' \in Caps
  /\ UNCHANGED <<config, state, offers, failures, history>>

\* resumeRoundCap under a cap that is larger than the round the run stopped in.
resumeRoundCap ==
  /\ state.done /\ state.escalation = "cap_exhausted"
  /\ \E cap \in Caps : state.round < cap /\ maxRounds' = cap
  /\ state' = [state EXCEPT !.escalation = "none", !.phase = "code", !.round = @ + 1,
                            !.done = FALSE, !.approved = FALSE]
  /\ UNCHANGED <<config, offers, pause, failures, history>>

-----------------------------------------------------------------------------
Settle == stepPlan \/ stepResearch \/ stepSecurity \/ stepCode \/ stepGates \/ stepReview
Fail   == StageLimit \/ StageFailure \/ NotSubmitted \/ ResearchFails \/ Interrupted \/ Dies

Next == Settle \/ NoResearcher \/ Fail \/ Choose \/ Resume \/ resumeRoundCap

\* The program runs on between its stages; an operator need never resume it.
Spec     == Init /\ [][Next]_vars
FairSpec == Spec /\ WF_vars(Settle \/ NoResearcher) /\ WF_vars(Choose)

-----------------------------------------------------------------------------
(* Properties.                                                              *)

\* No coder turn is taken while a surface the planner wants researched is
\* unresolved, nor before the security stage of an elevated surface, whatever
\* pauses, deaths and resumes came before (the edges of stepPlan and stepResearch).
CoderIsCleared ==
  tree # 0 => ~state.unresolved /\ (state.elevated /\ config.security => state.secured)

\* Where gates are declared, a verdict is only ever given on a tree they ran
\* on, all green: "never into a review that would bless red code" (stepGates).
GatesBeforeReview ==
  [][state'.verdicts # state.verdicts /\ config.gates => gated = tree /\ state.gate = "green"]_vars

\* An approved run was reviewed as it stands when nobody chose its transitions,
\* and no run is approved whose gates last ran red on what it delivers: an
\* earlier approval does not bless it (applyTransition).
ApprovedWork ==
  state.approved => /\ config.auto => reviewed = tree
                    /\ config.gates /\ gated = tree => state.gate = "green"

\* The review stop rule lets no run, reopened or not, collect more than two
\* blocking verdicts, and without a driver who asks for more no coder round is
\* past every cap the host configured.
RoundsAreBounded ==
  /\ blockingVerdictCount(state.verdicts) <= 2
  /\ config.auto => \E cap \in Caps : state.round <= cap

\* What a stage carries over is about the stage that comes next: a paused attempt
\* is resumed in its own phase and round or not at all, and "its recorded failure
\* must not leak into a later attempt" (stepPlan, stepSecurity, stepCode, stepReview).
CarryOverIsCurrent ==
  /\ state.activeStage # NoStage => state.activeStage.step = step
  /\ state.lastStageFailure \in {"none", state.phase}

\* A run that no operator drives settles or comes to a pause.
RunSettlesOrPauses == config.auto /\ ~pause ~> state.done \/ pause

\* The stages as a host tells them apart.
HostStage(phase) == IF phase \in {"security", "gates"} THEN "code" ELSE phase

Progress == INSTANCE RunProgress
  WITH stage <- HostStage(state.phase), round <- state.round, paused <- pause

\* Whatever its configuration, however its stages fail and whatever its driver
\* chooses, a session makes the progress a host may rely on (RunProgress).
ImplementsRunProgress == Progress!ProgressSpec
=============================================================================
