------------------------ MODULE WorkflowGraphProofs ------------------------
(* Proofs about WorkflowGraph, for any configurations, caps and bounds.     *)
EXTENDS WorkflowGraph, FiniteSetTheorems, TLAPS

-----------------------------------------------------------------------------
(* Types.                                                                   *)

\* What an attempt leaves in the record is a set of metrics.
LEMMA SettledType ==
  ASSUME TypeOK, NEW t \in Nat
  PROVE  /\ settledStage(t) \in SUBSET Metric
         /\ step \in Step
<1>1. step \in Step
  BY DEF TypeOK, WorkflowState, step, Step
<1>2. /\ state.stageMetrics \in SUBSET Metric
      /\ state.activeStage.turns \in SUBSET Nat
  BY DEF TypeOK, WorkflowState, Stage
<1>3. [step |-> step, paused |-> FALSE, turns |-> state.activeStage.turns \cup {t}] \in Metric
  BY <1>1, <1>2 DEF Metric
<1>4. [step |-> step, paused |-> FALSE, turns |-> {t}] \in Metric
  BY <1>1 DEF Metric
<1> QED BY <1>1, <1>2, <1>3, <1>4 DEF settledStage

LEMMA MetricType ==
  ASSUME TypeOK, NEW paused \in BOOLEAN, NEW t \in Nat
  PROVE  [step |-> step, paused |-> paused, turns |-> {t}] \in Metric
BY SettledType DEF Metric

LEMMA InitType == Init => TypeOK
<1> SUFFICES ASSUME Init PROVE TypeOK
  OBVIOUS
<1>1. NoStage \in Stage
  BY DEF NoStage, Stage, Step, Phases, RolePhases
<1>2. <<>> \in Seq(Statuses)
  OBVIOUS
<1>3. initialState(config) \in WorkflowState
  BY <1>1, <1>2 DEF initialState, WorkflowState, Phases, RolePhases
<1> QED BY <1>3 DEF Init, TypeOK

\* The transitions that are offered.
LEMMA OfferTypes ==
  ASSUME TypeOK, NEW phase \in Phases, NEW default \in BOOLEAN, NEW round \in Nat
  PROVE  /\ Advance(default, phase, round) \in Transition
         /\ Stop(default) \in Transition
         /\ Rework \in SUBSET Transition
         /\ Linear(phase, round) \in SUBSET Transition
<1>1. state.round \in Nat /\ "done" \in Phases /\ "code" \in Phases /\ config.autoAdvance \in BOOLEAN
  BY ConfigsAssumption DEF TypeOK, WorkflowState, Phases, RolePhases
<1> QED BY <1>1 DEF Advance, Stop, Rework, Linear, Transition


LEMMA OfferType ==
  ASSUME TypeOK, NEW s \in WorkflowState, NEW to \in SUBSET Transition, Offer(s, to),
         turns' \in Nat, tree' \in Nat, gated' \in Nat, reviewed' \in Nat
  PROVE  TypeOK'
BY DEF TypeOK, Offer, session

LEMMA StepType == ASSUME TypeOK, Settle PROVE TypeOK'
<1> USE DEF Turns
<1>1. /\ state \in WorkflowState /\ turns \in Nat /\ tree \in Nat /\ gated \in Nat /\ reviewed \in Nat
      /\ config.autoAdvance \in BOOLEAN /\ state.round \in Nat /\ state.elevated \in BOOLEAN
      /\ state.stageMetrics \in SUBSET Metric /\ state.verdicts \in Seq(Statuses)
  BY ConfigsAssumption DEF TypeOK, WorkflowState
<1>2. /\ {"research", "security", "code", "gates", "review", "done"} \subseteq Phases
      /\ NoStage \in Stage
  BY DEF Phases, RolePhases, NoStage, Stage, Step
<1>3. \A t \in Nat, paused \in BOOLEAN : [step |-> step, paused |-> paused, turns |-> {t}] \in Metric
  BY MetricType
<1>4. \A t \in Nat : settledStage(t) \in SUBSET Metric
  BY SettledType
<1>5. \A phase \in Phases, default \in BOOLEAN, round \in Nat :
        /\ Advance(default, phase, round) \in Transition /\ Stop(default) \in Transition
        /\ Rework \in SUBSET Transition /\ Linear(phase, round) \in SUBSET Transition
  BY OfferTypes
<1>6. CASE stepPlan
  <2>1. PICK n \in 1..Attempts, unresolved \in BOOLEAN, elevated \in BOOLEAN :
          /\ Offer(Settles([state EXCEPT
                     !.unresolved = unresolved, !.elevated = elevated,
                     !.stageMetrics = settledStage(turns + 1) \cup
                       {[step |-> step, paused |-> FALSE, turns |-> {t}] : t \in (turns + 2)..(turns + n)}]),
                   Linear(AfterPlan(unresolved, elevated), state.round))
          /\ turns' = turns + n
    BY <1>6 DEF stepPlan
  <2>2. n \in Nat
    BY BoundsAssumption
  <2> DEFINE more == {[step |-> step, paused |-> FALSE, turns |-> {t}] : t \in (turns + 2)..(turns + n)}
             metrics == settledStage(turns + 1) \cup more
  <2>3. metrics \in SUBSET Metric
    <3>1. ASSUME NEW t \in (turns + 2)..(turns + n)
          PROVE  [step |-> step, paused |-> FALSE, turns |-> {t}] \in Metric
      <4>1. t \in Nat
        BY <1>1, <2>2
      <4> QED BY <1>3, <4>1
    <3>2. settledStage(turns + 1) \in SUBSET Metric
      BY <1>1, <1>4
    <3> QED BY <3>1, <3>2
  <2> HIDE DEF metrics, more
  <2>4. AfterPlan(unresolved, elevated) \in Phases
    BY <1>2 DEF AfterPlan
  <2>5. Settles([state EXCEPT !.unresolved = unresolved, !.elevated = elevated, !.stageMetrics = metrics])
          \in WorkflowState
    BY <1>1, <1>2, <2>3 DEF Settles, WorkflowState
  <2>6. UNCHANGED <<tree, gated, reviewed>>
    BY <1>6 DEF stepPlan
  <2> QED BY <1>1, <1>5, <2>1, <2>2, <2>4, <2>5, <2>6, OfferType DEF metrics, more
<1>7. CASE stepResearch
  <2> DEFINE s == [state EXCEPT !.unresolved = FALSE,
                     !.stageMetrics = @ \cup {[step |-> step, paused |-> FALSE, turns |-> {turns + 1}]}]
             metric == [step |-> step, paused |-> FALSE, turns |-> {turns + 1}]
  <2>4. metric \in Metric
    <3>1. turns + 1 \in Nat /\ FALSE \in BOOLEAN
      BY <1>1
    <3> QED BY <1>3, <3>1
  <2> HIDE DEF metric
  <2>5. [state EXCEPT !.unresolved = FALSE, !.stageMetrics = @ \cup {metric}] \in WorkflowState
    BY <1>1, <2>4 DEF WorkflowState
  <2>1. s \in WorkflowState
    BY <2>5 DEF metric
  <2>2. AfterResearch \in Phases
    BY <1>2 DEF AfterPlan, AfterResearch
  <2>3. Offer(s, Linear(AfterResearch, state.round)) /\ turns' = turns + 1 /\ UNCHANGED <<tree, gated, reviewed>>
    BY <1>7 DEF stepResearch
  <2> HIDE DEF s
  <2> QED BY <1>1, <1>5, <2>1, <2>2, <2>3, OfferType
<1>8. CASE stepSecurity
  <2> DEFINE metrics == settledStage(turns + 1)
             s == Settles([state EXCEPT !.secured = TRUE, !.stageMetrics = metrics])
  <2>5. metrics \in SUBSET Metric
    BY <1>1, <1>4
  <2> HIDE DEF metrics
  <2>1. s \in WorkflowState
    BY <1>1, <1>2, <2>5 DEF WorkflowState, Settles
  <2>2. Offer(s, Linear("code", state.round)) /\ turns' = turns + 1 /\ UNCHANGED <<tree, gated, reviewed>>
    BY <1>8 DEF stepSecurity, metrics
  <2> HIDE DEF s
  <2> QED BY <1>1, <1>2, <1>5, <2>1, <2>2, OfferType
<1>9. CASE stepCode
  <2> DEFINE metrics == settledStage(turns + 1)
             s == Settles([state EXCEPT !.stageMetrics = metrics])
  <2>5. metrics \in SUBSET Metric
    BY <1>1, <1>4
  <2> HIDE DEF metrics
  <2>1. s \in WorkflowState
    BY <1>1, <1>2, <2>5 DEF WorkflowState, Settles
  <2>2. /\ Offer(s, Linear(AfterCode, state.round) \cup Rework)
        /\ turns' = turns + 1 /\ tree' = turns + 1 /\ UNCHANGED <<gated, reviewed>>
    BY <1>9 DEF stepCode, metrics
  <2>3. AfterCode \in Phases
    BY <1>2 DEF AfterCode
  <2> HIDE DEF s
  <2>4. Linear(AfterCode, state.round) \cup Rework \in SUBSET Transition
    BY <1>1, <1>5, <2>3
  <2> QED BY <1>1, <2>1, <2>2, <2>4, OfferType
<1>10. CASE stepGates
  <2>1. \A g \in {"green", "red"} : [state EXCEPT !.gate = g] \in WorkflowState
    BY <1>1 DEF WorkflowState
  <2>2. /\ Linear("review", state.round) \cup Rework \in SUBSET Transition
        /\ RedTo \in SUBSET Transition
    <3>1. Linear("review", state.round) \in SUBSET Transition /\ Rework \in SUBSET Transition
      BY <1>1, <1>2, <1>5
    <3>3. state.round + 1 \in Nat
      BY <1>1
    <3>2. Linear("code", state.round + 1) \in SUBSET Transition /\ Stop(TRUE) \in Transition
      BY <1>2, <1>5, <3>3
    <3> QED BY <3>1, <3>2 DEF RedTo
  <2>3. /\ gated' = tree /\ UNCHANGED <<turns, tree, reviewed>>
        /\ \/ Offer([state EXCEPT !.gate = "green"], Linear("review", state.round) \cup Rework)
           \/ Offer([state EXCEPT !.gate = "red"], RedTo)
    BY <1>10 DEF stepGates
  <2> QED BY <1>1, <2>1, <2>2, <2>3, OfferType
<1>11. CASE stepReview
  <2>1. PICK n \in 1..ReviewAttempts, status \in Statuses :
          LET verdicts   == Append(state.verdicts, status)
              escalation == Escalation(status, verdicts)
          IN /\ Offer(Settles([state EXCEPT !.verdicts = verdicts, !.escalation = escalation,
                                            !.stageMetrics = settledStage(turns + n)]),
                      ReviewTo(status, escalation))
             /\ turns' = turns + n
    BY <1>11 DEF stepReview
  <2> DEFINE verdicts == Append(state.verdicts, status)
             escalation == Escalation(status, verdicts)
             metrics == settledStage(turns + n)
             s == Settles([state EXCEPT !.verdicts = verdicts, !.escalation = escalation,
                                        !.stageMetrics = metrics])
  <2>2. verdicts \in Seq(Statuses)
    BY <1>1
  <2>3. escalation \in {"none", "role_requested", "blocking_verdicts", "cap_exhausted"}
    BY <1>1 DEF Escalation, WorkflowState
  <2>4. n \in Nat
    BY DEF ReviewAttempts
  <2>9. metrics \in SUBSET Metric
    BY <1>1, <1>4, <2>4
  <2> HIDE DEF verdicts, escalation, metrics
  <2>5. s \in WorkflowState
    BY <1>1, <1>2, <2>2, <2>3, <2>9 DEF WorkflowState, Settles
  <2>6. ReviewTo(status, escalation) \in SUBSET Transition
    <3>1. (config.onChangesRequested = "advance") \in BOOLEAN /\ (config.onChangesRequested = "stop") \in BOOLEAN
      OBVIOUS
    <3>2. state.round + 1 \in Nat
      BY <1>1
    <3>3. \A default \in BOOLEAN : Advance(default, "code", state.round + 1) \in Transition /\ Stop(default) \in Transition
      BY <1>2, <1>5, <3>2
    <3>4. Rework \in SUBSET Transition
      BY <1>2, <1>5, <3>2
    <3> QED BY <3>1, <3>3, <3>4 DEF ReviewTo
  <2>7. Offer(s, ReviewTo(status, escalation)) /\ turns' = turns + n
    BY <2>1 DEF verdicts, escalation, metrics
  <2>8. reviewed' = tree /\ UNCHANGED <<tree, gated>>
    BY <1>11 DEF stepReview
  <2> HIDE DEF s
  <2> QED BY <1>1, <2>4, <2>5, <2>6, <2>7, <2>8, OfferType
<1> QED BY <1>6, <1>7, <1>8, <1>9, <1>10, <1>11 DEF Settle

\* What a stage that does not settle leaves in the state.
LEMMA RecordedType ==
  ASSUME TypeOK, NEW n \in Nat
  PROVE  Recorded(n) \in WorkflowState
<1>1. turns + n \in Nat /\ TRUE \in BOOLEAN
  BY DEF TypeOK
<1> DEFINE metric == [step |-> step, paused |-> TRUE, turns |-> {turns + n}]
<1>2. metric \in Metric
  BY <1>1, MetricType
<1> HIDE DEF metric
<1>3. [state EXCEPT !.stageMetrics = @ \cup {metric}] \in WorkflowState
  BY <1>2 DEF TypeOK, WorkflowState
<1> QED BY <1>3 DEF Recorded, metric

LEMMA SpentType ==
  ASSUME TypeOK, NEW n \in Nat, Spent(n)
  PROVE  failures' \in Nat /\ turns' \in Nat /\ tree' \in Nat /\ gated' \in Nat /\ reviewed' \in Nat
BY DEF TypeOK, Spent, Turns

LEMMA HandoffsType == \A phase : Handoffs(phase) \subseteq Nat /\ {Attempts} \subseteq Nat
BY BoundsAssumption DEF Handoffs, ReviewAttempts

LEMMA PauseType ==
  ASSUME TypeOK, NEW s \in WorkflowState, Pauses(s), NEW n \in Nat, Spent(n)
  PROVE  TypeOK'
<1>1. failures' \in Nat /\ turns' \in Nat /\ tree' \in Nat /\ gated' \in Nat /\ reviewed' \in Nat
  BY SpentType
<1> QED BY <1>1 DEF TypeOK, Pauses, session

LEMMA FailType == ASSUME TypeOK, Fail PROVE TypeOK'
<1>1. state \in WorkflowState /\ turns \in Nat /\ state.lastStageFailure \in Phases \cup {"none"}
  BY DEF TypeOK, WorkflowState
<1>2. CASE StageLimit
  <2>1. PICK n \in Handoffs(state.phase) :
          /\ Pauses([Recorded(n) EXCEPT !.activeStage = [step |-> step, turns |-> {turns + n}]])
          /\ Spent(n)
    BY <1>2 DEF StageLimit
  <2>2. n \in Nat
    BY HandoffsType
  <2> DEFINE stage == [step |-> step, turns |-> {turns + n}]
             r == Recorded(n)
  <2>3. stage \in Stage
    BY <1>1, <2>2, SettledType DEF Stage
  <2>4. r \in WorkflowState
    BY <2>2, RecordedType
  <2>5. Pauses([r EXCEPT !.activeStage = stage])
    BY <2>1
  <2> HIDE DEF stage, r
  <2>6. [r EXCEPT !.activeStage = stage] \in WorkflowState
    BY <2>3, <2>4 DEF WorkflowState
  <2> QED BY <2>1, <2>2, <2>5, <2>6, PauseType
<1>3. CASE StageFailure
  <2>1. PICK n \in Handoffs(state.phase), cause \in {state.phase, state.lastStageFailure} :
          Pauses([Recorded(n) EXCEPT !.lastStageFailure = cause]) /\ Spent(n)
    BY <1>3 DEF StageFailure
  <2>2. n \in Nat
    BY HandoffsType
  <2> DEFINE r == Recorded(n)
  <2>3. r \in WorkflowState
    BY <2>2, RecordedType
  <2>4. Pauses([r EXCEPT !.lastStageFailure = cause])
    BY <2>1
  <2>5. cause \in Phases \cup {"none"}
    BY <1>1 DEF WorkflowState
  <2> HIDE DEF r
  <2>6. [r EXCEPT !.lastStageFailure = cause] \in WorkflowState
    BY <2>3, <2>5 DEF WorkflowState
  <2> QED BY <2>1, <2>2, <2>4, <2>6, PauseType
<1>4. CASE NotSubmitted
  <2>1. PICK n \in Nat : Pauses([state EXCEPT !.lastStageFailure = state.phase]) /\ Spent(n)
    BY <1>4, HandoffsType DEF NotSubmitted
  <2>2. [state EXCEPT !.lastStageFailure = state.phase] \in WorkflowState
    BY <1>1 DEF WorkflowState
  <2> QED BY <2>1, <2>2, PauseType
<1>5. CASE ResearchFails
  <2>1. ASSUME Pauses(state), NEW n \in {0, 1}, Spent(n) PROVE TypeOK'
    BY <1>1, <2>1, PauseType
  <2>2. ASSUME Pauses(Recorded(1)), Spent(1) PROVE TypeOK'
    <3>1. Recorded(1) \in WorkflowState
      BY RecordedType
    <3> QED BY <2>2, <3>1, PauseType
  <2> QED BY <1>5, <2>1, <2>2 DEF ResearchFails
<1>6. CASE Interrupted
  <2>1. PICK n \in {0} \cup Handoffs(state.phase) : Spent(n)
    BY <1>6 DEF Interrupted
  <2>2. n \in Nat
    BY HandoffsType
  <2>3. Pauses(state)
    BY <1>6 DEF Interrupted
  <2> QED BY <1>1, <2>1, <2>2, <2>3, PauseType
<1>7. CASE Dies
  <2>1. PICK n \in Handoffs(state.phase) : Spent(n)
    BY <1>7 DEF Dies
  <2>2. n \in Nat
    BY HandoffsType
  <2>3. failures' \in Nat /\ turns' \in Nat /\ tree' \in Nat /\ gated' \in Nat /\ reviewed' \in Nat
    BY <2>1, <2>2, SpentType
  <2>4. UNCHANGED <<session, state, offers, pause>>
    BY <1>7 DEF Dies
  <2> QED BY <2>3, <2>4 DEF TypeOK, session
<1> QED BY <1>2, <1>3, <1>4, <1>5, <1>6, <1>7 DEF Fail

\* What a driver or an operator does, and a research stage nobody can run.
LEMMA DriveType ==
  ASSUME TypeOK, NoResearcher \/ Choose \/ Resume \/ resumeRoundCap
  PROVE  TypeOK'
<1>1. state \in WorkflowState /\ state.round \in Nat
  BY DEF TypeOK, WorkflowState
<1>2. CASE NoResearcher
  BY <1>2 DEF NoResearcher, Pauses, TypeOK, session, history
<1>3. CASE Choose
  <2>1. PICK to \in offers : state' = applyTransition(to)
    BY <1>3 DEF Choose
  <2>2. to.toPhase \in Phases /\ to.toRound \in Nat
    BY DEF TypeOK, Transition
  <2>3. Approved(state) \in BOOLEAN /\ "done" \in Phases
    BY DEF Approved, Phases
  <2>4. state' \in WorkflowState
    BY <1>1, <2>1, <2>2, <2>3 DEF applyTransition, WorkflowState
  <2> QED BY <1>3, <2>4 DEF Choose, TypeOK, session, history
<1>4. CASE Resume
  BY <1>4 DEF Resume, TypeOK, history
<1>5. CASE resumeRoundCap
  <2>1. state.round + 1 \in Nat /\ "code" \in Phases
    BY <1>1 DEF Phases, RolePhases
  <2> DEFINE n == state.round + 1
  <2>2. state' = [state EXCEPT !.escalation = "none", !.phase = "code", !.round = n,
                               !.done = FALSE, !.approved = FALSE]
    BY <1>5 DEF resumeRoundCap
  <2> HIDE DEF n
  <2>3. state' \in WorkflowState
    BY <1>1, <2>1, <2>2 DEF WorkflowState, n
  <2> QED BY <1>5, <2>3 DEF resumeRoundCap, TypeOK, history
<1> QED BY <1>2, <1>3, <1>4, <1>5

LEMMA NextType == ASSUME TypeOK, [Next]_vars PROVE TypeOK'
<1>1. CASE UNCHANGED vars
  BY <1>1 DEF vars, session, history, TypeOK
<1> QED BY <1>1, StepType, FailType, DriveType DEF Next

\* Every stage, pause, death and choice leaves a checkpoint of the workflow's shape.
THEOREM TypeCorrect == Spec => []TypeOK
BY InitType, NextType, PTL DEF Spec

-----------------------------------------------------------------------------
(* The inductive invariant, a part for each thing a stage relies on.        *)

\* A settled run has no stage, no offer and no pause.
Shape ==
  /\ state.done <=> state.phase = "done"
  /\ state.approved => state.done
  /\ offers # {} \/ pause => ~state.done
  /\ offers # {} => ~pause
  /\ \A to \in offers : to.toPhase # "plan"

\* What is carried over belongs to the role whose stage is still to settle.
Carried ==
  /\ state.activeStage # NoStage =>
       state.activeStage.step = step /\ state.phase \in RolePhases /\ offers = {}
  /\ state.lastStageFailure # "none" =>
       state.lastStageFailure = state.phase /\ state.phase \in RolePhases /\ offers = {}

AfterClearance == {"code", "gates", "review"}
Clear(s) == ~s.unresolved /\ (s.elevated /\ config.security => s.secured)

\* Nothing leads to the coder while a surface is unresolved or not secured.
Cleared ==
  /\ state.phase \in AfterClearance \/ tree # 0 \/ state.escalation # "none" => Clear(state)
  /\ \A to \in offers : /\ to.toPhase \in AfterClearance => Clear(state)
                        /\ to.toPhase = "security" => ~state.unresolved
  /\ state.phase = "security" => ~state.unresolved
  /\ state.phase = "plan" => tree = 0 /\ state.escalation = "none"

\* Only green gates on this tree lead to a review.
GatedOnly ==
  config.gates /\ (state.phase = "review" \/ \E to \in offers : to.toPhase = "review")
    => gated = tree /\ state.gate = "green"

LastApproved(s) == s.verdicts # <<>> /\ s.verdicts[Len(s.verdicts)] = "approved"

\* An approval ends what nobody chooses otherwise; an escalation ends every run.
Reviewed ==
  /\ config.gates /\ state.verdicts # <<>> => state.gate # "none"
  /\ config.auto /\ LastApproved(state) =>
       /\ reviewed = tree
       /\ state.done \/ offers # {}
       /\ \A to \in offers : to.isDefault => to.toPhase = "done"
  /\ state.escalation # "none" =>
       /\ ~LastApproved(state)
       /\ state.done \/ offers # {}
       /\ \A to \in offers : to.toPhase = "done"
  /\ state.approved => /\ config.gates => state.gate = "green"
                       /\ config.auto => reviewed = tree

\* One blocking verdict leaves the run going, a second one ends it.
Rounds ==
  /\ blockingVerdictCount(state.verdicts) <= 2
  /\ state.escalation \in {"none", "cap_exhausted"} => blockingVerdictCount(state.verdicts) <= 1
  /\ config.auto => /\ \E cap \in Caps : state.round <= cap
                    /\ \A to \in offers : to.isDefault => \E cap \in Caps : to.toRound <= cap

IInv == TypeOK /\ Shape /\ Carried /\ Cleared /\ GatedOnly /\ Reviewed /\ Rounds

LEMMA InitInv == Init => IInv
<1> SUFFICES ASSUME Init PROVE IInv
  OBVIOUS
<1>1. TypeOK
  BY InitType
<1>2. /\ state.phase \in {"plan", "code"} /\ state.round = 1 /\ ~state.unresolved /\ ~state.elevated
      /\ state.verdicts = <<>> /\ state.gate = "none" /\ state.activeStage = NoStage
      /\ state.lastStageFailure = "none" /\ state.escalation = "none" /\ ~state.done /\ ~state.approved
      /\ offers = {} /\ ~pause /\ tree = 0
  BY DEF Init, initialState
<1>3. Shape /\ Carried /\ Cleared /\ GatedOnly
  BY <1>2 DEF Shape, Carried, Cleared, GatedOnly, Clear
<1>4. Reviewed
  BY <1>2 DEF Reviewed, LastApproved
<1>5. blockingVerdictCount(state.verdicts) = 0
  <2>1. {n \in DOMAIN state.verdicts : state.verdicts[n] \in Blocking} = {}
    BY <1>2
  <2> QED BY <2>1, FS_EmptySet DEF blockingVerdictCount
<1>6. \E cap \in Caps : 1 <= cap
  BY BoundsAssumption DEF Init
<1>7. Rounds
  BY <1>2, <1>5, <1>6 DEF Rounds
<1> QED BY <1>1, <1>3, <1>4, <1>7 DEF IInv

-----------------------------------------------------------------------------
(* A stage that does not settle keeps all that the later stages rely on.    *)

Kept(s, t) ==
  /\ t.phase = s.phase /\ t.round = s.round /\ t.elevated = s.elevated
  /\ t.unresolved = s.unresolved /\ t.secured = s.secured /\ t.verdicts = s.verdicts
  /\ t.gate = s.gate /\ t.escalation = s.escalation /\ t.done = s.done /\ t.approved = s.approved

\* What an attempt that fails may leave to the next one.
LeftOver(s, t) ==
  /\ t.activeStage # s.activeStage => t.activeStage.step = <<s.phase, s.round>> /\ s.phase \in RolePhases
  /\ t.lastStageFailure # s.lastStageFailure => t.lastStageFailure = s.phase /\ s.phase \in RolePhases

LEMMA RecordedKeeps ==
  ASSUME TypeOK, NEW n
  PROVE  /\ Kept(state, Recorded(n))
         /\ Recorded(n).activeStage = state.activeStage
         /\ Recorded(n).lastStageFailure = state.lastStageFailure
         /\ DOMAIN Recorded(n) = DOMAIN state
BY DEF TypeOK, WorkflowState, Recorded, Kept

LEMMA FailKeeps ==
  ASSUME TypeOK, Fail \/ NoResearcher
  PROVE  /\ ~state.done /\ ~pause /\ offers = {} /\ offers' = {}
         /\ config' = config /\ gated' = gated /\ reviewed' = reviewed
         /\ tree' # tree => state.phase = "code"
         /\ Kept(state, state') /\ LeftOver(state, state')
<1> USE DEF At, Pauses, session, Spent, history
<1>1. Kept(state, state) /\ LeftOver(state, state)
  BY DEF Kept, LeftOver
<1>2. CASE StageLimit
  <2>1. PICK n : state' = [Recorded(n) EXCEPT !.activeStage = [step |-> step, turns |-> {turns + n}]]
    BY <1>2 DEF StageLimit
  <2>2. state.phase \in RolePhases
    BY <1>2 DEF StageLimit
  <2>3. Kept(state, state')
    BY <2>1, RecordedKeeps DEF Kept
  <2>4. state'.activeStage.step = step /\ state'.lastStageFailure = state.lastStageFailure
    BY <2>1, RecordedKeeps DEF TypeOK, WorkflowState
  <2> QED BY <1>2, <2>2, <2>3, <2>4 DEF StageLimit, LeftOver, step
<1>3. CASE StageFailure
  <2>1. PICK n \in Handoffs(state.phase), cause \in {state.phase, state.lastStageFailure} :
          state' = [Recorded(n) EXCEPT !.lastStageFailure = cause]
    BY <1>3 DEF StageFailure
  <2>2. state.phase \in RolePhases
    BY <1>3 DEF StageFailure
  <2>3. Kept(state, state')
    BY <2>1, RecordedKeeps DEF Kept
  <2>4. state'.activeStage = state.activeStage /\ state'.lastStageFailure = cause
    BY <2>1, RecordedKeeps DEF TypeOK, WorkflowState
  <2> QED BY <1>3, <2>2, <2>3, <2>4 DEF StageFailure, LeftOver
<1>4. CASE NotSubmitted
  <2>1. state' = [state EXCEPT !.lastStageFailure = state.phase] /\ state.phase \in RolePhases
    BY <1>4 DEF NotSubmitted, RolePhases
  <2>2. Kept(state, state') /\ LeftOver(state, state')
    BY <2>1 DEF Kept, LeftOver, TypeOK, WorkflowState
  <2> QED BY <1>4, <2>2 DEF NotSubmitted
<1>5. CASE ResearchFails
  <2>1. state' = state \/ state' = Recorded(1)
    BY <1>5 DEF ResearchFails
  <2>2. Kept(state, state') /\ LeftOver(state, state')
    BY <1>1, <2>1, RecordedKeeps DEF LeftOver
  <2> QED BY <1>5, <2>2 DEF ResearchFails
<1>6. CASE Interrupted
  BY <1>1, <1>6 DEF Interrupted
<1>7. CASE Dies
  BY <1>1, <1>7 DEF Dies
<1>8. CASE NoResearcher
  BY <1>1, <1>8 DEF NoResearcher
<1> QED BY <1>2, <1>3, <1>4, <1>5, <1>6, <1>7, <1>8 DEF Fail

LEMMA FailInv ==
  ASSUME IInv, TypeOK', Fail \/ NoResearcher
  PROVE  IInv'
<1>1. /\ ~state.done /\ ~pause /\ offers = {} /\ offers' = {}
      /\ config' = config /\ gated' = gated /\ reviewed' = reviewed
      /\ tree' # tree => state.phase = "code"
      /\ Kept(state, state') /\ LeftOver(state, state')
  BY FailKeeps DEF IInv
<1>2. Shape'
  BY <1>1 DEF IInv, Shape, Kept
<1>3. Carried'
  BY <1>1 DEF IInv, Carried, Kept, LeftOver, step
<1>4. Cleared'
  BY <1>1 DEF IInv, Cleared, Kept, Clear, AfterClearance
<1>5. GatedOnly'
  BY <1>1 DEF IInv, GatedOnly, Kept
<1>6. Reviewed'
  <2>1. LastApproved(state') = LastApproved(state)
    BY <1>1 DEF LastApproved, Kept
  <2> QED BY <1>1, <2>1 DEF IInv, Reviewed, Kept, Shape
<1>7. Rounds'
  BY <1>1 DEF IInv, Rounds, Kept
<1> QED BY <1>2, <1>3, <1>4, <1>5, <1>6, <1>7 DEF IInv

-----------------------------------------------------------------------------
(* A stage that settles.                                                    *)

\* One verdict more is at most one blocking verdict more.
LEMMA OneVerdictMore ==
  ASSUME NEW verdicts \in Seq(Statuses), NEW status \in Statuses
  PROVE  /\ blockingVerdictCount(verdicts) \in Nat
         /\ blockingVerdictCount(Append(verdicts, status)) <= blockingVerdictCount(verdicts) + 1
         /\ blockingVerdictCount(Append(verdicts, status)) \in Nat
         /\ status = "approved" =>
              blockingVerdictCount(Append(verdicts, status)) = blockingVerdictCount(verdicts)
<1> DEFINE more == Append(verdicts, status)
           old == {n \in DOMAIN verdicts : verdicts[n] \in Blocking}
           new == {n \in DOMAIN more : more[n] \in Blocking}
           last == Len(verdicts) + 1
<1>1. /\ Len(verdicts) \in Nat /\ Len(more) = last
      /\ DOMAIN verdicts = 1..Len(verdicts) /\ DOMAIN more = 1..last
      /\ \A n \in 1..Len(verdicts) : more[n] = verdicts[n]
      /\ more[last] = status
  OBVIOUS
<1>2. new \subseteq old \cup {last} /\ old \subseteq new
  BY <1>1
<1>3. status = "approved" => new = old
  BY <1>1, <1>2 DEF Blocking
<1>4. IsFiniteSet(1..Len(verdicts)) /\ old \subseteq 1..Len(verdicts)
  BY <1>1, FS_Interval
<1>5. IsFiniteSet(old)
  BY <1>4, FS_Subset
<1>6. IsFiniteSet(old \cup {last}) /\ Cardinality(old \cup {last}) <= Cardinality(old) + 1
  <2>1. Cardinality(old) \in Nat
    BY <1>5, FS_CardinalityType
  <2> HIDE DEF old, last
  <2>2. /\ IsFiniteSet(old \cup {last})
        /\ Cardinality(old \cup {last}) = IF last \in old THEN Cardinality(old) ELSE Cardinality(old) + 1
    BY <1>5, FS_AddElement
  <2> QED BY <2>1, <2>2
<1>7. IsFiniteSet(new) /\ Cardinality(new) <= Cardinality(old \cup {last})
  BY <1>2, <1>6, FS_Subset
<1>8. Cardinality(old) \in Nat /\ Cardinality(new) \in Nat /\ Cardinality(old \cup {last}) \in Nat
  BY <1>5, <1>6, <1>7, FS_CardinalityType
<1>9. blockingVerdictCount(verdicts) = Cardinality(old) /\ blockingVerdictCount(more) = Cardinality(new)
  BY DEF blockingVerdictCount
<1> HIDE DEF old, new, more, last
<1> QED BY <1>3, <1>6, <1>7, <1>8, <1>9 DEF more

\* What a role phase leaves when its stage settles.
LEMMA SettlesKeeps ==
  ASSUME NEW s \in WorkflowState
  PROVE  /\ Kept(s, Settles(s)) /\ Settles(s).activeStage = NoStage
         /\ Settles(s).lastStageFailure = "none"
BY DEF WorkflowState, Settles, Kept

LEMMA AdvanceIs ==
  ASSUME NEW default, NEW phase, NEW round
  PROVE  /\ Advance(default, phase, round).toPhase = phase
         /\ Advance(default, phase, round).toRound = round
         /\ Stop(default).toPhase = "done" /\ Stop(default).toRound = state.round
BY DEF Advance, Stop

LEMMA LinearIs ==
  ASSUME NEW phase, NEW round, NEW to \in Linear(phase, round)
  PROVE  /\ to.toPhase \in {phase, "done"} /\ to.toRound \in {round, state.round}
BY DEF Linear, Stop, Advance

LEMMA ReworkIs ==
  ASSUME NEW to \in Rework
  PROVE  to.toPhase = "code" /\ ~to.isDefault
BY DEF Rework, Advance

\* What a settled stage leaves in the rest of the state: SettleInv needs of the
\* stages only what is named here.
LEMMA SettleInv ==
  ASSUME IInv, TypeOK', NEW s \in WorkflowState, NEW to, Offer(s, to),
         ~state.done, ~pause, offers = {},
         s.activeStage = NoStage, s.lastStageFailure = "none",
         s.phase = state.phase, s.round = state.round, ~s.done, s.approved = state.approved,
         \A t \in to : t.toPhase # "plan",
         state.phase \in AfterClearance \/ tree' # 0 \/ s.escalation # "none" => Clear(s),
         state.phase = "plan" => tree' = 0 /\ s.escalation = "none",
         state.phase = "security" => ~s.unresolved,
         \A t \in to : /\ t.toPhase \in AfterClearance => Clear(s)
                       /\ t.toPhase = "security" => ~s.unresolved,
         config.gates /\ (state.phase = "review" \/ \E t \in to : t.toPhase = "review")
           => gated' = tree' /\ s.gate = "green",
         config.gates /\ s.verdicts # <<>> => s.gate # "none",
         config.auto /\ LastApproved(s) =>
           reviewed' = tree' /\ to # {} /\ \A t \in to : t.isDefault => t.toPhase = "done",
         s.escalation # "none" =>
           ~LastApproved(s) /\ to # {} /\ \A t \in to : t.toPhase = "done",
         blockingVerdictCount(s.verdicts) <= 2,
         s.escalation \in {"none", "cap_exhausted"} => blockingVerdictCount(s.verdicts) <= 1,
         config.auto => \A t \in to : t.isDefault => \E cap \in Caps : t.toRound <= cap
  PROVE  IInv'
<1> USE DEF Offer, session
<1>1. ~s.approved /\ state' = s /\ offers' = to /\ config' = config /\ pause' = pause
  BY DEF IInv, Shape
<1>2. Shape'
  BY <1>1 DEF IInv, Shape
<1>3. Carried'
  BY <1>1 DEF Carried
<1>4. Cleared'
  BY <1>1 DEF Cleared, Clear
<1>5. GatedOnly'
  BY <1>1 DEF GatedOnly
<1>6. Reviewed'
  BY <1>1 DEF Reviewed, LastApproved
<1>7. Rounds'
  BY <1>1 DEF IInv, Rounds
<1> QED BY <1>2, <1>3, <1>4, <1>5, <1>6, <1>7 DEF IInv

\* A stage that gives no verdict, and what its offers lead to.
NoVerdict(phase, s, to) ==
  /\ At(phase) /\ phase # "review" /\ s \in WorkflowState /\ Offer(s, to)
  /\ s.activeStage = NoStage /\ s.lastStageFailure = "none"
  /\ s.phase = state.phase /\ s.round = state.round /\ s.done = state.done /\ s.approved = state.approved
  /\ s.verdicts = state.verdicts /\ s.escalation = state.escalation
  /\ s.gate = state.gate \/ s.gate # "none"
  /\ phase \in AfterClearance \/ tree' # 0 => Clear(s)
  /\ phase = "plan" => tree' = 0
  /\ phase = "security" => ~s.unresolved
  /\ \A t \in to : /\ t.toPhase # "plan"
                   /\ t.toPhase \in AfterClearance => Clear(s)
                   /\ t.toPhase = "security" => ~s.unresolved
                   /\ config.gates /\ t.toPhase = "review" => gated' = tree' /\ s.gate = "green"
                   /\ config.auto /\ t.isDefault => \E cap \in Caps : t.toRound <= cap

LEMMA NoVerdictInv ==
  ASSUME IInv, TypeOK', NEW phase, NEW s, NEW to, NoVerdict(phase, s, to)
  PROVE  IInv'
<1> USE DEF NoVerdict
<1>1. /\ state.phase = phase /\ ~state.done /\ ~pause /\ offers = {}
  BY DEF At
<1>2. state.escalation = "none" /\ ~(config.auto /\ LastApproved(state))
  BY <1>1 DEF IInv, Reviewed
<1>3. LastApproved(s) = LastApproved(state)
  BY DEF LastApproved
<1>4. blockingVerdictCount(s.verdicts) <= 2 /\ blockingVerdictCount(s.verdicts) <= 1
  BY <1>2 DEF IInv, Rounds
<1>5. config.gates /\ s.verdicts # <<>> => s.gate # "none"
  BY DEF IInv, Reviewed
<1> QED BY <1>1, <1>2, <1>3, <1>4, <1>5, SettleInv

\* The caps reach as far as the round the run is in.
LEMMA RoundInCap ==
  ASSUME IInv
  PROVE  config.auto => \E cap \in Caps : state.round <= cap
BY DEF IInv, Rounds

LEMMA PlanInv == ASSUME IInv, TypeOK', stepPlan PROVE IInv'
<1>1. PICK n \in 1..Attempts, unresolved \in BOOLEAN, elevated \in BOOLEAN :
        /\ Offer(Settles([state EXCEPT
                   !.unresolved = unresolved, !.elevated = elevated,
                   !.stageMetrics = settledStage(turns + 1) \cup
                     {[step |-> step, paused |-> FALSE, turns |-> {t}] : t \in (turns + 2)..(turns + n)}]),
                 Linear(AfterPlan(unresolved, elevated), state.round))
  BY DEF stepPlan
<1> DEFINE metrics == settledStage(turns + 1) \cup
                 {[step |-> step, paused |-> FALSE, turns |-> {t}] : t \in (turns + 2)..(turns + n)}
           s == Settles([state EXCEPT !.unresolved = unresolved, !.elevated = elevated,
                                      !.stageMetrics = metrics])
           to == Linear(AfterPlan(unresolved, elevated), state.round)
<1>2. Offer(s, to)
  BY <1>1
<1> HIDE DEF metrics
<1>3. /\ s.phase = state.phase /\ s.round = state.round /\ s.done = state.done /\ s.approved = state.approved
      /\ s.verdicts = state.verdicts /\ s.escalation = state.escalation /\ s.gate = state.gate
      /\ s.unresolved = unresolved /\ s.elevated = elevated
      /\ s.activeStage = NoStage /\ s.lastStageFailure = "none"
  BY DEF IInv, TypeOK, WorkflowState, Settles
<1>4. s \in WorkflowState
  BY <1>2 DEF Offer, TypeOK
<1>5. At("plan") /\ tree' = 0
  BY DEF stepPlan, IInv, Cleared, At
<1>6. \A t \in to : t.toPhase \in {AfterPlan(unresolved, elevated), "done"} /\ t.toRound = state.round
  BY LinearIs
<1>7. \A t \in to : config.auto /\ t.isDefault => \E cap \in Caps : t.toRound <= cap
  BY <1>6, RoundInCap DEF IInv, TypeOK
<1>8. AfterPlan(unresolved, elevated) \in {"research", "security", "code"}
  BY DEF AfterPlan
<1>9. \A t \in to : /\ t.toPhase \notin {"plan", "review", "gates"}
                    /\ t.toPhase \in AfterClearance => Clear(s)
                    /\ t.toPhase = "security" => ~s.unresolved
  BY <1>3, <1>6, <1>8 DEF AfterPlan, Clear, AfterClearance
<1> HIDE DEF s, to
<1>10. NoVerdict("plan", s, to)
  BY <1>2, <1>3, <1>4, <1>5, <1>7, <1>9 DEF NoVerdict, At, AfterClearance
<1> QED BY <1>10, NoVerdictInv

LEMMA ResearchInv == ASSUME IInv, TypeOK', stepResearch PROVE IInv'
<1> DEFINE s == [state EXCEPT !.unresolved = FALSE,
                   !.stageMetrics = @ \cup {[step |-> step, paused |-> FALSE, turns |-> {turns + 1}]}]
           to == Linear(AfterResearch, state.round)
<1>1. At("research") /\ Offer(s, to) /\ tree' = tree
  BY DEF stepResearch
<1>2. /\ s.phase = state.phase /\ s.round = state.round /\ s.done = state.done /\ s.approved = state.approved
      /\ s.verdicts = state.verdicts /\ s.escalation = state.escalation /\ s.gate = state.gate
      /\ ~s.unresolved /\ s.elevated = state.elevated /\ s.secured = state.secured
      /\ s.activeStage = state.activeStage /\ s.lastStageFailure = state.lastStageFailure
  BY DEF IInv, TypeOK, WorkflowState
<1>3. s \in WorkflowState
  BY <1>1 DEF Offer, TypeOK
<1>4. s.activeStage = NoStage /\ s.lastStageFailure = "none"
  BY <1>1, <1>2 DEF IInv, Carried, At, RolePhases
<1>5. \A t \in to : t.toPhase \in {AfterResearch, "done"} /\ t.toRound = state.round
  BY LinearIs
<1>6. \A t \in to : config.auto /\ t.isDefault => \E cap \in Caps : t.toRound <= cap
  BY <1>5, RoundInCap DEF IInv, TypeOK
<1>7. tree' # 0 => Clear(s)
  BY <1>1, <1>2 DEF IInv, Cleared, Clear
<1>8. AfterResearch \in {"security", "code"}
  BY DEF AfterPlan, AfterResearch
<1>9. \A t \in to : /\ t.toPhase \notin {"plan", "review", "gates"}
                    /\ t.toPhase \in AfterClearance => Clear(s)
                    /\ t.toPhase = "security" => ~s.unresolved
  BY <1>2, <1>5, <1>8 DEF AfterPlan, AfterResearch, Clear, AfterClearance
<1> HIDE DEF s, to
<1>10. NoVerdict("research", s, to)
  BY <1>1, <1>2, <1>3, <1>4, <1>6, <1>7, <1>9 DEF NoVerdict, At, AfterClearance
<1> QED BY <1>10, NoVerdictInv

LEMMA SecurityInv == ASSUME IInv, TypeOK', stepSecurity PROVE IInv'
<1> DEFINE metrics == settledStage(turns + 1)
           s == Settles([state EXCEPT !.secured = TRUE, !.stageMetrics = metrics])
           to == Linear("code", state.round)
<1>1. At("security") /\ Offer(s, to) /\ tree' = tree
  BY DEF stepSecurity
<1> HIDE DEF metrics
<1>2. /\ s.phase = state.phase /\ s.round = state.round /\ s.done = state.done /\ s.approved = state.approved
      /\ s.verdicts = state.verdicts /\ s.escalation = state.escalation /\ s.gate = state.gate
      /\ s.unresolved = state.unresolved /\ s.secured
      /\ s.activeStage = NoStage /\ s.lastStageFailure = "none"
  BY DEF IInv, TypeOK, WorkflowState, Settles
<1>3. s \in WorkflowState
  BY <1>1 DEF Offer, TypeOK
<1>4. ~s.unresolved /\ Clear(s)
  BY <1>1, <1>2 DEF IInv, Cleared, At, Clear
<1>5. \A t \in to : t.toPhase \in {"code", "done"} /\ t.toRound = state.round
  BY LinearIs
<1>6. \A t \in to : config.auto /\ t.isDefault => \E cap \in Caps : t.toRound <= cap
  BY <1>5, RoundInCap DEF IInv, TypeOK
<1> HIDE DEF s, to
<1>10. NoVerdict("security", s, to)
  BY <1>1, <1>2, <1>3, <1>4, <1>5, <1>6 DEF NoVerdict, At, AfterClearance
<1> QED BY <1>10, NoVerdictInv

LEMMA CodeInv == ASSUME IInv, TypeOK', stepCode PROVE IInv'
<1> DEFINE metrics == settledStage(turns + 1)
           s == Settles([state EXCEPT !.stageMetrics = metrics])
           to == Linear(AfterCode, state.round) \cup Rework
<1>1. At("code") /\ Offer(s, to)
  BY DEF stepCode
<1> HIDE DEF metrics
<1>2. /\ s.phase = state.phase /\ s.round = state.round /\ s.done = state.done /\ s.approved = state.approved
      /\ s.verdicts = state.verdicts /\ s.escalation = state.escalation /\ s.gate = state.gate
      /\ s.unresolved = state.unresolved /\ s.secured = state.secured /\ s.elevated = state.elevated
      /\ s.activeStage = NoStage /\ s.lastStageFailure = "none"
  BY DEF IInv, TypeOK, WorkflowState, Settles
<1>3. s \in WorkflowState
  BY <1>1 DEF Offer, TypeOK
<1>4. ~s.unresolved /\ Clear(s)
  BY <1>1, <1>2 DEF IInv, Cleared, At, Clear, AfterClearance
<1>5. \A t \in to : /\ t.toPhase \in {AfterCode, "code", "done"}
                    /\ t.isDefault => t.toRound = state.round
  BY LinearIs, ReworkIs
<1>6. \A t \in to : config.auto /\ t.isDefault => \E cap \in Caps : t.toRound <= cap
  BY <1>5, RoundInCap DEF IInv, TypeOK
<1>7. AfterCode = IF config.gates THEN "gates" ELSE "review"
  BY DEF AfterCode
<1> HIDE DEF s, to
<1>10. NoVerdict("code", s, to)
  BY <1>1, <1>2, <1>3, <1>4, <1>5, <1>6, <1>7 DEF NoVerdict, At, AfterClearance
<1> QED BY <1>10, NoVerdictInv

LEMMA GatesInv == ASSUME IInv, TypeOK', stepGates PROVE IInv'
<1>1. At("gates") /\ gated' = tree /\ tree' = tree
  BY DEF stepGates
<1>2. state.activeStage = NoStage /\ state.lastStageFailure = "none"
  BY <1>1 DEF IInv, Carried, At, RolePhases
<1>3. Clear(state)
  BY <1>1 DEF IInv, Cleared, At, AfterClearance
<1>4. /\ config.auto => \E cap \in Caps : state.round <= cap
      /\ maxRounds \in Caps
  BY RoundInCap DEF IInv, TypeOK
<1>5. ASSUME NEW g \in {"green", "red"}, NEW to, Offer([state EXCEPT !.gate = g], to),
             \A t \in to : /\ t.toPhase \in {"code", "review", "done"}
                           /\ t.toPhase = "review" => g = "green"
                           /\ config.auto /\ t.isDefault => \E cap \in Caps : t.toRound <= cap
      PROVE  IInv'
  <2> DEFINE s == [state EXCEPT !.gate = g]
  <2>1. s \in WorkflowState
    BY <1>5 DEF Offer, TypeOK
  <2>2. /\ s.phase = state.phase /\ s.round = state.round /\ s.done = state.done /\ s.approved = state.approved
        /\ s.verdicts = state.verdicts /\ s.escalation = state.escalation /\ s.gate = g
        /\ s.unresolved = state.unresolved /\ s.secured = state.secured /\ s.elevated = state.elevated
        /\ s.activeStage = state.activeStage /\ s.lastStageFailure = state.lastStageFailure
    BY DEF IInv, TypeOK, WorkflowState
  <2>3. Clear(s)
    BY <1>3, <2>2 DEF Clear
  <2>4. Offer(s, to)
    BY <1>5
  <2> HIDE DEF s
  <2>5. NoVerdict("gates", s, to)
    BY <1>1, <1>2, <1>5, <2>1, <2>2, <2>3, <2>4 DEF NoVerdict, AfterClearance
  <2> QED BY <2>5, NoVerdictInv
<1>6. CASE Offer([state EXCEPT !.gate = "green"], Linear("review", state.round) \cup Rework)
  <2> DEFINE to == Linear("review", state.round) \cup Rework
  <2>1. \A t \in to : /\ t.toPhase \in {"code", "review", "done"}
                      /\ config.auto /\ t.isDefault => \E cap \in Caps : t.toRound <= cap
    BY <1>4, LinearIs, ReworkIs
  <2> HIDE DEF to
  <2> QED BY <1>5, <1>6, <2>1 DEF to
<1>7. CASE Offer([state EXCEPT !.gate = "red"], RedTo)
  <2>1. ASSUME NEW t \in RedTo
        PROVE  t.toPhase \in {"code", "done"} /\ t.toRound \in {state.round, state.round + 1}
               /\ (t.toRound = state.round + 1 => t.toRound = state.round \/ state.round < maxRounds)
    BY LinearIs DEF RedTo, Stop, Advance
  <2>2. state.round \in Nat /\ maxRounds \in Nat
    BY BoundsAssumption DEF IInv, TypeOK, WorkflowState
  <2>3. \A t \in RedTo : config.auto => \E cap \in Caps : t.toRound <= cap
    BY <1>4, <2>1, <2>2
  <2> HIDE DEF RedTo
  <2> QED BY <1>5, <1>7, <2>1, <2>3
<1> QED BY <1>6, <1>7 DEF stepGates

LEMMA ReviewInv == ASSUME IInv, TypeOK', stepReview PROVE IInv'
<1>1. PICK n \in 1..ReviewAttempts, status \in Statuses :
        LET verdicts   == Append(state.verdicts, status)
            escalation == Escalation(status, verdicts)
        IN Offer(Settles([state EXCEPT !.verdicts = verdicts, !.escalation = escalation,
                                       !.stageMetrics = settledStage(turns + n)]),
                 ReviewTo(status, escalation))
  BY DEF stepReview
<1> DEFINE verdicts == Append(state.verdicts, status)
           escalation == Escalation(status, verdicts)
           metrics == settledStage(turns + n)
           s == Settles([state EXCEPT !.verdicts = verdicts, !.escalation = escalation,
                                      !.stageMetrics = metrics])
           to == ReviewTo(status, escalation)
           count == blockingVerdictCount(verdicts)
<1>2. Offer(s, to)
  BY <1>1
<1>3. /\ At("review") /\ reviewed' = tree /\ tree' = tree /\ gated' = gated
      /\ state.phase = "review" /\ ~state.done /\ ~pause /\ offers = {}
  BY DEF stepReview, At
<1>4. state.verdicts \in Seq(Statuses) /\ state.round \in Nat /\ maxRounds \in Nat
  BY BoundsAssumption DEF IInv, TypeOK, WorkflowState
<1>5. verdicts # <<>> /\ verdicts[Len(verdicts)] = status
  BY <1>4
<1>6. state.escalation = "none" /\ Clear(state) /\ ~state.approved
  BY <1>3 DEF IInv, Reviewed, Cleared, AfterClearance, Shape
<1>7. count <= 2 /\ count \in Nat /\ (status = "approved" => count <= 1)
  <2>1. blockingVerdictCount(state.verdicts) <= 1
    BY <1>6 DEF IInv, Rounds
  <2> QED BY <1>4, <2>1, OneVerdictMore
<1>8. /\ status = "approved" => escalation = "none"
      /\ escalation \in {"none", "cap_exhausted"} => count <= 1
      /\ status # "approved" /\ escalation = "none" => state.round < maxRounds
  BY <1>4, <1>6, <1>7 DEF Escalation, Statuses, Blocking
<1> HIDE DEF metrics, escalation, verdicts
<1>9. /\ s.phase = state.phase /\ s.round = state.round /\ s.done = state.done /\ s.approved = state.approved
      /\ s.verdicts = verdicts /\ s.escalation = escalation /\ s.gate = state.gate
      /\ s.unresolved = state.unresolved /\ s.secured = state.secured /\ s.elevated = state.elevated
      /\ s.activeStage = NoStage /\ s.lastStageFailure = "none"
  BY DEF IInv, TypeOK, WorkflowState, Settles
<1>10. s \in WorkflowState
  BY <1>2 DEF Offer, TypeOK
<1>11. Clear(s) /\ (LastApproved(s) <=> status = "approved")
  BY <1>5, <1>6, <1>9 DEF Clear, LastApproved
<1>12. config.gates => gated' = tree' /\ s.gate = "green"
  BY <1>3, <1>9 DEF IInv, GatedOnly
<1>13. /\ to # {} /\ \A t \in to : t.toPhase \in {"code", "done"}
       /\ status = "approved" => \A t \in to : t.isDefault => t.toPhase = "done"
       /\ escalation # "none" => \A t \in to : t.toPhase = "done"
  <2>1. CASE status = "approved"
    <3>1. to = {Stop(TRUE)} \cup Rework
      BY <2>1 DEF ReviewTo
    <3>2. Stop(TRUE).toPhase = "done" /\ Stop(TRUE) \in to
      BY <3>1 DEF Stop, Advance
    <3> QED BY <1>8, <2>1, <3>1, <3>2, ReworkIs
  <2>2. CASE status # "approved" /\ escalation # "none"
    <3>1. to = {Stop(TRUE)}
      BY <2>2 DEF ReviewTo
    <3> QED BY <2>2, <3>1 DEF Stop, Advance
  <2>3. CASE status # "approved" /\ escalation = "none"
    <3>1. to = {Advance(config.onChangesRequested = "advance", "code", state.round + 1),
                Stop(config.onChangesRequested = "stop")}
      BY <2>3 DEF ReviewTo
    <3> QED BY <2>3, <3>1, AdvanceIs
  <2> QED BY <2>1, <2>2, <2>3
<1>14. ASSUME NEW t \in to, t.isDefault, config.auto
       PROVE  \E cap \in Caps : t.toRound <= cap
  <2>1. t.toRound = state.round \/ (t.toRound = state.round + 1 /\ state.round < maxRounds)
    <3>1. CASE status = "approved" \/ escalation # "none"
      <4>1. t = Stop(TRUE) \/ t \in Rework
        BY <3>1 DEF ReviewTo
      <4>2. t \notin Rework
        BY <1>14, ReworkIs
      <4>3. Stop(TRUE).toRound = state.round
        BY AdvanceIs
      <4> QED BY <4>1, <4>2, <4>3
    <3>2. CASE status # "approved" /\ escalation = "none"
      <4>1. \/ t = Advance(config.onChangesRequested = "advance", "code", state.round + 1)
            \/ t = Stop(config.onChangesRequested = "stop")
        BY <3>2 DEF ReviewTo
      <4>2. t.toRound = state.round + 1 \/ t.toRound = state.round
        BY <4>1, AdvanceIs
      <4> QED BY <1>8, <3>2, <4>2
    <3> QED BY <3>1, <3>2
  <2>2. maxRounds \in Caps /\ \E cap \in Caps : state.round <= cap
    BY <1>14, RoundInCap DEF IInv, TypeOK
  <2> QED BY <1>4, <2>1, <2>2
<1> HIDE DEF s, to, count
<1>15. blockingVerdictCount(s.verdicts) = count
  BY <1>9 DEF count
<1> QED
  BY <1>2, <1>3, <1>6, <1>7, <1>8, <1>9, <1>10, <1>11, <1>12, <1>13, <1>14, <1>15, SettleInv
  DEF AfterClearance

-----------------------------------------------------------------------------
(* A driver's choice, a resume, a raised cap.                               *)

LEMMA ChooseInv == ASSUME IInv, TypeOK', Choose PROVE IInv'
<1>1. PICK to \in offers : (config.auto => to.isDefault) /\ state' = applyTransition(to)
  BY DEF Choose
<1>2. /\ offers' = {} /\ ~state.done /\ ~pause /\ pause' = pause /\ ~state.approved
      /\ config' = config /\ tree' = tree /\ gated' = gated /\ reviewed' = reviewed
  BY <1>1 DEF IInv, Shape, Choose, session, history
<1>3. state.activeStage = NoStage /\ state.lastStageFailure = "none"
  BY <1>1 DEF IInv, Carried
<1>4. CASE to.toPhase = "done"
  <2>1. /\ state'.phase = "done" /\ state'.done /\ state'.approved = Approved(state)
        /\ state'.round = state.round /\ state'.elevated = state.elevated
        /\ state'.unresolved = state.unresolved /\ state'.secured = state.secured
        /\ state'.verdicts = state.verdicts /\ state'.gate = state.gate
        /\ state'.escalation = state.escalation /\ state'.activeStage = NoStage
        /\ state'.lastStageFailure = "none"
    BY <1>1, <1>3, <1>4 DEF applyTransition, IInv, TypeOK, WorkflowState
  <2>2. Shape' /\ Carried'
    BY <1>2, <2>1 DEF Shape, Carried
  <2>3. Cleared' /\ GatedOnly'
    BY <1>2, <2>1 DEF IInv, Cleared, GatedOnly, AfterClearance, Clear
  <2>4. Reviewed'
    <3>1. LastApproved(state') = LastApproved(state) /\ (Approved(state) => LastApproved(state))
          /\ (Approved(state) => state.verdicts # <<>> /\ state.gate # "red")
      BY <2>1 DEF LastApproved, Approved
    <3>2. state.gate \in {"none", "green", "red"}
      BY DEF IInv, TypeOK, WorkflowState
    <3> QED BY <1>2, <2>1, <3>1, <3>2 DEF IInv, Reviewed
  <2>5. Rounds'
    BY <1>2, <2>1 DEF IInv, Rounds
  <2> QED BY <2>2, <2>3, <2>4, <2>5 DEF IInv
<1>5. CASE to.toPhase # "done"
  <2>1. /\ state'.phase = to.toPhase /\ state'.done = state.done /\ state'.approved = state.approved
        /\ state'.round = to.toRound /\ state'.elevated = state.elevated
        /\ state'.unresolved = state.unresolved /\ state'.secured = state.secured
        /\ state'.verdicts = state.verdicts /\ state'.gate = state.gate
        /\ state'.escalation = state.escalation /\ state'.activeStage = NoStage
        /\ state'.lastStageFailure = "none"
    BY <1>1, <1>3, <1>5 DEF applyTransition, IInv, TypeOK, WorkflowState
  <2>2. Shape' /\ Carried'
    BY <1>2, <1>5, <2>1 DEF IInv, Shape, Carried
  <2>3. Cleared'
    BY <1>1, <1>2, <2>1 DEF IInv, Cleared, AfterClearance, Clear, Shape
  <2>4. GatedOnly'
    BY <1>1, <1>2, <2>1 DEF IInv, GatedOnly
  <2>5. Reviewed'
    <3>1. LastApproved(state') = LastApproved(state)
      BY <2>1 DEF LastApproved
    <3>2. ~(config.auto /\ LastApproved(state)) /\ state.escalation = "none"
      BY <1>1, <1>5 DEF IInv, Reviewed
    <3> QED BY <1>2, <2>1, <3>1, <3>2 DEF IInv, Reviewed
  <2>6. Rounds'
    BY <1>1, <1>2, <2>1 DEF IInv, Rounds
  <2> QED BY <2>2, <2>3, <2>4, <2>5, <2>6 DEF IInv
<1> QED BY <1>4, <1>5

LEMMA ResumeInv == ASSUME IInv, TypeOK', Resume PROVE IInv'
<1>1. /\ pause /\ ~pause' /\ state' = state /\ offers' = offers /\ config' = config
      /\ tree' = tree /\ gated' = gated /\ reviewed' = reviewed
  BY DEF Resume, history
<1>2. Shape' /\ Carried' /\ Cleared' /\ GatedOnly'
  BY <1>1 DEF IInv, Shape, Carried, Cleared, GatedOnly, Clear, step
<1>3. Reviewed' /\ Rounds'
  BY <1>1 DEF IInv, Reviewed, Rounds, LastApproved
<1> QED BY <1>2, <1>3 DEF IInv

LEMMA RoundCapInv == ASSUME IInv, TypeOK', resumeRoundCap PROVE IInv'
<1>1. /\ state.done /\ state.escalation = "cap_exhausted" /\ config' = config
      /\ offers' = offers /\ pause' = pause
      /\ tree' = tree /\ gated' = gated /\ reviewed' = reviewed
      /\ \E cap \in Caps : state.round < cap
  BY DEF resumeRoundCap, history
<1>2. /\ state'.phase = "code" /\ ~state'.done /\ ~state'.approved
      /\ state'.round = state.round + 1 /\ state'.elevated = state.elevated
      /\ state'.unresolved = state.unresolved /\ state'.secured = state.secured
      /\ state'.verdicts = state.verdicts /\ state'.gate = state.gate
      /\ state'.escalation = "none" /\ state'.activeStage = state.activeStage
      /\ state'.lastStageFailure = state.lastStageFailure
  BY DEF resumeRoundCap, IInv, TypeOK, WorkflowState
<1>3. offers = {} /\ ~pause /\ state.phase = "done"
  BY <1>1 DEF IInv, Shape
<1>4. Shape'
  BY <1>1, <1>2, <1>3 DEF Shape
<1>5. Carried'
  BY <1>1, <1>2, <1>3 DEF IInv, Carried, RolePhases
<1>6. Cleared' /\ GatedOnly'
  BY <1>1, <1>2, <1>3 DEF IInv, Cleared, GatedOnly, Clear
<1>7. Reviewed'
  <2>1. LastApproved(state') = LastApproved(state) /\ ~LastApproved(state)
    BY <1>1, <1>2 DEF IInv, Reviewed, LastApproved
  <2> QED BY <1>1, <1>2, <1>3, <2>1 DEF IInv, Reviewed
<1>8. Rounds'
  <2>1. \E cap \in Caps : state.round + 1 <= cap
    BY <1>1, BoundsAssumption DEF IInv, TypeOK, WorkflowState
  <2> QED BY <1>1, <1>2, <1>3, <2>1 DEF IInv, Rounds
<1> QED BY <1>4, <1>5, <1>6, <1>7, <1>8 DEF IInv

LEMMA NextInv == ASSUME IInv, [Next]_vars PROVE IInv'
<1>1. TypeOK'
  BY NextType DEF IInv
<1>2. CASE UNCHANGED vars
  BY <1>2 DEF vars, session, history, IInv, TypeOK, Shape, Carried, Cleared, GatedOnly, Reviewed,
              Rounds, LastApproved, Clear, step
<1>3. CASE Settle
  BY <1>1, <1>3, PlanInv, ResearchInv, SecurityInv, CodeInv, GatesInv, ReviewInv DEF Settle
<1> QED BY <1>1, <1>2, <1>3, FailInv, ChooseInv, ResumeInv, RoundCapInv DEF Next

THEOREM Invariant == Spec => []IInv
BY InitInv, NextInv, PTL DEF Spec

-----------------------------------------------------------------------------
(* What the runs check.                                                     *)

\* No coder turn before the planner's surfaces are resolved and secured.
THEOREM Clearance == Spec => []CoderIsCleared
<1>1. IInv => CoderIsCleared
  BY DEF IInv, Cleared, Clear, CoderIsCleared
<1> QED BY <1>1, Invariant, PTL

\* A verdict is about a tree all of whose gates were green.
THEOREM GreenVerdicts == Spec => GatesBeforeReview
<1>1. ASSUME IInv, [Next]_vars
      PROVE  [state'.verdicts # state.verdicts /\ config.gates => gated = tree /\ state.gate = "green"]_vars
  <2>1. CASE stepReview
    BY <1>1, <2>1 DEF stepReview, At, IInv, GatedOnly
  <2>2. state \in WorkflowState
    BY <1>1 DEF IInv, TypeOK
  <2>3. CASE stepPlan \/ stepResearch \/ stepSecurity \/ stepCode \/ stepGates
    BY <2>2, <2>3 DEF stepPlan, stepResearch, stepSecurity, stepCode, stepGates, Offer, Settles,
                      WorkflowState
  <2>4. CASE Fail \/ NoResearcher
    BY <1>1, <2>4, FailKeeps DEF IInv, Kept
  <2>5. CASE Choose \/ Resume \/ resumeRoundCap
    BY <2>2, <2>5 DEF Choose, Resume, resumeRoundCap, applyTransition, WorkflowState
  <2> QED BY <1>1, <2>1, <2>3, <2>4, <2>5 DEF Next, Settle
<1> QED BY <1>1, Invariant, PTL DEF Spec, GatesBeforeReview

\* No approval of a tree nobody reviewed, when nobody chose otherwise, nor of one
\* whose gates are red.
THEOREM Approval == Spec => []ApprovedWork
<1>1. IInv => ApprovedWork
  BY DEF IInv, Reviewed, ApprovedWork
<1> QED BY <1>1, Invariant, PTL

\* Two blocking verdicts, and the caps, bound the rounds.
THEOREM Bounded == Spec => []RoundsAreBounded
<1>1. IInv => RoundsAreBounded
  BY DEF IInv, Rounds, RoundsAreBounded
<1> QED BY <1>1, Invariant, PTL

\* What an attempt leaves behind is for the stage that comes next.
THEOREM CarryOver == Spec => []CarryOverIsCurrent
<1>1. IInv => CarryOverIsCurrent
  BY DEF IInv, Carried, CarryOverIsCurrent
<1> QED BY <1>1, Invariant, PTL

-----------------------------------------------------------------------------
(* The progress a host sees (RunProgress).                                  *)

\* What follows what in the round of the run.
Forward ==
  {<<"plan", "research">>, <<"plan", "security">>, <<"plan", "code">>,
   <<"research", "security">>, <<"research", "code">>, <<"security", "code">>,
   <<"code", "gates">>, <<"code", "review">>, <<"gates", "review">>}

\* A transition goes forward in its round, opens the coder's next one, or ends the run.
Leads(s, to) ==
  \/ to.toPhase = "done"
  \/ <<s.phase, to.toPhase>> \in Forward /\ to.toRound = s.round
  \/ s.phase \in AfterClearance /\ to.toPhase = "code" /\ to.toRound = s.round + 1

Graph == \A to \in offers : Leads(state, to)

\* What a stage offers.
LEMMA StagesLead == ASSUME IInv, Settle PROVE Graph'
<1> USE DEF At, Offer, AfterClearance, Forward
<1>1. state \in WorkflowState
  BY DEF IInv, TypeOK
<1>2. state'.phase = state.phase /\ state'.round = state.round
  BY <1>1 DEF Settle, stepPlan, stepResearch, stepSecurity, stepCode, stepGates, stepReview,
              Settles, WorkflowState
<1>3. ASSUME NEW phase, NEW round, NEW to \in Linear(phase, round)
      PROVE  to.toPhase = "done" \/ (to.toPhase = phase /\ to.toRound = round)
  BY <1>3 DEF Linear, Stop, Advance
<1>4. \A to \in Rework : to.toPhase = "code" /\ to.toRound = state.round + 1
  BY DEF Rework, Advance
<1>5. CASE stepPlan
  <2>1. PICK unresolved \in BOOLEAN, elevated \in BOOLEAN :
          offers' = Linear(AfterPlan(unresolved, elevated), state.round)
    BY <1>5 DEF stepPlan
  <2>2. AfterPlan(unresolved, elevated) \in {"research", "security", "code"}
    BY DEF AfterPlan
  <2>3. state.phase = "plan"
    BY <1>5 DEF stepPlan
  <2> QED BY <1>2, <1>3, <2>1, <2>2, <2>3 DEF Graph, Leads
<1>6. CASE stepResearch
  <2>1. state.phase = "research" /\ offers' = Linear(AfterResearch, state.round)
    BY <1>6 DEF stepResearch
  <2>2. AfterResearch \in {"security", "code"}
    BY DEF AfterResearch, AfterPlan
  <2> QED BY <1>2, <1>3, <2>1, <2>2 DEF Graph, Leads
<1>7. CASE stepSecurity
  <2>1. state.phase = "security" /\ offers' = Linear("code", state.round)
    BY <1>7 DEF stepSecurity
  <2> QED BY <1>2, <1>3, <2>1 DEF Graph, Leads
<1>8. CASE stepCode
  <2>1. state.phase = "code" /\ offers' = Linear(AfterCode, state.round) \cup Rework
    BY <1>8 DEF stepCode
  <2>2. AfterCode \in {"gates", "review"}
    BY DEF AfterCode
  <2> QED BY <1>2, <1>3, <1>4, <2>1, <2>2 DEF Graph, Leads
<1>9. CASE stepGates
  <2>1. state.phase = "gates" /\ offers' \in {Linear("review", state.round) \cup Rework, RedTo}
    BY <1>9 DEF stepGates
  <2>2. \A to \in RedTo : to.toPhase = "done" \/ to \in Linear("code", state.round + 1)
    BY DEF RedTo, Stop, Advance
  <2> QED BY <1>2, <1>3, <1>4, <2>1, <2>2 DEF Graph, Leads
<1>10. CASE stepReview
  <2>1. PICK status, escalation : offers' = ReviewTo(status, escalation)
    BY <1>10 DEF stepReview
  <2>2. \A to \in ReviewTo(status, escalation) :
          to.toPhase = "done" \/ (to.toPhase = "code" /\ to.toRound = state.round + 1)
    BY <1>4 DEF ReviewTo, Stop, Advance
  <2>3. state.phase = "review"
    BY <1>10 DEF stepReview
  <2> QED BY <1>2, <2>1, <2>2, <2>3 DEF Graph, Leads
<1> QED BY <1>5, <1>6, <1>7, <1>8, <1>9, <1>10 DEF Settle

LEMMA NextLeads == ASSUME IInv, Graph, [Next]_vars PROVE Graph'
<1>1. CASE Fail \/ NoResearcher
  BY <1>1, FailKeeps DEF IInv, Graph
<1>2. CASE Choose
  BY <1>2 DEF Choose, Graph
<1>3. CASE Resume \/ UNCHANGED vars
  BY <1>3 DEF Resume, Graph, Leads, vars
<1>4. CASE resumeRoundCap
  BY <1>4 DEF resumeRoundCap, Graph, IInv, Shape
<1> QED BY <1>1, <1>2, <1>3, <1>4, StagesLead DEF Next

LEMMA GraphInvariant == Spec => []Graph
<1>1. Init => Graph
  BY DEF Init, Graph
<1> QED BY <1>1, NextLeads, Invariant, PTL DEF Spec

\* A settled stage waits for its driver, a failed one for its operator or its retry.
LEMMA StepProgress ==
  ASSUME IInv, Graph, [Next]_vars PROVE [Progress!ProgressNext]_(Progress!progress)
<1> USE DEF Progress!progress, HostStage
<1>1. state \in WorkflowState /\ state.round \in Nat /\ state.phase \in Phases /\ pause \in BOOLEAN
  BY DEF IInv, TypeOK, WorkflowState
<1>2. CASE Settle
  BY <1>1, <1>2 DEF Settle, stepPlan, stepResearch, stepSecurity, stepCode, stepGates, stepReview,
                    Offer, Settles, WorkflowState
<1>3. CASE Fail \/ NoResearcher
  <2>1. /\ ~state.done /\ ~pause /\ state'.phase = state.phase /\ state'.round = state.round
        /\ pause' \in {pause, TRUE}
    BY <1>3, FailKeeps DEF IInv, Kept, Fail, NoResearcher, StageLimit, StageFailure, NotSubmitted,
                           ResearchFails, Interrupted, Dies, Pauses
  <2>2. HostStage(state.phase) # "done"
    BY <2>1 DEF IInv, Shape
  <2> QED BY <2>1, <2>2 DEF Progress!ProgressNext, Progress!Pause
<1>4. CASE Choose
  <2>1. PICK to \in offers : state' = applyTransition(to)
    BY <1>4 DEF Choose
  <2>2. ~state.done /\ ~pause /\ pause' = pause /\ state.phase # "done" /\ Leads(state, to)
    BY <1>4, <2>1 DEF Choose, IInv, Shape, Graph
  <2>3. CASE to.toPhase = "done"
    <3>1. state'.phase = "done" /\ state'.round = state.round
      BY <1>1, <2>1, <2>3 DEF applyTransition, WorkflowState
    <3> QED BY <1>1, <2>2, <3>1
            DEF Progress!ProgressNext, Progress!Advance, Progress!After, Phases, RolePhases
  <2>4. CASE to.toPhase # "done"
    <3>1. state'.phase = to.toPhase /\ state'.round = to.toRound
      BY <1>1, <2>1, <2>4 DEF applyTransition, WorkflowState
    <3> QED BY <2>2, <2>4, <3>1
            DEF Leads, Forward, AfterClearance, Progress!ProgressNext, Progress!Advance, Progress!After
  <2> QED BY <2>3, <2>4
<1>5. CASE Resume
  BY <1>5 DEF Resume, Progress!ProgressNext, Progress!Resume
<1>6. CASE resumeRoundCap
  <2>1. state.phase = "done" /\ ~pause /\ pause' = pause
    BY <1>6 DEF resumeRoundCap, IInv, Shape
  <2>2. state'.phase = "code" /\ state'.round = state.round + 1
    BY <1>1, <1>6 DEF resumeRoundCap, WorkflowState
  <2> QED BY <2>1, <2>2 DEF Progress!ProgressNext, Progress!Reopen
<1>7. CASE UNCHANGED vars
  BY <1>7 DEF vars
<1> QED BY <1>2, <1>3, <1>4, <1>5, <1>6, <1>7 DEF Next

\* Every session, however configured, makes the progress a host may rely on: the
\* stages in order, rounds by rework alone (applyTransition), nothing while it is
\* paused, and no way on from the end but resumeRoundCap.
THEOREM Implementation == Spec => ImplementsRunProgress
<1>1. Init => Progress!ProgressInit
  BY DEF Init, initialState, HostStage, Progress!ProgressInit
<1> QED BY <1>1, StepProgress, Invariant, GraphInvariant, PTL
        DEF Spec, ImplementsRunProgress, Progress!ProgressSpec
=============================================================================
