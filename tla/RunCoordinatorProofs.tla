------------------------ MODULE RunCoordinatorProofs ------------------------
(* Proofs about RunCoordinator, for any coordinators, follow-ups and rounds. *)
EXTENDS RunCoordinator, TLAPS

USE DEF PCs, Phases, Stages, Pauses

\* Accepted contracts have at least been taken to their review.
Taken(v) ==
  \A f \in Contract : v.decisions[f] = "accepted" => v.contractReviews[f] # "none"

\* What every checkpoint has, on disk or in a coordinator's view.
Good(v) ==
  /\ v.phase = "workflow" => v.stage # "done"
  /\ v.phase # "workflow" => v.pendingStep = NoStep
  /\ v.phase \in {"decisions", "closeout", "complete"} /\ v.stage = "done"
       => v.followUps \subseteq v.completedEffects
  /\ v.phase \in {"closeout", "complete"} => Taken(v)
  /\ v.phase = "complete" => MayClose(v)

\* What a coordinator at l knows of its view v, with i at hand and the contracts
\* in seen behind it.
At(l, v, i, seen) ==
  /\ l \in {"loop", "dispatch", "waiting", "choose"} => v.phase = "workflow"
  /\ l = "dispatch" => v.stage = "research" /\ v.research = "prepared"
  /\ l = "waiting" => v.stage # "done"
  /\ l \in {"followUps", "lastFollowUps"} => v.phase = "follow-ups"
  /\ l \in {"decisions", "append", "record", "reviewing"} =>
       v.phase \in {"decisions", "follow-ups", "workflow"} /\ v.pendingStep = NoStep
  /\ l \in {"append", "record", "reviewing"} => i \in Contract
  /\ l = "reviewing" => v.stage = "review" /\ v.contractReviews[i] # "none"
  /\ l \in {"settle", "lastFollowUps"} => Taken(v)
  /\ l = "settle" => v.phase \in {"decisions", "closeout"}
  /\ l = "closeout" => v.phase \in {"closeout", "complete"}
  /\ l = "down" => seen = {}
  /\ \A f \in seen : v.contractReviews[f] # "none" \/ (l \in {"append", "record"} /\ f = i)

Local == \A c \in Coordinator : At(pc[c], persisted[c], item[c], visited[c])

\* A version that is current has the checkpoint's content.
Views == \A c \in Coordinator : fresh[c] => persisted[c] = checkpoint

Research == dispatched = 0 \/ (dispatched = 1 /\ checkpoint.research \in {"dispatched", "completed"})

IInv ==
  /\ TypeOK /\ Local /\ Views /\ Research
  /\ Good(checkpoint) /\ \A c \in Coordinator : Good(persisted[c])

-----------------------------------------------------------------------------
(* Steps.                                                                   *)

\* A new run, and a coordinator that has no view of it.
LEMMA InitialFacts ==
  /\ Initial \in RunCheckpoint /\ Good(Initial) /\ None \notin FollowUp
  /\ \A l \in {"down", "idle"} : At(l, Initial, None, {})
BY FollowUpAssumption DEF Initial, RunCheckpoint, Reviews, Good, At, Steps, NoStep

\* A step of one coordinator, which makes other versions stale if it saves.
LEMMA OneMoves ==
  ASSUME IInv, NEW c \in Coordinator, TypeOK', Research',
         Good(checkpoint'), Good(persisted'[c]),
         At(pc'[c], persisted'[c], item'[c], visited'[c]),
         fresh'[c] => persisted'[c] = checkpoint',
         \A d \in Coordinator \ {c} :
           /\ pc'[d] = pc[d] /\ persisted'[d] = persisted[d]
           /\ item'[d] = item[d] /\ visited'[d] = visited[d]
           /\ fresh'[d] => fresh[d] /\ checkpoint' = checkpoint
  PROVE  IInv'
<1>1. Local'
  BY DEF IInv, Local
<1>2. Views'
  BY DEF IInv, Views
<1>3. \A d \in Coordinator : Good(persisted'[d])
  BY DEF IInv
<1> QED BY <1>1, <1>2, <1>3 DEF IInv

\* The instance is gone.
LEMMA Dropping ==
  ASSUME IInv, NEW c \in Coordinator, Drop(c), checkpoint' = checkpoint, Research',
         dispatched' \in 0..2, applied' \in [FollowUp -> 0..2]
  PROVE  IInv'
<1>1. /\ pc' = [pc EXCEPT ![c] = "down"] /\ persisted' = [persisted EXCEPT ![c] = Initial]
      /\ fresh' = [fresh EXCEPT ![c] = FALSE] /\ item' = [item EXCEPT ![c] = None]
      /\ visited' = [visited EXCEPT ![c] = {}] /\ inRun' = [inRun EXCEPT ![c] = FALSE]
  BY DEF Drop, Goto
<1>2. TypeOK'
  BY <1>1, InitialFacts DEF IInv, TypeOK
<1>3. At(pc'[c], persisted'[c], item'[c], visited'[c]) /\ Good(persisted'[c]) /\ ~fresh'[c]
  BY <1>1, InitialFacts DEF IInv, TypeOK
<1>4. \A d \in Coordinator \ {c} :
        /\ pc'[d] = pc[d] /\ persisted'[d] = persisted[d]
        /\ item'[d] = item[d] /\ visited'[d] = visited[d] /\ fresh'[d] = fresh[d]
  BY <1>1 DEF IInv, TypeOK
<1>5. Good(checkpoint')
  BY DEF IInv
<1> QED BY <1>2, <1>3, <1>4, <1>5, OneMoves

\* A save that leaves the coordinator at l with i at hand.
LEMMA Saving ==
  ASSUME IInv, NEW c \in Coordinator, NEW value \in RunCheckpoint, NEW l \in PCs,
         NEW i \in FollowUp \cup {None}, SaveItem(c, value, l, i), Research',
         Good(value), At(l, value, i, visited[c]),
         dispatched' \in 0..2, applied' \in [FollowUp -> 0..2]
  PROVE  IInv'
<1>1. /\ pc' = [pc EXCEPT ![c] = l] /\ persisted' = [persisted EXCEPT ![c] = value]
      /\ fresh' = [d \in Coordinator |-> d = c] /\ checkpoint' = value
      /\ item' = [item EXCEPT ![c] = i] /\ visited' = visited /\ inRun' = inRun
  BY DEF SaveItem, Written, Goto
<1>2. TypeOK'
  BY <1>1 DEF IInv, TypeOK
<1>3. /\ pc'[c] = l /\ persisted'[c] = value /\ item'[c] = i /\ visited'[c] = visited[c]
      /\ \A d \in Coordinator \ {c} :
           /\ pc'[d] = pc[d] /\ persisted'[d] = persisted[d]
           /\ item'[d] = item[d] /\ visited'[d] = visited[d] /\ ~fresh'[d]
  BY <1>1 DEF IInv, TypeOK
<1> QED BY <1>1, <1>2, <1>3, OneMoves

\* A step that saves nothing.
LEMMA Moving ==
  ASSUME IInv, NEW c \in Coordinator, NEW l \in PCs, NEW i \in FollowUp \cup {None},
         Goto(c, l), item' = [item EXCEPT ![c] = i],
         visited' \in [Coordinator -> SUBSET FollowUp],
         \A d \in Coordinator \ {c} : visited'[d] = visited[d],
         At(l, persisted[c], i, visited'[c]),
         inRun' \in [Coordinator -> BOOLEAN], applied' \in [FollowUp -> 0..2],
         checkpoint' = checkpoint, persisted' = persisted, fresh' = fresh,
         dispatched' = dispatched
  PROVE  IInv'
<1>1. pc' = [pc EXCEPT ![c] = l]
  BY DEF Goto
<1>2. TypeOK' /\ Research'
  BY <1>1 DEF IInv, TypeOK, Research
<1>3. /\ pc'[c] = l /\ item'[c] = i
      /\ \A d \in Coordinator \ {c} : pc'[d] = pc[d] /\ item'[d] = item[d]
  BY <1>1 DEF IInv, TypeOK
<1>4. Good(checkpoint') /\ Good(persisted'[c]) /\ (fresh'[c] => persisted'[c] = checkpoint')
  BY DEF IInv, Views
<1> QED BY <1>2, <1>3, <1>4, OneMoves

\* A save that does not take the researcher's effect back to prepared.
LEMMA SameResearch ==
  ASSUME IInv, NEW c \in Coordinator, NEW value \in RunCheckpoint, NEW l, NEW i,
         SaveItem(c, value, l, i), dispatched' = dispatched,
         \/ value.research = persisted[c].research
         \/ persisted[c].research = "none" \/ value.research = "completed"
  PROVE  Research' /\ dispatched' \in 0..2
BY DEF SaveItem, Written, IInv, Research, Views, TypeOK

-----------------------------------------------------------------------------
(* The actions that save nothing.                                           *)

LEMMA ConstructStep ==
  ASSUME IInv, NEW c \in Coordinator, Construct(c) PROVE IInv'
<1>1. /\ pc[c] = "down" /\ pc' = [pc EXCEPT ![c] = "idle"]
      /\ persisted' = [persisted EXCEPT ![c] = checkpoint] /\ fresh' = [fresh EXCEPT ![c] = TRUE]
      /\ UNCHANGED <<checkpoint, item, visited, inRun, dispatched, applied>>
  BY DEF Construct, Goto, locals, world
<1>2. TypeOK' /\ Research'
  BY <1>1 DEF IInv, TypeOK, Research
<1>3. /\ pc'[c] = "idle" /\ persisted'[c] = checkpoint' /\ item'[c] = item[c]
      /\ visited'[c] = visited[c] /\ checkpoint' = checkpoint
      /\ \A d \in Coordinator \ {c} :
           /\ pc'[d] = pc[d] /\ persisted'[d] = persisted[d] /\ fresh'[d] = fresh[d]
           /\ item'[d] = item[d] /\ visited'[d] = visited[d]
  BY <1>1 DEF IInv, TypeOK
<1>4. visited[c] = {}
  BY <1>1 DEF IInv, Local, At
<1>5. At(pc'[c], persisted'[c], item'[c], visited'[c])
  BY <1>3, <1>4 DEF At
<1>6. Good(checkpoint') /\ Good(persisted'[c])
  BY <1>3 DEF IInv
<1> QED BY <1>2, <1>3, <1>5, <1>6, OneMoves

LEMMA StopStep ==
  ASSUME IInv, NEW c \in Coordinator, Stop(c) PROVE IInv'
BY Dropping DEF Stop, world, IInv, TypeOK, Research

LEMMA RunStep ==
  ASSUME IInv, NEW c \in Coordinator, Run(c) PROVE IInv'
<1> DEFINE l == CASE persisted[c].phase = "workflow"   -> "loop"
                  [] persisted[c].phase = "follow-ups" -> "followUps"
                  [] persisted[c].phase = "decisions"  -> "decisions"
                  [] OTHER                             -> "closeout"
<1>1. /\ pc[c] = "idle" /\ Goto(c, l)
      /\ inRun' = [inRun EXCEPT ![c] = TRUE]
      /\ UNCHANGED <<checkpoint, persisted, fresh, item, visited, dispatched, applied>>
  BY DEF Run, world
<1>2. /\ persisted[c].phase \in Phases
      /\ persisted[c].phase # "workflow" => persisted[c].pendingStep = NoStep
  BY DEF IInv, Good, TypeOK, RunCheckpoint
<1>3. l \in PCs /\ At(l, persisted[c], item[c], visited'[c])
  BY <1>1, <1>2 DEF IInv, Local, At
<1> HIDE DEF l
<1>4. /\ item' = [item EXCEPT ![c] = item[c]] /\ item[c] \in FollowUp \cup {None}
      /\ visited' \in [Coordinator -> SUBSET FollowUp]
      /\ \A d \in Coordinator \ {c} : visited'[d] = visited[d]
      /\ inRun' \in [Coordinator -> BOOLEAN] /\ applied' \in [FollowUp -> 0..2]
  BY <1>1 DEF IInv, TypeOK
<1>5. /\ Goto(c, l) /\ checkpoint' = checkpoint /\ persisted' = persisted
      /\ fresh' = fresh /\ dispatched' = dispatched
  BY <1>1
<1> QED BY <1>3, <1>4, <1>5, Moving

LEMMA ReturnStep ==
  ASSUME IInv, NEW c \in Coordinator, Return(c) PROVE IInv'
<1>1. /\ Goto(c, "idle") /\ visited' = [visited EXCEPT ![c] = {}]
      /\ inRun' = [inRun EXCEPT ![c] = FALSE]
      /\ UNCHANGED <<checkpoint, persisted, fresh, item, dispatched, applied>>
  BY DEF Return, world
<1>2. At("idle", persisted[c], item[c], visited'[c])
  BY <1>1 DEF At, IInv, TypeOK
<1>3. /\ visited' \in [Coordinator -> SUBSET FollowUp]
      /\ \A d \in Coordinator \ {c} : visited'[d] = visited[d]
      /\ item' = [item EXCEPT ![c] = item[c]] /\ item[c] \in FollowUp \cup {None}
      /\ inRun' \in [Coordinator -> BOOLEAN] /\ applied' \in [FollowUp -> 0..2]
  BY <1>1 DEF IInv, TypeOK
<1> QED BY <1>1, <1>2, <1>3, Moving

\* A step of the program counter alone.
LEMMA Going ==
  ASSUME IInv, NEW c \in Coordinator, NEW l \in PCs, NEW i \in FollowUp \cup {None},
         Goto(c, l), item' = [item EXCEPT ![c] = i], At(l, persisted[c], i, visited[c]),
         checkpoint' = checkpoint, persisted' = persisted, fresh' = fresh,
         visited' = visited, inRun' = inRun, dispatched' = dispatched, applied' \in [FollowUp -> 0..2]
  PROVE  IInv'
<1>1. /\ visited' \in [Coordinator -> SUBSET FollowUp]
      /\ inRun' \in [Coordinator -> BOOLEAN]
  BY DEF IInv, TypeOK
<1> QED BY <1>1, Moving

\* What is at hand stays at hand.
LEMMA SameItem ==
  ASSUME IInv, NEW c \in Coordinator, item' = item
  PROVE  item' = [item EXCEPT ![c] = item[c]] /\ item[c] \in FollowUp \cup {None}
BY DEF IInv, TypeOK

LEMMA PendingStep ==
  ASSUME IInv, NEW c \in Coordinator, Pending(c) PROVE IInv'
<1>1. At("choose", persisted[c], item[c], visited[c])
  BY DEF Pending, IInv, Local, At
<1> QED BY <1>1, SameItem, Going DEF Pending, locals, world, IInv, TypeOK

LEMMA StartStageStep ==
  ASSUME IInv, NEW c \in Coordinator, StartStage(c) PROVE IInv'
<1>1. At("waiting", persisted[c], item[c], visited[c])
  BY DEF StartStage, Runnable, IInv, Local, At
<1> QED BY <1>1, SameItem, Going DEF StartStage, Runnable, locals, world, IInv, TypeOK

LEMMA AnswerAgainStep ==
  ASSUME IInv, NEW c \in Coordinator, NEW f \in FollowUp, AnswerAgain(c, f) PROVE IInv'
<1>1. At("append", persisted[c], f, visited[c])
  BY DEF AnswerAgain, IInv, Local, At, Good
<1> QED BY <1>1, Going DEF AnswerAgain, world, IInv, TypeOK

LEMMA NextDecisionStep ==
  ASSUME IInv, NEW c \in Coordinator, NEW f \in FollowUp, NextDecision(c, f) PROVE IInv'
<1>1. /\ visited' \in [Coordinator -> SUBSET FollowUp] /\ visited'[c] = visited[c] \cup {f}
      /\ \A d \in Coordinator \ {c} : visited'[d] = visited[d]
  BY DEF NextDecision, IInv, TypeOK
<1>2. At("append", persisted[c], f, visited'[c])
  BY <1>1 DEF NextDecision, Unreviewed, IInv, Local, At
<1>3. /\ Goto(c, "append") /\ item' = [item EXCEPT ![c] = f]
      /\ inRun' \in [Coordinator -> BOOLEAN] /\ applied' \in [FollowUp -> 0..2]
      /\ UNCHANGED <<checkpoint, persisted, fresh, dispatched>>
  BY DEF NextDecision, world, IInv, TypeOK
<1> QED BY <1>1, <1>2, <1>3, Moving

LEMMA AppendContractStep ==
  ASSUME IInv, NEW c \in Coordinator, AppendContract(c) PROVE IInv'
<1>1. At("record", persisted[c], item[c], visited[c]) /\ item[c] \in FollowUp
  BY FollowUpAssumption DEF AppendContract, IInv, Local, At
<1>2. applied' \in [FollowUp -> 0..2]
  BY <1>1 DEF AppendContract, Applied, IInv, TypeOK
<1> QED BY <1>1, <1>2, SameItem, Going DEF AppendContract, locals

LEMMA EndDecisionsStep ==
  ASSUME IInv, NEW c \in Coordinator, EndDecisions(c) PROVE IInv'
<1> DEFINE l == CASE persisted[c].phase = "follow-ups" -> "lastFollowUps"
                  [] persisted[c].phase = "workflow"   -> "loop"
                  [] OTHER                             -> "settle"
<1>1. /\ persisted[c].phase \in {"decisions", "follow-ups", "workflow"}
      /\ \A f \in visited[c] : persisted[c].contractReviews[f] # "none"
  BY DEF EndDecisions, IInv, Local, At
<1>2. Taken(persisted[c])
  BY <1>1 DEF EndDecisions, Unreviewed, Taken
<1>3. /\ visited' \in [Coordinator -> SUBSET FollowUp] /\ visited'[c] = {}
      /\ \A d \in Coordinator \ {c} : visited'[d] = visited[d]
  BY DEF EndDecisions, IInv, TypeOK
<1>4. l \in PCs /\ Goto(c, l) /\ At(l, persisted[c], item[c], visited'[c])
  BY <1>1, <1>2, <1>3 DEF EndDecisions, At
<1> HIDE DEF l
<1>5. /\ item' = [item EXCEPT ![c] = item[c]] /\ item[c] \in FollowUp \cup {None}
      /\ inRun' \in [Coordinator -> BOOLEAN]
      /\ UNCHANGED <<checkpoint, persisted, fresh, dispatched>> /\ applied' \in [FollowUp -> 0..2]
  BY SameItem DEF EndDecisions, world, IInv, TypeOK
<1> QED BY <1>3, <1>4, <1>5, Moving

LEMMA ApplyEffectStep ==
  ASSUME IInv, NEW c \in Coordinator, NEW f \in FollowUp, ApplyEffect(c, f) PROVE IInv'
<1>1. At(pc[c], persisted[c], f, visited[c])
  BY DEF ApplyEffect, InFollowUps, IInv, Local, At
<1>2. applied' \in [FollowUp -> 0..2] /\ Goto(c, pc[c]) /\ pc[c] \in PCs
  BY DEF ApplyEffect, Applied, Goto, IInv, TypeOK
<1> QED BY <1>1, <1>2, Going DEF ApplyEffect

-----------------------------------------------------------------------------
(* The actions that save.                                                   *)

LEMMA Seen ==
  ASSUME IInv, NEW c \in Coordinator
  PROVE  /\ persisted[c] \in RunCheckpoint /\ Good(persisted[c])
         /\ item[c] \in FollowUp \cup {None} /\ visited[c] \in SUBSET FollowUp /\ pc[c] \in PCs
         /\ At(pc[c], persisted[c], item[c], visited[c])
BY DEF IInv, TypeOK, Local

\* A save that neither reaches the world nor takes the researcher's effect back.
LEMMA Saved ==
  ASSUME IInv, NEW c \in Coordinator, NEW value \in RunCheckpoint, NEW l \in PCs,
         NEW i \in FollowUp \cup {None}, SaveItem(c, value, l, i), UNCHANGED world,
         Good(value), At(l, value, i, visited[c]),
         \/ value.research = persisted[c].research
         \/ persisted[c].research = "none" \/ value.research = "completed"
  PROVE  IInv'
<1>1. /\ dispatched' = dispatched /\ applied' \in [FollowUp -> 0..2]
  BY DEF world, IInv, TypeOK
<1>2. Research' /\ dispatched' \in 0..2
  BY <1>1, SameResearch
<1> QED BY <1>1, <1>2, Saving

LEMMA NoStepType == NoStep \in Steps
BY DEF NoStep, Steps

LEMMA ResumeStageStep ==
  ASSUME IInv, NEW c \in Coordinator, ResumeStage(c) PROVE IInv'
<1> DEFINE value == [persisted[c] EXCEPT !.pause = "none"]
<1>1. SaveItem(c, value, "idle", item[c]) /\ pc[c] = "idle"
  BY DEF ResumeStage, Save
<1>2. value \in RunCheckpoint /\ value.research = persisted[c].research
  BY Seen DEF RunCheckpoint
<1>3. Good(value) /\ At("idle", value, item[c], visited[c])
  BY <1>1, Seen DEF RunCheckpoint, Good, At, Taken, MayClose, Awaiting
<1> HIDE DEF value
<1> QED BY <1>1, <1>2, <1>3, Seen, Saved DEF ResumeStage

LEMMA ResumeRoundCapStep ==
  ASSUME IInv, NEW c \in Coordinator, ResumeRoundCap(c) PROVE IInv'
<1> DEFINE n == persisted[c].round + 1
           value == [persisted[c] EXCEPT !.phase = "workflow", !.stage = "code", !.round = n,
                                         !.capped = FALSE, !.pendingStep = NoStep]
<1>1. SaveItem(c, value, "idle", item[c]) /\ pc[c] = "idle" /\ n \in Nat
  BY Seen DEF ResumeRoundCap, Save, RunCheckpoint
<1> HIDE DEF n
<1>2. value \in RunCheckpoint /\ value.research = persisted[c].research
  <2>1. persisted[c] \in RunCheckpoint /\ NoStep \in Steps /\ n \in Nat
    BY <1>1, Seen, NoStepType
  <2> QED BY <2>1 DEF RunCheckpoint
<1>3. Good(value) /\ At("idle", value, item[c], visited[c])
  BY <1>1, Seen DEF RunCheckpoint, Good, At
<1> HIDE DEF value
<1> QED BY <1>1, <1>2, <1>3, Seen, Saved DEF ResumeRoundCap

LEMMA InterruptStep ==
  ASSUME IInv, NEW c \in Coordinator, Interrupt(c) PROVE IInv'
<1> DEFINE value == [persisted[c] EXCEPT !.pause = "stage"]
<1>1. SaveItem(c, value, "loop", item[c]) /\ pc[c] = "loop"
  BY DEF Interrupt, Runnable, Save
<1>2. value \in RunCheckpoint /\ value.research = persisted[c].research
  BY Seen DEF RunCheckpoint
<1>3. Good(value) /\ At("loop", value, item[c], visited[c])
  BY <1>1, Seen DEF RunCheckpoint, Good, At
<1> HIDE DEF value
<1> QED BY <1>1, <1>2, <1>3, Seen, Saved DEF Interrupt

LEMMA AmbiguousStep ==
  ASSUME IInv, NEW c \in Coordinator, Ambiguous(c) PROVE IInv'
<1> DEFINE value == [persisted[c] EXCEPT !.pause = "research"]
<1>1. SaveItem(c, value, "loop", item[c]) /\ pc[c] = "loop"
  BY DEF Ambiguous, Runnable, Save
<1>2. value \in RunCheckpoint /\ value.research = persisted[c].research
  BY Seen DEF RunCheckpoint
<1>3. Good(value) /\ At("loop", value, item[c], visited[c])
  BY <1>1, Seen DEF RunCheckpoint, Good, At
<1> HIDE DEF value
<1> QED BY <1>1, <1>2, <1>3, Seen, Saved DEF Ambiguous

LEMMA PrepareResearchStep ==
  ASSUME IInv, NEW c \in Coordinator, PrepareResearch(c) PROVE IInv'
<1>1. pc[c] = "loop" /\ persisted[c].stage = "research" /\ persisted[c].research = "none"
  BY DEF PrepareResearch, Runnable
<1>2. CASE Save(c, [persisted[c] EXCEPT !.pause = "research"], "loop")
  <2> DEFINE value == [persisted[c] EXCEPT !.pause = "research"]
  <2>1. value \in RunCheckpoint /\ Good(value) /\ At("loop", value, item[c], visited[c])
    BY <1>1, Seen DEF RunCheckpoint, Good, At
  <2>2. SaveItem(c, value, "loop", item[c])
    BY <1>2 DEF Save
  <2> HIDE DEF value
  <2> QED BY <1>1, <2>1, <2>2, Seen, Saved DEF PrepareResearch
<1>3. CASE Save(c, [persisted[c] EXCEPT !.research = "prepared"], "dispatch")
  <2> DEFINE value == [persisted[c] EXCEPT !.research = "prepared"]
  <2>1. value \in RunCheckpoint /\ Good(value) /\ At("dispatch", value, item[c], visited[c])
    BY <1>1, Seen DEF RunCheckpoint, Good, At
  <2>2. SaveItem(c, value, "dispatch", item[c])
    BY <1>3 DEF Save
  <2> HIDE DEF value
  <2> QED BY <1>1, <2>1, <2>2, Seen, Saved DEF PrepareResearch
<1> QED BY <1>2, <1>3 DEF PrepareResearch

LEMMA StageFailsStep ==
  ASSUME IInv, NEW c \in Coordinator, StageFails(c) PROVE IInv'
<1>1. PICK p \in Pauses : Save(c, [persisted[c] EXCEPT !.pause = p], "loop")
  BY DEF StageFails
<1> DEFINE value == [persisted[c] EXCEPT !.pause = p]
<1>2. SaveItem(c, value, "loop", item[c]) /\ pc[c] = "waiting"
  BY <1>1 DEF StageFails, Save
<1>3. value \in RunCheckpoint /\ value.research = persisted[c].research
  BY Seen DEF RunCheckpoint
<1>4. Good(value) /\ At("loop", value, item[c], visited[c])
  BY <1>2, Seen DEF RunCheckpoint, Good, At
<1> HIDE DEF value
<1> QED BY <1>2, <1>3, <1>4, Seen, Saved DEF StageFails

LEMMA RecordEffectStep ==
  ASSUME IInv, NEW c \in Coordinator, RecordEffect(c) PROVE IInv'
<1> DEFINE done == persisted[c].completedEffects \cup {item[c]}
           value == [persisted[c] EXCEPT !.completedEffects = done]
<1>1. SaveItem(c, value, pc[c], None) /\ pc[c] \in {"followUps", "lastFollowUps"}
  BY DEF RecordEffect, InFollowUps
<1>2. done \in SUBSET FollowUp
  BY Seen DEF RecordEffect, RunCheckpoint
<1> HIDE DEF done
<1>3. value \in RunCheckpoint /\ value.research = persisted[c].research
  BY <1>2, Seen DEF RunCheckpoint
<1>4. Good(value) /\ At(pc[c], value, None, visited[c])
  BY <1>1, Seen DEF RunCheckpoint, Good, At, Taken
<1> HIDE DEF value
<1> QED BY <1>1, <1>3, <1>4, Seen, Saved DEF RecordEffect

LEMMA CommitTransitionStep ==
  ASSUME IInv, NEW c \in Coordinator, CommitTransition(c) PROVE IInv'
<1> DEFINE v == persisted[c]
<1>1. PICK s \in v.pendingStep.to :
        Save(c, [v EXCEPT !.phase = IF s = "done" THEN "follow-ups" ELSE "workflow",
                          !.stage = s,
                          !.round = IF s = "code" /\ v.stage \in {"code", "review"} THEN @ + 1 ELSE @,
                          !.capped = v.pendingStep.capped,
                          !.pendingStep = NoStep],
             IF s = "done" THEN "followUps" ELSE "loop")
  BY DEF CommitTransition
<1>2. s \in Stages /\ v.pendingStep.capped \in BOOLEAN
  BY Seen DEF RunCheckpoint, Steps
<1> DEFINE n == IF s = "code" /\ v.stage \in {"code", "review"} THEN v.round + 1 ELSE v.round
           m == v.pendingStep.capped
           p == IF s = "done" THEN "follow-ups" ELSE "workflow"
           l == IF s = "done" THEN "followUps" ELSE "loop"
           value == [v EXCEPT !.phase = p, !.stage = s, !.round = n, !.capped = m,
                              !.pendingStep = NoStep]
<1>3. SaveItem(c, value, l, item[c]) /\ n \in Nat /\ m \in BOOLEAN
  BY <1>1, <1>2, Seen DEF Save, RunCheckpoint
<1>4. \/ s = "done" /\ p = "follow-ups" /\ l = "followUps"
      \/ s # "done" /\ p = "workflow" /\ l = "loop"
  OBVIOUS
<1>5. pc[c] = "choose"
  BY DEF CommitTransition
<1> HIDE DEF n, m, p, l
<1>6. value \in RunCheckpoint /\ value.research = v.research
  <2>1. /\ v \in RunCheckpoint /\ NoStep \in Steps /\ p \in Phases /\ s \in Stages
        /\ n \in Nat /\ m \in BOOLEAN
    BY <1>2, <1>3, <1>4, Seen, NoStepType
  <2> HIDE DEF v, Phases, Stages
  <2> QED BY <2>1 DEF RunCheckpoint
<1>7. Good(value) /\ At(l, value, item[c], visited[c])
  BY <1>4, <1>5, Seen DEF RunCheckpoint, Good, At
<1> HIDE DEF value
<1> QED BY <1>3, <1>4, <1>6, <1>7, Seen, Saved DEF CommitTransition

LEMMA ResumeResearchStep ==
  ASSUME IInv, NEW c \in Coordinator, ResumeResearch(c) PROVE IInv'
<1> DEFINE r == IF persisted[c].research = "dispatched" THEN "prepared" ELSE persisted[c].research
           value == [persisted[c] EXCEPT !.pause = "none", !.research = r]
<1>1. persisted[c] \in RunCheckpoint /\ r \in {"none", "prepared", "dispatched", "completed"}
  BY Seen DEF RunCheckpoint
<1>2. SaveItem(c, value, "idle", item[c]) /\ pc[c] = "idle"
  BY <1>1 DEF ResumeResearch, Save, RunCheckpoint
<1> HIDE DEF r
<1>3. value \in RunCheckpoint
  BY <1>1 DEF RunCheckpoint
<1>4. Good(value) /\ At("idle", value, item[c], visited[c])
  BY <1>1, <1>2, Seen DEF RunCheckpoint, Good, At, Taken, MayClose, Awaiting
<1> HIDE DEF value
<1>5. /\ dispatched' = 0 /\ applied' \in [FollowUp -> 0..2]
  BY DEF ResumeResearch, IInv, TypeOK
<1>6. Research' /\ dispatched' \in 0..2
  BY <1>5 DEF Research
<1> QED BY <1>2, <1>3, <1>4, <1>5, <1>6, Seen, Saving

LEMMA DispatchStep ==
  ASSUME IInv, NEW c \in Coordinator, Dispatch(c) PROVE IInv'
<1> DEFINE value == [persisted[c] EXCEPT !.research = "dispatched"]
<1>1. /\ SaveItem(c, value, "waiting", item[c]) /\ persisted[c].phase = "workflow"
      /\ persisted[c].stage = "research" /\ persisted[c].research = "prepared"
      /\ pc[c] \in {"loop", "dispatch"}
  BY Seen DEF Dispatch, Save, At, Runnable
<1>2. /\ value \in RunCheckpoint /\ value.research = "dispatched"
      /\ value.phase = "workflow" /\ value.stage = "research"
      /\ value.contractReviews = persisted[c].contractReviews
  BY <1>1, Seen DEF RunCheckpoint
<1> HIDE DEF value
<1>3. Good(value) /\ At("waiting", value, item[c], visited[c])
  <2>1. \A f \in visited[c] : persisted[c].contractReviews[f] # "none"
    BY Seen, <1>1 DEF At
  <2> QED BY <1>2, <2>1 DEF Good, At
<1>4. /\ dispatched' = (IF dispatched < 2 THEN dispatched + 1 ELSE dispatched)
      /\ applied' \in [FollowUp -> 0..2]
  BY DEF Dispatch, IInv, TypeOK
<1>5. Research' /\ dispatched' \in 0..2
  <2>1. fresh[c] /\ checkpoint' = value
    BY <1>1 DEF SaveItem, Written
  <2>2. dispatched = 0
    BY <1>1, <2>1 DEF IInv, Views, Research
  <2> QED BY <1>2, <1>4, <2>1, <2>2 DEF Research
<1> QED BY <1>1, <1>2, <1>3, <1>4, <1>5, Seen, Saving

LEMMA AnswerStep ==
  ASSUME IInv, NEW c \in Coordinator, NEW f \in FollowUp, Answer(c, f) PROVE IInv'
<1>1. PICK d \in {"accepted", "rejected"}, l \in {"append", "idle"}, i \in {f, item[c]} :
        /\ SaveItem(c, [persisted[c] EXCEPT !.decisions[f] = d], l, i)
        /\ l = "append" => f \in Contract /\ i = f
  BY DEF Answer, Save
<1> DEFINE new == [persisted[c].decisions EXCEPT ![f] = d]
           value == [persisted[c] EXCEPT !.decisions = new]
<1>2. persisted[c] \in RunCheckpoint /\ i \in FollowUp \cup {None} /\ l \in PCs
  BY Seen
<1>3. /\ SaveItem(c, value, l, i) /\ pc[c] = "idle" /\ persisted[c].phase = "decisions"
      /\ new \in [FollowUp -> {"none", "pending", "accepted", "rejected"}]
  BY <1>1, <1>2 DEF Answer, RunCheckpoint
<1> HIDE DEF new
<1>4. value \in RunCheckpoint /\ value.research = persisted[c].research
  BY <1>2, <1>3 DEF RunCheckpoint
<1>5. Good(value) /\ At(l, value, i, visited[c])
  BY <1>1, <1>2, <1>3, Seen DEF RunCheckpoint, Good, At
<1> HIDE DEF value
<1> QED BY <1>2, <1>3, <1>4, <1>5, Saved DEF Answer

LEMMA AskDecisionStep ==
  ASSUME IInv, NEW c \in Coordinator, NEW f \in FollowUp, AskDecision(c, f) PROVE IInv'
<1>1. pc[c] \in {"followUps", "lastFollowUps"} /\ UNCHANGED world /\ persisted[c] \in RunCheckpoint
  BY Seen DEF AskDecision, InFollowUps
<1>2. CASE /\ persisted[c].decisions[f] = "none"
           /\ SaveItem(c, [persisted[c] EXCEPT !.decisions[f] = "pending"], pc[c], f)
  <2> DEFINE new == [persisted[c].decisions EXCEPT ![f] = "pending"]
             value == [persisted[c] EXCEPT !.decisions = new]
  <2>1. /\ SaveItem(c, value, pc[c], f)
        /\ new \in [FollowUp -> {"none", "pending", "accepted", "rejected"}]
        /\ \A g \in FollowUp : new[g] = "accepted" => persisted[c].decisions[g] = "accepted"
    BY <1>1, <1>2 DEF RunCheckpoint
  <2> HIDE DEF new
  <2>2. value \in RunCheckpoint /\ value.research = persisted[c].research
    BY <1>1, <2>1 DEF RunCheckpoint
  <2>3. Good(value) /\ At(pc[c], value, f, visited[c])
    BY <1>1, <2>1, Seen, FollowUpAssumption DEF RunCheckpoint, Good, At, Taken
  <2> HIDE DEF value
  <2> QED BY <1>1, <2>1, <2>2, <2>3, Seen, Saved
<1>3. CASE /\ item' = [item EXCEPT ![c] = f]
           /\ UNCHANGED <<checkpoint, persisted, fresh, pc, visited, inRun>>
  <2>1. At(pc[c], persisted[c], f, visited[c])
    BY <1>1, Seen DEF At
  <2>2. /\ Goto(c, pc[c]) /\ pc[c] \in PCs
        /\ applied' \in [FollowUp -> 0..2] /\ dispatched' = dispatched
    BY <1>1, <1>3 DEF Goto, world, IInv, TypeOK
  <2> QED BY <1>3, <2>1, <2>2, Going
<1> QED BY <1>2, <1>3 DEF AskDecision

LEMMA EndFollowUpsStep ==
  ASSUME IInv, NEW c \in Coordinator, EndFollowUps(c) PROVE IInv'
<1> DEFINE p == IF Decided(persisted[c]) = {} THEN "closeout" ELSE "decisions"
           l == IF pc[c] = "lastFollowUps" THEN "settle" ELSE p
           value == [persisted[c] EXCEPT !.phase = p]
<1>1. /\ SaveItem(c, value, l, item[c]) /\ UNCHANGED world
      /\ pc[c] \in {"followUps", "lastFollowUps"}
      /\ persisted[c].followUps \ persisted[c].completedEffects = {}
  BY DEF EndFollowUps, Save, InFollowUps, Todo
<1>2. persisted[c] \in RunCheckpoint /\ persisted[c].pendingStep = NoStep
  BY <1>1, Seen DEF Good, At
<1>3. p = "closeout" => Taken(persisted[c])
  BY FollowUpAssumption DEF Decided, Taken
<1>4. p \in {"decisions", "closeout"} /\ l \in {"settle", p}
  OBVIOUS
<1>5. pc[c] = "lastFollowUps" => l = "settle"
  OBVIOUS
<1>6. l = "settle" => pc[c] = "lastFollowUps"
  OBVIOUS
<1> HIDE DEF p, l
<1>7. /\ value \in RunCheckpoint /\ value.research = persisted[c].research
      /\ value.phase = p /\ value.pendingStep = NoStep
      /\ value.followUps \subseteq value.completedEffects
      /\ value.decisions = persisted[c].decisions
      /\ value.contractReviews = persisted[c].contractReviews
  BY <1>1, <1>2, <1>4 DEF RunCheckpoint
<1> HIDE DEF value
<1>8. Good(value)
  BY <1>3, <1>4, <1>7 DEF Good, Taken
<1>9. At(l, value, item[c], visited[c])
  <2>1. /\ \A f \in visited[c] : persisted[c].contractReviews[f] # "none"
        /\ pc[c] = "lastFollowUps" => Taken(persisted[c])
    BY <1>1, Seen DEF At
  <2> QED BY <1>4, <1>6, <1>7, <2>1 DEF At, Taken
<1> QED BY <1>1, <1>4, <1>7, <1>8, <1>9, Seen, Saved

LEMMA RecordReviewStep ==
  ASSUME IInv, NEW c \in Coordinator, RecordReview(c) PROVE IInv'
<1> DEFINE r == IF persisted[c].contractReviews[item[c]] = "none" THEN "pending"
                ELSE persisted[c].contractReviews[item[c]]
           new == [persisted[c].contractReviews EXCEPT ![item[c]] = r]
           value == [persisted[c] EXCEPT !.stage = "review", !.contractReviews = new]
<1>1. /\ pc[c] = "record" /\ persisted[c] \in RunCheckpoint /\ item[c] \in Contract
      /\ item[c] \in FollowUp /\ persisted[c].pendingStep = NoStep
      /\ persisted[c].phase \in {"decisions", "follow-ups", "workflow"}
      /\ \A f \in visited[c] : persisted[c].contractReviews[f] # "none" \/ f = item[c]
      /\ visited[c] \subseteq FollowUp
  BY Seen, FollowUpAssumption DEF RecordReview, At
<1>2. SaveItem(c, value, "reviewing", item[c]) /\ UNCHANGED world
  BY <1>1 DEF RecordReview, Save, RunCheckpoint
<1>3. /\ new \in [FollowUp -> Reviews]
      /\ new[item[c]] # "none" /\ \A f \in visited[c] : new[f] # "none"
  BY <1>1 DEF RunCheckpoint, Reviews
<1> HIDE DEF r, new
<1>4. /\ value \in RunCheckpoint /\ value.research = persisted[c].research
      /\ value.phase = persisted[c].phase /\ value.pendingStep = NoStep
      /\ value.stage = "review" /\ value.contractReviews = new
  BY <1>1, <1>3 DEF RunCheckpoint
<1> HIDE DEF value
<1>5. Good(value) /\ At("reviewing", value, item[c], visited[c])
  BY <1>1, <1>3, <1>4 DEF Good, At
<1> QED BY <1>1, <1>2, <1>4, <1>5, Saved

LEMMA SettleStep ==
  ASSUME IInv, NEW c \in Coordinator, Settle(c) PROVE IInv'
<1>1. CASE Return(c)
  BY <1>1, ReturnStep
<1>2. CASE /\ Save(c, [persisted[c] EXCEPT !.phase = "closeout"], "closeout")
           /\ UNCHANGED world
  <2> DEFINE value == [persisted[c] EXCEPT !.phase = "closeout"]
  <2>1. SaveItem(c, value, "closeout", item[c]) /\ pc[c] = "settle"
    BY <1>2 DEF Settle, Save
  <2>2. value \in RunCheckpoint /\ value.research = persisted[c].research
    BY Seen DEF RunCheckpoint
  <2>3. Good(value) /\ At("closeout", value, item[c], visited[c])
    BY <2>1, Seen DEF RunCheckpoint, Good, At, Taken
  <2> HIDE DEF value
  <2> QED BY <1>2, <2>1, <2>2, <2>3, Seen, Saved
<1> QED BY <1>1, <1>2 DEF Settle

LEMMA CloseoutStep ==
  ASSUME IInv, NEW c \in Coordinator, Closeout(c) PROVE IInv'
<1>1. CASE /\ persisted[c].phase # "complete" /\ MayClose(persisted[c])
           /\ Save(c, [persisted[c] EXCEPT !.phase = "complete"], "closeout")
           /\ UNCHANGED world
  <2> DEFINE value == [persisted[c] EXCEPT !.phase = "complete"]
  <2>1. SaveItem(c, value, "closeout", item[c]) /\ persisted[c].phase = "closeout" /\ pc[c] = "closeout"
    BY <1>1, Seen DEF Closeout, Save, At
  <2>2. value \in RunCheckpoint /\ value.research = persisted[c].research
    BY Seen DEF RunCheckpoint
  <2>3. Good(value) /\ At("closeout", value, item[c], visited[c])
    BY <1>1, <2>1, Seen DEF RunCheckpoint, Good, At, Taken, MayClose, Awaiting
  <2> HIDE DEF value
  <2> QED BY <1>1, <2>1, <2>2, <2>3, Seen, Saved
<1>2. CASE Return(c)
  BY <1>2, ReturnStep
<1>3. CASE Drop(c) /\ UNCHANGED <<checkpoint, world>>
  BY <1>3, Dropping DEF world, IInv, TypeOK, Research
<1> QED BY <1>1, <1>2, <1>3 DEF Closeout

LEMMA ReviewedStep ==
  ASSUME IInv, NEW c \in Coordinator, Reviewed(c) PROVE IInv'
<1> DEFINE v == persisted[c]
           after == IF inRun[c] THEN "decisions" ELSE "idle"
<1>1. /\ v \in RunCheckpoint /\ item[c] \in FollowUp /\ v.pendingStep = NoStep
      /\ \A f \in visited[c] : v.contractReviews[f] # "none"
      /\ visited[c] \subseteq FollowUp /\ UNCHANGED world /\ after \in {"decisions", "idle"}
  BY Seen, FollowUpAssumption DEF Reviewed, At
<1>2. PICK new \in SUBSET FollowUp :
        \/ SaveItem(c, [v EXCEPT !.stage = "done", !.phase = "follow-ups",
                                 !.contractReviews[item[c]] = "approved",
                                 !.followUps = @ \cup new], after, None)
        \/ SaveItem(c, [v EXCEPT !.stage = "code", !.round = @ + 1, !.phase = "workflow",
                                 !.contractReviews[item[c]] = "changes_requested",
                                 !.followUps = @ \cup new], after, None)
  BY DEF Reviewed
<1> DEFINE all == v.followUps \cup new
           n == v.round + 1
           reviews(a) == [v.contractReviews EXCEPT ![item[c]] = a]
           approved == reviews("approved")
           rejected == reviews("changes_requested")
<1>3. /\ all \in SUBSET FollowUp /\ n \in Nat
      /\ approved \in [FollowUp -> Reviews]
      /\ rejected \in [FollowUp -> Reviews]
      /\ \A f \in visited[c] : approved[f] # "none" /\ rejected[f] # "none"
  BY <1>1 DEF RunCheckpoint, Reviews
<1>4. PICK value :
        /\ SaveItem(c, value, after, None)
        /\ \/ value = [v EXCEPT !.stage = "done", !.phase = "follow-ups",
                                !.contractReviews = approved, !.followUps = all]
           \/ value = [v EXCEPT !.stage = "code", !.round = n, !.phase = "workflow",
                                !.contractReviews = rejected, !.followUps = all]
  BY <1>1, <1>2 DEF RunCheckpoint
<1> HIDE DEF v, after, all, n, approved, rejected
<1>5. /\ value \in RunCheckpoint /\ value.research = v.research /\ value.pendingStep = NoStep
      /\ \/ value.stage = "done" /\ value.phase = "follow-ups" /\ value.contractReviews = approved
         \/ value.stage = "code" /\ value.phase = "workflow" /\ value.contractReviews = rejected
  <2>1. CASE value = [v EXCEPT !.stage = "done", !.phase = "follow-ups",
                               !.contractReviews = approved, !.followUps = all]
    BY <1>1, <1>3, <2>1 DEF RunCheckpoint
  <2>2. CASE value = [v EXCEPT !.stage = "code", !.round = n, !.phase = "workflow",
                               !.contractReviews = rejected, !.followUps = all]
    BY <1>1, <1>3, <2>2 DEF RunCheckpoint
  <2> QED BY <1>4, <2>1, <2>2
<1>6. Good(value) /\ At(after, value, None, visited[c])
  BY <1>1, <1>3, <1>5 DEF Good, At
<1>7. value.research = persisted[c].research /\ after \in PCs
  BY <1>1, <1>5 DEF v
<1> QED BY <1>1, <1>4, <1>5, <1>6, <1>7, Saved

LEMMA OfferType ==
  ASSUME NEW v \in RunCheckpoint, v.stage \in {"plan", "research", "code"}
  PROVE  Offers(v) \subseteq Steps
BY DEF Offers, Rework, Steps, RunCheckpoint

LEMMA ReviewType ==
  ASSUME NEW v \in RunCheckpoint
  PROVE  Approval(v) \in Steps /\ \A n : Rejections(v, n) \subseteq Steps
<1>1. v.capped \in BOOLEAN /\ {"done"} \cup Rework(v) \in SUBSET Stages
  BY DEF RunCheckpoint, Rework
<1>2. Approval(v) \in Steps
  BY <1>1 DEF Approval, Steps
<1>3. ASSUME NEW n PROVE Rejections(v, n) \subseteq Steps
  <2>1. /\ Rounds(v, n) \cup {"done"} \in SUBSET Stages /\ {"done"} \in SUBSET Stages
        /\ FALSE \in BOOLEAN /\ TRUE \in BOOLEAN
    BY DEF Rounds
  <2> HIDE DEF Stages
  <2>2. /\ [to |-> {"done"}, capped |-> FALSE] \in Steps
        /\ [to |-> {"done"}, capped |-> TRUE] \in Steps
        /\ [to |-> Rounds(v, n) \cup {"done"}, capped |-> v.capped] \in Steps
    BY <1>1, <2>1 DEF Steps
  <2> QED BY <2>2 DEF Rejections
<1> QED BY <1>2, <1>3

\* What a stage that succeeds saves.
LEMMA StageOffers ==
  ASSUME IInv, NEW c \in Coordinator, StageSucceeds(c)
  PROVE  \E step \in Steps,
            reviews \in {persisted[c].contractReviews, Approved(persisted[c].contractReviews)},
            new \in SUBSET FollowUp :
           Save(c, [persisted[c] EXCEPT
                      !.pendingStep = step, !.contractReviews = reviews, !.followUps = @ \cup new,
                      !.research = IF persisted[c].stage = "research" THEN "completed" ELSE @],
                "choose")
<1> DEFINE v == persisted[c]
<1>1. v \in RunCheckpoint /\ v.stage # "done"
  BY Seen DEF StageSucceeds, At
<1>2. v.stage # "review" => Offers(v) \subseteq Steps
  BY <1>1, OfferType DEF RunCheckpoint
<1>3. Approval(v) \in Steps /\ \A n : Rejections(v, n) \subseteq Steps
  BY <1>1, ReviewType
<1> HIDE DEF Steps
<1> QED BY <1>2, <1>3 DEF StageSucceeds

LEMMA StageSucceedsStep ==
  ASSUME IInv, NEW c \in Coordinator, StageSucceeds(c) PROVE IInv'
<1> DEFINE v == persisted[c]
<1>1. /\ v \in RunCheckpoint /\ v.phase = "workflow" /\ v.stage # "done" /\ UNCHANGED world
      /\ \A f \in visited[c] : v.contractReviews[f] # "none"
      /\ visited[c] \subseteq FollowUp /\ pc[c] = "waiting"
  BY Seen DEF StageSucceeds, At
<1>2. PICK step \in Steps, reviews \in {v.contractReviews, Approved(v.contractReviews)},
           new \in SUBSET FollowUp :
        Save(c, [v EXCEPT !.pendingStep = step, !.contractReviews = reviews,
                          !.followUps = @ \cup new,
                          !.research = IF v.stage = "research" THEN "completed" ELSE @], "choose")
  BY StageOffers
<1> DEFINE all == v.followUps \cup new
           r == IF v.stage = "research" THEN "completed" ELSE v.research
           value == [v EXCEPT !.pendingStep = step, !.contractReviews = reviews,
                              !.followUps = all, !.research = r]
<1>3. /\ all \in SUBSET FollowUp /\ r \in {v.research, "completed"}
      /\ r \in {"none", "prepared", "dispatched", "completed"}
  BY <1>1 DEF RunCheckpoint
<1>4. /\ reviews \in [FollowUp -> Reviews]
      /\ \A f \in visited[c] : reviews[f] # "none"
  BY <1>1 DEF RunCheckpoint, Reviews, Approved
<1>5. SaveItem(c, value, "choose", item[c])
  BY <1>1, <1>2 DEF Save, RunCheckpoint
<1> HIDE DEF v, all, r
<1>6. /\ value \in RunCheckpoint /\ value.phase = "workflow" /\ value.stage # "done"
      /\ value.contractReviews = reviews /\ value.research = r
  BY <1>1, <1>3, <1>4 DEF RunCheckpoint
<1> HIDE DEF value
<1>7. Good(value) /\ At("choose", value, item[c], visited[c])
  BY <1>4, <1>6 DEF Good, At
<1>8. value.research = persisted[c].research \/ value.research = "completed"
  BY <1>3, <1>6 DEF v
<1> QED BY <1>1, <1>5, <1>6, <1>7, <1>8, Seen, Saved

LEMMA UnresolvedStep ==
  ASSUME IInv, NEW c \in Coordinator, Unresolved(c) PROVE IInv'
<1> DEFINE v == persisted[c]
<1>1. /\ v \in RunCheckpoint /\ item[c] \in FollowUp /\ v.stage = "review"
      /\ v.phase \in {"decisions", "follow-ups", "workflow"} /\ v.pendingStep = NoStep
  BY Seen, FollowUpAssumption DEF Unresolved, At
<1>2. PICK new \in SUBSET FollowUp, capped \in BOOLEAN, verdict \in Reviews \ {"none"} :
        checkpoint' = IF fresh[c]
                      THEN [v EXCEPT !.contractReviews[item[c]] = verdict,
                                     !.followUps = @ \cup new, !.capped = capped]
                      ELSE checkpoint
  BY DEF Unresolved, Reviews
<1> DEFINE all == v.followUps \cup new
           reviews == [v.contractReviews EXCEPT ![item[c]] = verdict]
           value == [v EXCEPT !.contractReviews = reviews, !.followUps = all, !.capped = capped]
<1>3. /\ all \in SUBSET FollowUp
      /\ reviews \in [FollowUp -> Reviews]
  BY <1>1 DEF RunCheckpoint
<1>4. checkpoint' = IF fresh[c] THEN value ELSE checkpoint
  BY <1>1, <1>2 DEF RunCheckpoint
<1>5. v.research = checkpoint.research \/ ~fresh[c]
  BY DEF IInv, Views
<1> HIDE DEF v, all, reviews
<1>6. /\ value \in RunCheckpoint /\ value.phase = v.phase /\ value.stage = "review"
      /\ value.pendingStep = NoStep /\ value.research = v.research
  BY <1>1, <1>3 DEF RunCheckpoint
<1> HIDE DEF value
<1>7. Good(value)
  BY <1>1, <1>6 DEF Good
<1>8. checkpoint' \in RunCheckpoint /\ Good(checkpoint') /\ checkpoint'.research = checkpoint.research
  BY <1>4, <1>5, <1>6, <1>7 DEF IInv, TypeOK
<1>9. /\ pc' = [pc EXCEPT ![c] = "down"] /\ persisted' = [persisted EXCEPT ![c] = Initial]
      /\ fresh' = (IF fresh[c] THEN [d \in Coordinator |-> FALSE] ELSE fresh)
      /\ item' = [item EXCEPT ![c] = None] /\ visited' = [visited EXCEPT ![c] = {}]
      /\ inRun' = [inRun EXCEPT ![c] = FALSE] /\ dispatched' = dispatched /\ applied' = applied
  BY DEF Unresolved, Goto, world
<1>10. TypeOK' /\ Research'
  BY <1>8, <1>9, InitialFacts DEF IInv, TypeOK, Research
<1>11. At(pc'[c], persisted'[c], item'[c], visited'[c]) /\ Good(persisted'[c]) /\ ~fresh'[c]
  BY <1>9, InitialFacts DEF IInv, TypeOK
<1>12. \A d \in Coordinator \ {c} :
        /\ pc'[d] = pc[d] /\ persisted'[d] = persisted[d]
        /\ item'[d] = item[d] /\ visited'[d] = visited[d]
        /\ fresh'[d] => fresh[d] /\ checkpoint' = checkpoint
  BY <1>4, <1>9 DEF IInv, TypeOK
<1> QED BY <1>8, <1>10, <1>11, <1>12, OneMoves

-----------------------------------------------------------------------------
(* The inductive invariant, and what follows from it.                       *)

LEMMA InitInvariant == Init => IInv
<1> SUFFICES ASSUME Init PROVE IInv
  OBVIOUS
<1>1. TypeOK /\ Research
  BY InitialFacts DEF Init, TypeOK, Research
<1>2. Local /\ Views /\ Good(checkpoint) /\ \A c \in Coordinator : Good(persisted[c])
  BY InitialFacts DEF Init, Local, Views
<1> QED BY <1>1, <1>2 DEF IInv

LEMMA StepInvariant == IInv /\ [Next]_vars => IInv'
<1> SUFFICES ASSUME IInv, [Next]_vars PROVE IInv'
  OBVIOUS
<1>1. CASE UNCHANGED vars
  BY <1>1 DEF vars, locals, world, IInv, TypeOK, Local, Views, Research
<1>2. ASSUME NEW c \in Coordinator, Drive(c) PROVE IInv'
  <2>1. CASE Paused(c)
    BY <2>1, ReturnStep DEF Paused
  <2>2. CASE \/ Pending(c) \/ Ambiguous(c) \/ PrepareResearch(c) \/ Dispatch(c) \/ StartStage(c)
             \/ StageFails(c) \/ StageSucceeds(c) \/ CommitTransition(c)
    BY <2>2, PendingStep, AmbiguousStep, PrepareResearchStep, DispatchStep, StartStageStep,
       StageFailsStep, StageSucceedsStep, CommitTransitionStep
  <2>3. ASSUME NEW f \in FollowUp, AskDecision(c, f) \/ ApplyEffect(c, f) \/ NextDecision(c, f)
        PROVE  IInv'
    BY <2>3, AskDecisionStep, ApplyEffectStep, NextDecisionStep
  <2>4. CASE \/ RecordEffect(c) \/ EndFollowUps(c) \/ AppendContract(c) \/ RecordReview(c)
             \/ Reviewed(c) \/ Unresolved(c) \/ EndDecisions(c) \/ Settle(c) \/ Closeout(c)
    BY <2>4, RecordEffectStep, EndFollowUpsStep, AppendContractStep, RecordReviewStep,
       ReviewedStep, UnresolvedStep, EndDecisionsStep, SettleStep, CloseoutStep
  <2> QED BY <1>2, <2>1, <2>2, <2>3, <2>4 DEF Drive
<1>3. ASSUME NEW c \in Coordinator, Operate(c) PROVE IInv'
  <2>1. CASE Construct(c) \/ Run(c) \/ ResumeResearch(c) \/ ResumeStage(c) \/ ResumeRoundCap(c)
    BY <2>1, ConstructStep, RunStep, ResumeResearchStep, ResumeStageStep, ResumeRoundCapStep
  <2>2. ASSUME NEW f \in FollowUp, Answer(c, f) \/ AnswerAgain(c, f) PROVE IInv'
    BY <2>2, AnswerStep, AnswerAgainStep
  <2> QED BY <1>3, <2>1, <2>2 DEF Operate
<1>4. ASSUME NEW c \in Coordinator, Interrupt(c) \/ Stop(c) PROVE IInv'
  BY <1>4, InterruptStep, StopStep
<1> QED BY <1>1, <1>2, <1>3, <1>4 DEF Next

LEMMA Invariant == Spec => []IInv
BY InitInvariant, StepInvariant, PTL DEF Spec

\* Every variable keeps its shape, whatever is saved, by whomever, from whatever
\* version of the checkpoint: save() and the steps of run().
THEOREM TypeCorrect == Spec => []TypeOK
<1>1. IInv => TypeOK
  BY DEF IInv
<1> QED BY <1>1, Invariant, PTL

\* The researcher is called once for every time an operator asked for it
\* (prepareStep's prepared, dispatched and completed effects), for any number of
\* coordinators that die and start at any point.
THEOREM ResearchOnce == Spec => []ResearchCalledOnce
<1>1. IInv => ResearchCalledOnce
  BY DEF IInv, Research, ResearchCalledOnce
<1> QED BY <1>1, Invariant, PTL

\* The loop of run() has a stage to prepare or a phase to go on to.
THEOREM StageLeft == Spec => []WorkflowHasAStage
<1>1. IInv => WorkflowHasAStage
  BY DEF IInv, Good, WorkflowHasAStage
<1> QED BY <1>1, Invariant, PTL

\* What closeout() writes leaves nothing open: no effect, no decision and no
\* contract without its approval.
THEOREM ClosedRunIsSettled == Spec => []CloseoutSound
<1>1. IInv => CloseoutSound
  <2> SUFFICES ASSUME IInv, checkpoint.phase = "complete"
               PROVE  /\ checkpoint.stage = "done" /\ checkpoint.pendingStep = NoStep
                      /\ checkpoint.followUps \subseteq checkpoint.completedEffects
                      /\ \A f \in FollowUp :
                           /\ checkpoint.decisions[f] # "pending"
                           /\ checkpoint.decisions[f] = "accepted" /\ f \in Contract =>
                                checkpoint.contractReviews[f] = "approved"
    BY DEF CloseoutSound
  <2>1. MayClose(checkpoint) /\ Taken(checkpoint) /\ checkpoint.pendingStep = NoStep
    BY DEF IInv, Good
  <2>2. checkpoint.stage = "done" /\ checkpoint.followUps \subseteq checkpoint.completedEffects
    BY <2>1 DEF MayClose, IInv, Good
  <2> QED BY <2>1, <2>2 DEF MayClose, Awaiting, Taken
<1> QED BY <1>1, Invariant, PTL

-----------------------------------------------------------------------------
(* Effects and pauses.                                                      *)

\* Only a workflow under way is paused.
Quiet(v) == v.pause # "none" => v.phase = "workflow"

\* What a coordinator at l with view v and i at hand knows of the world, where
\* the follow-ups in effect are those done says.
Holds(l, v, i, done) ==
  /\ l \notin {"append", "record", "reviewing", "followUps", "lastFollowUps"} => i = None
  /\ l \in {"record", "reviewing"} => done[i] = 1
  /\ l \in {"followUps", "lastFollowUps"} /\ i # None => done[i] = 1 \/ v.decisions[i] # "none"
  /\ l \notin {"idle", "loop", "down"} => v.pause = "none"

\* What v says is done.
Effects(v, done) ==
  \A f \in FollowUp :
    /\ f \in v.completedEffects => done[f] = 1 \/ v.decisions[f] # "none"
    /\ v.contractReviews[f] # "none" => done[f] = 1

EInv ==
  /\ \A c \in Coordinator : Holds(pc[c], persisted[c], item[c], applied) /\ Quiet(persisted[c])
  /\ Effects(checkpoint, applied) /\ Quiet(checkpoint)
  /\ applied \in [FollowUp -> 0..1]

\* Nothing that took effect is undone.
Grows == applied' \in [FollowUp -> 0..1] /\ \A f \in FollowUp : applied[f] = 1 => applied'[f] = 1

LEMMA Standing ==
  ASSUME EInv, applied' = applied PROVE Grows
BY DEF EInv, Grows

LEMMA Applying ==
  ASSUME EInv, NEW f \in FollowUp, applied' = Applied(f) PROVE Grows /\ applied'[f] = 1
BY DEF EInv, Grows, Applied

\* A step of one coordinator.
LEMMA OneWorks ==
  ASSUME IInv, EInv, NEW c \in Coordinator, Grows,
         Holds(pc'[c], persisted'[c], item'[c], applied'), Quiet(persisted'[c]),
         Effects(checkpoint', applied'), Quiet(checkpoint'),
         \A d \in Coordinator \ {c} :
           pc'[d] = pc[d] /\ persisted'[d] = persisted[d] /\ item'[d] = item[d]
  PROVE  EInv'
<1>1. ASSUME NEW d \in Coordinator \ {c}
      PROVE  Holds(pc'[d], persisted'[d], item'[d], applied') /\ Quiet(persisted'[d])
  <2>1. Holds(pc[d], persisted[d], item[d], applied) /\ Quiet(persisted[d])
    BY DEF EInv
  <2>2. /\ item[d] \in FollowUp \cup {None}
        /\ pc[d] \in {"record", "reviewing"} => item[d] \in FollowUp
    BY FollowUpAssumption, Seen DEF At
  <2>3. Holds(pc[d], persisted[d], item[d], applied')
    BY <2>1, <2>2 DEF Holds, Grows
  <2> QED BY <2>1, <2>3
<1> QED BY <1>1 DEF EInv, Grows

LEMMA KeptEffects ==
  ASSUME EInv, Grows PROVE Effects(checkpoint, applied')
BY DEF EInv, Effects, Grows

\* A step that saves nothing.
LEMMA Working ==
  ASSUME IInv, EInv, NEW c \in Coordinator, NEW l, NEW i, Grows,
         pc' = [pc EXCEPT ![c] = l], item' = [item EXCEPT ![c] = i],
         persisted' = persisted, checkpoint' = checkpoint, Holds(l, persisted[c], i, applied')
  PROVE  EInv'
<1>1. /\ pc'[c] = l /\ item'[c] = i
      /\ \A d \in Coordinator \ {c} : pc'[d] = pc[d] /\ item'[d] = item[d]
  BY DEF IInv, TypeOK
<1>2. Quiet(persisted'[c]) /\ Quiet(checkpoint') /\ Effects(checkpoint', applied')
  BY KeptEffects DEF EInv
<1> QED BY <1>1, <1>2, OneWorks

LEMMA LeavingWork ==
  ASSUME IInv, EInv, NEW c \in Coordinator, Drop(c), checkpoint' = checkpoint, applied' = applied
  PROVE  EInv'
<1>1. /\ pc'[c] = "down" /\ persisted'[c] = Initial /\ item'[c] = None
      /\ \A d \in Coordinator \ {c} :
           pc'[d] = pc[d] /\ persisted'[d] = persisted[d] /\ item'[d] = item[d]
  BY DEF Drop, Goto, IInv, TypeOK
<1>2. Holds("down", Initial, None, applied') /\ Quiet(Initial)
  BY DEF Holds, Quiet, Initial
<1>3. Quiet(checkpoint') /\ Effects(checkpoint', applied') /\ Grows
  BY KeptEffects, Standing DEF EInv
<1> QED BY <1>1, <1>2, <1>3, OneWorks

LEMMA SavingWork ==
  ASSUME IInv, EInv, NEW c \in Coordinator, NEW value, NEW l, NEW i,
         SaveItem(c, value, l, i), applied' = applied,
         Holds(l, value, i, applied), Quiet(value), fresh[c] => Effects(value, applied)
  PROVE  EInv'
<1>1. /\ pc'[c] = l /\ persisted'[c] = value /\ item'[c] = i /\ checkpoint' = value /\ fresh[c]
      /\ \A d \in Coordinator \ {c} :
           pc'[d] = pc[d] /\ persisted'[d] = persisted[d] /\ item'[d] = item[d]
  BY DEF SaveItem, Written, Goto, IInv, TypeOK
<1> QED BY <1>1, Standing, OneWorks

\* What a coordinator whose view is current knows of the effects.
LEMMA CurrentEffects ==
  ASSUME IInv, EInv, NEW c \in Coordinator, fresh[c] PROVE Effects(persisted[c], applied)
BY DEF IInv, Views, EInv

LEMMA HeldAt ==
  ASSUME EInv, NEW c \in Coordinator
  PROVE  /\ Holds(pc[c], persisted[c], item[c], applied) /\ Quiet(persisted[c])
         /\ applied \in [FollowUp -> 0..1]
BY DEF EInv

\* A save that tells nothing new of effects.
LEMMA PlainSave ==
  ASSUME IInv, EInv, NEW c \in Coordinator, NEW value, NEW l, SaveItem(c, value, l, None),
         applied' = applied, l \notin {"record", "reviewing"},
         value.completedEffects = persisted[c].completedEffects,
         value.decisions = persisted[c].decisions,
         value.contractReviews = persisted[c].contractReviews,
         l \notin {"idle", "loop", "down"} => value.pause = "none", Quiet(value)
  PROVE  EInv'
<1>1. Holds(l, value, None, applied)
  BY DEF Holds
<1>2. fresh[c] => Effects(value, applied)
  BY CurrentEffects DEF Effects
<1> QED BY <1>1, <1>2, SavingWork


LEMMA ResumeStageWorks ==
  ASSUME IInv, EInv, NEW c \in Coordinator, ResumeStage(c) PROVE EInv'
<1> DEFINE value == [persisted[c] EXCEPT !.pause = "none"]
<1>1. SaveItem(c, value, "idle", None) /\ applied' = applied
  BY HeldAt DEF ResumeStage, Save, Holds, world
<1>2. /\ value.completedEffects = persisted[c].completedEffects /\ value.pause = "none"
      /\ value.decisions = persisted[c].decisions
      /\ value.contractReviews = persisted[c].contractReviews
  BY Seen DEF RunCheckpoint
<1> HIDE DEF value
<1> QED BY <1>1, <1>2, PlainSave DEF Quiet

LEMMA ResumeResearchWorks ==
  ASSUME IInv, EInv, NEW c \in Coordinator, ResumeResearch(c) PROVE EInv'
<1> DEFINE r == IF persisted[c].research = "dispatched" THEN "prepared" ELSE persisted[c].research
           value == [persisted[c] EXCEPT !.pause = "none", !.research = r]
<1>1. persisted[c] \in RunCheckpoint
  BY Seen
<1>2. SaveItem(c, value, "idle", None) /\ applied' = applied
  BY <1>1, HeldAt DEF ResumeResearch, Save, Holds, RunCheckpoint
<1> HIDE DEF r
<1>3. /\ value.completedEffects = persisted[c].completedEffects /\ value.pause = "none"
      /\ value.decisions = persisted[c].decisions
      /\ value.contractReviews = persisted[c].contractReviews
  BY <1>1 DEF RunCheckpoint
<1> HIDE DEF value
<1> QED BY <1>2, <1>3, PlainSave DEF Quiet

LEMMA ResumeRoundCapWorks ==
  ASSUME IInv, EInv, NEW c \in Coordinator, ResumeRoundCap(c) PROVE EInv'
<1> DEFINE n == persisted[c].round + 1
           value == [persisted[c] EXCEPT !.phase = "workflow", !.stage = "code", !.round = n,
                                         !.capped = FALSE, !.pendingStep = NoStep]
<1>1. SaveItem(c, value, "idle", None) /\ applied' = applied
  BY HeldAt DEF ResumeRoundCap, Save, Holds, world
<1> HIDE DEF n
<1>2. /\ value.completedEffects = persisted[c].completedEffects /\ value.phase = "workflow"
      /\ value.decisions = persisted[c].decisions
      /\ value.contractReviews = persisted[c].contractReviews
  BY Seen DEF RunCheckpoint
<1> HIDE DEF value
<1> QED BY <1>1, <1>2, PlainSave DEF Quiet

\* The workflow is paused.
LEMMA PauseWorks ==
  ASSUME IInv, EInv, NEW c \in Coordinator, NEW p,
         Save(c, [persisted[c] EXCEPT !.pause = p], "loop"), UNCHANGED world,
         pc[c] \in {"loop", "waiting"}
  PROVE  EInv'
<1> DEFINE value == [persisted[c] EXCEPT !.pause = p]
<1>1. SaveItem(c, value, "loop", None) /\ applied' = applied /\ persisted[c].phase = "workflow"
  BY HeldAt, Seen DEF Save, Holds, world, At
<1>2. /\ value.completedEffects = persisted[c].completedEffects /\ value.phase = "workflow"
      /\ value.decisions = persisted[c].decisions
      /\ value.contractReviews = persisted[c].contractReviews
  BY <1>1, Seen DEF RunCheckpoint
<1> HIDE DEF value
<1> QED BY <1>1, <1>2, PlainSave DEF Quiet

\* The researcher's effect moves on.
LEMMA ResearchWorks ==
  ASSUME IInv, EInv, NEW c \in Coordinator, NEW r, NEW l \in {"dispatch", "waiting"},
         Save(c, [persisted[c] EXCEPT !.research = r], l), applied' = applied,
         pc[c] \in {"loop", "dispatch"}, persisted[c].pause = "none"
  PROVE  EInv'
<1> DEFINE value == [persisted[c] EXCEPT !.research = r]
<1>1. SaveItem(c, value, l, None)
  BY HeldAt DEF Save, Holds
<1>2. /\ value.completedEffects = persisted[c].completedEffects /\ value.pause = "none"
      /\ value.decisions = persisted[c].decisions
      /\ value.contractReviews = persisted[c].contractReviews
  BY Seen DEF RunCheckpoint
<1> HIDE DEF value
<1> QED BY <1>1, <1>2, PlainSave DEF Quiet

LEMMA InterruptWorks ==
  ASSUME IInv, EInv, NEW c \in Coordinator, Interrupt(c) PROVE EInv'
<1>1. Save(c, [persisted[c] EXCEPT !.pause = "stage"], "loop") /\ UNCHANGED world /\ pc[c] = "loop"
  BY DEF Interrupt, Runnable
<1> QED BY <1>1, PauseWorks

LEMMA AmbiguousWorks ==
  ASSUME IInv, EInv, NEW c \in Coordinator, Ambiguous(c) PROVE EInv'
<1>1. /\ Save(c, [persisted[c] EXCEPT !.pause = "research"], "loop")
      /\ UNCHANGED world /\ pc[c] = "loop"
  BY DEF Ambiguous, Runnable
<1> QED BY <1>1, PauseWorks

LEMMA PrepareResearchWorks ==
  ASSUME IInv, EInv, NEW c \in Coordinator, PrepareResearch(c) PROVE EInv'
<1>1. pc[c] = "loop" /\ persisted[c].pause = "none" /\ UNCHANGED world /\ applied' = applied
  BY DEF PrepareResearch, Runnable, world
<1>2. CASE Save(c, [persisted[c] EXCEPT !.pause = "research"], "loop")
  BY <1>1, <1>2, PauseWorks
<1>3. CASE Save(c, [persisted[c] EXCEPT !.research = "prepared"], "dispatch")
  BY <1>1, <1>3, ResearchWorks
<1> QED BY <1>2, <1>3 DEF PrepareResearch

LEMMA StageFailsWorks ==
  ASSUME IInv, EInv, NEW c \in Coordinator, StageFails(c) PROVE EInv'
<1>1. PICK p : Save(c, [persisted[c] EXCEPT !.pause = p], "loop")
  BY DEF StageFails
<1>2. pc[c] = "waiting" /\ UNCHANGED world
  BY DEF StageFails
<1> QED BY <1>1, <1>2, PauseWorks

LEMMA DispatchWorks ==
  ASSUME IInv, EInv, NEW c \in Coordinator, Dispatch(c) PROVE EInv'
<1>1. /\ Save(c, [persisted[c] EXCEPT !.research = "dispatched"], "waiting") /\ applied' = applied
      /\ pc[c] \in {"loop", "dispatch"} /\ persisted[c].pause = "none"
  BY HeldAt DEF Dispatch, Holds, Runnable
<1> QED BY <1>1, ResearchWorks

LEMMA CommitTransitionWorks ==
  ASSUME IInv, EInv, NEW c \in Coordinator, CommitTransition(c) PROVE EInv'
<1> DEFINE v == persisted[c]
<1>1. PICK s \in v.pendingStep.to :
        Save(c, [v EXCEPT !.phase = IF s = "done" THEN "follow-ups" ELSE "workflow",
                          !.stage = s,
                          !.round = IF s = "code" /\ v.stage \in {"code", "review"} THEN @ + 1 ELSE @,
                          !.capped = v.pendingStep.capped,
                          !.pendingStep = NoStep],
             IF s = "done" THEN "followUps" ELSE "loop")
  BY DEF CommitTransition
<1> DEFINE n == IF s = "code" /\ v.stage \in {"code", "review"} THEN v.round + 1 ELSE v.round
           m == v.pendingStep.capped
           p == IF s = "done" THEN "follow-ups" ELSE "workflow"
           l == IF s = "done" THEN "followUps" ELSE "loop"
           value == [v EXCEPT !.phase = p, !.stage = s, !.round = n, !.capped = m,
                              !.pendingStep = NoStep]
<1>2. SaveItem(c, value, l, None) /\ applied' = applied /\ v.pause = "none"
  BY <1>1, HeldAt, Seen DEF CommitTransition, Save, Holds, RunCheckpoint, world
<1>3. l \in {"followUps", "loop"}
  OBVIOUS
<1> HIDE DEF n, m, p, l
<1>4. /\ value.completedEffects = v.completedEffects /\ value.pause = "none"
      /\ value.decisions = v.decisions /\ value.contractReviews = v.contractReviews
  BY <1>2, Seen DEF RunCheckpoint
<1> HIDE DEF value
<1> QED BY <1>2, <1>3, <1>4, PlainSave DEF Quiet

LEMMA StageSucceedsWorks ==
  ASSUME IInv, EInv, NEW c \in Coordinator, StageSucceeds(c) PROVE EInv'
<1> DEFINE v == persisted[c]
<1>1. PICK step \in Steps, reviews \in {v.contractReviews, Approved(v.contractReviews)},
           new \in SUBSET FollowUp :
        Save(c, [v EXCEPT !.pendingStep = step, !.contractReviews = reviews,
                          !.followUps = @ \cup new,
                          !.research = IF v.stage = "research" THEN "completed" ELSE @], "choose")
  BY StageOffers
<1> DEFINE all == v.followUps \cup new
           r == IF v.stage = "research" THEN "completed" ELSE v.research
           value == [v EXCEPT !.pendingStep = step, !.contractReviews = reviews,
                              !.followUps = all, !.research = r]
<1>2. /\ applied' = applied /\ v.pause = "none" /\ item[c] = None /\ v \in RunCheckpoint
      /\ SaveItem(c, value, "choose", item[c])
  <2>1. applied' = applied /\ v.pause = "none" /\ item[c] = None /\ v \in RunCheckpoint
    BY HeldAt, Seen DEF StageSucceeds, Holds, world
  <2> QED BY <1>1, <2>1 DEF Save, RunCheckpoint
<1>3. \A f \in FollowUp : reviews[f] # "none" => v.contractReviews[f] # "none"
  BY DEF Approved
<1> HIDE DEF all, r
<1>4. /\ value.completedEffects = v.completedEffects /\ value.pause = "none"
      /\ value.decisions = v.decisions /\ value.contractReviews = reviews
  BY <1>2, Seen DEF RunCheckpoint
<1> HIDE DEF value
<1>5. Holds("choose", value, None, applied) /\ Quiet(value)
  BY <1>4 DEF Holds, Quiet
<1>6. fresh[c] => Effects(value, applied)
  BY <1>3, <1>4, CurrentEffects DEF Effects
<1> QED BY <1>2, <1>5, <1>6, SavingWork


LEMMA EndFollowUpsWorks ==
  ASSUME IInv, EInv, NEW c \in Coordinator, EndFollowUps(c) PROVE EInv'
<1> DEFINE p == IF Decided(persisted[c]) = {} THEN "closeout" ELSE "decisions"
           l == IF pc[c] = "lastFollowUps" THEN "settle" ELSE p
           value == [persisted[c] EXCEPT !.phase = p]
<1>1. /\ SaveItem(c, value, l, None) /\ applied' = applied /\ persisted[c].pause = "none"
      /\ l \in {"settle", "closeout", "decisions"}
  BY HeldAt DEF EndFollowUps, Save, InFollowUps, Holds, world
<1> HIDE DEF p, l
<1>2. /\ value.completedEffects = persisted[c].completedEffects /\ value.pause = "none"
      /\ value.decisions = persisted[c].decisions
      /\ value.contractReviews = persisted[c].contractReviews
  BY <1>1, Seen DEF RunCheckpoint
<1> HIDE DEF value
<1> QED BY <1>1, <1>2, PlainSave DEF Quiet

\* A save of the last phases.
LEMMA ClosingWorks ==
  ASSUME IInv, EInv, NEW c \in Coordinator, NEW p,
         Save(c, [persisted[c] EXCEPT !.phase = p], "closeout"), UNCHANGED world,
         pc[c] \in {"settle", "closeout"}
  PROVE  EInv'
<1> DEFINE value == [persisted[c] EXCEPT !.phase = p]
<1>1. SaveItem(c, value, "closeout", None) /\ applied' = applied /\ persisted[c].pause = "none"
  BY HeldAt DEF Save, Holds, world
<1>2. /\ value.completedEffects = persisted[c].completedEffects /\ value.pause = "none"
      /\ value.decisions = persisted[c].decisions
      /\ value.contractReviews = persisted[c].contractReviews
  BY <1>1, Seen DEF RunCheckpoint
<1> HIDE DEF value
<1> QED BY <1>1, <1>2, PlainSave DEF Quiet

LEMMA AnswerWorks ==
  ASSUME IInv, EInv, NEW c \in Coordinator, NEW f \in FollowUp, Answer(c, f) PROVE EInv'
<1>1. PICK d \in {"accepted", "rejected"}, l \in {"append", "idle"}, i \in {f, item[c]} :
        /\ SaveItem(c, [persisted[c] EXCEPT !.decisions[f] = d], l, i)
        /\ l = "idle" => i = item[c]
  BY DEF Answer, Save
<1> DEFINE new == [persisted[c].decisions EXCEPT ![f] = d]
           value == [persisted[c] EXCEPT !.decisions = new]
<1>2. persisted[c] \in RunCheckpoint
  BY Seen
<1>3. /\ SaveItem(c, value, l, i) /\ applied' = applied /\ persisted[c].pause = "none"
      /\ l = "idle" => i = None
  BY <1>1, <1>2, HeldAt DEF Answer, Holds, Quiet, RunCheckpoint, world
<1>4. \A g \in FollowUp : persisted[c].decisions[g] # "none" => new[g] # "none"
  BY <1>2 DEF RunCheckpoint
<1> HIDE DEF new
<1>5. /\ value.completedEffects = persisted[c].completedEffects /\ value.pause = "none"
      /\ value.decisions = new /\ value.contractReviews = persisted[c].contractReviews
  BY <1>2, <1>3 DEF RunCheckpoint
<1> HIDE DEF value
<1>6. Holds(l, value, i, applied) /\ Quiet(value)
  BY <1>3, <1>5 DEF Holds, Quiet
<1>7. fresh[c] => Effects(value, applied)
  BY <1>4, <1>5, CurrentEffects DEF Effects
<1> QED BY <1>3, <1>6, <1>7, SavingWork

LEMMA AskDecisionWorks ==
  ASSUME IInv, EInv, NEW c \in Coordinator, NEW f \in FollowUp, AskDecision(c, f) PROVE EInv'
<1>1. /\ pc[c] \in {"followUps", "lastFollowUps"} /\ applied' = applied
      /\ persisted[c] \in RunCheckpoint /\ persisted[c].pause = "none"
  BY Seen, HeldAt DEF AskDecision, InFollowUps, Holds, world
<1>2. CASE SaveItem(c, [persisted[c] EXCEPT !.decisions[f] = "pending"], pc[c], f)
  <2> DEFINE new == [persisted[c].decisions EXCEPT ![f] = "pending"]
             value == [persisted[c] EXCEPT !.decisions = new]
  <2>1. /\ SaveItem(c, value, pc[c], f) /\ new[f] = "pending"
        /\ \A g \in FollowUp : persisted[c].decisions[g] # "none" => new[g] # "none"
    BY <1>1, <1>2 DEF RunCheckpoint
  <2> HIDE DEF new
  <2>2. /\ value.completedEffects = persisted[c].completedEffects /\ value.pause = "none"
        /\ value.decisions = new /\ value.contractReviews = persisted[c].contractReviews
    BY <1>1 DEF RunCheckpoint
  <2> HIDE DEF value
  <2>3. Holds(pc[c], value, f, applied) /\ Quiet(value)
    BY <1>1, <2>1, <2>2 DEF Holds, Quiet
  <2>4. fresh[c] => Effects(value, applied)
    BY <2>1, <2>2, CurrentEffects DEF Effects
  <2> QED BY <1>1, <2>1, <2>3, <2>4, SavingWork
<1>3. CASE /\ persisted[c].decisions[f] # "none" /\ item' = [item EXCEPT ![c] = f]
           /\ UNCHANGED <<checkpoint, persisted, fresh, pc, visited, inRun>>
  <2>1. Holds(pc[c], persisted[c], f, applied') /\ Grows
    BY <1>1, <1>3, Standing DEF Holds
  <2>2. pc' = [pc EXCEPT ![c] = pc[c]]
    BY <1>3 DEF IInv, TypeOK
  <2> QED BY <1>3, <2>1, <2>2, Working
<1> QED BY <1>2, <1>3 DEF AskDecision

LEMMA RecordEffectWorks ==
  ASSUME IInv, EInv, NEW c \in Coordinator, RecordEffect(c) PROVE EInv'
<1> DEFINE done == persisted[c].completedEffects \cup {item[c]}
           value == [persisted[c] EXCEPT !.completedEffects = done]
<1>1. /\ SaveItem(c, value, pc[c], None) /\ applied' = applied /\ persisted[c].pause = "none"
      /\ applied[item[c]] = 1 \/ persisted[c].decisions[item[c]] # "none"
      /\ pc[c] \in {"followUps", "lastFollowUps"}
  BY HeldAt DEF RecordEffect, InFollowUps, Holds, world
<1>2. /\ value.completedEffects = done /\ value.pause = "none"
      /\ value.decisions = persisted[c].decisions
      /\ value.contractReviews = persisted[c].contractReviews
  BY <1>1, Seen DEF RunCheckpoint
<1> HIDE DEF value
<1>3. Holds(pc[c], value, None, applied) /\ Quiet(value)
  BY <1>1, <1>2 DEF Holds, Quiet
<1>4. fresh[c] => Effects(value, applied)
  BY <1>1, <1>2, CurrentEffects DEF Effects
<1> QED BY <1>1, <1>3, <1>4, SavingWork

LEMMA RecordReviewWorks ==
  ASSUME IInv, EInv, NEW c \in Coordinator, RecordReview(c) PROVE EInv'
<1> DEFINE r == IF persisted[c].contractReviews[item[c]] = "none" THEN "pending"
                ELSE persisted[c].contractReviews[item[c]]
           new == [persisted[c].contractReviews EXCEPT ![item[c]] = r]
           value == [persisted[c] EXCEPT !.stage = "review", !.contractReviews = new]
<1>1. /\ pc[c] = "record" /\ persisted[c] \in RunCheckpoint /\ item[c] \in FollowUp
      /\ applied' = applied /\ applied[item[c]] = 1 /\ persisted[c].pause = "none"
  BY Seen, HeldAt, FollowUpAssumption DEF RecordReview, At, Holds, world
<1>2. SaveItem(c, value, "reviewing", item[c])
  BY <1>1 DEF RecordReview, Save, RunCheckpoint
<1>3. \A f \in FollowUp : new[f] # "none" => persisted[c].contractReviews[f] # "none" \/ f = item[c]
  BY <1>1 DEF RunCheckpoint
<1> HIDE DEF r, new
<1>4. /\ value.completedEffects = persisted[c].completedEffects /\ value.pause = "none"
      /\ value.decisions = persisted[c].decisions /\ value.contractReviews = new
  BY <1>1 DEF RunCheckpoint
<1> HIDE DEF value
<1>5. Holds("reviewing", value, item[c], applied) /\ Quiet(value)
  BY <1>1, <1>4 DEF Holds, Quiet
<1>6. fresh[c] => Effects(value, applied)
  BY <1>1, <1>3, <1>4, CurrentEffects DEF Effects
<1> QED BY <1>1, <1>2, <1>5, <1>6, SavingWork


LEMMA ReviewedWorks ==
  ASSUME IInv, EInv, NEW c \in Coordinator, Reviewed(c) PROVE EInv'
<1> DEFINE v == persisted[c]
           after == IF inRun[c] THEN "decisions" ELSE "idle"
<1>1. /\ v \in RunCheckpoint /\ item[c] \in FollowUp /\ applied' = applied
      /\ applied[item[c]] = 1 /\ v.pause = "none" /\ after \in {"decisions", "idle"}
  BY Seen, HeldAt, FollowUpAssumption DEF Reviewed, At, Holds, world
<1>2. PICK new \in SUBSET FollowUp :
        \/ SaveItem(c, [v EXCEPT !.stage = "done", !.phase = "follow-ups",
                                 !.contractReviews[item[c]] = "approved",
                                 !.followUps = @ \cup new], after, None)
        \/ SaveItem(c, [v EXCEPT !.stage = "code", !.round = @ + 1, !.phase = "workflow",
                                 !.contractReviews[item[c]] = "changes_requested",
                                 !.followUps = @ \cup new], after, None)
  BY DEF Reviewed
<1> DEFINE all == v.followUps \cup new
           n == v.round + 1
           reviews(a) == [v.contractReviews EXCEPT ![item[c]] = a]
           approved == reviews("approved")
           rejected == reviews("changes_requested")
<1>3. \A f \in FollowUp :
        approved[f] # "none" \/ rejected[f] # "none" => v.contractReviews[f] # "none" \/ f = item[c]
  BY <1>1 DEF RunCheckpoint
<1>4. PICK value :
        /\ SaveItem(c, value, after, None)
        /\ \/ value = [v EXCEPT !.stage = "done", !.phase = "follow-ups",
                                !.contractReviews = approved, !.followUps = all]
           \/ value = [v EXCEPT !.stage = "code", !.round = n, !.phase = "workflow",
                                !.contractReviews = rejected, !.followUps = all]
  BY <1>1, <1>2 DEF RunCheckpoint
<1> HIDE DEF after, all, n, approved, rejected
<1>5. /\ value.completedEffects = v.completedEffects /\ value.pause = "none"
      /\ value.decisions = v.decisions /\ value.contractReviews \in {approved, rejected}
  BY <1>1, <1>4 DEF RunCheckpoint
<1>6. Holds(after, value, None, applied) /\ Quiet(value)
  BY <1>1, <1>5 DEF Holds, Quiet
<1>7. fresh[c] => Effects(value, applied)
  BY <1>1, <1>3, <1>5, CurrentEffects DEF Effects
<1> QED BY <1>1, <1>4, <1>6, <1>7, SavingWork

LEMMA UnresolvedWorks ==
  ASSUME IInv, EInv, NEW c \in Coordinator, Unresolved(c) PROVE EInv'
<1> DEFINE v == persisted[c]
<1>1. /\ v \in RunCheckpoint /\ item[c] \in FollowUp /\ applied' = applied
      /\ applied[item[c]] = 1 /\ v.pause = "none"
  BY Seen, HeldAt, FollowUpAssumption DEF Unresolved, At, Holds, world
<1>2. PICK new \in SUBSET FollowUp, capped \in BOOLEAN, verdict \in Reviews \ {"none"} :
        checkpoint' = IF fresh[c]
                      THEN [v EXCEPT !.contractReviews[item[c]] = verdict,
                                     !.followUps = @ \cup new, !.capped = capped]
                      ELSE checkpoint
  BY DEF Unresolved, Reviews
<1> DEFINE all == v.followUps \cup new
           reviews == [v.contractReviews EXCEPT ![item[c]] = verdict]
           value == [v EXCEPT !.contractReviews = reviews, !.followUps = all, !.capped = capped]
<1>3. checkpoint' = IF fresh[c] THEN value ELSE checkpoint
  BY <1>1, <1>2 DEF RunCheckpoint
<1>4. \A f \in FollowUp : reviews[f] # "none" => v.contractReviews[f] # "none" \/ f = item[c]
  BY <1>1 DEF RunCheckpoint
<1> HIDE DEF all, reviews
<1>5. /\ value.completedEffects = v.completedEffects /\ value.pause = "none"
      /\ value.decisions = v.decisions /\ value.contractReviews = reviews
  BY <1>1 DEF RunCheckpoint
<1> HIDE DEF value
<1>6. Effects(checkpoint', applied') /\ Quiet(checkpoint')
  <2>1. CASE fresh[c]
    BY <1>1, <1>3, <1>4, <1>5, <2>1, CurrentEffects DEF Effects, Quiet
  <2>2. CASE ~fresh[c]
    BY <1>1, <1>3, <2>2 DEF EInv
  <2> QED BY <2>1, <2>2
<1>7. /\ pc'[c] = "down" /\ persisted'[c] = Initial /\ item'[c] = None
      /\ \A d \in Coordinator \ {c} :
           pc'[d] = pc[d] /\ persisted'[d] = persisted[d] /\ item'[d] = item[d]
  BY DEF Unresolved, Goto, IInv, TypeOK
<1>8. Holds("down", Initial, None, applied') /\ Quiet(Initial)
  BY DEF Holds, Quiet, Initial
<1> QED BY <1>1, <1>6, <1>7, <1>8, Standing, OneWorks

LEMMA SettleWorks ==
  ASSUME IInv, EInv, NEW c \in Coordinator, Settle(c), ~Return(c) PROVE EInv'
<1>1. /\ Save(c, [persisted[c] EXCEPT !.phase = "closeout"], "closeout") /\ UNCHANGED world
      /\ pc[c] = "settle"
  BY DEF Settle
<1> QED BY <1>1, ClosingWorks

\* run returns.
LEMMA ReturnWorks ==
  ASSUME IInv, EInv, NEW c \in Coordinator, Return(c), item[c] = None PROVE EInv'
<1>1. /\ pc' = [pc EXCEPT ![c] = "idle"] /\ item' = [item EXCEPT ![c] = None]
      /\ persisted' = persisted /\ checkpoint' = checkpoint /\ applied' = applied
  BY DEF Return, Goto, world, IInv, TypeOK
<1>2. Holds("idle", persisted[c], None, applied')
  BY DEF Holds
<1> QED BY <1>1, <1>2, Standing, Working

LEMMA CloseoutWorks ==
  ASSUME IInv, EInv, NEW c \in Coordinator, Closeout(c) PROVE EInv'
<1>1. pc[c] = "closeout" /\ item[c] = None
  BY HeldAt DEF Closeout, Holds
<1>2. CASE Save(c, [persisted[c] EXCEPT !.phase = "complete"], "closeout") /\ UNCHANGED world
  BY <1>1, <1>2, ClosingWorks
<1>3. CASE Return(c)
  BY <1>1, <1>3, ReturnWorks
<1>4. CASE Drop(c) /\ UNCHANGED <<checkpoint, world>>
  BY <1>4, LeavingWork DEF world
<1> QED BY <1>2, <1>3, <1>4 DEF Closeout

LEMMA ConstructWorks ==
  ASSUME IInv, EInv, NEW c \in Coordinator, Construct(c) PROVE EInv'
<1>1. /\ pc'[c] = "idle" /\ persisted'[c] = checkpoint /\ item'[c] = None
      /\ checkpoint' = checkpoint /\ applied' = applied
      /\ \A d \in Coordinator \ {c} :
           pc'[d] = pc[d] /\ persisted'[d] = persisted[d] /\ item'[d] = item[d]
  BY HeldAt DEF Construct, Holds, Goto, locals, world, IInv, TypeOK
<1>2. Holds("idle", checkpoint, None, applied') /\ Quiet(checkpoint) /\ Effects(checkpoint, applied')
  BY <1>1 DEF Holds, EInv
<1> QED BY <1>1, <1>2, Standing, OneWorks

LEMMA RunWorks ==
  ASSUME IInv, EInv, NEW c \in Coordinator, Run(c) PROVE EInv'
<1> DEFINE l == CASE persisted[c].phase = "workflow"   -> "loop"
                  [] persisted[c].phase = "follow-ups" -> "followUps"
                  [] persisted[c].phase = "decisions"  -> "decisions"
                  [] OTHER                             -> "closeout"
<1>1. /\ pc' = [pc EXCEPT ![c] = l] /\ item' = [item EXCEPT ![c] = None]
      /\ persisted' = persisted /\ checkpoint' = checkpoint /\ applied' = applied
  BY HeldAt DEF Run, Goto, Holds, world, IInv, TypeOK
<1>2. l \in {"loop", "followUps", "decisions", "closeout"} /\ (l # "loop" => persisted[c].phase # "workflow")
  BY Seen DEF RunCheckpoint
<1> HIDE DEF l
<1>3. Holds(l, persisted[c], None, applied')
  BY <1>2, HeldAt DEF Holds, Quiet
<1> QED BY <1>1, <1>3, Standing, Working

LEMMA EndDecisionsWorks ==
  ASSUME IInv, EInv, NEW c \in Coordinator, EndDecisions(c) PROVE EInv'
<1> DEFINE l == CASE persisted[c].phase = "follow-ups" -> "lastFollowUps"
                  [] persisted[c].phase = "workflow"   -> "loop"
                  [] OTHER                             -> "settle"
<1>1. /\ pc' = [pc EXCEPT ![c] = l] /\ item' = [item EXCEPT ![c] = None]
      /\ persisted' = persisted /\ checkpoint' = checkpoint /\ applied' = applied
      /\ persisted[c].pause = "none"
  BY HeldAt DEF EndDecisions, Goto, Holds, world, IInv, TypeOK
<1>2. l \in {"loop", "lastFollowUps", "settle"}
  BY Seen DEF RunCheckpoint
<1> HIDE DEF l
<1>3. Holds(l, persisted[c], None, applied')
  BY <1>1, <1>2 DEF Holds
<1> QED BY <1>1, <1>3, Standing, Working

\* The other steps that save nothing.
LEMMA GoingWorks ==
  ASSUME IInv, EInv, NEW c \in Coordinator, NEW f,
         Pending(c) \/ StartStage(c) \/ AnswerAgain(c, f) \/ NextDecision(c, f)
  PROVE  EInv'
<1>1. PICK l \in {"choose", "waiting", "append"}, i \in {item[c], f} :
        /\ pc' = [pc EXCEPT ![c] = l] /\ item' = [item EXCEPT ![c] = i]
        /\ l # "append" => i = item[c] /\ pc[c] = "loop"
  BY DEF Pending, StartStage, AnswerAgain, NextDecision, Runnable, Goto, locals, IInv, TypeOK
<1>2. /\ persisted' = persisted /\ checkpoint' = checkpoint /\ applied' = applied
      /\ persisted[c].pause = "none"
  BY HeldAt DEF Pending, StartStage, AnswerAgain, NextDecision, Runnable, Holds, Quiet, locals, world
<1>3. Holds(l, persisted[c], i, applied')
  BY <1>1, <1>2, HeldAt DEF Holds
<1> QED BY <1>1, <1>2, <1>3, Standing, Working

LEMMA AppendContractWorks ==
  ASSUME IInv, EInv, NEW c \in Coordinator, AppendContract(c) PROVE EInv'
<1>1. /\ item[c] \in FollowUp /\ applied' = Applied(item[c]) /\ persisted[c].pause = "none"
      /\ pc' = [pc EXCEPT ![c] = "record"] /\ item' = [item EXCEPT ![c] = item[c]]
      /\ persisted' = persisted /\ checkpoint' = checkpoint
  BY HeldAt, Seen, FollowUpAssumption DEF AppendContract, At, Holds, Goto, locals, IInv, TypeOK
<1>2. Grows /\ applied'[item[c]] = 1
  BY <1>1, Applying
<1>3. Holds("record", persisted[c], item[c], applied')
  BY <1>1, <1>2 DEF Holds
<1> QED BY <1>1, <1>2, <1>3, Working

LEMMA ApplyEffectWorks ==
  ASSUME IInv, EInv, NEW c \in Coordinator, NEW f \in FollowUp, ApplyEffect(c, f) PROVE EInv'
<1>1. /\ pc[c] \in {"followUps", "lastFollowUps"} /\ applied' = Applied(f)
      /\ pc' = [pc EXCEPT ![c] = pc[c]] /\ item' = [item EXCEPT ![c] = f]
      /\ persisted' = persisted /\ checkpoint' = checkpoint /\ persisted[c].pause = "none"
  BY HeldAt DEF ApplyEffect, InFollowUps, Holds, IInv, TypeOK
<1>2. Grows /\ applied'[f] = 1
  BY <1>1, Applying
<1>3. Holds(pc[c], persisted[c], f, applied')
  BY <1>1, <1>2 DEF Holds
<1> QED BY <1>1, <1>2, <1>3, Working


LEMMA InitEffects == Init => EInv
<1> SUFFICES ASSUME Init PROVE EInv
  OBVIOUS
<1>1. Quiet(Initial) /\ Effects(Initial, applied) /\ applied \in [FollowUp -> 0..1]
  BY DEF Init, Initial, Quiet, Effects
<1>2. ASSUME NEW c \in Coordinator
      PROVE  Holds(pc[c], persisted[c], item[c], applied) /\ Quiet(persisted[c])
  BY <1>1 DEF Init, Holds
<1>3. Effects(checkpoint, applied) /\ Quiet(checkpoint)
  BY <1>1 DEF Init
<1> QED BY <1>1, <1>2, <1>3 DEF EInv

LEMMA StepEffects == IInv /\ EInv /\ [Next]_vars => EInv'
<1> SUFFICES ASSUME IInv, EInv, [Next]_vars PROVE EInv'
  OBVIOUS
<1>1. CASE UNCHANGED vars
  BY <1>1 DEF vars, locals, world, EInv
<1>2. ASSUME NEW c \in Coordinator, Drive(c) PROVE EInv'
  <2>1. CASE Paused(c)
    BY <2>1, HeldAt, ReturnWorks DEF Paused, Holds
  <2>2. CASE \/ Pending(c) \/ Ambiguous(c) \/ PrepareResearch(c) \/ Dispatch(c) \/ StartStage(c)
             \/ StageFails(c) \/ StageSucceeds(c) \/ CommitTransition(c)
    BY <2>2, GoingWorks, AmbiguousWorks, PrepareResearchWorks, DispatchWorks,
       StageFailsWorks, StageSucceedsWorks, CommitTransitionWorks
  <2>3. ASSUME NEW f \in FollowUp, AskDecision(c, f) \/ ApplyEffect(c, f) \/ NextDecision(c, f)
        PROVE  EInv'
    BY <2>3, AskDecisionWorks, ApplyEffectWorks, GoingWorks
  <2>4. CASE Settle(c) /\ Return(c)
    BY <2>4, HeldAt, ReturnWorks DEF Settle, Holds
  <2>5. CASE \/ RecordEffect(c) \/ EndFollowUps(c) \/ AppendContract(c) \/ RecordReview(c)
             \/ Reviewed(c) \/ Unresolved(c) \/ EndDecisions(c) \/ Settle(c) \/ Closeout(c)
    BY <2>4, <2>5, RecordEffectWorks, EndFollowUpsWorks, AppendContractWorks, RecordReviewWorks,
       ReviewedWorks, UnresolvedWorks, EndDecisionsWorks, SettleWorks, CloseoutWorks
  <2> QED BY <1>2, <2>1, <2>2, <2>3, <2>5 DEF Drive
<1>3. ASSUME NEW c \in Coordinator, Operate(c) PROVE EInv'
  <2>1. CASE Construct(c) \/ Run(c) \/ ResumeResearch(c) \/ ResumeStage(c) \/ ResumeRoundCap(c)
    BY <2>1, ConstructWorks, RunWorks, ResumeResearchWorks, ResumeStageWorks, ResumeRoundCapWorks
  <2>2. ASSUME NEW f \in FollowUp, Answer(c, f) \/ AnswerAgain(c, f) PROVE EInv'
    BY <2>2, AnswerWorks, GoingWorks
  <2> QED BY <1>3, <2>1, <2>2 DEF Operate
<1>4. ASSUME NEW c \in Coordinator, Interrupt(c) \/ Stop(c) PROVE EInv'
  BY <1>4, InterruptWorks, LeavingWork DEF Stop, world
<1> QED BY <1>1, <1>2, <1>3, <1>4 DEF Next

LEMMA EffectsInvariant == Spec => []EInv
BY InitEffects, StepEffects, Invariant, PTL DEF Spec

\* Backlog items, documents and contract texts (processFollowUps, resolveDecision)
\* are in the world at most once, and are there when the checkpoint says so, for
\* any number of coordinators that die between an effect and its record.
THEOREM EffectsOnce == Spec => []EffectsExactlyOnce
<1>1. EInv => EffectsExactlyOnce
  BY DEF EInv, Effects, EffectsExactlyOnce
<1> QED BY <1>1, EffectsInvariant, PTL

\* A save is from a view that is current.
LEMMA SavesAreCurrent ==
  ASSUME IInv, NEW c \in Coordinator, NEW value, NEW l, NEW i, SaveItem(c, value, l, i),
         checkpoint' # checkpoint
  PROVE  /\ persisted[c] = checkpoint /\ checkpoint' = value /\ pc' = [pc EXCEPT ![c] = l]
         /\ fresh[c]
BY DEF SaveItem, Written, Goto, IInv, Views

\* What an act that resumes a paused run changes.
LEMMA Resuming ==
  ASSUME IInv, NEW c \in Coordinator, ResumeResearch(c) \/ ResumeStage(c),
         checkpoint' # checkpoint
  PROVE  /\ pc[c] = "idle" /\ pc'[c] = "idle"
         /\ checkpoint' = [checkpoint EXCEPT !.pause = "none", !.research = checkpoint'.research]
<1> DEFINE r == IF persisted[c].research = "dispatched" THEN "prepared" ELSE persisted[c].research
<1>1. checkpoint \in RunCheckpoint /\ persisted[c] \in RunCheckpoint
  BY Seen DEF IInv, TypeOK
<1>2. PICK value : SaveItem(c, value, "idle", item[c])
                   /\ \/ value = [persisted[c] EXCEPT !.pause = "none", !.research = r]
                      \/ value = [persisted[c] EXCEPT !.pause = "none"]
  BY <1>1 DEF ResumeResearch, ResumeStage, Save, RunCheckpoint
<1> HIDE DEF r
<1>3. persisted[c] = checkpoint /\ checkpoint' = value /\ pc' = [pc EXCEPT ![c] = "idle"]
  BY <1>2, SavesAreCurrent
<1>4. checkpoint' = [checkpoint EXCEPT !.pause = "none", !.research = checkpoint'.research]
  BY <1>1, <1>2, <1>3 DEF RunCheckpoint
<1>5. pc[c] = "idle" /\ pc'[c] = "idle"
  BY <1>3 DEF ResumeResearch, ResumeStage, IInv, TypeOK
<1> QED BY <1>4, <1>5

\* Every other save is of a run that is not paused.
LEMMA UnpausedSaves ==
  ASSUME IInv, EInv, NEW c \in Coordinator, Drive(c) \/ Operate(c) \/ Interrupt(c) \/ Stop(c),
         checkpoint' # checkpoint, ~ResumeResearch(c), ~ResumeStage(c)
  PROVE  checkpoint.pause = "none"
<1>1. persisted[c] \in RunCheckpoint /\ Good(persisted[c])
      /\ Holds(pc[c], persisted[c], item[c], applied) /\ Quiet(persisted[c])
  BY Seen, HeldAt
<1>2. CASE Interrupt(c) \/ Ambiguous(c) \/ PrepareResearch(c)
  <2>1. persisted[c].pause = "none"
    BY <1>2 DEF Interrupt, Ambiguous, PrepareResearch, Runnable
  <2>2. \E value, l, i : SaveItem(c, value, l, i)
    BY <1>2 DEF Interrupt, Ambiguous, PrepareResearch, Save
  <2> QED BY <2>1, <2>2, SavesAreCurrent
<1>3. CASE ResumeRoundCap(c)
  <2>1. persisted[c].pause = "none"
    BY <1>1, <1>3 DEF ResumeRoundCap, Good, Quiet
  <2>2. \E value, l, i : SaveItem(c, value, l, i)
    BY <1>3 DEF ResumeRoundCap, Save
  <2> QED BY <2>1, <2>2, SavesAreCurrent
<1>4. ASSUME NEW f \in FollowUp, Answer(c, f) PROVE checkpoint.pause = "none"
  <2>1. persisted[c].pause = "none"
    BY <1>1, <1>4 DEF Answer, Quiet
  <2>2. \E value, l, i : SaveItem(c, value, l, i)
    BY <1>4 DEF Answer, Save
  <2> QED BY <2>1, <2>2, SavesAreCurrent
<1>5. CASE Dispatch(c)
  <2>1. persisted[c].pause = "none"
    BY <1>1, <1>5 DEF Dispatch, Runnable, Holds
  <2>2. \E value, l, i : SaveItem(c, value, l, i)
    BY <1>5 DEF Dispatch, Save
  <2> QED BY <2>1, <2>2, SavesAreCurrent
<1>6. CASE Unresolved(c)
  BY <1>1, <1>6 DEF Unresolved, Holds, IInv, Views
<1>7. CASE \/ StageFails(c) \/ StageSucceeds(c) \/ CommitTransition(c)
           \/ RecordEffect(c) \/ EndFollowUps(c) \/ RecordReview(c) \/ Reviewed(c)
           \/ Settle(c) \/ Closeout(c) \/ \E f \in FollowUp : AskDecision(c, f)
  <2>1. persisted[c].pause = "none"
    BY <1>1, <1>7 DEF Holds, StageFails, StageSucceeds, CommitTransition, RecordEffect,
       EndFollowUps, RecordReview, Reviewed, Settle, Closeout, AskDecision, InFollowUps
  <2>2. \E value, l, i : SaveItem(c, value, l, i)
    BY <1>7 DEF StageFails, StageSucceeds, CommitTransition, RecordEffect, EndFollowUps,
       RecordReview, Reviewed, Settle, Closeout, AskDecision, Save, Return
  <2> QED BY <2>1, <2>2, SavesAreCurrent
<1>8. ~(\/ Paused(c) \/ Pending(c) \/ StartStage(c) \/ AppendContract(c) \/ EndDecisions(c)
        \/ Construct(c) \/ Run(c) \/ Stop(c)
        \/ \E f \in FollowUp : ApplyEffect(c, f) \/ NextDecision(c, f) \/ AnswerAgain(c, f))
  BY DEF Paused, Pending, StartStage, AppendContract, EndDecisions, Construct, Run, Stop,
     ApplyEffect, NextDecision, AnswerAgain, Return
<1> QED BY <1>2, <1>3, <1>4, <1>5, <1>6, <1>7, <1>8 DEF Drive, Operate

\* A pause holds against everything but the act that resumes the run
\* (PAUSES_CLEARED_BY_AN_EXPLICIT_ACT, resumeResearch), however many coordinators
\* drive it from whatever views.
THEOREM PausesHold == Spec => PausedUntilResumed
<1>1. IInv /\ EInv /\ [Next]_vars =>
        [checkpoint.pause # "none" /\ checkpoint' # checkpoint =>
          /\ \E c \in Coordinator : pc[c] = "idle" /\ pc'[c] = "idle"
          /\ checkpoint' = [checkpoint EXCEPT !.pause = "none",
                                              !.research = checkpoint'.research]]_vars
  <2> SUFFICES ASSUME IInv, EInv, Next, checkpoint.pause # "none", checkpoint' # checkpoint
               PROVE  /\ \E c \in Coordinator : pc[c] = "idle" /\ pc'[c] = "idle"
                      /\ checkpoint' = [checkpoint EXCEPT !.pause = "none",
                                                          !.research = checkpoint'.research]
    OBVIOUS
  <2>1. PICK c \in Coordinator : Drive(c) \/ Operate(c) \/ Interrupt(c) \/ Stop(c)
    BY DEF Next
  <2>2. ResumeResearch(c) \/ ResumeStage(c)
    BY <2>1, UnpausedSaves
  <2> QED BY <2>2, Resuming
<1> QED BY <1>1, Invariant, EffectsInvariant, PTL DEF Spec, PausedUntilResumed

-----------------------------------------------------------------------------
(* The progress a host sees (RunProgress).                                  *)

\* Points at which a coordinator takes the run's decisions, or takes one up.
Deciding == {"decisions", "append", "record", "reviewing"}

\* A run that left its workflow is over, or back at its review; a step that waits
\* for its driver offers what follows its stage.
Placed(v) ==
  /\ v.phase # "workflow" => v.stage \in {"review", "done"}
  /\ v.pendingStep.to \subseteq Progress!After(v.stage)

\* Decisions are taken of work that was coded.
PlacedAt(l, v) == l \in Deciding => v.stage \in {"code", "review", "done"}

Where ==
  /\ Placed(checkpoint)
  /\ \A c \in Coordinator : Placed(persisted[c]) /\ PlacedAt(pc[c], persisted[c])

Progresses == [Progress!ProgressNext]_(Progress!progress)

LEMMA InitWhere == Init => Where
BY DEF Init, Initial, Where, Placed, PlacedAt, Deciding, NoStep

LEMMA Steady ==
  ASSUME checkpoint' = checkpoint PROVE Progresses
BY DEF Progresses, Progress!progress

\* A step of one coordinator.
LEMMA OnePlaced ==
  ASSUME Where, NEW c \in Coordinator, Placed(checkpoint'), Placed(persisted'[c]),
         PlacedAt(pc'[c], persisted'[c]),
         \A d \in Coordinator \ {c} : pc'[d] = pc[d] /\ persisted'[d] = persisted[d]
  PROVE  Where'
BY DEF Where

\* A step that saves nothing.
LEMMA GoingPlaced ==
  ASSUME IInv, Where, NEW c \in Coordinator, NEW l, pc' = [pc EXCEPT ![c] = l],
         persisted' = persisted, checkpoint' = checkpoint, PlacedAt(l, persisted[c])
  PROVE  Where' /\ Progresses
<1>1. pc'[c] = l /\ \A d \in Coordinator \ {c} : pc'[d] = pc[d]
  BY DEF IInv, TypeOK
<1> QED BY <1>1, OnePlaced, Steady DEF Where

LEMMA LeavingPlaced ==
  ASSUME IInv, Where, NEW c \in Coordinator, Drop(c), checkpoint' = checkpoint
  PROVE  Where' /\ Progresses
<1>1. /\ pc'[c] = "down" /\ persisted'[c] = Initial
      /\ \A d \in Coordinator \ {c} : pc'[d] = pc[d] /\ persisted'[d] = persisted[d]
  BY DEF Drop, Goto, IInv, TypeOK
<1>2. Placed(Initial) /\ PlacedAt("down", Initial)
  BY DEF Placed, PlacedAt, Deciding, Initial, NoStep
<1> QED BY <1>1, <1>2, OnePlaced, Steady DEF Where

LEMMA SavingPlaced ==
  ASSUME IInv, Where, NEW c \in Coordinator, NEW value, NEW l, NEW i, SaveItem(c, value, l, i),
         Placed(value), PlacedAt(l, value)
  PROVE  Where' /\ checkpoint' = value /\ persisted[c] = checkpoint
<1>1. /\ pc'[c] = l /\ persisted'[c] = value /\ checkpoint' = value /\ persisted[c] = checkpoint
      /\ \A d \in Coordinator \ {c} : pc'[d] = pc[d] /\ persisted'[d] = persisted[d]
  BY DEF SaveItem, Written, Goto, IInv, TypeOK, Views
<1> QED BY <1>1, OnePlaced

\* The save leaves the run at its stage, which is not over if it is paused there.
Keeps(v, w) ==
  /\ w.stage = v.stage /\ w.round = v.round /\ w.pendingStep = v.pendingStep
  /\ w.phase # "workflow" => v.phase # "workflow"
  /\ v.pause = "none" /\ w.pause # "none" => v.stage # "done"

LEMMA KeepingPlaced ==
  ASSUME IInv, Where, NEW c \in Coordinator, NEW value, NEW l, NEW i, SaveItem(c, value, l, i),
         Keeps(persisted[c], value), PlacedAt(l, persisted[c])
  PROVE  Where' /\ Progresses
<1>1. Placed(value) /\ PlacedAt(l, value)
  BY DEF Keeps, Where, Placed, PlacedAt
<1>2. Where' /\ checkpoint' = value /\ Keeps(checkpoint, value)
  BY <1>1, SavingPlaced
<1> QED BY <1>2 DEF Keeps, Progresses, Progress!progress, Progress!ProgressNext,
                    Progress!Pause, Progress!Resume

\* What a checkpoint's parts are, whoever writes them.
LEMMA KeepingValues ==
  ASSUME NEW v \in RunCheckpoint, NEW a, NEW b
  PROVE  /\ v.stage # "done" \/ a = "none" => Keeps(v, [v EXCEPT !.pause = a])
         /\ Keeps(v, [v EXCEPT !.research = a]) /\ Keeps(v, [v EXCEPT !.completedEffects = a])
         /\ Keeps(v, [v EXCEPT !.decisions = a])
         /\ v.phase # "workflow" => Keeps(v, [v EXCEPT !.phase = a])
         /\ Keeps(v, [v EXCEPT !.contractReviews = a, !.followUps = b])
BY DEF RunCheckpoint, Keeps

\* A pause that begins or ends.
LEMMA PausesProgress ==
  ASSUME IInv, Where, NEW c \in Coordinator,
         \/ Interrupt(c) \/ Ambiguous(c) \/ StageFails(c) \/ ResumeStage(c) \/ ResumeResearch(c)
  PROVE  Where' /\ Progresses
<1>1. /\ persisted[c] \in RunCheckpoint
      /\ pc[c] = "waiting" => persisted[c].stage # "done"
      /\ \A l \in {"loop", "idle"} : PlacedAt(l, persisted[c])
  BY Seen DEF At, PlacedAt, Deciding
<1>2. CASE Interrupt(c) \/ Ambiguous(c) \/ StageFails(c) \/ ResumeStage(c)
  <2>1. PICK p \in Pauses, l \in {"loop", "idle"} :
          /\ SaveItem(c, [persisted[c] EXCEPT !.pause = p], l, item[c])
          /\ persisted[c].stage # "done" \/ p = "none"
    <3>1. CASE Interrupt(c) \/ Ambiguous(c)
      BY <3>1 DEF Interrupt, Ambiguous, Runnable, Save
    <3>2. CASE StageFails(c)
      <4>1. PICK p \in Pauses : Save(c, [persisted[c] EXCEPT !.pause = p], "loop")
        BY <3>2 DEF StageFails
      <4>2. persisted[c].stage # "done"
        BY <1>1, <3>2 DEF StageFails
      <4> QED BY <4>1, <4>2 DEF Save
    <3>3. CASE ResumeStage(c)
      BY <3>3 DEF ResumeStage, Save
    <3> QED BY <1>2, <3>1, <3>2, <3>3
  <2>2. Keeps(persisted[c], [persisted[c] EXCEPT !.pause = p])
    BY <1>1, <2>1 DEF Keeps, RunCheckpoint
  <2> QED BY <1>1, <2>1, <2>2, KeepingPlaced
<1>3. CASE ResumeResearch(c)
  <2> DEFINE r == IF persisted[c].research = "dispatched" THEN "prepared" ELSE persisted[c].research
  <2>1. SaveItem(c, [persisted[c] EXCEPT !.pause = "none", !.research = r], "idle", item[c])
    BY <1>1, <1>3 DEF ResumeResearch, Save, RunCheckpoint
  <2> HIDE DEF r
  <2>2. Keeps(persisted[c], [persisted[c] EXCEPT !.pause = "none", !.research = r])
    BY <1>1 DEF Keeps, RunCheckpoint
  <2> QED BY <1>1, <2>1, <2>2, KeepingPlaced
<1> QED BY <1>2, <1>3

LEMMA ResearchProgress ==
  ASSUME IInv, Where, NEW c \in Coordinator, PrepareResearch(c) \/ Dispatch(c)
  PROVE  Where' /\ Progresses
<1>1. /\ persisted[c] \in RunCheckpoint
      /\ \A l \in {"loop", "dispatch", "waiting"} : PlacedAt(l, persisted[c])
  BY Seen DEF PlacedAt, Deciding
<1>2. CASE Save(c, [persisted[c] EXCEPT !.pause = "research"], "loop") /\ Runnable(c)
  <2>1. Keeps(persisted[c], [persisted[c] EXCEPT !.pause = "research"])
    BY <1>1, <1>2, KeepingValues DEF Runnable
  <2> QED BY <1>1, <1>2, <2>1, KeepingPlaced DEF Save
<1>3. CASE \E r \in {"prepared", "dispatched"}, l \in {"dispatch", "waiting"} :
             Save(c, [persisted[c] EXCEPT !.research = r], l)
  <2>1. PICK r \in {"prepared", "dispatched"}, l \in {"dispatch", "waiting"} :
          SaveItem(c, [persisted[c] EXCEPT !.research = r], l, item[c])
    BY <1>3 DEF Save
  <2>2. Keeps(persisted[c], [persisted[c] EXCEPT !.research = r])
    BY <1>1, KeepingValues
  <2> QED BY <1>1, <2>1, <2>2, KeepingPlaced
<1> QED BY <1>2, <1>3 DEF PrepareResearch, Dispatch

LEMMA FollowUpsProgress ==
  ASSUME IInv, Where, NEW c \in Coordinator, NEW f,
         AskDecision(c, f) \/ RecordEffect(c) \/ EndFollowUps(c)
  PROVE  Where' /\ Progresses
<1>1. /\ persisted[c] \in RunCheckpoint /\ persisted[c].phase = "follow-ups"
      /\ pc[c] \in {"followUps", "lastFollowUps"} /\ item[c] \in FollowUp \cup {None}
      /\ \A l : PlacedAt(l, persisted[c])
  BY Seen DEF AskDecision, RecordEffect, EndFollowUps, InFollowUps, At, Where, Placed, PlacedAt
<1>2. CASE AskDecision(c, f)
  <2>1. CASE SaveItem(c, [persisted[c] EXCEPT !.decisions[f] = "pending"], pc[c], f)
    <3> DEFINE new == [persisted[c].decisions EXCEPT ![f] = "pending"]
    <3>1. SaveItem(c, [persisted[c] EXCEPT !.decisions = new], pc[c], f)
      BY <1>1, <2>1 DEF RunCheckpoint
    <3> HIDE DEF new
    <3>2. Keeps(persisted[c], [persisted[c] EXCEPT !.decisions = new])
      BY <1>1, KeepingValues
    <3> QED BY <1>1, <3>1, <3>2, KeepingPlaced
  <2>2. CASE UNCHANGED <<checkpoint, persisted, fresh, pc, visited, inRun>>
    BY <2>2, Steady DEF Where
  <2> QED BY <1>2, <2>1, <2>2 DEF AskDecision
<1>3. CASE RecordEffect(c)
  <2> DEFINE new == persisted[c].completedEffects \cup {item[c]}
  <2>1. SaveItem(c, [persisted[c] EXCEPT !.completedEffects = new], pc[c], None)
    BY <1>1, <1>3 DEF RecordEffect, RunCheckpoint
  <2> HIDE DEF new
  <2>2. Keeps(persisted[c], [persisted[c] EXCEPT !.completedEffects = new])
    BY <1>1, KeepingValues
  <2> QED BY <1>1, <2>1, <2>2, KeepingPlaced
<1>4. CASE EndFollowUps(c)
  <2>1. PICK p, l : SaveItem(c, [persisted[c] EXCEPT !.phase = p], l, item[c])
    BY <1>4 DEF EndFollowUps, Save
  <2>2. Keeps(persisted[c], [persisted[c] EXCEPT !.phase = p])
    BY <1>1, KeepingValues
  <2> QED BY <1>1, <2>1, <2>2, KeepingPlaced
<1> QED BY <1>2, <1>3, <1>4

LEMMA ClosingProgress ==
  ASSUME IInv, Where, NEW c \in Coordinator, Settle(c) \/ Closeout(c) \/ Paused(c)
  PROVE  Where' /\ Progresses
<1>1. CASE Return(c)
  BY <1>1, GoingPlaced DEF Return, Goto, PlacedAt, Deciding
<1>2. CASE Drop(c) /\ UNCHANGED <<checkpoint, world>>
  BY <1>2, LeavingPlaced
<1>3. CASE \E p : Save(c, [persisted[c] EXCEPT !.phase = p], "closeout") /\ ~Paused(c)
  <2>1. persisted[c] \in RunCheckpoint /\ persisted[c].phase # "workflow"
    BY <1>3, Seen DEF Settle, Closeout, At
  <2>2. PICK p : SaveItem(c, [persisted[c] EXCEPT !.phase = p], "closeout", item[c])
    BY <1>3 DEF Save
  <2>3. Keeps(persisted[c], [persisted[c] EXCEPT !.phase = p])
    BY <2>1, KeepingValues
  <2> QED BY <2>2, <2>3, KeepingPlaced DEF PlacedAt, Deciding
<1> QED BY <1>1, <1>2, <1>3 DEF Settle, Closeout, Paused

LEMMA AnswerProgress ==
  ASSUME IInv, Where, NEW c \in Coordinator, NEW f \in FollowUp, Answer(c, f)
  PROVE  Where' /\ Progresses
<1>1. PICK d \in {"accepted", "rejected"}, l \in {"append", "idle"}, i \in {f, item[c]} :
        SaveItem(c, [persisted[c] EXCEPT !.decisions[f] = d], l, i)
  BY DEF Answer, Save
<1>2. persisted[c] \in RunCheckpoint /\ PlacedAt(l, persisted[c])
  BY Seen DEF Answer, Where, Placed, PlacedAt
<1> DEFINE new == [persisted[c].decisions EXCEPT ![f] = d]
<1>3. SaveItem(c, [persisted[c] EXCEPT !.decisions = new], l, i)
  BY <1>1, <1>2 DEF RunCheckpoint
<1> HIDE DEF new
<1>4. Keeps(persisted[c], [persisted[c] EXCEPT !.decisions = new])
  BY <1>2, KeepingValues
<1> QED BY <1>2, <1>3, <1>4, KeepingPlaced

\* The steps that save nothing.
LEMMA MovesProgress ==
  ASSUME IInv, Where, NEW c \in Coordinator, NEW f,
         \/ Pending(c) \/ StartStage(c) \/ ApplyEffect(c, f) \/ NextDecision(c, f)
         \/ AnswerAgain(c, f) \/ AppendContract(c) \/ EndDecisions(c) \/ Run(c)
  PROVE  Where' /\ Progresses
<1>1. /\ persisted[c] \in RunCheckpoint /\ pc[c] \in PCs
      /\ persisted[c].phase # "workflow" => persisted[c].stage \in {"review", "done"}
      /\ pc[c] \in Deciding => persisted[c].stage \in {"code", "review", "done"}
  BY Seen DEF Where, Placed, PlacedAt
<1>2. persisted' = persisted /\ checkpoint' = checkpoint
  BY DEF Pending, StartStage, ApplyEffect, NextDecision, AnswerAgain, AppendContract, EndDecisions, Run
<1>3. CASE ApplyEffect(c, f)
  BY <1>2, <1>3, Steady DEF ApplyEffect, Where
<1>4. CASE Pending(c) \/ StartStage(c) \/ EndDecisions(c)
  <2>1. PICK l \in {"choose", "waiting", "lastFollowUps", "loop", "settle"} : pc' = [pc EXCEPT ![c] = l]
    BY <1>4 DEF Pending, StartStage, EndDecisions, Goto
  <2> QED BY <1>2, <2>1, GoingPlaced DEF PlacedAt, Deciding
<1>5. CASE NextDecision(c, f) \/ AnswerAgain(c, f) \/ AppendContract(c)
  <2>1. PICK l \in {"append", "record"} : pc' = [pc EXCEPT ![c] = l]
    BY <1>5 DEF NextDecision, AnswerAgain, AppendContract, Goto
  <2>2. persisted[c].stage \in {"code", "review", "done"}
    BY <1>1, <1>5 DEF NextDecision, AnswerAgain, AppendContract, Deciding
  <2> QED BY <1>2, <2>1, <2>2, GoingPlaced DEF PlacedAt
<1>6. CASE Run(c)
  <2>1. PICK l : /\ pc' = [pc EXCEPT ![c] = l]
                 /\ l \in Deciding => persisted[c].phase # "workflow"
    BY <1>6 DEF Run, Goto, Deciding
  <2> QED BY <1>1, <1>2, <2>1, GoingPlaced DEF PlacedAt
<1> QED BY <1>3, <1>4, <1>5, <1>6

LEMMA ConstructProgress ==
  ASSUME IInv, Where, NEW c \in Coordinator, Construct(c) PROVE Where' /\ Progresses
<1>1. /\ pc'[c] = "idle" /\ persisted'[c] = checkpoint /\ checkpoint' = checkpoint
      /\ \A d \in Coordinator \ {c} : pc'[d] = pc[d] /\ persisted'[d] = persisted[d]
  BY DEF Construct, Goto, IInv, TypeOK
<1> QED BY <1>1, OnePlaced, Steady DEF Where, PlacedAt, Deciding

\* A stage that succeeds offers what follows it.
LEMMA StageOffersProgress ==
  ASSUME IInv, Where, NEW c \in Coordinator, StageSucceeds(c)
  PROVE  Where' /\ Progresses
<1> DEFINE v == persisted[c]
<1>1. v \in RunCheckpoint /\ v.phase = "workflow" /\ v.stage # "done"
  BY Seen DEF StageSucceeds, At
<1>2. \A s \in Offers(v) : v.stage # "review" => s.to \subseteq Progress!After(v.stage)
  BY <1>1 DEF RunCheckpoint, Offers, Rework, Progress!After
<1>3. /\ v.stage = "review" => Approval(v).to \subseteq Progress!After(v.stage)
      /\ v.stage = "review" => \A n : \A s \in Rejections(v, n) : s.to \subseteq Progress!After(v.stage)
  BY DEF Approval, Rejections, Rework, Rounds, Progress!After
<1>4. PICK step, reviews, new, r :
        /\ Save(c, [v EXCEPT !.pendingStep = step, !.contractReviews = reviews,
                             !.followUps = @ \cup new, !.research = r], "choose")
        /\ step.to \subseteq Progress!After(v.stage)
  BY <1>2, <1>3 DEF StageSucceeds
<1> DEFINE value == [v EXCEPT !.pendingStep = step, !.contractReviews = reviews,
                              !.followUps = @ \cup new, !.research = r]
<1>5. /\ value.pendingStep = step /\ value.stage = v.stage /\ value.round = v.round
      /\ value.phase = "workflow" /\ value.pause = v.pause
  BY <1>1 DEF RunCheckpoint
<1>6. SaveItem(c, value, "choose", item[c])
  BY <1>4 DEF Save
<1> HIDE DEF value
<1>7. Placed(value) /\ PlacedAt("choose", value)
  BY <1>4, <1>5 DEF Placed, PlacedAt, Deciding
<1>8. Where' /\ checkpoint' = value /\ v = checkpoint
  BY <1>6, <1>7, SavingPlaced
<1> QED BY <1>5, <1>8 DEF Progresses, Progress!progress

LEMMA CommitProgress ==
  ASSUME IInv, EInv, Where, NEW c \in Coordinator, CommitTransition(c)
  PROVE  Where' /\ Progresses
<1> DEFINE v == persisted[c]
<1>1. /\ v \in RunCheckpoint /\ v.pause = "none"
      /\ v.pendingStep.to \subseteq Progress!After(v.stage)
  BY Seen, HeldAt DEF CommitTransition, Holds, Where, Placed
<1>2. PICK s \in v.pendingStep.to :
        Save(c, [v EXCEPT !.phase = IF s = "done" THEN "follow-ups" ELSE "workflow",
                          !.stage = s,
                          !.round = IF s = "code" /\ v.stage \in {"code", "review"} THEN @ + 1 ELSE @,
                          !.capped = v.pendingStep.capped,
                          !.pendingStep = NoStep],
             IF s = "done" THEN "followUps" ELSE "loop")
  BY DEF CommitTransition
<1> DEFINE n == IF s = "code" /\ v.stage \in {"code", "review"} THEN v.round + 1 ELSE v.round
           m == v.pendingStep.capped
           p == IF s = "done" THEN "follow-ups" ELSE "workflow"
           l == IF s = "done" THEN "followUps" ELSE "loop"
           value == [v EXCEPT !.phase = p, !.stage = s, !.round = n, !.capped = m,
                              !.pendingStep = NoStep]
<1>3. SaveItem(c, value, l, item[c])
  BY <1>1, <1>2 DEF Save, RunCheckpoint
<1>4. l \notin Deciding /\ (p # "workflow" => s = "done")
  BY DEF Deciding
<1> HIDE DEF m, p, l, n
<1>5. /\ value.phase = p /\ value.stage = s /\ value.round = n /\ value.pause = "none"
      /\ value.pendingStep = NoStep
  BY <1>1 DEF RunCheckpoint
<1> HIDE DEF value
<1>6. Placed(value) /\ PlacedAt(l, value)
  BY <1>4, <1>5 DEF Placed, PlacedAt, NoStep
<1>7. Where' /\ checkpoint' = value /\ v = checkpoint
  BY <1>3, <1>6, SavingPlaced
<1>8. s \in Progress!After(v.stage)
  BY <1>1
<1> HIDE DEF v
<1> QED BY <1>1, <1>5, <1>7, <1>8
        DEF n, Progresses, Progress!progress, Progress!ProgressNext, Progress!Advance

LEMMA RoundCapProgress ==
  ASSUME IInv, EInv, Where, NEW c \in Coordinator, ResumeRoundCap(c)
  PROVE  Where' /\ Progresses
<1> DEFINE v == persisted[c]
           n == v.round + 1
           value == [v EXCEPT !.phase = "workflow", !.stage = "code", !.round = n,
                              !.capped = FALSE, !.pendingStep = NoStep]
<1>1. v \in RunCheckpoint /\ v.stage = "done" /\ v.pause = "none"
  BY Seen, HeldAt DEF ResumeRoundCap, Good, Quiet
<1>2. SaveItem(c, value, "idle", item[c])
  BY <1>1 DEF ResumeRoundCap, Save, RunCheckpoint
<1> HIDE DEF n
<1>3. /\ value.phase = "workflow" /\ value.stage = "code" /\ value.round = n
      /\ value.pendingStep = NoStep /\ value.pause = "none"
  BY <1>1 DEF RunCheckpoint
<1> HIDE DEF value
<1>4. Placed(value) /\ PlacedAt("idle", value)
  BY <1>3 DEF Placed, PlacedAt, Deciding, NoStep
<1>5. Where' /\ checkpoint' = value /\ v = checkpoint
  BY <1>2, <1>4, SavingPlaced
<1> QED BY <1>1, <1>3, <1>5
        DEF n, Progresses, Progress!progress, Progress!ProgressNext, Progress!Reopen

\* A contract sends the run to its review.
LEMMA RecordReviewProgress ==
  ASSUME IInv, EInv, Where, NEW c \in Coordinator, RecordReview(c)
  PROVE  Where' /\ Progresses
<1> DEFINE v == persisted[c]
           r == IF v.contractReviews[item[c]] = "none" THEN "pending" ELSE v.contractReviews[item[c]]
           new == [v.contractReviews EXCEPT ![item[c]] = r]
           value == [v EXCEPT !.stage = "review", !.contractReviews = new]
<1>1. /\ v \in RunCheckpoint /\ item[c] \in FollowUp /\ v.pause = "none"
      /\ v.stage \in {"code", "review", "done"} /\ v.pendingStep = NoStep
  BY Seen, HeldAt, FollowUpAssumption DEF RecordReview, At, Holds, Where, PlacedAt, Deciding
<1>2. SaveItem(c, value, "reviewing", item[c])
  BY <1>1 DEF RecordReview, Save, RunCheckpoint
<1> HIDE DEF r, new
<1>3. /\ value.stage = "review" /\ value.round = v.round /\ value.pause = "none"
      /\ value.pendingStep = NoStep
  BY <1>1 DEF RunCheckpoint
<1> HIDE DEF value
<1>4. Placed(value) /\ PlacedAt("reviewing", value)
  BY <1>3 DEF Placed, PlacedAt, NoStep
<1>5. Where' /\ checkpoint' = value /\ v = checkpoint
  BY <1>2, <1>4, SavingPlaced
<1> QED BY <1>1, <1>3, <1>5
        DEF Progresses, Progress!progress, Progress!ProgressNext, Progress!Advance,
            Progress!Reopen, Progress!After

LEMMA ReviewedProgress ==
  ASSUME IInv, EInv, Where, NEW c \in Coordinator, Reviewed(c)
  PROVE  Where' /\ Progresses
<1> DEFINE v == persisted[c]
           after == IF inRun[c] THEN "decisions" ELSE "idle"
<1>1. /\ v \in RunCheckpoint /\ item[c] \in FollowUp /\ v.pause = "none"
      /\ v.stage = "review" /\ v.pendingStep = NoStep
  BY Seen, HeldAt, FollowUpAssumption DEF Reviewed, At, Holds
<1>2. PICK new \in SUBSET FollowUp :
        \/ SaveItem(c, [v EXCEPT !.stage = "done", !.phase = "follow-ups",
                                 !.contractReviews[item[c]] = "approved",
                                 !.followUps = @ \cup new], after, None)
        \/ SaveItem(c, [v EXCEPT !.stage = "code", !.round = @ + 1, !.phase = "workflow",
                                 !.contractReviews[item[c]] = "changes_requested",
                                 !.followUps = @ \cup new], after, None)
  BY DEF Reviewed
<1> DEFINE all == v.followUps \cup new
           n == v.round + 1
           reviews(a) == [v.contractReviews EXCEPT ![item[c]] = a]
           approved == reviews("approved")
           rejected == reviews("changes_requested")
<1>3. PICK value :
        /\ SaveItem(c, value, after, None)
        /\ \/ value = [v EXCEPT !.stage = "done", !.phase = "follow-ups",
                                !.contractReviews = approved, !.followUps = all]
           \/ value = [v EXCEPT !.stage = "code", !.round = n, !.phase = "workflow",
                                !.contractReviews = rejected, !.followUps = all]
  BY <1>1, <1>2 DEF RunCheckpoint
<1> HIDE DEF after, all, n, approved, rejected
<1>4. /\ value.pause = "none" /\ value.pendingStep = NoStep
      /\ \/ value.stage = "done" /\ value.phase = "follow-ups" /\ value.round = v.round
         \/ value.stage = "code" /\ value.phase = "workflow" /\ value.round = n
  BY <1>1, <1>3 DEF RunCheckpoint
<1>5. Placed(value) /\ PlacedAt(after, value)
  BY <1>4 DEF Placed, PlacedAt, NoStep
<1>6. Where' /\ checkpoint' = value /\ v = checkpoint
  BY <1>3, <1>5, SavingPlaced
<1> QED BY <1>1, <1>4, <1>6
        DEF n, Progresses, Progress!progress, Progress!ProgressNext, Progress!Advance, Progress!After

LEMMA UnresolvedProgress ==
  ASSUME IInv, Where, NEW c \in Coordinator, Unresolved(c)
  PROVE  Where' /\ Progresses
<1> DEFINE v == persisted[c]
<1>1. v \in RunCheckpoint /\ item[c] \in FollowUp
  BY Seen, FollowUpAssumption DEF Unresolved, At
<1>2. PICK new, capped, verdict :
        checkpoint' = IF fresh[c]
                      THEN [v EXCEPT !.contractReviews[item[c]] = verdict,
                                     !.followUps = @ \cup new, !.capped = capped]
                      ELSE checkpoint
  BY DEF Unresolved
<1>3. /\ checkpoint'.stage = checkpoint.stage /\ checkpoint'.round = checkpoint.round
      /\ checkpoint'.pause = checkpoint.pause /\ checkpoint'.phase = checkpoint.phase
      /\ checkpoint'.pendingStep = checkpoint.pendingStep
  <2>1. CASE fresh[c]
    BY <1>1, <1>2, <2>1 DEF IInv, Views, RunCheckpoint
  <2>2. CASE ~fresh[c]
    BY <1>2, <2>2
  <2> QED BY <2>1, <2>2
<1>4. /\ pc'[c] = "down" /\ persisted'[c] = Initial
      /\ \A d \in Coordinator \ {c} : pc'[d] = pc[d] /\ persisted'[d] = persisted[d]
  BY DEF Unresolved, Goto, IInv, TypeOK
<1>5. Placed(Initial) /\ PlacedAt("down", Initial)
  BY DEF Placed, PlacedAt, Deciding, Initial, NoStep
<1>6. Placed(checkpoint')
  BY <1>3 DEF Where, Placed
<1>7. Progresses
  BY <1>3 DEF Progresses, Progress!progress
<1> QED BY <1>4, <1>5, <1>6, <1>7, OnePlaced

LEMMA StepProgress ==
  ASSUME IInv, EInv, Where, [Next]_vars PROVE Where' /\ Progresses
<1>1. CASE UNCHANGED vars
  BY <1>1, Steady DEF vars, Where
<1>2. ASSUME NEW c \in Coordinator, Drive(c) PROVE Where' /\ Progresses
  <2>1. CASE \/ Paused(c) \/ Pending(c) \/ Ambiguous(c) \/ PrepareResearch(c) \/ Dispatch(c)
             \/ StartStage(c) \/ StageFails(c) \/ StageSucceeds(c) \/ CommitTransition(c)
    BY <2>1, ClosingProgress, MovesProgress, PausesProgress, ResearchProgress,
       StageOffersProgress, CommitProgress
  <2>2. ASSUME NEW f \in FollowUp, AskDecision(c, f) \/ ApplyEffect(c, f) \/ NextDecision(c, f)
        PROVE  Where' /\ Progresses
    BY <2>2, FollowUpsProgress, MovesProgress
  <2>3. CASE \/ RecordEffect(c) \/ EndFollowUps(c) \/ AppendContract(c) \/ RecordReview(c)
             \/ Reviewed(c) \/ Unresolved(c) \/ EndDecisions(c) \/ Settle(c) \/ Closeout(c)
    BY <2>3, FollowUpsProgress, MovesProgress, RecordReviewProgress, ReviewedProgress,
       UnresolvedProgress, ClosingProgress
  <2> QED BY <1>2, <2>1, <2>2, <2>3 DEF Drive
<1>3. ASSUME NEW c \in Coordinator, Operate(c) PROVE Where' /\ Progresses
  <2>1. CASE Construct(c) \/ Run(c) \/ ResumeResearch(c) \/ ResumeStage(c) \/ ResumeRoundCap(c)
    BY <2>1, ConstructProgress, MovesProgress, PausesProgress, RoundCapProgress
  <2>2. ASSUME NEW f \in FollowUp, Answer(c, f) \/ AnswerAgain(c, f) PROVE Where' /\ Progresses
    BY <2>2, AnswerProgress, MovesProgress
  <2> QED BY <1>3, <2>1, <2>2 DEF Operate
<1>4. ASSUME NEW c \in Coordinator, Interrupt(c) \/ Stop(c) PROVE Where' /\ Progresses
  BY <1>4, PausesProgress, LeavingPlaced DEF Stop
<1> QED BY <1>1, <1>2, <1>3, <1>4 DEF Next

LEMMA WhereInvariant == Spec => []Where
BY InitWhere, StepProgress, Invariant, EffectsInvariant, PTL DEF Spec

\* Any number of coordinators, from views of any age and dying anywhere, make of the
\* run on disk the progress that one session would (commitTransition, resolveDecision,
\* resumeRoundCap): a save from a view that is not current never moves it.
THEOREM Implementation == Spec => ImplementsRunProgress
<1>1. Init => Progress!ProgressInit
  BY DEF Init, Initial, Progress!ProgressInit
<1>2. IInv /\ EInv /\ Where /\ [Next]_vars => [Progress!ProgressNext]_(Progress!progress)
  BY StepProgress DEF Progresses
<1> QED BY <1>1, <1>2, Invariant, EffectsInvariant, WhereInvariant, PTL
        DEF Spec, ImplementsRunProgress, Progress!ProgressSpec
=============================================================================
