-------------------------- MODULE RunAndWaitProofs --------------------------
(***************************************************************************)
(* Proofs about StandaloneRun, for any number of launchers, and about        *)
(* WaitService, the waits for runs: any callers, intervals and deaths.       *)
(***************************************************************************)
EXTENDS StandaloneRun, WaitService, TLAPS

-----------------------------------------------------------------------------
(* Types.                                                                   *)

LEMMA InitType == Init => TypeOK
<1> SUFFICES ASSUME Init PROVE TypeOK
  OBVIOUS
<1>1. checkpoint \in Checkpoint /\ stopper \in Stops
  BY DEF Init, Checkpoint, Status, Stops
<1>2. pc \in [Launcher -> PCs]
  BY DEF Init, PCs
<1>3. error \in [Launcher -> Errors] /\ frame \in [Launcher -> {"start", "resume", "try"}]
  BY DEF Init, Errors
<1>4. owner \in [Launcher -> Launcher \cup {Gone, None}]
  BY DEF Init
<1>5. /\ session \in BOOLEAN /\ request \in BOOLEAN
      /\ overwritten \in BOOLEAN /\ unrecorded \subseteq Launcher
      /\ lease \in Launcher \cup {Gone, None}
      /\ fresh \in [Launcher -> BOOLEAN] /\ aborted \in [Launcher -> BOOLEAN]
      /\ submitted \in [Launcher -> BOOLEAN] /\ asked \in [Launcher -> BOOLEAN]
  BY DEF Init
<1> QED BY <1>1, <1>2, <1>3, <1>4, <1>5 DEF TypeOK

\* A write of a checkpoint, and who holds the lease after a launch or a release.
LEMMA WriteType ==
  ASSUME TypeOK, NEW p \in Launcher, NEW value \in Checkpoint, Write(p, value)
  PROVE  checkpoint' \in Checkpoint /\ fresh' \in [Launcher -> BOOLEAN]
BY DEF Write

LEMMA GotoType ==
  ASSUME TypeOK, NEW p \in Launcher, NEW l \in PCs, Goto(p, l)
  PROVE  pc' \in [Launcher -> PCs]
BY DEF TypeOK, Goto

LEMMA LaunchType ==
  ASSUME TypeOK, NEW p \in Launcher, NEW l \in PCs, NEW how \in {"start", "resume", "try"},
         Launch(p, l, how), checkpoint' \in Checkpoint, fresh' \in [Launcher -> BOOLEAN]
  PROVE  TypeOK'
<1>1. pc' \in [Launcher -> PCs]
  BY GotoType DEF Launch
<1>2. lease' \in Launcher \cup {Gone, None}
  BY DEF Launch, Renamed, TypeOK
<1>3. owner' \in [Launcher -> Launcher \cup {Gone, None}]
  BY DEF Launch, Renamed, TypeOK, Checkpoint
<1>4. /\ aborted' \in [Launcher -> BOOLEAN] /\ error' \in [Launcher -> Errors]
      /\ submitted' \in [Launcher -> BOOLEAN] /\ asked' \in [Launcher -> BOOLEAN]
      /\ frame' \in [Launcher -> {"start", "resume", "try"}]
  BY DEF Launch, TypeOK, Errors
<1>5. stopper' \in Stops
  <2>1. (stopper.same /\ stopper.target # p) \in BOOLEAN
    OBVIOUS
  <2> DEFINE b == stopper.same /\ stopper.target # p
  <2>2. stopper' = [stopper EXCEPT !.same = b]
    BY DEF Launch
  <2> HIDE DEF b
  <2>3. b \in BOOLEAN
    BY <2>1 DEF b
  <2> QED BY <2>2, <2>3 DEF TypeOK, Stops
<1>6. UNCHANGED <<session, request, overwritten>> /\ unrecorded' \subseteq Launcher
  BY DEF Launch, TypeOK
<1> QED BY <1>1, <1>2, <1>3, <1>4, <1>5, <1>6 DEF TypeOK

\* A step that only moves a process, or also the lease.
LEMMA OthersType ==
  ASSUME TypeOK, NEW p \in Launcher, NEW l \in PCs, Goto(p, l), others(p),
         checkpoint' \in Checkpoint, fresh' \in [Launcher -> BOOLEAN],
         session' \in BOOLEAN, request' \in BOOLEAN, lease' \in Launcher \cup {Gone, None}
  PROVE  TypeOK'
BY GotoType DEF TypeOK, others, history

LEMMA BeginType ==
  ASSUME TypeOK, NEW p \in Launcher, Start(p) \/ Resume(p)
  PROVE  TypeOK'
<1>1. CASE Start(p)
  <2>1. [checkpoint EXCEPT !.status = "starting", !.process = p] \in Checkpoint
    BY DEF TypeOK, Checkpoint, Status
  <2>2. checkpoint' \in Checkpoint /\ fresh' \in [Launcher -> BOOLEAN]
    BY <1>1, <2>1, WriteType DEF Start
  <2>3. Launch(p, "create", "start") /\ "create" \in PCs
    BY <1>1 DEF Start, PCs
  <2> QED BY <2>2, <2>3, LaunchType
<1>2. CASE Resume(p)
  <2> DEFINE id == Renamed(checkpoint.process, p)
  <2>1. id \in Launcher \cup {Gone, None}
    BY DEF Renamed, TypeOK, Checkpoint
  <2>2. checkpoint' = [checkpoint EXCEPT !.process = id] /\ fresh' = [fresh EXCEPT ![p] = TRUE]
    BY <1>2 DEF Resume
  <2>3. PICK l \in {"verdict", "adopt", "inspectStarting", "inspectSettling", "open"} :
          Launch(p, l, "resume")
    BY <1>2 DEF Resume
  <2> HIDE DEF id
  <2>4. checkpoint' \in Checkpoint /\ fresh' \in [Launcher -> BOOLEAN]
    BY <2>1, <2>2 DEF TypeOK, Checkpoint
  <2>5. l \in PCs
    BY DEF PCs
  <2> QED BY <2>3, <2>4, <2>5, LaunchType
<1> QED BY <1>1, <1>2

LEMMA LeaseType ==
  ASSUME TypeOK, NEW p \in Launcher, Release(p) \/ Claim(p) \/ UNCHANGED lease
  PROVE  lease' \in Launcher \cup {Gone, None}
BY DEF TypeOK, Release, Claim

\* A step of an attempt whose write, if it makes one, is of this checkpoint.
LEMMA MoveType ==
  ASSUME TypeOK, NEW p \in Launcher, NEW l \in PCs, Goto(p, l), others(p),
         checkpoint' \in Checkpoint, fresh' \in [Launcher -> BOOLEAN],
         Release(p) \/ Claim(p) \/ UNCHANGED lease,
         session' \in BOOLEAN, request' \in BOOLEAN
  PROVE  TypeOK'
BY LeaseType, OthersType

LEMMA OpenType ==
  ASSUME TypeOK, NEW p \in Launcher,
         Open(p) \/ OpenFails(p) \/ Finalize(p) \/ Reopen(p) \/ Project(p)
           \/ ConsumeStopRequest(p) \/ ReadForVerdict(p) \/ CloseVerdictSession(p)
  PROVE  TypeOK'
<1>1. /\ {"exited", "publish", "refused", "reopen", "project", "conclude",
          "verdictRead", "verdictWrite"} \subseteq PCs
      /\ checkpoint \in Checkpoint /\ fresh \in [Launcher -> BOOLEAN]
      /\ session \in BOOLEAN /\ request \in BOOLEAN
  BY DEF PCs, TypeOK
<1>2. PICK l \in PCs : Goto(p, l)
  BY <1>1 DEF Open, OpenFails, Finalize, Reopen, Project, ConsumeStopRequest, ReadForVerdict,
              CloseVerdictSession
<1>3. others(p) /\ UNCHANGED <<checkpoint, fresh>>
  BY DEF Open, OpenFails, Finalize, Reopen, Project, ConsumeStopRequest, ReadForVerdict,
         CloseVerdictSession, disk
<1>4. Release(p) \/ Claim(p) \/ UNCHANGED lease
  BY DEF Open, OpenFails, Finalize, Reopen, Project, ConsumeStopRequest, ReadForVerdict,
         CloseVerdictSession, disk
<1>5. session' \in BOOLEAN /\ request' \in BOOLEAN
  BY <1>1 DEF Open, OpenFails, Finalize, Reopen, Project, ConsumeStopRequest, ReadForVerdict,
              CloseVerdictSession, disk
<1> QED BY <1>1, <1>2, <1>3, <1>4, <1>5, MoveType

Writing == {"adopt", "refused", "publish", "settle", "conclude", "caught", "pausing", "verdictWrite"}

\* What a process writes is a checkpoint, and says what its writer has come to.
LEMMA RecordIs ==
  ASSUME TypeOK, NEW p \in Launcher, pc[p] \in Writing, NEW v \in NextRecord(p)
  PROVE  /\ v \in Checkpoint /\ v.verdict = checkpoint.verdict
         /\ v.process = IF pc[p] = "publish" THEN p ELSE checkpoint.process
         /\ v.settled = IF pc[p] = "settle" THEN TRUE
                        ELSE IF pc[p] = "conclude" THEN FALSE ELSE checkpoint.settled
         /\ pc[p] = "adopt" => v.status = "failed"
         /\ pc[p] = "publish" => v.status = IF checkpoint.settled THEN "settling" ELSE "running"
         /\ pc[p] = "settle" => v.status = "settling"
         /\ pc[p] = "conclude" => v.status \in {"complete", "paused"}
         /\ pc[p] \in {"refused", "caught"} => v.status \in {"paused", "failed"}
         /\ pc[p] = "pausing" => v.status = "paused"
         /\ pc[p] = "verdictWrite" => v.status = "complete"
<1>1. checkpoint \in Checkpoint /\ asked[p] \in BOOLEAN
  BY DEF TypeOK
<1>2. CASE pc[p] = "adopt"
  <2>1. v = [checkpoint EXCEPT !.status = "failed"]
    BY <1>2 DEF NextRecord
  <2> QED BY <1>1, <1>2, <2>1 DEF Checkpoint, Status
<1>3. CASE pc[p] = "refused"
  <2>1. \/ v = [checkpoint EXCEPT !.status = "paused", !.pause = "plain"]
        \/ v = [checkpoint EXCEPT !.status = "failed"]
    BY <1>3 DEF NextRecord
  <2> QED BY <1>1, <1>3, <2>1 DEF Checkpoint, Status
<1>4. CASE pc[p] = "publish"
  <2>1. v = [checkpoint EXCEPT !.status = IF checkpoint.settled THEN "settling" ELSE "running",
                               !.process = p, !.pause = "plain"]
    BY <1>4 DEF NextRecord
  <2> QED BY <1>1, <1>4, <2>1 DEF Checkpoint, Status
<1>5. CASE pc[p] = "settle"
  <2>1. v = [checkpoint EXCEPT !.status = "settling", !.settled = TRUE]
    BY <1>5 DEF NextRecord
  <2> QED BY <1>1, <1>5, <2>1 DEF Checkpoint, Status
<1>6. CASE pc[p] = "conclude"
  <2>1. \/ v = [checkpoint EXCEPT !.status = "complete", !.settled = FALSE, !.pause = "plain"]
        \/ \E why \in {"closeout", "plain"} :
             v = [checkpoint EXCEPT !.status = "paused", !.settled = FALSE, !.pause = why]
    BY <1>6 DEF NextRecord
  <2> QED BY <1>1, <1>6, <2>1 DEF Checkpoint, Status
<1>7. CASE pc[p] = "caught"
  <2>1. \/ v = [checkpoint EXCEPT !.status = "paused", !.pause = "plain"]
        \/ v = [checkpoint EXCEPT !.status = "failed"]
    BY <1>7 DEF NextRecord
  <2> QED BY <1>1, <1>7, <2>1 DEF Checkpoint, Status
<1>8. CASE pc[p] = "pausing"
  <2>1. v = [checkpoint EXCEPT !.status = "paused", !.pause = IF asked[p] THEN "stop" ELSE "plain"]
    BY <1>8 DEF NextRecord
  <2> QED BY <1>1, <1>8, <2>1 DEF Checkpoint, Status
<1>9. CASE pc[p] = "verdictWrite"
  <2>1. v = [checkpoint EXCEPT !.status = "complete", !.pause = "plain"]
    BY <1>9 DEF NextRecord
  <2> QED BY <1>1, <1>9, <2>1 DEF Checkpoint, Status
<1> QED BY <1>2, <1>3, <1>4, <1>5, <1>6, <1>7, <1>8, <1>9 DEF Writing

LEMMA WrittenType ==
  ASSUME TypeOK, NEW p \in Launcher, pc[p] \in Writing, \E written \in NextRecord(p) : Write(p, written)
  PROVE  checkpoint' \in Checkpoint /\ fresh' \in [Launcher -> BOOLEAN]
BY RecordIs, WriteType

\* The steps that record an outcome.
LEMMA RecordType ==
  ASSUME TypeOK, NEW p \in Launcher, Settle(p) \/ Conclude(p) \/ Caught(p) \/ CompleteVerdict(p)
  PROVE  TypeOK'
<1>1. /\ {"finalize", "exited", "verdict", "interrupted"} \subseteq PCs
      /\ checkpoint \in Checkpoint /\ fresh \in [Launcher -> BOOLEAN]
      /\ session \in BOOLEAN /\ request \in BOOLEAN
  BY DEF PCs, TypeOK
<1>2. pc[p] \in Writing
  BY DEF Settle, Conclude, Caught, CompleteVerdict, Writing
<1>3. \/ \E written \in NextRecord(p) : Write(p, written)
      \/ UNCHANGED <<checkpoint, fresh>>
  BY DEF Settle, Conclude, Caught, CompleteVerdict
<1>4. checkpoint' \in Checkpoint /\ fresh' \in [Launcher -> BOOLEAN]
  BY <1>1, <1>2, <1>3, WrittenType
<1>5. PICK l \in PCs : Goto(p, l)
  BY <1>1 DEF Settle, Conclude, Caught, CompleteVerdict
<1>6. /\ others(p) /\ UNCHANGED <<session, request>>
      /\ Release(p) \/ UNCHANGED lease
  BY DEF Settle, Conclude, Caught, CompleteVerdict
<1> QED BY <1>1, <1>4, <1>5, <1>6, MoveType

\* The steps that keep a history of what was not theirs to write.
LEMMA HistoryType ==
  ASSUME TypeOK, NEW p \in Launcher,
         Adopt(p) \/ Inspect(p) \/ RecordRefusal(p) \/ PauseInterrupted(p)
  PROVE  TypeOK'
<1>1. {"exited", "verdict", "open", "openOrCreate", "consumeStop"} \subseteq PCs
  BY DEF PCs
<1>2. CASE Refuse(p)
  BY <1>1, <1>2, OthersType DEF Refuse, disk, TypeOK
<1>3. CASE Inspect(p) /\ ~Refuse(p)
  <2>1. PICK l \in PCs : Goto(p, l)
    BY <1>1, <1>3 DEF Inspect
  <2>2. pc' \in [Launcher -> PCs]
    BY <2>1, GotoType
  <2>3. overwritten' = (overwritten \/ Live(owner[p]))
    BY <1>3 DEF Inspect
  <2>4. overwritten' \in BOOLEAN
    BY <2>3
  <2> QED BY <1>3, <2>2, <2>4 DEF Inspect, TypeOK, disk
<1>4. CASE Save(p) /\ pc[p] \in Writing
  <2>1. checkpoint' \in Checkpoint /\ fresh' \in [Launcher -> BOOLEAN]
    BY <1>4, WrittenType DEF Save
  <2>2. overwritten' = (overwritten \/ Disputes(p))
    BY <1>4 DEF Save
  <2>3. overwritten' \in BOOLEAN
    BY <2>2
  <2>4. PICK l \in PCs : Goto(p, l)
    BY <1>1, <1>4 DEF Adopt, Inspect, RecordRefusal, PauseInterrupted, Writing, Refuse
  <2>5. pc' \in [Launcher -> PCs]
    BY <2>4, GotoType
  <2>6. UNCHANGED <<session, lease, request, unrecorded, owner, aborted, error, submitted, frame, asked, stopper>>
    BY <1>4 DEF Adopt, Inspect, RecordRefusal, PauseInterrupted, Writing, Refuse, disk, others, history
  <2> QED BY <2>1, <2>3, <2>5, <2>6 DEF TypeOK
<1> QED BY <1>2, <1>3, <1>4 DEF Adopt, RecordRefusal, PauseInterrupted, Writing

\* The steps in which a role begins, is run and ends.
LEMMA OperateType ==
  ASSUME TypeOK, NEW p \in Launcher,
         Publish(p) \/ Consume(p) \/ ReadCloseout(p) \/ Escapes(p) \/ SubmitVerdict(p)
           \/ SaveUsage(p) \/ EndOperation(p) \/ FinalizeFails(p) \/ ReadStopRequest(p)
  PROVE  TypeOK'
<1>1. /\ {"exited", "operate", "consumeSettled", "consumeCloseout", "consumeRun", "readCloseout",
          "finalize", "settle", "caught", "pausing"} \subseteq PCs
      /\ {"none", "failed"} \subseteq Errors
  BY DEF PCs, Errors
<1>2. frame[p] \in {"start", "resume", "try"}
  BY DEF TypeOK
<1>3. CASE Publish(p)
  <2>1. pc[p] \in Writing
    BY <1>3 DEF Publish, Writing
  <2>2. checkpoint' \in Checkpoint /\ fresh' \in [Launcher -> BOOLEAN]
    BY <1>3, <2>1, WrittenType DEF Publish, TypeOK
  <2>3. PICK l \in PCs : Goto(p, l)
    BY <1>1, <1>3 DEF Publish
  <2>4. pc' \in [Launcher -> PCs]
    BY <2>3, GotoType
  <2>5. lease' \in Launcher \cup {Gone, None}
    BY <1>3, LeaseType DEF Publish
  <2>6. frame' \in [Launcher -> {"start", "resume", "try"}]
    BY <1>2, <1>3 DEF Publish, TypeOK
  <2> QED BY <1>3, <2>2, <2>4, <2>5, <2>6 DEF Publish, TypeOK, history
<1>4. CASE Consume(p)
  <2>1. PICK l \in PCs : Goto(p, l)
    BY <1>1, <1>4 DEF Consume, Operate
  <2>2. pc' \in [Launcher -> PCs]
    BY <2>1, GotoType
  <2>3. frame' \in [Launcher -> {"start", "resume", "try"}]
    BY <1>2, <1>4 DEF Consume, Operate, TypeOK
  <2> QED BY <1>4, <2>2, <2>3 DEF Consume, TypeOK, history
<1>5. CASE ReadCloseout(p) \/ Escapes(p)
  <2>1. PICK l \in PCs : Goto(p, l)
    BY <1>1, <1>5 DEF ReadCloseout, Escapes, Operate
  <2>2. pc' \in [Launcher -> PCs]
    BY <2>1, GotoType
  <2>3. frame' \in [Launcher -> {"start", "resume", "try"}]
    BY <1>2, <1>5 DEF ReadCloseout, Escapes, Operate, TypeOK
  <2>4. unrecorded' \subseteq Launcher
    BY <1>5 DEF ReadCloseout, Escapes, TypeOK, history
  <2> QED BY <1>5, <2>2, <2>3, <2>4 DEF ReadCloseout, Escapes, TypeOK, history, disk
<1>6. CASE SubmitVerdict(p)
  <2>1. [checkpoint EXCEPT !.verdict = TRUE] \in Checkpoint
    BY DEF TypeOK, Checkpoint
  <2>2. checkpoint' \in Checkpoint /\ fresh' \in [Launcher -> BOOLEAN]
    BY <1>6, <2>1, WriteType DEF SubmitVerdict, TypeOK
  <2>3. submitted' \in [Launcher -> BOOLEAN]
    BY <1>6 DEF SubmitVerdict, TypeOK
  <2> QED BY <1>6, <2>2, <2>3 DEF SubmitVerdict, TypeOK, history
<1>7. CASE SaveUsage(p)
  <2>1. checkpoint' \in Checkpoint /\ fresh' \in [Launcher -> BOOLEAN]
    BY <1>7, WriteType DEF SaveUsage, TypeOK
  <2> QED BY <1>7, <2>1 DEF SaveUsage, TypeOK, others, history
<1>8. CASE EndOperation(p)
  <2>1. PICK e \in Errors : /\ error' = [error EXCEPT ![p] = e]
                            /\ Goto(p, IF e = "none" THEN "settle" ELSE "caught")
    BY <1>8 DEF EndOperation
  <2>2. pc' \in [Launcher -> PCs]
    BY <1>1, <2>1, GotoType
  <2>3. error' \in [Launcher -> Errors]
    BY <2>1 DEF TypeOK
  <2>4. lease' \in Launcher \cup {Gone, None}
    BY <1>8, LeaseType DEF EndOperation
  <2> QED BY <1>8, <2>2, <2>3, <2>4 DEF EndOperation, TypeOK, history
<1>9. CASE FinalizeFails(p)
  <2>1. PICK l \in PCs : Goto(p, l)
    BY <1>1, <1>9 DEF FinalizeFails
  <2>2. pc' \in [Launcher -> PCs]
    BY <2>1, GotoType
  <2>3. error' \in [Launcher -> Errors]
    BY <1>1, <1>9 DEF FinalizeFails, TypeOK
  <2>4. lease' \in Launcher \cup {Gone, None}
    BY <1>9, LeaseType DEF FinalizeFails
  <2> QED BY <1>9, <2>2, <2>3, <2>4 DEF FinalizeFails, TypeOK, history
<1>10. CASE ReadStopRequest(p)
  <2>1. pc' \in [Launcher -> PCs]
    BY <1>1, <1>10, GotoType DEF ReadStopRequest
  <2> QED BY <1>10, <2>1 DEF ReadStopRequest, TypeOK, disk, history
<1> QED BY <1>3, <1>4, <1>5, <1>6, <1>7, <1>8, <1>9, <1>10

\* A save that throws, whether its record landed or not.
LEMMA ThrowType == ASSUME TypeOK, NEW p \in Launcher, SaveThrows(p) PROVE TypeOK'
<1>1. {"exited", "caught"} \subseteq PCs /\ "failed" \in Errors
  BY DEF PCs, Errors
<1>2. pc[p] \in Writing
  BY DEF SaveThrows, Saving, Writing
<1>3. checkpoint' \in Checkpoint /\ fresh' \in [Launcher -> BOOLEAN]
  BY <1>2, WrittenType DEF SaveThrows, TypeOK
<1>4. overwritten' \in BOOLEAN
  <2>1. \/ overwritten' = overwritten
        \/ overwritten' = (overwritten \/ Disputes(p) \/ (pc[p] = "conclude" /\ Recovers(p)))
    BY DEF SaveThrows
  <2>2. (overwritten \/ Disputes(p) \/ (pc[p] = "conclude" /\ Recovers(p))) \in BOOLEAN
    OBVIOUS
  <2> QED BY <2>1, <2>2 DEF TypeOK
<1>5. PICK l \in PCs : Goto(p, l)
  BY <1>1 DEF SaveThrows
<1>6. pc' \in [Launcher -> PCs]
  BY <1>5, GotoType
<1>7. lease' \in Launcher \cup {Gone, None}
  BY LeaseType DEF SaveThrows
<1>8. error' \in [Launcher -> Errors] /\ unrecorded' \subseteq Launcher
  BY <1>1 DEF SaveThrows, TypeOK
<1>9. UNCHANGED <<session, request, owner, aborted, submitted, frame, asked, stopper>>
  BY DEF SaveThrows
<1> QED BY <1>3, <1>4, <1>6, <1>7, <1>8, <1>9 DEF TypeOK

LEMMA AttemptType == ASSUME TypeOK, NEW p \in Launcher, Attempt(p) PROVE TypeOK'
BY OpenType, RecordType, HistoryType, OperateType, ThrowType DEF Attempt

\* What comes from outside.
LEMMA OutsideType ==
  ASSUME TypeOK, Stopping \/ DeleteSession \/ \E p \in Launcher : Dies(p) \/ Interrupt(p)
  PROVE  TypeOK'
<1>1. "down" \in PCs /\ stopper.target \in Launcher \cup {None}
  BY DEF PCs, TypeOK, Stops
<1>2. \A l \in {"idle", "verify", "witness", "signal", "wait", "confirm"} :
        [stopper EXCEPT !.at = l] \in Stops
  BY DEF TypeOK, Stops
<1>3. CASE StopFind
  <2>1. stopper' \in Stops
    BY <1>3 DEF StopFind, Stops
  <2> QED BY <1>3, <2>1 DEF StopFind, TypeOK, disk, local, history
<1>4. CASE StopVerify
  <2>1. stopper' \in Stops
    BY <1>2, <1>4 DEF StopVerify, StopAt
  <2> QED BY <1>4, <2>1 DEF StopVerify, TypeOK, disk, local, history
<1>5. CASE StopWitness
  <2>1. stopper' \in Stops
    BY <1>2, <1>5 DEF StopWitness, StopAt
  <2> QED BY <1>5, <2>1 DEF StopWitness, TypeOK, local, history
<1>6. CASE StopSignal
  <2>1. stopper' \in Stops
    BY <1>2, <1>6 DEF StopSignal, StopAt
  <2>2. aborted' \in [Launcher -> BOOLEAN] /\ request' \in BOOLEAN
    BY <1>6 DEF StopSignal, TypeOK
  <2> QED BY <1>6, <2>1, <2>2 DEF StopSignal, TypeOK, history
<1>7. CASE StopKill
  <2>1. stopper' \in Stops
    BY <1>2, <1>7 DEF StopKill, StopAt
  <2>2. pc' \in [Launcher -> PCs]
    BY <1>1, <1>7 DEF StopKill, TypeOK
  <2> QED BY <1>7, <2>1, <2>2 DEF StopKill, TypeOK, disk, local, history
<1>8. CASE StopConfirm
  <2>1. stopper' \in Stops
    BY <1>2, <1>8 DEF StopConfirm, StopAt
  <2>2. request' \in BOOLEAN
    BY <1>8 DEF StopConfirm
  <2> QED BY <1>8, <2>1, <2>2 DEF StopConfirm, TypeOK, local, history
<1>9. CASE DeleteSession
  BY <1>9 DEF DeleteSession, TypeOK, local, history
<1>10. ASSUME NEW p \in Launcher, Dies(p) PROVE TypeOK'
  <2>1. pc' \in [Launcher -> PCs]
    BY <1>1, <1>10, GotoType DEF Dies
  <2> QED BY <1>10, <2>1 DEF Dies, TypeOK, disk, local, history
<1>11. ASSUME NEW p \in Launcher, Interrupt(p) PROVE TypeOK'
  BY <1>11 DEF Interrupt, TypeOK, disk, history
<1> QED BY <1>3, <1>4, <1>5, <1>6, <1>7, <1>8, <1>9, <1>10, <1>11 DEF Stopping

LEMMA NextType == ASSUME TypeOK, [Next]_vars PROVE TypeOK'
<1>1. CASE UNCHANGED vars
  BY <1>1 DEF vars, disk, local, history, TypeOK
<1> QED BY <1>1, BeginType, AttemptType, OutsideType DEF Next

\* Every launch, write, signal and death leaves what the program may read.
THEOREM TypeCorrect == Spec => []TypeOK
BY InitType, NextType, PTL DEF Spec

-----------------------------------------------------------------------------
(* The inductive invariant.                                                 *)

\* A process that has read the checkpoint and has not published itself yet.
Reading == {"create", "adopt", "inspectStarting", "inspectSettling", "open", "openOrCreate", "refused", "publish"}
Resuming == {"adopt", "inspectStarting", "inspectSettling", "open", "openOrCreate"}
Before  == Reading \ {"adopt"}
Running == {"consumeRun", "consumeCloseout", "readCloseout", "operate"}
Driving == {"consumeSettled"} \cup Running
Closing == {"consumeSettled", "finalize", "reopen", "project", "conclude"}
Working == {"settle", "caught"} \cup Running \cup Closing
Verdicts == {"verdict", "verdictRead", "verdictWrite"}

\* The lease is with whoever drives the run, and the checkpoint names it.
Owned ==
  \A p \in Launcher :
    /\ pc[p] \in Driving \cup {"publish"} => lease = p /\ session
    /\ pc[p] \in Driving => checkpoint.process = p
    /\ Live(p) => checkpoint.status # "absent"

\* A verdict that is recorded is seen, or the view that misses it is stale.
VerdictSeen ==
  /\ checkpoint.status = "absent" => ~checkpoint.verdict /\ ~checkpoint.settled
  /\ \A p \in Launcher :
       /\ pc[p] \in Before /\ fresh[p] => ~checkpoint.verdict
       /\ pc[p] \in Running \ {"operate"} => ~checkpoint.verdict
       /\ pc[p] \in Verdicts \/ submitted[p] => checkpoint.verdict

\* What a resume needs when an attempt has ended.
Recorded ==
  \/ checkpoint.status \in {"paused", "failed", "complete"}
  \/ checkpoint.status = "settling" /\ checkpoint.settled
  \/ checkpoint.verdict

Concluded ==
  \A p \in Launcher :
    checkpoint.process = p =>
      /\ pc[p] \in {"consumeStop"} \cup Closing \/ (pc[p] = "exited" /\ p \notin unrecorded) => Recorded
      /\ frame[p] = "resume" => pc[p] \notin Reading
      /\ pc[p] \in Reading => pc[p] \in {"create", "refused", "publish"} /\ (fresh[p] \/ Recorded)

\* Until a process writes over what is not its own, the checkpoint says how far the
\* process that it names has come, and nobody else is anywhere near.
Followed ==
  ~overwritten =>
    \A p \in Launcher :
      /\ pc[p] \in Running => checkpoint.status = "running" /\ ~checkpoint.settled
      /\ pc[p] = "settle" => checkpoint.status = "running" /\ checkpoint.process = p
      /\ pc[p] \in Closing \cup {"caught"} =>
           \/ checkpoint.status = "complete" /\ checkpoint.verdict
           \/ checkpoint.process = p /\ checkpoint.status = "settling" /\ checkpoint.settled
           \/ checkpoint.process = p /\ checkpoint.status = "running" /\ pc[p] = "caught"
      /\ pc[p] \in Verdicts /\ checkpoint.status = "running" => checkpoint.process = p
      /\ pc[p] \in Working => \A q \in Launcher : pc[q] \in Working => p = q
      /\ pc[p] \in {"interrupted", "pausing"} /\ fresh[p] => \A q \in Launcher : pc[q] \notin Working

\* What a fresh view of the checkpoint tells.
Views ==
  \A p \in Launcher :
    /\ pc[p] \in Resuming => frame[p] = "resume"
    /\ fresh[p] =>
        /\ pc[p] \in Before => checkpoint.status # "running"
        /\ pc[p] \in {"create", "publish"} /\ frame[p] = "start" => ~checkpoint.settled
        /\ pc[p] \in {"inspectStarting", "inspectSettling"} => owner[p] = checkpoint.process
        /\ pc[p] \in {"create", "inspectStarting"} => checkpoint.status = "starting"
        /\ pc[p] = "inspectSettling" => checkpoint.status = "settling"
        /\ pc[p] \in {"open", "openOrCreate", "refused", "publish"} /\ checkpoint.status = "settling"
             => overwritten \/ ~Live(checkpoint.process)

IInv == TypeOK /\ Owned /\ VerdictSeen /\ Concluded /\ Views /\ Followed

LEMMA InitInv == Init => IInv
<1> SUFFICES ASSUME Init PROVE IInv
  OBVIOUS
<1>1. /\ \A p \in Launcher : pc[p] = "down" /\ ~fresh[p] /\ ~submitted[p]
      /\ checkpoint.status = "absent" /\ ~checkpoint.verdict /\ ~checkpoint.settled
  BY DEF Init
<1>2. Owned /\ VerdictSeen
  BY <1>1 DEF Owned, VerdictSeen, Driving, Running, Before, Reading, Verdicts, Live
<1>3. Concluded
  BY <1>1 DEF Concluded, Closing, Reading
<1>4. Views /\ Followed
  BY <1>1 DEF Views, Followed, Closing, Verdicts, Resuming, Working, Running
<1> QED BY <1>2, <1>3, <1>4, InitType DEF IInv

-----------------------------------------------------------------------------
(* What the steps that write more than once in their text come to.          *)

\* What its writer's step makes of the checkpoint.
Written(p) ==
  /\ pc[p] \in Writing
  /\ fresh' = [q \in Launcher |-> q = p]
  /\ checkpoint'.verdict = checkpoint.verdict
  /\ checkpoint'.process = IF pc[p] = "publish" THEN p ELSE checkpoint.process
  /\ checkpoint'.settled = IF pc[p] = "settle" THEN TRUE
                           ELSE IF pc[p] = "conclude" THEN FALSE ELSE checkpoint.settled
  /\ pc[p] = "adopt" => checkpoint'.status = "failed"
  /\ pc[p] = "publish" => checkpoint'.status = IF checkpoint.settled THEN "settling" ELSE "running"
  /\ pc[p] = "settle" => checkpoint'.status = "settling"
  /\ pc[p] = "conclude" => checkpoint'.status \in {"complete", "paused"}
  /\ pc[p] \in {"refused", "caught"} => checkpoint'.status \in {"paused", "failed"}
  /\ pc[p] = "pausing" => checkpoint'.status = "paused"
  /\ pc[p] = "verdictWrite" => checkpoint'.status = "complete"

LEMMA WrittenIs ==
  ASSUME TypeOK, NEW p \in Launcher, pc[p] \in Writing, \E written \in NextRecord(p) : Write(p, written)
  PROVE  Written(p)
<1>1. PICK written \in NextRecord(p) : Write(p, written)
  OBVIOUS
<1>2. checkpoint' = written /\ fresh' = [q \in Launcher |-> q = p]
  BY <1>1 DEF Write
<1> QED BY <1>2, RecordIs DEF Written

\* Who else is where, after a step that moves p.
Moves(p, here, there) ==
  /\ pc[p] \in here /\ pc'[p] \in there
  /\ \A q \in Launcher \ {p} : pc'[q] = pc[q]

LEMMA PublishIs ==
  ASSUME TypeOK, NEW p \in Launcher, Publish(p)
  PROVE  /\ pc[p] = "publish"
         /\ UNCHANGED <<session, request, owner, aborted, submitted, overwritten, unrecorded>>
         /\ \A q \in Launcher \ {p} : frame'[q] = frame[q] /\ pc'[q] = pc[q]
         /\ frame'[p] = "resume" => frame[p] = "resume"
         /\ \/ /\ fresh[p] /\ Written(p) /\ lease' = lease
               /\ \/ frame[p] = "start" /\ pc'[p] = "operate"
                  \/ checkpoint.settled /\ pc'[p] = "consumeSettled"
                  \/ /\ frame[p] # "start" /\ ~checkpoint.settled
                     /\ pc'[p] \in {"consumeRun", "consumeCloseout"}
            \/ /\ ~fresh[p] /\ UNCHANGED <<checkpoint, fresh>> /\ pc'[p] = "exited"
               /\ lease' = lease \/ lease = p
<1> USE DEF TypeOK, Publish, Goto
<1>1. /\ pc[p] = "publish"
      /\ UNCHANGED <<session, request, owner, aborted, submitted, overwritten, unrecorded>>
      /\ \A q \in Launcher \ {p} : frame'[q] = frame[q] /\ pc'[q] = pc[q]
  BY DEF history
<1>2. frame'[p] = "resume" => frame[p] = "resume"
  OBVIOUS
<1>3. CASE fresh[p]
  <2>1. Written(p)
    BY <1>1, <1>3, WrittenIs DEF Writing
  <2> QED BY <1>1, <1>2, <1>3, <2>1
<1>4. CASE ~fresh[p]
  BY <1>1, <1>2, <1>4 DEF Release
<1> QED BY <1>3, <1>4

LEMMA CaughtIs ==
  ASSUME TypeOK, NEW p \in Launcher, Caught(p)
  PROVE  /\ Moves(p, {"caught"}, {"verdict", "interrupted", "exited"})
         /\ lease' = lease \/ lease = p
         /\ UNCHANGED <<session, owner, frame, submitted, overwritten, unrecorded>>
         /\ pc'[p] = "verdict" => submitted[p]
         /\ \/ pc'[p] \in {"verdict", "interrupted"} /\ UNCHANGED <<checkpoint, fresh>>
            \/ pc'[p] \in {"interrupted", "exited"} /\ Written(p)
<1> USE DEF TypeOK, Caught, Goto, others, history
<1>1. /\ lease' = lease \/ lease = p
      /\ UNCHANGED <<session, owner, frame, submitted, overwritten, unrecorded>>
      /\ Moves(p, {"caught"}, {"verdict", "interrupted", "exited"})
      /\ pc'[p] = "verdict" => submitted[p]
  BY DEF Release, Moves
<1>2. \/ pc'[p] \in {"verdict", "interrupted"} /\ UNCHANGED <<checkpoint, fresh>>
      \/ /\ pc'[p] \in {"interrupted", "exited"}
         /\ \E written \in NextRecord(p) : Write(p, written)
  OBVIOUS
<1> QED BY <1>1, <1>2, WrittenIs DEF Writing

\* The steps that write and then go on, or end.
LEMMA OutcomeIs ==
  ASSUME TypeOK, NEW p \in Launcher, Settle(p) \/ Conclude(p) \/ CompleteVerdict(p)
  PROVE  /\ \/ Moves(p, {"settle"}, {"finalize"})
            \/ Moves(p, {"conclude", "verdictWrite"}, {"exited"})
         /\ UNCHANGED <<session, lease, owner, frame, submitted, overwritten, unrecorded>>
         /\ Written(p)
<1> USE DEF TypeOK, Settle, Conclude, CompleteVerdict, Goto, others, history
<1>1. /\ \/ Moves(p, {"settle"}, {"finalize"})
         \/ Moves(p, {"conclude", "verdictWrite"}, {"exited"})
      /\ UNCHANGED <<session, lease, owner, frame, submitted, overwritten, unrecorded>>
  BY DEF Moves
<1> QED BY <1>1, WrittenIs DEF Writing

\* The steps that may write over what is not the writer's own.
LEMMA DisputedIs ==
  ASSUME TypeOK, NEW p \in Launcher, Adopt(p) \/ RecordRefusal(p) \/ PauseInterrupted(p)
  PROVE  /\ UNCHANGED <<session, lease, owner, frame, submitted, unrecorded>>
         /\ \/ /\ Moves(p, {"adopt"}, {"exited"})
               /\ UNCHANGED <<checkpoint, fresh, overwritten>>
            \/ /\ \/ /\ Moves(p, {"adopt"}, {"verdict", "open"})
                     /\ pc'[p] = "verdict" <=> checkpoint.verdict
                  \/ Moves(p, {"refused"}, {"exited"})
                  \/ Moves(p, {"pausing"}, {"consumeStop", "exited"})
               /\ Written(p) /\ (overwritten' <=> overwritten \/ Disputes(p))
<1> USE DEF TypeOK, Goto
<1>1. CASE Refuse(p) /\ pc[p] = "adopt"
  BY <1>1 DEF Refuse, Moves, others, history, disk
<1>2. CASE Save(p) /\ (Adopt(p) \/ RecordRefusal(p) \/ PauseInterrupted(p)) /\ ~(Refuse(p) /\ pc[p] = "adopt")
  <2>1. pc[p] \in Writing /\ \E written \in NextRecord(p) : Write(p, written)
    BY <1>2 DEF Save, Adopt, RecordRefusal, PauseInterrupted, Writing
  <2>2. Written(p) /\ (overwritten' <=> overwritten \/ Disputes(p))
    BY <1>2, <2>1, WrittenIs DEF Save
  <2>3. /\ UNCHANGED <<session, lease, owner, frame, submitted, unrecorded>>
        /\ \/ /\ Moves(p, {"adopt"}, {"verdict", "open"})
              /\ pc'[p] = "verdict" <=> checkpoint.verdict
           \/ Moves(p, {"refused"}, {"exited"})
           \/ Moves(p, {"pausing"}, {"consumeStop", "exited"})
    BY <1>2 DEF Adopt, RecordRefusal, PauseInterrupted, Moves
  <2> QED BY <2>2, <2>3
<1> QED BY <1>1, <1>2 DEF Adopt, RecordRefusal, PauseInterrupted

\* A process takes over what an orphan began, or leaves.
LEMMA InspectIs ==
  ASSUME TypeOK, NEW p \in Launcher, Inspect(p)
  PROVE  /\ UNCHANGED <<checkpoint, session, lease, fresh, owner, frame, submitted, unrecorded>>
         /\ \/ /\ Moves(p, {"inspectStarting", "inspectSettling"}, {"exited"})
               /\ UNCHANGED overwritten
            \/ /\ \/ Moves(p, {"inspectStarting"}, {"openOrCreate"})
                  \/ Moves(p, {"inspectSettling"}, {"open"})
               /\ overwritten' <=> overwritten \/ Live(owner[p])
BY DEF TypeOK, Inspect, Refuse, Goto, Moves, others, history, disk

\* A save that throws leaves its record or none; its process catches that, or ends.
LEMMA ThrowsIs ==
  ASSUME TypeOK, NEW p \in Launcher, SaveThrows(p)
  PROVE  /\ UNCHANGED <<session, owner, frame, submitted>>
         /\ lease' = lease \/ lease = p
         /\ \/ Moves(p, {"settle", "conclude"}, {"caught"}) /\ UNCHANGED unrecorded
            \/ /\ Moves(p, Writing \ {"settle"}, {"exited"})
               /\ p \in unrecorded' /\ unrecorded \subseteq unrecorded'
         /\ pc[p] = "publish" => fresh[p]
         /\ \/ UNCHANGED <<checkpoint, fresh, overwritten>>
            \/ /\ Written(p)
               /\ overwritten' <=> \/ overwritten \/ Disputes(p)
                                   \/ pc[p] = "conclude" /\ pc'[p] = "caught"
<1> USE DEF TypeOK, SaveThrows, Goto
<1>1. pc[p] \in Writing /\ (pc[p] = "publish" => fresh[p])
  BY DEF Saving, Writing
<1>2. /\ UNCHANGED <<session, owner, frame, submitted>>
      /\ lease' = lease \/ lease = p
  BY DEF Release
<1>3. \/ /\ Recovers(p) /\ Moves(p, {"settle", "conclude"}, {"caught"}) /\ UNCHANGED unrecorded
      \/ /\ ~Recovers(p) /\ Moves(p, Writing \ {"settle"}, {"exited"})
         /\ p \in unrecorded' /\ unrecorded \subseteq unrecorded'
  <2>1. CASE Recovers(p)
    BY <2>1 DEF Recovers, Moves
  <2>2. CASE ~Recovers(p)
    BY <1>1, <2>2 DEF Recovers, Moves
  <2> QED BY <2>1, <2>2
<1>4. pc'[p] = "caught" <=> Recovers(p)
  BY <1>3 DEF Moves
<1>5. \/ UNCHANGED <<checkpoint, fresh, overwritten>>
      \/ /\ Written(p)
         /\ overwritten' = (overwritten \/ Disputes(p) \/ (pc[p] = "conclude" /\ Recovers(p)))
  BY <1>1, WrittenIs
<1> HIDE DEF SaveThrows, TypeOK, Goto
<1>6. \/ UNCHANGED <<checkpoint, fresh, overwritten>>
      \/ /\ Written(p)
         /\ overwritten' <=> \/ overwritten \/ Disputes(p)
                             \/ pc[p] = "conclude" /\ pc'[p] = "caught"
  BY <1>4, <1>5
<1> QED BY <1>1, <1>2, <1>3, <1>6

\* A write by a process that has done its reading leaves all the other views stale.
LEMMA WriterViews ==
  ASSUME Views, NEW p \in Launcher, fresh' = [q \in Launcher |-> q = p],
         \A q \in Launcher \ {p} : pc'[q] = pc[q] /\ frame'[q] = frame[q],
         pc'[p] \notin Reading
  PROVE  Views'
<1>1. ASSUME NEW q \in Launcher, pc'[q] \in Resuming PROVE frame'[q] = "resume"
  BY <1>1 DEF Views, Resuming, Reading
<1>2. ASSUME NEW q \in Launcher, fresh'[q] PROVE pc'[q] \notin Reading
  BY <1>2
<1> QED BY <1>1, <1>2 DEF Views, Before, Reading

\* A process that has done its reading and writes nothing.
LEMMA OtherViews ==
  ASSUME Views, NEW p \in Launcher, UNCHANGED <<checkpoint, fresh, owner>>,
         \A q \in Launcher \ {p} : pc'[q] = pc[q] /\ frame'[q] = frame[q],
         pc'[p] \notin Reading, overwritten => overwritten',
         pc[p] \in {"down", "exited"} => pc'[p] \in {"down", "exited"}
  PROVE  Views'
<1>1. \A id : ~Live(id) => ~Live(id)'
  BY DEF Live
<1>2. ASSUME NEW q \in Launcher, q # p PROVE pc'[q] = pc[q] /\ frame'[q] = frame[q]
  BY <1>2
<1>3. pc'[p] \notin Resuming /\ pc'[p] \notin Before
  BY DEF Reading, Resuming, Before
<1> QED BY <1>1, <1>2, <1>3 DEF Views, Before, Reading, Resuming

\* A step that ends the reading of the checkpoint, or writes it.
Disputing(p) == Adopt(p) \/ RecordRefusal(p) \/ PauseInterrupted(p)
Outcome(p)   == Settle(p) \/ Conclude(p) \/ CompleteVerdict(p)
WriterStep(p) ==
  Disputing(p) \/ Inspect(p) \/ Publish(p) \/ Outcome(p) \/ Caught(p) \/ SaveThrows(p)

LEMMA WriterIs ==
  ASSUME IInv, NEW p \in Launcher, WriterStep(p)
  PROVE  /\ pc[p] \notin {"down", "exited"} \cup Driving
         /\ \A q \in Launcher \ {p} : /\ pc'[q] = pc[q] /\ frame'[q] = frame[q]
                                      /\ fresh'[q] => fresh[q]
         /\ UNCHANGED <<session, owner, submitted>>
         /\ overwritten => overwritten'
         /\ unrecorded \subseteq unrecorded'
         /\ lease' = lease \/ (lease = p /\ pc'[p] \notin Driving \cup {"publish"})
         /\ UNCHANGED <<checkpoint, fresh>> \/ Written(p)
         /\ pc'[p] \in Driving => /\ pc[p] = "publish" /\ fresh[p] /\ Written(p)
                                  /\ pc'[p] = "consumeSettled" => checkpoint.settled
         /\ pc'[p] \in Verdicts => checkpoint.verdict
         /\ pc'[p] \in Reading => /\ pc[p] \in {"adopt", "inspectStarting", "inspectSettling"}
                                  /\ pc'[p] \in {"open", "openOrCreate"} /\ UNCHANGED frame
                                  /\ fresh'[p] => ~checkpoint.verdict
         /\ pc'[p] = "exited" => \/ p \in unrecorded'
                                 \/ Written(p) /\ pc[p] # "publish"
                                 \/ pc[p] \in {"adopt", "inspectStarting", "inspectSettling"}
                                 \/ pc[p] = "publish" /\ ~fresh[p] /\ UNCHANGED checkpoint
         /\ pc'[p] \in {"consumeStop"} \cup Closing => Written(p) /\ (pc[p] = "publish" => pc'[p] = "consumeSettled")
         /\ pc[p] = "publish" /\ Written(p) => fresh[p]
<1> USE DEF IInv, Driving, Running, Reading, Verdicts, Closing
<1>1. CASE Disputing(p)
  <2>1. /\ UNCHANGED <<session, lease, owner, frame, submitted, unrecorded>>
        /\ \/ /\ Moves(p, {"adopt"}, {"exited"})
              /\ UNCHANGED <<checkpoint, fresh, overwritten>>
           \/ /\ \/ /\ Moves(p, {"adopt"}, {"verdict", "open"})
                    /\ pc'[p] = "verdict" <=> checkpoint.verdict
                 \/ Moves(p, {"refused"}, {"exited"})
                 \/ Moves(p, {"pausing"}, {"consumeStop", "exited"})
              /\ Written(p) /\ (overwritten' <=> overwritten \/ Disputes(p))
    BY <1>1, DisputedIs DEF Disputing
  <2>2. CASE /\ Moves(p, {"adopt"}, {"exited"})
             /\ UNCHANGED <<checkpoint, fresh, overwritten>>
    BY <2>1, <2>2 DEF Moves, Written
  <2>3. CASE Written(p) /\ Moves(p, {"adopt"}, {"verdict", "open"}) /\ (pc'[p] = "verdict" <=> checkpoint.verdict)
                /\ (overwritten => overwritten')
    BY <2>1, <2>3 DEF Moves, Written
  <2>4. CASE Written(p) /\ Moves(p, {"refused"}, {"exited"}) /\ (overwritten => overwritten')
    BY <2>1, <2>4 DEF Moves, Written
  <2>5. CASE Written(p) /\ Moves(p, {"pausing"}, {"consumeStop", "exited"}) /\ (overwritten => overwritten')
    BY <2>1, <2>5 DEF Moves, Written
  <2> QED BY <2>1, <2>2, <2>3, <2>4, <2>5
<1>2. CASE Inspect(p)
  <2>1. /\ UNCHANGED <<checkpoint, session, lease, fresh, owner, frame, submitted, unrecorded>>
        /\ \/ Moves(p, {"inspectStarting", "inspectSettling"}, {"exited"})
           \/ Moves(p, {"inspectStarting"}, {"openOrCreate"})
           \/ Moves(p, {"inspectSettling"}, {"open"})
        /\ overwritten => overwritten'
    BY <1>2, InspectIs
  <2>2. pc[p] \in Before /\ fresh[p] => ~checkpoint.verdict
    BY DEF VerdictSeen
  <2> QED BY <2>1, <2>2 DEF Moves, Before
<1>3. CASE Publish(p)
  BY <1>3, PublishIs DEF Written
<1>4. CASE Outcome(p)
  <2>1. /\ \/ Moves(p, {"settle"}, {"finalize"})
           \/ Moves(p, {"conclude", "verdictWrite"}, {"exited"})
        /\ UNCHANGED <<session, lease, owner, frame, submitted, overwritten, unrecorded>>
        /\ Written(p)
    BY <1>4, OutcomeIs DEF Outcome
  <2> QED BY <2>1 DEF Moves, Written
<1>5. CASE Caught(p)
  <2>1. submitted[p] => checkpoint.verdict
    BY DEF VerdictSeen
  <2> QED BY <1>5, <2>1, CaughtIs DEF Moves, Written
<1>6. CASE SaveThrows(p)
  <2>1. /\ UNCHANGED <<session, owner, frame, submitted>>
        /\ lease' = lease \/ lease = p
        /\ \/ Moves(p, {"settle", "conclude"}, {"caught"}) /\ UNCHANGED unrecorded
           \/ /\ Moves(p, Writing \ {"settle"}, {"exited"})
              /\ p \in unrecorded' /\ unrecorded \subseteq unrecorded'
        /\ pc[p] = "publish" => fresh[p]
        /\ UNCHANGED <<checkpoint, fresh>> \/ Written(p)
        /\ overwritten => overwritten'
    BY <1>6, ThrowsIs
  <2> QED BY <2>1 DEF Moves, Written, Writing
<1> QED BY <1>1, <1>2, <1>3, <1>4, <1>5, <1>6 DEF WriterStep

\* What such a step leaves of the status and the owner on record.
LEMMA WrittenLeaves ==
  ASSUME IInv, NEW p \in Launcher, WriterStep(p)
  PROVE  /\ checkpoint'.verdict = checkpoint.verdict /\ checkpoint'.status # "absent"
         /\ checkpoint'.process = checkpoint.process \/ (pc[p] = "publish" /\ checkpoint'.process = p)
         /\ Written(p) /\ pc[p] # "publish" => Recorded'
         /\ Written(p) /\ pc[p] = "publish" => /\ checkpoint'.process = p
                                               /\ checkpoint.settled => Recorded'
<1>1. UNCHANGED <<checkpoint, fresh>> \/ Written(p)
  BY WriterIs
<1>2. Live(p) /\ checkpoint.status # "absent"
  BY WriterIs DEF Live, IInv, Owned
<1>4. CASE Written(p) /\ pc[p] \in Writing
  BY <1>4 DEF Written, Writing, Recorded
<1>5. CASE UNCHANGED checkpoint /\ ~Written(p)
  BY <1>2, <1>5
<1> QED BY <1>1, <1>4, <1>5 DEF Written

-----------------------------------------------------------------------------
(* One step preserves the invariant, part by part.                          *)

\* The lease and the name in the checkpoint stay with whoever drives the run.
LEMMA OwnedNext == ASSUME IInv, TypeOK', Next PROVE Owned'
<1>2. ASSUME NEW p \in Launcher, Start(p) PROVE Owned'
  BY <1>2, LauncherAssumption DEF Start, Owned, Driving, Running,
           IInv, TypeOK, Checkpoint, Goto, Write, Live, Claim, Release, Opening, others, Launch,
           Renamed, disk, local, history, StopAt, Stops, Operate
<1>3. ASSUME NEW p \in Launcher, Resume(p) PROVE Owned'
  BY <1>3, LauncherAssumption DEF Resume, Owned, Driving, Running,
           IInv, TypeOK, Checkpoint, Goto, Write, Live, Claim, Release, Opening, others, Launch,
           Renamed, disk, local, history, StopAt, Stops, Operate
<1>4. ASSUME NEW p \in Launcher, Open(p) PROVE Owned'
  BY <1>4, LauncherAssumption DEF Open, Owned, Driving, Running,
           IInv, TypeOK, Checkpoint, Goto, Write, Live, Claim, Release, Opening, others, Launch,
           Renamed, disk, local, history, StopAt, Stops, Operate
<1>5. ASSUME NEW p \in Launcher, OpenFails(p) PROVE Owned'
  BY <1>5, LauncherAssumption DEF OpenFails, Owned, Driving, Running,
           IInv, TypeOK, Checkpoint, Goto, Write, Live, Claim, Release, Opening, others, Launch,
           Renamed, disk, local, history, StopAt, Stops, Operate
<1>6. ASSUME NEW p \in Launcher, Consume(p) PROVE Owned'
  BY <1>6, LauncherAssumption DEF Consume, Owned, Driving, Running,
           IInv, TypeOK, Checkpoint, Goto, Write, Live, Claim, Release, Opening, others, Launch,
           Renamed, disk, local, history, StopAt, Stops, Operate
<1>7. ASSUME NEW p \in Launcher, ReadCloseout(p) \/ Escapes(p) PROVE Owned'
  BY <1>7, LauncherAssumption DEF ReadCloseout, Escapes, Owned, Driving, Running,
           IInv, TypeOK, Checkpoint, Goto, Write, Live, Claim, Release, Opening, others, Launch,
           Renamed, disk, local, history, StopAt, Stops, Operate
<1>8. ASSUME NEW p \in Launcher, SubmitVerdict(p) PROVE Owned'
  BY <1>8, LauncherAssumption DEF SubmitVerdict, Owned, Driving, Running,
           IInv, TypeOK, Checkpoint, Goto, Write, Live, Claim, Release, Opening, others, Launch,
           Renamed, disk, local, history, StopAt, Stops, Operate
<1>9. ASSUME NEW p \in Launcher, SaveUsage(p) PROVE Owned'
  BY <1>9, LauncherAssumption DEF SaveUsage, Owned, Driving, Running,
           IInv, TypeOK, Checkpoint, Goto, Write, Live, Claim, Release, Opening, others, Launch,
           Renamed, disk, local, history, StopAt, Stops, Operate
<1>10. ASSUME NEW p \in Launcher, EndOperation(p) PROVE Owned'
  BY <1>10, LauncherAssumption DEF EndOperation, Owned, Driving, Running,
           IInv, TypeOK, Checkpoint, Goto, Write, Live, Claim, Release, Opening, others, Launch,
           Renamed, disk, local, history, StopAt, Stops, Operate
<1>11. ASSUME NEW p \in Launcher, Finalize(p) PROVE Owned'
  BY <1>11, LauncherAssumption DEF Finalize, Owned, Driving, Running,
           IInv, TypeOK, Checkpoint, Goto, Write, Live, Claim, Release, Opening, others, Launch,
           Renamed, disk, local, history, StopAt, Stops, Operate
<1>12. ASSUME NEW p \in Launcher, Reopen(p) PROVE Owned'
  BY <1>12, LauncherAssumption DEF Reopen, Owned, Driving, Running,
           IInv, TypeOK, Checkpoint, Goto, Write, Live, Claim, Release, Opening, others, Launch,
           Renamed, disk, local, history, StopAt, Stops, Operate
<1>13. ASSUME NEW p \in Launcher, FinalizeFails(p) PROVE Owned'
  BY <1>13, LauncherAssumption DEF FinalizeFails, Owned, Driving, Running,
           IInv, TypeOK, Checkpoint, Goto, Write, Live, Claim, Release, Opening, others, Launch,
           Renamed, disk, local, history, StopAt, Stops, Operate
<1>14. ASSUME NEW p \in Launcher, Project(p) PROVE Owned'
  BY <1>14, LauncherAssumption DEF Project, Owned, Driving, Running,
           IInv, TypeOK, Checkpoint, Goto, Write, Live, Claim, Release, Opening, others, Launch,
           Renamed, disk, local, history, StopAt, Stops, Operate
<1>15. ASSUME NEW p \in Launcher, ReadStopRequest(p) PROVE Owned'
  BY <1>15, LauncherAssumption DEF ReadStopRequest, Owned, Driving, Running,
           IInv, TypeOK, Checkpoint, Goto, Write, Live, Claim, Release, Opening, others, Launch,
           Renamed, disk, local, history, StopAt, Stops, Operate
<1>16. ASSUME NEW p \in Launcher, ConsumeStopRequest(p) PROVE Owned'
  BY <1>16, LauncherAssumption DEF ConsumeStopRequest, Owned, Driving, Running,
           IInv, TypeOK, Checkpoint, Goto, Write, Live, Claim, Release, Opening, others, Launch,
           Renamed, disk, local, history, StopAt, Stops, Operate
<1>17. ASSUME NEW p \in Launcher, ReadForVerdict(p) PROVE Owned'
  BY <1>17, LauncherAssumption DEF ReadForVerdict, Owned, Driving, Running,
           IInv, TypeOK, Checkpoint, Goto, Write, Live, Claim, Release, Opening, others, Launch,
           Renamed, disk, local, history, StopAt, Stops, Operate
<1>18. ASSUME NEW p \in Launcher, CloseVerdictSession(p) PROVE Owned'
  BY <1>18, LauncherAssumption DEF CloseVerdictSession, Owned, Driving, Running,
           IInv, TypeOK, Checkpoint, Goto, Write, Live, Claim, Release, Opening, others, Launch,
           Renamed, disk, local, history, StopAt, Stops, Operate
<1>19. ASSUME NEW p \in Launcher, Dies(p) PROVE Owned'
  BY <1>19, LauncherAssumption DEF Dies, Owned, Driving, Running,
           IInv, TypeOK, Checkpoint, Goto, Write, Live, Claim, Release, Opening, others, Launch,
           Renamed, disk, local, history, StopAt, Stops, Operate
<1>20. ASSUME NEW p \in Launcher, Interrupt(p) PROVE Owned'
  BY <1>20, LauncherAssumption DEF Interrupt, Owned, Driving, Running,
           IInv, TypeOK, Checkpoint, Goto, Write, Live, Claim, Release, Opening, others, Launch,
           Renamed, disk, local, history, StopAt, Stops, Operate
<1>21. ASSUME StopFind PROVE Owned'
  BY <1>21, LauncherAssumption DEF StopFind, Owned, Driving, Running,
           IInv, TypeOK, Checkpoint, Goto, Write, Live, Claim, Release, Opening, others, Launch,
           Renamed, disk, local, history, StopAt, Stops, Operate
<1>22. ASSUME StopVerify PROVE Owned'
  BY <1>22, LauncherAssumption DEF StopVerify, Owned, Driving, Running,
           IInv, TypeOK, Checkpoint, Goto, Write, Live, Claim, Release, Opening, others, Launch,
           Renamed, disk, local, history, StopAt, Stops, Operate
<1>23. ASSUME StopWitness PROVE Owned'
  BY <1>23, LauncherAssumption DEF StopWitness, Owned, Driving, Running,
           IInv, TypeOK, Checkpoint, Goto, Write, Live, Claim, Release, Opening, others, Launch,
           Renamed, disk, local, history, StopAt, Stops, Operate
<1>24. ASSUME StopSignal PROVE Owned'
  BY <1>24, LauncherAssumption DEF StopSignal, Owned, Driving, Running,
           IInv, TypeOK, Checkpoint, Goto, Write, Live, Claim, Release, Opening, others, Launch,
           Renamed, disk, local, history, StopAt, Stops, Operate
<1>25. ASSUME StopKill PROVE Owned'
  BY <1>25, LauncherAssumption DEF StopKill, Owned, Driving, Running,
           IInv, TypeOK, Checkpoint, Goto, Write, Live, Claim, Release, Opening, others, Launch,
           Renamed, disk, local, history, StopAt, Stops, Operate
<1>26. ASSUME StopConfirm PROVE Owned'
  BY <1>26, LauncherAssumption DEF StopConfirm, Owned, Driving, Running,
           IInv, TypeOK, Checkpoint, Goto, Write, Live, Claim, Release, Opening, others, Launch,
           Renamed, disk, local, history, StopAt, Stops, Operate
<1>27. ASSUME DeleteSession PROVE Owned'
  BY <1>27, LauncherAssumption DEF DeleteSession, Owned, Driving, Running,
           IInv, TypeOK, Checkpoint, Goto, Write, Live, Claim, Release, Opening, others, Launch,
           Renamed, disk, local, history, StopAt, Stops, Operate
<1>28. ASSUME NEW p \in Launcher, WriterStep(p) PROVE Owned'
  <2>1. /\ pc[p] \notin {"down", "exited"} \cup Driving
        /\ \A q \in Launcher \ {p} : pc'[q] = pc[q]
        /\ session' = session
        /\ lease' = lease \/ (lease = p /\ pc'[p] \notin Driving \cup {"publish"})
        /\ pc'[p] \in Driving => pc[p] = "publish" /\ checkpoint'.process = p
        /\ pc'[p] # "publish"
    BY <1>28, WriterIs DEF Reading, Written
  <2>2. /\ checkpoint'.process = checkpoint.process \/ (pc[p] = "publish" /\ checkpoint'.process = p)
        /\ checkpoint'.status # "absent"
    BY <1>28, WrittenLeaves
  <2>3. ASSUME NEW q \in Launcher
        PROVE  /\ pc'[q] \in Driving \cup {"publish"} => lease' = q /\ session'
               /\ pc'[q] \in Driving => checkpoint'.process = q
    BY <2>1, <2>2 DEF IInv, Owned
  <2> QED BY <2>2, <2>3 DEF Owned
<1> QED
  BY <1>2, <1>3, <1>4, <1>5, <1>6, <1>7, <1>8, <1>9, <1>10, <1>11, <1>12, <1>13, <1>14, <1>15,
     <1>16, <1>17, <1>18, <1>19, <1>20, <1>21, <1>22, <1>23, <1>24, <1>25, <1>26, <1>27, <1>28
  DEF Next, Attempt, Stopping, WriterStep, Disputing, Outcome

\* No view that misses a verdict is fresh.
LEMMA VerdictSeenNext == ASSUME IInv, TypeOK', Next PROVE VerdictSeen'
<1>2. ASSUME NEW p \in Launcher, Start(p) PROVE VerdictSeen'
  BY <1>2, LauncherAssumption DEF Start, VerdictSeen, Before, Reading, Verdicts, Driving, Running, Owned,
           IInv, TypeOK, Checkpoint, Goto, Write, Live, Claim, Release, Opening, others, Launch,
           Renamed, disk, local, history, StopAt, Stops, Operate
<1>3. ASSUME NEW p \in Launcher, Resume(p) PROVE VerdictSeen'
  BY <1>3, LauncherAssumption DEF Resume, VerdictSeen, Before, Reading, Verdicts, Driving, Running, Owned,
           IInv, TypeOK, Checkpoint, Goto, Write, Live, Claim, Release, Opening, others, Launch,
           Renamed, disk, local, history, StopAt, Stops, Operate
<1>4. ASSUME NEW p \in Launcher, Open(p) PROVE VerdictSeen'
  BY <1>4, LauncherAssumption DEF Open, VerdictSeen, Before, Reading, Verdicts, Driving, Running, Owned,
           IInv, TypeOK, Checkpoint, Goto, Write, Live, Claim, Release, Opening, others, Launch,
           Renamed, disk, local, history, StopAt, Stops, Operate
<1>5. ASSUME NEW p \in Launcher, OpenFails(p) PROVE VerdictSeen'
  BY <1>5, LauncherAssumption DEF OpenFails, VerdictSeen, Before, Reading, Verdicts, Driving, Running, Owned,
           IInv, TypeOK, Checkpoint, Goto, Write, Live, Claim, Release, Opening, others, Launch,
           Renamed, disk, local, history, StopAt, Stops, Operate
<1>6. ASSUME NEW p \in Launcher, Consume(p) PROVE VerdictSeen'
  BY <1>6, LauncherAssumption DEF Consume, VerdictSeen, Before, Reading, Verdicts, Driving, Running, Owned,
           IInv, TypeOK, Checkpoint, Goto, Write, Live, Claim, Release, Opening, others, Launch,
           Renamed, disk, local, history, StopAt, Stops, Operate
<1>7. ASSUME NEW p \in Launcher, ReadCloseout(p) \/ Escapes(p) PROVE VerdictSeen'
  BY <1>7, LauncherAssumption DEF ReadCloseout, Escapes, VerdictSeen, Before, Reading, Verdicts, Driving, Running, Owned,
           IInv, TypeOK, Checkpoint, Goto, Write, Live, Claim, Release, Opening, others, Launch,
           Renamed, disk, local, history, StopAt, Stops, Operate
<1>8. ASSUME NEW p \in Launcher, SubmitVerdict(p) PROVE VerdictSeen'
  BY <1>8, LauncherAssumption DEF SubmitVerdict, VerdictSeen, Before, Reading, Verdicts, Driving, Running, Owned,
           IInv, TypeOK, Checkpoint, Goto, Write, Live, Claim, Release, Opening, others, Launch,
           Renamed, disk, local, history, StopAt, Stops, Operate
<1>9. ASSUME NEW p \in Launcher, SaveUsage(p) PROVE VerdictSeen'
  BY <1>9, LauncherAssumption DEF SaveUsage, VerdictSeen, Before, Reading, Verdicts, Driving, Running, Owned,
           IInv, TypeOK, Checkpoint, Goto, Write, Live, Claim, Release, Opening, others, Launch,
           Renamed, disk, local, history, StopAt, Stops, Operate
<1>10. ASSUME NEW p \in Launcher, EndOperation(p) PROVE VerdictSeen'
  BY <1>10, LauncherAssumption DEF EndOperation, VerdictSeen, Before, Reading, Verdicts, Driving, Running, Owned,
           IInv, TypeOK, Checkpoint, Goto, Write, Live, Claim, Release, Opening, others, Launch,
           Renamed, disk, local, history, StopAt, Stops, Operate
<1>11. ASSUME NEW p \in Launcher, Finalize(p) PROVE VerdictSeen'
  BY <1>11, LauncherAssumption DEF Finalize, VerdictSeen, Before, Reading, Verdicts, Driving, Running, Owned,
           IInv, TypeOK, Checkpoint, Goto, Write, Live, Claim, Release, Opening, others, Launch,
           Renamed, disk, local, history, StopAt, Stops, Operate
<1>12. ASSUME NEW p \in Launcher, Reopen(p) PROVE VerdictSeen'
  BY <1>12, LauncherAssumption DEF Reopen, VerdictSeen, Before, Reading, Verdicts, Driving, Running, Owned,
           IInv, TypeOK, Checkpoint, Goto, Write, Live, Claim, Release, Opening, others, Launch,
           Renamed, disk, local, history, StopAt, Stops, Operate
<1>13. ASSUME NEW p \in Launcher, FinalizeFails(p) PROVE VerdictSeen'
  BY <1>13, LauncherAssumption DEF FinalizeFails, VerdictSeen, Before, Reading, Verdicts, Driving, Running, Owned,
           IInv, TypeOK, Checkpoint, Goto, Write, Live, Claim, Release, Opening, others, Launch,
           Renamed, disk, local, history, StopAt, Stops, Operate
<1>14. ASSUME NEW p \in Launcher, Project(p) PROVE VerdictSeen'
  BY <1>14, LauncherAssumption DEF Project, VerdictSeen, Before, Reading, Verdicts, Driving, Running, Owned,
           IInv, TypeOK, Checkpoint, Goto, Write, Live, Claim, Release, Opening, others, Launch,
           Renamed, disk, local, history, StopAt, Stops, Operate
<1>15. ASSUME NEW p \in Launcher, ReadStopRequest(p) PROVE VerdictSeen'
  BY <1>15, LauncherAssumption DEF ReadStopRequest, VerdictSeen, Before, Reading, Verdicts, Driving, Running, Owned,
           IInv, TypeOK, Checkpoint, Goto, Write, Live, Claim, Release, Opening, others, Launch,
           Renamed, disk, local, history, StopAt, Stops, Operate
<1>16. ASSUME NEW p \in Launcher, ConsumeStopRequest(p) PROVE VerdictSeen'
  BY <1>16, LauncherAssumption DEF ConsumeStopRequest, VerdictSeen, Before, Reading, Verdicts, Driving, Running, Owned,
           IInv, TypeOK, Checkpoint, Goto, Write, Live, Claim, Release, Opening, others, Launch,
           Renamed, disk, local, history, StopAt, Stops, Operate
<1>17. ASSUME NEW p \in Launcher, ReadForVerdict(p) PROVE VerdictSeen'
  BY <1>17, LauncherAssumption DEF ReadForVerdict, VerdictSeen, Before, Reading, Verdicts, Driving, Running, Owned,
           IInv, TypeOK, Checkpoint, Goto, Write, Live, Claim, Release, Opening, others, Launch,
           Renamed, disk, local, history, StopAt, Stops, Operate
<1>18. ASSUME NEW p \in Launcher, CloseVerdictSession(p) PROVE VerdictSeen'
  BY <1>18, LauncherAssumption DEF CloseVerdictSession, VerdictSeen, Before, Reading, Verdicts, Driving, Running, Owned,
           IInv, TypeOK, Checkpoint, Goto, Write, Live, Claim, Release, Opening, others, Launch,
           Renamed, disk, local, history, StopAt, Stops, Operate
<1>19. ASSUME NEW p \in Launcher, Dies(p) PROVE VerdictSeen'
  BY <1>19, LauncherAssumption DEF Dies, VerdictSeen, Before, Reading, Verdicts, Driving, Running, Owned,
           IInv, TypeOK, Checkpoint, Goto, Write, Live, Claim, Release, Opening, others, Launch,
           Renamed, disk, local, history, StopAt, Stops, Operate
<1>20. ASSUME NEW p \in Launcher, Interrupt(p) PROVE VerdictSeen'
  BY <1>20, LauncherAssumption DEF Interrupt, VerdictSeen, Before, Reading, Verdicts, Driving, Running, Owned,
           IInv, TypeOK, Checkpoint, Goto, Write, Live, Claim, Release, Opening, others, Launch,
           Renamed, disk, local, history, StopAt, Stops, Operate
<1>21. ASSUME StopFind PROVE VerdictSeen'
  BY <1>21, LauncherAssumption DEF StopFind, VerdictSeen, Before, Reading, Verdicts, Driving, Running, Owned,
           IInv, TypeOK, Checkpoint, Goto, Write, Live, Claim, Release, Opening, others, Launch,
           Renamed, disk, local, history, StopAt, Stops, Operate
<1>22. ASSUME StopVerify PROVE VerdictSeen'
  BY <1>22, LauncherAssumption DEF StopVerify, VerdictSeen, Before, Reading, Verdicts, Driving, Running, Owned,
           IInv, TypeOK, Checkpoint, Goto, Write, Live, Claim, Release, Opening, others, Launch,
           Renamed, disk, local, history, StopAt, Stops, Operate
<1>23. ASSUME StopWitness PROVE VerdictSeen'
  BY <1>23, LauncherAssumption DEF StopWitness, VerdictSeen, Before, Reading, Verdicts, Driving, Running, Owned,
           IInv, TypeOK, Checkpoint, Goto, Write, Live, Claim, Release, Opening, others, Launch,
           Renamed, disk, local, history, StopAt, Stops, Operate
<1>24. ASSUME StopSignal PROVE VerdictSeen'
  BY <1>24, LauncherAssumption DEF StopSignal, VerdictSeen, Before, Reading, Verdicts, Driving, Running, Owned,
           IInv, TypeOK, Checkpoint, Goto, Write, Live, Claim, Release, Opening, others, Launch,
           Renamed, disk, local, history, StopAt, Stops, Operate
<1>25. ASSUME StopKill PROVE VerdictSeen'
  BY <1>25, LauncherAssumption DEF StopKill, VerdictSeen, Before, Reading, Verdicts, Driving, Running, Owned,
           IInv, TypeOK, Checkpoint, Goto, Write, Live, Claim, Release, Opening, others, Launch,
           Renamed, disk, local, history, StopAt, Stops, Operate
<1>26. ASSUME StopConfirm PROVE VerdictSeen'
  BY <1>26, LauncherAssumption DEF StopConfirm, VerdictSeen, Before, Reading, Verdicts, Driving, Running, Owned,
           IInv, TypeOK, Checkpoint, Goto, Write, Live, Claim, Release, Opening, others, Launch,
           Renamed, disk, local, history, StopAt, Stops, Operate
<1>27. ASSUME DeleteSession PROVE VerdictSeen'
  BY <1>27, LauncherAssumption DEF DeleteSession, VerdictSeen, Before, Reading, Verdicts, Driving, Running, Owned,
           IInv, TypeOK, Checkpoint, Goto, Write, Live, Claim, Release, Opening, others, Launch,
           Renamed, disk, local, history, StopAt, Stops, Operate
<1>28. ASSUME NEW p \in Launcher, WriterStep(p) PROVE VerdictSeen'
  <2>1. /\ \A q \in Launcher \ {p} : pc'[q] = pc[q] /\ (fresh'[q] => fresh[q])
        /\ submitted' = submitted
        /\ pc'[p] \in Driving => pc[p] = "publish" /\ fresh[p]
        /\ pc'[p] \in Verdicts => checkpoint.verdict
        /\ pc'[p] \in Reading => (fresh'[p] => ~checkpoint.verdict)
    BY <1>28, WriterIs
  <2>2. checkpoint'.verdict = checkpoint.verdict /\ checkpoint'.status # "absent"
    BY <1>28, WrittenLeaves
  <2>3. pc[p] = "publish" /\ fresh[p] => ~checkpoint.verdict
    BY DEF IInv, VerdictSeen, Before, Reading
  <2>4. ASSUME NEW q \in Launcher
        PROVE  /\ pc'[q] \in Before /\ fresh'[q] => ~checkpoint'.verdict
               /\ pc'[q] \in Running \ {"operate"} => ~checkpoint'.verdict
               /\ pc'[q] \in Verdicts \/ submitted'[q] => checkpoint'.verdict
    BY <2>1, <2>2, <2>3 DEF IInv, VerdictSeen, Before, Driving
  <2> QED BY <2>2, <2>4 DEF VerdictSeen
<1> QED
  BY <1>2, <1>3, <1>4, <1>5, <1>6, <1>7, <1>8, <1>9, <1>10, <1>11, <1>12, <1>13, <1>14, <1>15,
     <1>16, <1>17, <1>18, <1>19, <1>20, <1>21, <1>22, <1>23, <1>24, <1>25, <1>26, <1>27, <1>28
  DEF Next, Attempt, Stopping, WriterStep, Disputing, Outcome

\* An attempt that has ended left on record what the next one needs.
LEMMA EndedNext == ASSUME IInv, TypeOK', Next PROVE Concluded'
<1>2. ASSUME NEW p \in Launcher, Start(p) PROVE Concluded'
  <2>1. /\ fresh' = [q \in Launcher |-> q = p] /\ frame'[p] = "start" /\ pc'[p] = "create"
        /\ checkpoint'.process = p
    BY <1>2 DEF Start, Launch, Write, Goto, IInv, TypeOK, Checkpoint
  <2> QED BY <2>1 DEF Concluded, Closing, Reading
<1>3. ASSUME NEW p \in Launcher, Resume(p) PROVE Concluded'
  BY <1>3, LauncherAssumption DEF Resume, Concluded, Recorded, Closing, Reading, VerdictSeen, Verdicts, Owned,
           IInv, TypeOK, Checkpoint, Goto, Write, Live, Claim, Release, Opening, others, Launch,
           Renamed, disk, local, history, StopAt, Stops, Operate
<1>4. ASSUME NEW p \in Launcher, Open(p) PROVE Concluded'
  BY <1>4, LauncherAssumption DEF Open, Concluded, Recorded, Closing, Reading, VerdictSeen, Verdicts, Owned,
           IInv, TypeOK, Checkpoint, Goto, Write, Live, Claim, Release, Opening, others, Launch,
           Renamed, disk, local, history, StopAt, Stops, Operate
<1>5. ASSUME NEW p \in Launcher, OpenFails(p) PROVE Concluded'
  BY <1>5, LauncherAssumption DEF OpenFails, Concluded, Recorded, Closing, Reading, VerdictSeen, Verdicts, Owned,
           IInv, TypeOK, Checkpoint, Goto, Write, Live, Claim, Release, Opening, others, Launch,
           Renamed, disk, local, history, StopAt, Stops, Operate
<1>6. ASSUME NEW p \in Launcher, Consume(p) PROVE Concluded'
  BY <1>6, LauncherAssumption DEF Consume, Concluded, Recorded, Closing, Reading, VerdictSeen, Verdicts, Owned,
           IInv, TypeOK, Checkpoint, Goto, Write, Live, Claim, Release, Opening, others, Launch,
           Renamed, disk, local, history, StopAt, Stops, Operate
<1>7. ASSUME NEW p \in Launcher, ReadCloseout(p) \/ Escapes(p) PROVE Concluded'
  BY <1>7, LauncherAssumption DEF ReadCloseout, Escapes, Concluded, Recorded, Closing, Reading, VerdictSeen, Verdicts, Owned,
           IInv, TypeOK, Checkpoint, Goto, Write, Live, Claim, Release, Opening, others, Launch,
           Renamed, disk, local, history, StopAt, Stops, Operate
<1>8. ASSUME NEW p \in Launcher, SubmitVerdict(p) PROVE Concluded'
  BY <1>8, LauncherAssumption DEF SubmitVerdict, Concluded, Recorded, Closing, Reading, VerdictSeen, Verdicts, Owned,
           IInv, TypeOK, Checkpoint, Goto, Write, Live, Claim, Release, Opening, others, Launch,
           Renamed, disk, local, history, StopAt, Stops, Operate
<1>9. ASSUME NEW p \in Launcher, SaveUsage(p) PROVE Concluded'
  BY <1>9, LauncherAssumption DEF SaveUsage, Driving, Running, Concluded, Recorded, Closing, Reading, VerdictSeen, Verdicts, Owned,
           IInv, TypeOK, Checkpoint, Goto, Write, Live, Claim, Release, Opening, others, Launch,
           Renamed, disk, local, history, StopAt, Stops, Operate
<1>10. ASSUME NEW p \in Launcher, EndOperation(p) PROVE Concluded'
  BY <1>10, LauncherAssumption DEF EndOperation, Concluded, Recorded, Closing, Reading, VerdictSeen, Verdicts, Owned,
           IInv, TypeOK, Checkpoint, Goto, Write, Live, Claim, Release, Opening, others, Launch,
           Renamed, disk, local, history, StopAt, Stops, Operate
<1>11. ASSUME NEW p \in Launcher, Finalize(p) PROVE Concluded'
  BY <1>11, LauncherAssumption DEF Finalize, Concluded, Recorded, Closing, Reading, VerdictSeen, Verdicts, Owned,
           IInv, TypeOK, Checkpoint, Goto, Write, Live, Claim, Release, Opening, others, Launch,
           Renamed, disk, local, history, StopAt, Stops, Operate
<1>12. ASSUME NEW p \in Launcher, Reopen(p) PROVE Concluded'
  BY <1>12, LauncherAssumption DEF Reopen, Concluded, Recorded, Closing, Reading, VerdictSeen, Verdicts, Owned,
           IInv, TypeOK, Checkpoint, Goto, Write, Live, Claim, Release, Opening, others, Launch,
           Renamed, disk, local, history, StopAt, Stops, Operate
<1>13. ASSUME NEW p \in Launcher, FinalizeFails(p) PROVE Concluded'
  BY <1>13, LauncherAssumption DEF FinalizeFails, Concluded, Recorded, Closing, Reading, VerdictSeen, Verdicts, Owned,
           IInv, TypeOK, Checkpoint, Goto, Write, Live, Claim, Release, Opening, others, Launch,
           Renamed, disk, local, history, StopAt, Stops, Operate
<1>14. ASSUME NEW p \in Launcher, Project(p) PROVE Concluded'
  BY <1>14, LauncherAssumption DEF Project, Concluded, Recorded, Closing, Reading, VerdictSeen, Verdicts, Owned,
           IInv, TypeOK, Checkpoint, Goto, Write, Live, Claim, Release, Opening, others, Launch,
           Renamed, disk, local, history, StopAt, Stops, Operate
<1>15. ASSUME NEW p \in Launcher, ReadStopRequest(p) PROVE Concluded'
  BY <1>15, LauncherAssumption DEF ReadStopRequest, Concluded, Recorded, Closing, Reading, VerdictSeen, Verdicts, Owned,
           IInv, TypeOK, Checkpoint, Goto, Write, Live, Claim, Release, Opening, others, Launch,
           Renamed, disk, local, history, StopAt, Stops, Operate
<1>16. ASSUME NEW p \in Launcher, ConsumeStopRequest(p) PROVE Concluded'
  BY <1>16, LauncherAssumption DEF ConsumeStopRequest, Concluded, Recorded, Closing, Reading, VerdictSeen, Verdicts, Owned,
           IInv, TypeOK, Checkpoint, Goto, Write, Live, Claim, Release, Opening, others, Launch,
           Renamed, disk, local, history, StopAt, Stops, Operate
<1>17. ASSUME NEW p \in Launcher, ReadForVerdict(p) PROVE Concluded'
  BY <1>17, LauncherAssumption DEF ReadForVerdict, Concluded, Recorded, Closing, Reading, VerdictSeen, Verdicts, Owned,
           IInv, TypeOK, Checkpoint, Goto, Write, Live, Claim, Release, Opening, others, Launch,
           Renamed, disk, local, history, StopAt, Stops, Operate
<1>18. ASSUME NEW p \in Launcher, CloseVerdictSession(p) PROVE Concluded'
  BY <1>18, LauncherAssumption DEF CloseVerdictSession, Concluded, Recorded, Closing, Reading, VerdictSeen, Verdicts, Owned,
           IInv, TypeOK, Checkpoint, Goto, Write, Live, Claim, Release, Opening, others, Launch,
           Renamed, disk, local, history, StopAt, Stops, Operate
<1>19. ASSUME NEW p \in Launcher, Dies(p) PROVE Concluded'
  BY <1>19, LauncherAssumption DEF Dies, Concluded, Recorded, Closing, Reading, VerdictSeen, Verdicts, Owned,
           IInv, TypeOK, Checkpoint, Goto, Write, Live, Claim, Release, Opening, others, Launch,
           Renamed, disk, local, history, StopAt, Stops, Operate
<1>20. ASSUME NEW p \in Launcher, Interrupt(p) PROVE Concluded'
  BY <1>20, LauncherAssumption DEF Interrupt, Concluded, Recorded, Closing, Reading, VerdictSeen, Verdicts, Owned,
           IInv, TypeOK, Checkpoint, Goto, Write, Live, Claim, Release, Opening, others, Launch,
           Renamed, disk, local, history, StopAt, Stops, Operate
<1>21. ASSUME StopFind PROVE Concluded'
  BY <1>21, LauncherAssumption DEF StopFind, Concluded, Recorded, Closing, Reading, VerdictSeen, Verdicts, Owned,
           IInv, TypeOK, Checkpoint, Goto, Write, Live, Claim, Release, Opening, others, Launch,
           Renamed, disk, local, history, StopAt, Stops, Operate
<1>22. ASSUME StopVerify PROVE Concluded'
  BY <1>22, LauncherAssumption DEF StopVerify, Concluded, Recorded, Closing, Reading, VerdictSeen, Verdicts, Owned,
           IInv, TypeOK, Checkpoint, Goto, Write, Live, Claim, Release, Opening, others, Launch,
           Renamed, disk, local, history, StopAt, Stops, Operate
<1>23. ASSUME StopWitness PROVE Concluded'
  BY <1>23, LauncherAssumption DEF StopWitness, Concluded, Recorded, Closing, Reading, VerdictSeen, Verdicts, Owned,
           IInv, TypeOK, Checkpoint, Goto, Write, Live, Claim, Release, Opening, others, Launch,
           Renamed, disk, local, history, StopAt, Stops, Operate
<1>24. ASSUME StopSignal PROVE Concluded'
  BY <1>24, LauncherAssumption DEF StopSignal, Concluded, Recorded, Closing, Reading, VerdictSeen, Verdicts, Owned,
           IInv, TypeOK, Checkpoint, Goto, Write, Live, Claim, Release, Opening, others, Launch,
           Renamed, disk, local, history, StopAt, Stops, Operate
<1>25. ASSUME StopKill PROVE Concluded'
  BY <1>25, LauncherAssumption DEF StopKill, Concluded, Recorded, Closing, Reading, VerdictSeen, Verdicts, Owned,
           IInv, TypeOK, Checkpoint, Goto, Write, Live, Claim, Release, Opening, others, Launch,
           Renamed, disk, local, history, StopAt, Stops, Operate
<1>26. ASSUME StopConfirm PROVE Concluded'
  BY <1>26, LauncherAssumption DEF StopConfirm, Concluded, Recorded, Closing, Reading, VerdictSeen, Verdicts, Owned,
           IInv, TypeOK, Checkpoint, Goto, Write, Live, Claim, Release, Opening, others, Launch,
           Renamed, disk, local, history, StopAt, Stops, Operate
<1>27. ASSUME DeleteSession PROVE Concluded'
  BY <1>27, LauncherAssumption DEF DeleteSession, Concluded, Recorded, Closing, Reading, VerdictSeen, Verdicts, Owned,
           IInv, TypeOK, Checkpoint, Goto, Write, Live, Claim, Release, Opening, others, Launch,
           Renamed, disk, local, history, StopAt, Stops, Operate
<1>28. ASSUME NEW p \in Launcher, WriterStep(p) PROVE Concluded'
  <2> DEFINE Ends(q) ==
        checkpoint.process = q =>
          /\ pc[q] \in {"consumeStop"} \cup Closing \/ (pc[q] = "exited" /\ q \notin unrecorded) => Recorded
          /\ frame[q] = "resume" => pc[q] \notin Reading
          /\ pc[q] \in Reading => pc[q] \in {"create", "refused", "publish"} /\ (fresh[q] \/ Recorded)
  <2>1. /\ \A q \in Launcher \ {p} : pc'[q] = pc[q] /\ frame'[q] = frame[q]
        /\ unrecorded \subseteq unrecorded'
        /\ UNCHANGED <<checkpoint, fresh>> \/ Written(p)
        /\ pc'[p] \in Reading => /\ pc[p] \in {"adopt", "inspectStarting", "inspectSettling"}
                                 /\ UNCHANGED frame
        /\ pc'[p] = "exited" => \/ p \in unrecorded'
                                \/ Written(p) /\ pc[p] # "publish"
                                \/ pc[p] \in {"adopt", "inspectStarting", "inspectSettling"}
                                \/ pc[p] = "publish" /\ ~fresh[p] /\ UNCHANGED checkpoint
        /\ pc'[p] \in {"consumeStop"} \cup Closing =>
             Written(p) /\ (pc[p] = "publish" => pc'[p] = "consumeSettled")
        /\ pc'[p] = "consumeSettled" => checkpoint.settled
    BY <1>28, WriterIs DEF Driving
  <2>2. /\ checkpoint'.process = checkpoint.process \/ (pc[p] = "publish" /\ checkpoint'.process = p)
        /\ Written(p) /\ pc[p] # "publish" => Recorded'
        /\ Written(p) /\ pc[p] = "publish" => /\ checkpoint'.process = p
                                              /\ checkpoint.settled => Recorded'
    BY <1>28, WrittenLeaves
  <2>3. UNCHANGED checkpoint => Recorded' = Recorded
    BY DEF Recorded
  <2>4. \A q \in Launcher : Ends(q)
    BY DEF IInv, Concluded
  <2>5. checkpoint.process = p => pc[p] \notin {"adopt", "inspectStarting", "inspectSettling"}
    BY <2>4 DEF Reading
  <2>6. ASSUME NEW q \in Launcher, q # p PROVE Ends(q)'
    BY <2>1, <2>2, <2>3, <2>4, <2>6
  <2>7. Ends(p)'
    BY <2>1, <2>2, <2>3, <2>4, <2>5 DEF Reading
  <2> HIDE DEF Ends
  <2>8. \A q \in Launcher : Ends(q)'
    BY <2>6, <2>7
  <2> QED BY <2>8 DEF Ends, Concluded
<1> QED
  BY <1>2, <1>3, <1>4, <1>5, <1>6, <1>7, <1>8, <1>9, <1>10, <1>11, <1>12, <1>13, <1>14, <1>15,
     <1>16, <1>17, <1>18, <1>19, <1>20, <1>21, <1>22, <1>23, <1>24, <1>25, <1>26, <1>27, <1>28
  DEF Next, Attempt, Stopping, WriterStep, Disputing, Outcome

\* A fresh view tells what is on disk.
LEMMA ViewsNext == ASSUME IInv, TypeOK', Next PROVE Views'
<1> DEFINE View(q) ==
      /\ pc[q] \in Resuming => frame[q] = "resume"
      /\ fresh[q] =>
           /\ pc[q] \in Before => checkpoint.status # "running"
           /\ pc[q] \in {"create", "publish"} /\ frame[q] = "start" => ~checkpoint.settled
           /\ pc[q] \in {"inspectStarting", "inspectSettling"} => owner[q] = checkpoint.process
           /\ pc[q] \in {"create", "inspectStarting"} => checkpoint.status = "starting"
           /\ pc[q] = "inspectSettling" => checkpoint.status = "settling"
           /\ pc[q] \in {"open", "openOrCreate", "refused", "publish"} /\ checkpoint.status = "settling"
                => overwritten \/ ~Live(checkpoint.process)
<1>0. Views /\ TypeOK
  BY DEF IInv
<1>2. ASSUME NEW p \in Launcher, Start(p) PROVE Views'
  <2>1. /\ fresh' = [q \in Launcher |-> q = p] /\ frame'[p] = "start" /\ pc'[p] = "create"
        /\ \A q \in Launcher \ {p} : pc'[q] = pc[q] /\ frame'[q] = frame[q]
        /\ checkpoint'.status = "starting" /\ ~checkpoint'.settled
    BY <1>2 DEF Start, Launch, Write, Goto, IInv, TypeOK, Checkpoint, VerdictSeen
  <2>2. ASSUME NEW q \in Launcher, pc'[q] \in Resuming PROVE frame'[q] = "resume"
    BY <2>1, <2>2 DEF IInv, Views, Resuming
  <2> QED BY <2>1, <2>2 DEF Views, Before
<1>3. ASSUME NEW p \in Launcher, Resume(p) PROVE Views'
  BY <1>3, LauncherAssumption DEF Resume, Views, Before, Reading, Resuming,
           IInv, TypeOK, Checkpoint, Goto, Write, Live, Claim, Release, Opening, others, Launch,
           Renamed, disk, local, history, StopAt, Stops, Operate
<1>4. ASSUME NEW p \in Launcher, Open(p) \/ OpenFails(p) PROVE Views'
  <2>1. /\ pc[p] \in {"create", "open", "openOrCreate"} /\ UNCHANGED <<checkpoint, fresh, owner, frame>>
        /\ \A q \in Launcher \ {p} : pc'[q] = pc[q]
        /\ pc'[p] \in {"publish", "refused"} /\ overwritten' = overwritten
    BY <1>0, <1>4 DEF Open, OpenFails, Opening, others, history, Goto, TypeOK, disk
  <2>2. \A id : Live(id)' <=> Live(id)
    BY <2>1 DEF Live
  <2>3. ASSUME NEW q \in Launcher PROVE View(q)'
    BY <1>0, <2>1, <2>2, <2>3 DEF Views, Before, Reading, Resuming
  <2> HIDE DEF View
  <2> QED BY <2>3 DEF Views, View
<1>5. ASSUME NEW p \in Launcher, Consume(p) PROVE Views'
  BY <1>5, LauncherAssumption DEF Consume, Views, Before, Reading, Resuming,
           IInv, TypeOK, Checkpoint, Goto, Write, Live, Claim, Release, Opening, others, Launch,
           Renamed, disk, local, history, StopAt, Stops, Operate
<1>6. ASSUME NEW p \in Launcher, ReadCloseout(p) \/ Escapes(p) PROVE Views'
  BY <1>6, LauncherAssumption DEF ReadCloseout, Escapes, Views, Before, Reading, Resuming,
           IInv, TypeOK, Checkpoint, Goto, Write, Live, Claim, Release, Opening, others, Launch,
           Renamed, disk, local, history, StopAt, Stops, Operate
<1>7. ASSUME NEW p \in Launcher, SubmitVerdict(p) PROVE Views'
  BY <1>7, LauncherAssumption DEF SubmitVerdict, Views, Before, Reading, Resuming,
           IInv, TypeOK, Checkpoint, Goto, Write, Live, Claim, Release, Opening, others, Launch,
           Renamed, disk, local, history, StopAt, Stops, Operate
<1>8. ASSUME NEW p \in Launcher, SaveUsage(p) PROVE Views'
  BY <1>8, LauncherAssumption DEF SaveUsage, Views, Before, Reading, Resuming,
           IInv, TypeOK, Checkpoint, Goto, Write, Live, Claim, Release, Opening, others, Launch,
           Renamed, disk, local, history, StopAt, Stops, Operate
<1>9. ASSUME NEW p \in Launcher, EndOperation(p) PROVE Views'
  BY <1>9, LauncherAssumption DEF EndOperation, Views, Before, Reading, Resuming,
           IInv, TypeOK, Checkpoint, Goto, Write, Live, Claim, Release, Opening, others, Launch,
           Renamed, disk, local, history, StopAt, Stops, Operate
<1>10. ASSUME NEW p \in Launcher, Finalize(p) PROVE Views'
  BY <1>10, LauncherAssumption DEF Finalize, Views, Before, Reading, Resuming,
           IInv, TypeOK, Checkpoint, Goto, Write, Live, Claim, Release, Opening, others, Launch,
           Renamed, disk, local, history, StopAt, Stops, Operate
<1>11. ASSUME NEW p \in Launcher, Reopen(p) PROVE Views'
  BY <1>11, LauncherAssumption DEF Reopen, Views, Before, Reading, Resuming,
           IInv, TypeOK, Checkpoint, Goto, Write, Live, Claim, Release, Opening, others, Launch,
           Renamed, disk, local, history, StopAt, Stops, Operate
<1>12. ASSUME NEW p \in Launcher, FinalizeFails(p) PROVE Views'
  BY <1>12, LauncherAssumption DEF FinalizeFails, Views, Before, Reading, Resuming,
           IInv, TypeOK, Checkpoint, Goto, Write, Live, Claim, Release, Opening, others, Launch,
           Renamed, disk, local, history, StopAt, Stops, Operate
<1>13. ASSUME NEW p \in Launcher, Project(p) PROVE Views'
  BY <1>13, LauncherAssumption DEF Project, Views, Before, Reading, Resuming,
           IInv, TypeOK, Checkpoint, Goto, Write, Live, Claim, Release, Opening, others, Launch,
           Renamed, disk, local, history, StopAt, Stops, Operate
<1>14. ASSUME NEW p \in Launcher, ReadStopRequest(p) PROVE Views'
  BY <1>14, LauncherAssumption DEF ReadStopRequest, Views, Before, Reading, Resuming,
           IInv, TypeOK, Checkpoint, Goto, Write, Live, Claim, Release, Opening, others, Launch,
           Renamed, disk, local, history, StopAt, Stops, Operate
<1>15. ASSUME NEW p \in Launcher, ConsumeStopRequest(p) PROVE Views'
  BY <1>15, LauncherAssumption DEF ConsumeStopRequest, Views, Before, Reading, Resuming,
           IInv, TypeOK, Checkpoint, Goto, Write, Live, Claim, Release, Opening, others, Launch,
           Renamed, disk, local, history, StopAt, Stops, Operate
<1>16. ASSUME NEW p \in Launcher, ReadForVerdict(p) PROVE Views'
  BY <1>16, LauncherAssumption DEF ReadForVerdict, Views, Before, Reading, Resuming,
           IInv, TypeOK, Checkpoint, Goto, Write, Live, Claim, Release, Opening, others, Launch,
           Renamed, disk, local, history, StopAt, Stops, Operate
<1>17. ASSUME NEW p \in Launcher, CloseVerdictSession(p) PROVE Views'
  BY <1>17, LauncherAssumption DEF CloseVerdictSession, Views, Before, Reading, Resuming,
           IInv, TypeOK, Checkpoint, Goto, Write, Live, Claim, Release, Opening, others, Launch,
           Renamed, disk, local, history, StopAt, Stops, Operate
<1>18. ASSUME NEW p \in Launcher, Dies(p) PROVE Views'
  BY <1>18, LauncherAssumption DEF Dies, Views, Before, Reading, Resuming,
           IInv, TypeOK, Checkpoint, Goto, Write, Live, Claim, Release, Opening, others, Launch,
           Renamed, disk, local, history, StopAt, Stops, Operate
<1>19. ASSUME NEW p \in Launcher, Interrupt(p) PROVE Views'
  BY <1>19, LauncherAssumption DEF Interrupt, Views, Before, Reading, Resuming,
           IInv, TypeOK, Checkpoint, Goto, Write, Live, Claim, Release, Opening, others, Launch,
           Renamed, disk, local, history, StopAt, Stops, Operate
<1>20. ASSUME StopFind PROVE Views'
  BY <1>20, LauncherAssumption DEF StopFind, Views, Before, Reading, Resuming,
           IInv, TypeOK, Checkpoint, Goto, Write, Live, Claim, Release, Opening, others, Launch,
           Renamed, disk, local, history, StopAt, Stops, Operate
<1>21. ASSUME StopVerify PROVE Views'
  BY <1>21, LauncherAssumption DEF StopVerify, Views, Before, Reading, Resuming,
           IInv, TypeOK, Checkpoint, Goto, Write, Live, Claim, Release, Opening, others, Launch,
           Renamed, disk, local, history, StopAt, Stops, Operate
<1>22. ASSUME StopWitness PROVE Views'
  BY <1>22, LauncherAssumption DEF StopWitness, Views, Before, Reading, Resuming,
           IInv, TypeOK, Checkpoint, Goto, Write, Live, Claim, Release, Opening, others, Launch,
           Renamed, disk, local, history, StopAt, Stops, Operate
<1>23. ASSUME StopSignal PROVE Views'
  BY <1>23, LauncherAssumption DEF StopSignal, Views, Before, Reading, Resuming,
           IInv, TypeOK, Checkpoint, Goto, Write, Live, Claim, Release, Opening, others, Launch,
           Renamed, disk, local, history, StopAt, Stops, Operate
<1>24. ASSUME StopKill PROVE Views'
  BY <1>24, LauncherAssumption DEF StopKill, Views, Before, Reading, Resuming,
           IInv, TypeOK, Checkpoint, Goto, Write, Live, Claim, Release, Opening, others, Launch,
           Renamed, disk, local, history, StopAt, Stops, Operate
<1>25. ASSUME StopConfirm PROVE Views'
  BY <1>25, LauncherAssumption DEF StopConfirm, Views, Before, Reading, Resuming,
           IInv, TypeOK, Checkpoint, Goto, Write, Live, Claim, Release, Opening, others, Launch,
           Renamed, disk, local, history, StopAt, Stops, Operate
<1>26. ASSUME DeleteSession PROVE Views'
  BY <1>26, LauncherAssumption DEF DeleteSession, Views, Before, Reading, Resuming,
           IInv, TypeOK, Checkpoint, Goto, Write, Live, Claim, Release, Opening, others, Launch,
           Renamed, disk, local, history, StopAt, Stops, Operate
<1>27. ASSUME NEW p \in Launcher, Adopt(p) \/ RecordRefusal(p) \/ PauseInterrupted(p) PROVE Views'
  <2>1. /\ UNCHANGED <<owner, frame>>
        /\ \A q \in Launcher \ {p} : pc'[q] = pc[q]
        /\ pc'[p] \in {"exited", "verdict", "consumeStop", "open"} /\ pc[p] \notin {"down", "exited"}
        /\ overwritten => overwritten'
        /\ fresh' = [q \in Launcher |-> q = p] \/ UNCHANGED <<checkpoint, fresh>>
    BY <1>0, <1>27, DisputedIs DEF Moves, Written
  <2>2. CASE pc'[p] # "open"
    BY <1>0, <2>1, <2>2, WriterViews, OtherViews DEF Reading
  <2>3. CASE pc'[p] = "open"
    <3>1. pc[p] = "adopt" /\ fresh' = [q \in Launcher |-> q = p] /\ checkpoint'.status = "failed"
      BY <1>0, <1>27, <2>3, DisputedIs DEF Moves, Written
    <3>2. ASSUME NEW q \in Launcher PROVE View(q)'
      BY <1>0, <2>1, <2>3, <3>1, <3>2 DEF Views, Before, Reading, Resuming
    <3> HIDE DEF View
    <3> QED BY <3>2 DEF Views, View
  <2> QED BY <2>2, <2>3
<1>28. ASSUME NEW p \in Launcher, Inspect(p) PROVE Views'
  <2>1. /\ UNCHANGED <<checkpoint, fresh, owner, frame>>
        /\ \A q \in Launcher \ {p} : pc'[q] = pc[q]
        /\ pc[p] \in {"inspectStarting", "inspectSettling"}
        /\ \/ pc'[p] = "exited"
           \/ pc[p] = "inspectStarting" /\ pc'[p] = "openOrCreate"
           \/ pc[p] = "inspectSettling" /\ pc'[p] = "open" /\ (Live(owner[p]) => overwritten')
        /\ overwritten => overwritten'
    BY <1>0, <1>28, InspectIs DEF Moves
  <2>2. \A id : ~Live(id) => ~Live(id)'
    BY <2>1 DEF Live
  <2>3. ASSUME NEW q \in Launcher PROVE View(q)'
    BY <1>0, <2>1, <2>2, <2>3 DEF Views, Before, Reading, Resuming
  <2> HIDE DEF View
  <2> QED BY <2>3 DEF Views, View
<1>29. ASSUME NEW p \in Launcher, Publish(p) PROVE Views'
  <2>1. /\ UNCHANGED owner
        /\ \A q \in Launcher \ {p} : frame'[q] = frame[q] /\ pc'[q] = pc[q]
        /\ pc'[p] \notin Reading /\ pc[p] \notin {"down", "exited"}
        /\ overwritten => overwritten'
    BY <1>0, <1>29, PublishIs DEF Reading, Moves
  <2>2. fresh' = [q \in Launcher |-> q = p] \/ UNCHANGED <<checkpoint, fresh>>
    BY <1>0, <1>29, PublishIs DEF Written
  <2> QED BY <1>0, <2>1, <2>2, WriterViews, OtherViews
<1>30. ASSUME NEW p \in Launcher, Settle(p) \/ Conclude(p) \/ CompleteVerdict(p) PROVE Views'
  <2>1. /\ UNCHANGED owner
        /\ \A q \in Launcher \ {p} : frame'[q] = frame[q] /\ pc'[q] = pc[q]
        /\ pc'[p] \notin Reading /\ pc[p] \notin {"down", "exited"}
        /\ overwritten => overwritten'
    BY <1>0, <1>30, OutcomeIs DEF Reading, Moves
  <2>2. fresh' = [q \in Launcher |-> q = p] \/ UNCHANGED <<checkpoint, fresh>>
    BY <1>0, <1>30, OutcomeIs DEF Written
  <2> QED BY <1>0, <2>1, <2>2, WriterViews, OtherViews
<1>31. ASSUME NEW p \in Launcher, Caught(p) PROVE Views'
  <2>1. /\ UNCHANGED owner
        /\ \A q \in Launcher \ {p} : frame'[q] = frame[q] /\ pc'[q] = pc[q]
        /\ pc'[p] \notin Reading /\ pc[p] \notin {"down", "exited"}
        /\ overwritten => overwritten'
    BY <1>0, <1>31, CaughtIs DEF Reading, Moves
  <2>2. fresh' = [q \in Launcher |-> q = p] \/ UNCHANGED <<checkpoint, fresh>>
    BY <1>0, <1>31, CaughtIs DEF Written
  <2> QED BY <1>0, <2>1, <2>2, WriterViews, OtherViews
<1>32. ASSUME NEW p \in Launcher, SaveThrows(p) PROVE Views'
  <2>1. /\ UNCHANGED owner
        /\ \A q \in Launcher \ {p} : frame'[q] = frame[q] /\ pc'[q] = pc[q]
        /\ pc'[p] \notin Reading /\ pc[p] \notin {"down", "exited"}
        /\ overwritten => overwritten'
    BY <1>0, <1>32, ThrowsIs DEF Reading, Moves, Writing
  <2>2. fresh' = [q \in Launcher |-> q = p] \/ UNCHANGED <<checkpoint, fresh>>
    BY <1>0, <1>32, ThrowsIs DEF Written
  <2> QED BY <1>0, <2>1, <2>2, WriterViews, OtherViews
<1> QED
  BY <1>2, <1>3, <1>4, <1>5, <1>6, <1>7, <1>8, <1>9, <1>10, <1>11, <1>12, <1>13, <1>14, <1>15,
     <1>16, <1>17, <1>18, <1>19, <1>20, <1>21, <1>22, <1>23, <1>24, <1>25, <1>26, <1>27,
     <1>28, <1>29, <1>30, <1>31, <1>32
  DEF Next, Attempt, Stopping

\* Nobody is at work on what a fresh view may still take over.
LEMMA FreshAlone ==
  ASSUME IInv, ~overwritten, NEW p \in Launcher, pc[p] \in {"refused", "publish"}, fresh[p]
  PROVE  \A q \in Launcher : pc[q] \notin Working \cup Verdicts
<1>1. /\ checkpoint.status # "running" /\ ~checkpoint.verdict
      /\ checkpoint.status = "settling" => ~Live(checkpoint.process)
  BY DEF IInv, VerdictSeen, Views, Before, Reading
<1> SUFFICES ASSUME NEW q \in Launcher PROVE pc[q] \notin Working \cup Verdicts
  OBVIOUS
<1>2. ASSUME pc[q] \in Working, checkpoint.process = q PROVE checkpoint.status # "settling"
  BY <1>1, <1>2 DEF Live, Working, Running, Closing
<1> QED BY <1>1, <1>2 DEF IInv, Followed, VerdictSeen, Working, Running, Closing

\* Nor on what is its writer's own.
LEMMA UndisputedAlone ==
  ASSUME IInv, ~overwritten, NEW p \in Launcher, pc[p] \in {"adopt", "refused", "pausing"}, ~Disputes(p)
  PROVE  \A q \in Launcher : pc[q] \notin Working
<1>1. CASE pc[p] = "adopt"
  <2>1. checkpoint.status = "running" /\ ~Live(checkpoint.process)
    BY <1>1 DEF Disputes
  <2> SUFFICES ASSUME NEW q \in Launcher, pc[q] \in Working PROVE FALSE
    OBVIOUS
  <2>2. checkpoint.process = q
    BY <2>1 DEF IInv, Followed, Owned, Driving, Working, Closing
  <2> QED BY <2>1, <2>2 DEF Live, Working, Running, Closing
<1>2. CASE pc[p] = "refused"
  BY <1>2, FreshAlone DEF Disputes
<1>3. CASE pc[p] = "pausing"
  BY <1>3 DEF Disputes, IInv, Followed
<1> QED BY <1>1, <1>2, <1>3

\* Whoever writes an outcome was alone at work, and the record tells what it goes on to.
LEMMA WriterFollowed ==
  ASSUME IInv, ~overwritten, NEW p \in Launcher, Written(p),
         pc[p] \in {"settle", "conclude", "caught", "verdictWrite"},
         \A q \in Launcher \ {p} : pc'[q] = pc[q],
         \/ pc[p] = "settle" /\ pc'[p] \in {"finalize", "caught"}
         \/ pc'[p] = "exited"
         \/ pc[p] = "caught" /\ pc'[p] = "interrupted"
  PROVE  Followed'
<1>1. CASE pc[p] = "verdictWrite"
  <2>1. /\ pc'[p] = "exited" /\ checkpoint'.status = "complete" /\ checkpoint'.verdict
        /\ fresh' = [q \in Launcher |-> q = p]
    BY <1>1 DEF IInv, VerdictSeen, Verdicts, Written
  <2>2. ASSUME NEW q \in Launcher PROVE pc[q] \notin Running \cup {"settle"}
    <3>1. checkpoint.status = "running" => checkpoint.process = p
      BY <1>1 DEF IInv, Followed, Verdicts
    <3> QED BY <1>1, <3>1 DEF IInv, Followed, Owned, Driving, Running
  <2>3. \A q, r \in Launcher : pc[q] \in Working /\ pc[r] \in Working => q = r
    BY DEF IInv, Followed
  <2> QED BY <2>1, <2>2, <2>3 DEF Followed, Working, Running, Closing
<1>2. CASE pc[p] \in {"settle", "conclude", "caught"}
  <2>1. \A q \in Launcher \ {p} : pc'[q] \notin Working
    BY <1>2 DEF IInv, Followed, Working, Closing
  <2>2. pc[p] = "settle" => checkpoint.process = p
    BY <1>2 DEF IInv, Followed
  <2>3. /\ fresh' = [q \in Launcher |-> q = p] /\ checkpoint'.status # "running"
        /\ pc[p] = "settle" => checkpoint'.process = p /\ checkpoint'.status = "settling" /\ checkpoint'.settled
    BY <1>2, <2>2 DEF Written
  <2>4. \A q \in Launcher : /\ pc'[q] \notin Running \cup {"settle"}
                            /\ pc'[q] \in Working => q = p /\ pc[p] = "settle"
    BY <1>2, <2>1 DEF Working, Running, Closing
  <2>5. ASSUME NEW q \in Launcher, pc'[q] \in {"interrupted", "pausing"}, fresh'[q]
        PROVE  \A r \in Launcher : pc'[r] \notin Working
    BY <2>3, <2>4, <2>5
  <2> QED BY <2>3, <2>4, <2>5 DEF Followed, Working
<1> QED BY <1>1, <1>2

\* At most one process is past the publication, and the checkpoint follows it.
LEMMA FollowedNext == ASSUME IInv, TypeOK', Next PROVE Followed'
<1>2. ASSUME NEW p \in Launcher, Start(p) PROVE Followed'
  BY <1>2, LauncherAssumption DEF Start, Followed, Closing, Verdicts, Working, Running, Owned, Driving, VerdictSeen, Views, Before, Reading,
           IInv, TypeOK, Checkpoint, Goto, Write, Live, Claim, Release, Opening, others, Launch,
           Renamed, disk, local, history, StopAt, Stops, Operate
<1>3. ASSUME NEW p \in Launcher, Resume(p) PROVE Followed'
  BY <1>3, LauncherAssumption DEF Resume, Followed, Closing, Verdicts, Working, Running, Owned, Driving, VerdictSeen, Views, Before, Reading,
           IInv, TypeOK, Checkpoint, Goto, Write, Live, Claim, Release, Opening, others, Launch,
           Renamed, disk, local, history, StopAt, Stops, Operate
<1>4. ASSUME NEW p \in Launcher, Open(p) PROVE Followed'
  BY <1>4, LauncherAssumption DEF Open, Followed, Closing, Verdicts, Working, Running, Owned, Driving, VerdictSeen, Views, Before, Reading,
           IInv, TypeOK, Checkpoint, Goto, Write, Live, Claim, Release, Opening, others, Launch,
           Renamed, disk, local, history, StopAt, Stops, Operate
<1>5. ASSUME NEW p \in Launcher, OpenFails(p) PROVE Followed'
  BY <1>5, LauncherAssumption DEF OpenFails, Followed, Closing, Verdicts, Working, Running, Owned, Driving, VerdictSeen, Views, Before, Reading,
           IInv, TypeOK, Checkpoint, Goto, Write, Live, Claim, Release, Opening, others, Launch,
           Renamed, disk, local, history, StopAt, Stops, Operate
<1>6. ASSUME NEW p \in Launcher, Consume(p) PROVE Followed'
  BY <1>6, LauncherAssumption DEF Consume, Followed, Closing, Verdicts, Working, Running, Owned, Driving, VerdictSeen, Views, Before, Reading,
           IInv, TypeOK, Checkpoint, Goto, Write, Live, Claim, Release, Opening, others, Launch,
           Renamed, disk, local, history, StopAt, Stops, Operate
<1>7. ASSUME NEW p \in Launcher, ReadCloseout(p) \/ Escapes(p) PROVE Followed'
  BY <1>7, LauncherAssumption DEF ReadCloseout, Escapes, Followed, Closing, Verdicts, Working, Running, Owned, Driving, VerdictSeen, Views, Before, Reading,
           IInv, TypeOK, Checkpoint, Goto, Write, Live, Claim, Release, Opening, others, Launch,
           Renamed, disk, local, history, StopAt, Stops, Operate
<1>8. ASSUME NEW p \in Launcher, SubmitVerdict(p) PROVE Followed'
  BY <1>8, LauncherAssumption DEF SubmitVerdict, Followed, Closing, Verdicts, Working, Running, Owned, Driving, VerdictSeen, Views, Before, Reading,
           IInv, TypeOK, Checkpoint, Goto, Write, Live, Claim, Release, Opening, others, Launch,
           Renamed, disk, local, history, StopAt, Stops, Operate
<1>9. ASSUME NEW p \in Launcher, SaveUsage(p) PROVE Followed'
  BY <1>9, LauncherAssumption DEF SaveUsage, Followed, Closing, Verdicts, Working, Running, Owned, Driving, VerdictSeen, Views, Before, Reading,
           IInv, TypeOK, Checkpoint, Goto, Write, Live, Claim, Release, Opening, others, Launch,
           Renamed, disk, local, history, StopAt, Stops, Operate
<1>10. ASSUME NEW p \in Launcher, EndOperation(p) PROVE Followed'
  BY <1>10, LauncherAssumption DEF EndOperation, Followed, Closing, Verdicts, Working, Running, Owned, Driving, VerdictSeen, Views, Before, Reading,
           IInv, TypeOK, Checkpoint, Goto, Write, Live, Claim, Release, Opening, others, Launch,
           Renamed, disk, local, history, StopAt, Stops, Operate
<1>11. ASSUME NEW p \in Launcher, Finalize(p) PROVE Followed'
  BY <1>11, LauncherAssumption DEF Finalize, Followed, Closing, Verdicts, Working, Running, Owned, Driving, VerdictSeen, Views, Before, Reading,
           IInv, TypeOK, Checkpoint, Goto, Write, Live, Claim, Release, Opening, others, Launch,
           Renamed, disk, local, history, StopAt, Stops, Operate
<1>12. ASSUME NEW p \in Launcher, Reopen(p) PROVE Followed'
  BY <1>12, LauncherAssumption DEF Reopen, Followed, Closing, Verdicts, Working, Running, Owned, Driving, VerdictSeen, Views, Before, Reading,
           IInv, TypeOK, Checkpoint, Goto, Write, Live, Claim, Release, Opening, others, Launch,
           Renamed, disk, local, history, StopAt, Stops, Operate
<1>13. ASSUME NEW p \in Launcher, FinalizeFails(p) PROVE Followed'
  BY <1>13, LauncherAssumption DEF FinalizeFails, Followed, Closing, Verdicts, Working, Running, Owned, Driving, VerdictSeen, Views, Before, Reading,
           IInv, TypeOK, Checkpoint, Goto, Write, Live, Claim, Release, Opening, others, Launch,
           Renamed, disk, local, history, StopAt, Stops, Operate
<1>14. ASSUME NEW p \in Launcher, Project(p) PROVE Followed'
  BY <1>14, LauncherAssumption DEF Project, Followed, Closing, Verdicts, Working, Running, Owned, Driving, VerdictSeen, Views, Before, Reading,
           IInv, TypeOK, Checkpoint, Goto, Write, Live, Claim, Release, Opening, others, Launch,
           Renamed, disk, local, history, StopAt, Stops, Operate
<1>15. ASSUME NEW p \in Launcher, ReadStopRequest(p) PROVE Followed'
  BY <1>15, LauncherAssumption DEF ReadStopRequest, Followed, Closing, Verdicts, Working, Running, Owned, Driving, VerdictSeen, Views, Before, Reading,
           IInv, TypeOK, Checkpoint, Goto, Write, Live, Claim, Release, Opening, others, Launch,
           Renamed, disk, local, history, StopAt, Stops, Operate
<1>16. ASSUME NEW p \in Launcher, ConsumeStopRequest(p) PROVE Followed'
  BY <1>16, LauncherAssumption DEF ConsumeStopRequest, Followed, Closing, Verdicts, Working, Running, Owned, Driving, VerdictSeen, Views, Before, Reading,
           IInv, TypeOK, Checkpoint, Goto, Write, Live, Claim, Release, Opening, others, Launch,
           Renamed, disk, local, history, StopAt, Stops, Operate
<1>17. ASSUME NEW p \in Launcher, ReadForVerdict(p) PROVE Followed'
  BY <1>17, LauncherAssumption DEF ReadForVerdict, Followed, Closing, Verdicts, Working, Running, Owned, Driving, VerdictSeen, Views, Before, Reading,
           IInv, TypeOK, Checkpoint, Goto, Write, Live, Claim, Release, Opening, others, Launch,
           Renamed, disk, local, history, StopAt, Stops, Operate
<1>18. ASSUME NEW p \in Launcher, CloseVerdictSession(p) PROVE Followed'
  BY <1>18, LauncherAssumption DEF CloseVerdictSession, Followed, Closing, Verdicts, Working, Running, Owned, Driving, VerdictSeen, Views, Before, Reading,
           IInv, TypeOK, Checkpoint, Goto, Write, Live, Claim, Release, Opening, others, Launch,
           Renamed, disk, local, history, StopAt, Stops, Operate
<1>19. ASSUME NEW p \in Launcher, Dies(p) PROVE Followed'
  BY <1>19, LauncherAssumption DEF Dies, Followed, Closing, Verdicts, Working, Running, Owned, Driving, VerdictSeen, Views, Before, Reading,
           IInv, TypeOK, Checkpoint, Goto, Write, Live, Claim, Release, Opening, others, Launch,
           Renamed, disk, local, history, StopAt, Stops, Operate
<1>20. ASSUME NEW p \in Launcher, Interrupt(p) PROVE Followed'
  BY <1>20, LauncherAssumption DEF Interrupt, Followed, Closing, Verdicts, Working, Running, Owned, Driving, VerdictSeen, Views, Before, Reading,
           IInv, TypeOK, Checkpoint, Goto, Write, Live, Claim, Release, Opening, others, Launch,
           Renamed, disk, local, history, StopAt, Stops, Operate
<1>21. ASSUME StopFind PROVE Followed'
  BY <1>21, LauncherAssumption DEF StopFind, Followed, Closing, Verdicts, Working, Running, Owned, Driving, VerdictSeen, Views, Before, Reading,
           IInv, TypeOK, Checkpoint, Goto, Write, Live, Claim, Release, Opening, others, Launch,
           Renamed, disk, local, history, StopAt, Stops, Operate
<1>22. ASSUME StopVerify PROVE Followed'
  BY <1>22, LauncherAssumption DEF StopVerify, Followed, Closing, Verdicts, Working, Running, Owned, Driving, VerdictSeen, Views, Before, Reading,
           IInv, TypeOK, Checkpoint, Goto, Write, Live, Claim, Release, Opening, others, Launch,
           Renamed, disk, local, history, StopAt, Stops, Operate
<1>23. ASSUME StopWitness PROVE Followed'
  BY <1>23, LauncherAssumption DEF StopWitness, Followed, Closing, Verdicts, Working, Running, Owned, Driving, VerdictSeen, Views, Before, Reading,
           IInv, TypeOK, Checkpoint, Goto, Write, Live, Claim, Release, Opening, others, Launch,
           Renamed, disk, local, history, StopAt, Stops, Operate
<1>24. ASSUME StopSignal PROVE Followed'
  BY <1>24, LauncherAssumption DEF StopSignal, Followed, Closing, Verdicts, Working, Running, Owned, Driving, VerdictSeen, Views, Before, Reading,
           IInv, TypeOK, Checkpoint, Goto, Write, Live, Claim, Release, Opening, others, Launch,
           Renamed, disk, local, history, StopAt, Stops, Operate
<1>25. ASSUME StopKill PROVE Followed'
  BY <1>25, LauncherAssumption DEF StopKill, Followed, Closing, Verdicts, Working, Running, Owned, Driving, VerdictSeen, Views, Before, Reading,
           IInv, TypeOK, Checkpoint, Goto, Write, Live, Claim, Release, Opening, others, Launch,
           Renamed, disk, local, history, StopAt, Stops, Operate
<1>26. ASSUME StopConfirm PROVE Followed'
  BY <1>26, LauncherAssumption DEF StopConfirm, Followed, Closing, Verdicts, Working, Running, Owned, Driving, VerdictSeen, Views, Before, Reading,
           IInv, TypeOK, Checkpoint, Goto, Write, Live, Claim, Release, Opening, others, Launch,
           Renamed, disk, local, history, StopAt, Stops, Operate
<1>27. ASSUME DeleteSession PROVE Followed'
  BY <1>27, LauncherAssumption DEF DeleteSession, Followed, Closing, Verdicts, Working, Running, Owned, Driving, VerdictSeen, Views, Before, Reading,
           IInv, TypeOK, Checkpoint, Goto, Write, Live, Claim, Release, Opening, others, Launch,
           Renamed, disk, local, history, StopAt, Stops, Operate
<1>28. ASSUME NEW p \in Launcher, Adopt(p) \/ RecordRefusal(p) \/ PauseInterrupted(p) PROVE Followed'
  <2>1. \/ Moves(p, {"adopt"}, {"exited"}) /\ UNCHANGED <<checkpoint, fresh, overwritten>>
        \/ /\ Moves(p, {"adopt", "refused", "pausing"}, {"verdict", "open", "exited", "consumeStop"})
           /\ pc'[p] = "verdict" => pc[p] = "adopt"
           /\ Written(p) /\ (overwritten' <=> overwritten \/ Disputes(p))
    BY <1>28, DisputedIs DEF IInv, Moves
  <2>2. CASE UNCHANGED <<checkpoint, fresh, overwritten>> /\ Moves(p, {"adopt"}, {"exited"})
    BY <2>2 DEF IInv, Followed, Working, Running, Closing, Verdicts, Moves
  <2>3. CASE /\ Moves(p, {"adopt", "refused", "pausing"}, {"verdict", "open", "exited", "consumeStop"})
             /\ Written(p) /\ (overwritten' <=> overwritten \/ Disputes(p)) /\ ~overwritten'
    <3>1. ~overwritten /\ ~Disputes(p) /\ pc[p] \in {"adopt", "refused", "pausing"}
      BY <2>1, <2>3 DEF Moves
    <3>2. \A q \in Launcher : pc[q] \notin Working
      BY <3>1, UndisputedAlone
    <3>3. checkpoint'.status # "running"
      BY <2>3, <3>1 DEF Written
    <3>4. /\ pc'[p] \in {"verdict", "open", "exited", "consumeStop"}
          /\ \A q \in Launcher \ {p} : pc'[q] = pc[q]
      BY <2>1, <2>3 DEF Moves
    <3> QED BY <2>3, <3>2, <3>3, <3>4 DEF Followed, Working, Running, Closing, Verdicts, Written
  <2> QED BY <2>1, <2>2, <2>3 DEF Followed
<1>29. ASSUME NEW p \in Launcher, Inspect(p) PROVE Followed'
  BY <1>29, LauncherAssumption, InspectIs DEF IInv, Followed, Closing, Verdicts, Working, Running, Owned, Driving, VerdictSeen, Views, Before, Reading, Live, Moves, Written, Writing
<1>30. ASSUME NEW p \in Launcher, Publish(p) PROVE Followed'
  <2> SUFFICES ASSUME ~overwritten PROVE Followed'
    BY <1>30, PublishIs DEF IInv, Followed
  <2>1. /\ pc[p] = "publish" /\ UNCHANGED overwritten
        /\ \A q \in Launcher \ {p} : pc'[q] = pc[q]
    BY <1>30, PublishIs DEF IInv
  <2>2. CASE ~fresh[p]
    <3>1. UNCHANGED <<checkpoint, fresh>> /\ pc'[p] = "exited"
      BY <1>30, <2>2, PublishIs DEF IInv
    <3> QED BY <2>1, <3>1 DEF IInv, Followed, Working, Running, Closing, Verdicts
  <2>3. CASE fresh[p]
    <3>1. /\ Written(p)
          /\ \/ frame[p] = "start" /\ pc'[p] = "operate"
             \/ checkpoint.settled /\ pc'[p] = "consumeSettled"
             \/ /\ frame[p] # "start" /\ ~checkpoint.settled
                /\ pc'[p] \in {"consumeRun", "consumeCloseout"}
      BY <1>30, <2>3, PublishIs DEF IInv
    <3>2. frame[p] = "start" => ~checkpoint.settled
      BY <2>1, <2>3 DEF IInv, Views
    <3>3. \A q \in Launcher : pc[q] \notin Working \cup Verdicts
      BY <2>1, <2>3, FreshAlone DEF IInv, Reading, Before
    <3> QED BY <2>1, <3>1, <3>2, <3>3 DEF Followed, Working, Running, Closing, Verdicts, Written
  <2> QED BY <2>2, <2>3
<1>31. ASSUME NEW p \in Launcher, Settle(p) \/ Conclude(p) \/ CompleteVerdict(p) PROVE Followed'
  <2>1. /\ \/ Moves(p, {"settle"}, {"finalize"})
           \/ Moves(p, {"conclude", "verdictWrite"}, {"exited"})
        /\ Written(p) /\ overwritten' = overwritten
    BY <1>31, OutcomeIs DEF IInv
  <2> SUFFICES ASSUME ~overwritten PROVE Followed'
    BY <2>1 DEF Followed
  <2> QED BY <2>1, WriterFollowed DEF Moves
<1>32. ASSUME NEW p \in Launcher, Caught(p) PROVE Followed'
  <2>1. /\ Moves(p, {"caught"}, {"verdict", "interrupted", "exited"})
        /\ overwritten' = overwritten
        /\ \/ pc'[p] \in {"verdict", "interrupted"} /\ UNCHANGED <<checkpoint, fresh>>
           \/ pc'[p] \in {"interrupted", "exited"} /\ Written(p)
    BY <1>32, CaughtIs DEF IInv
  <2> SUFFICES ASSUME ~overwritten PROVE Followed'
    BY <2>1 DEF Followed
  <2>2. CASE UNCHANGED <<checkpoint, fresh>> /\ pc'[p] \in {"verdict", "interrupted"}
    <3>1. \A q \in Launcher \ {p} : pc[q] \notin Working
      BY <2>1 DEF IInv, Followed, Moves, Working
    <3>2. pc[p] = "caught" => \/ checkpoint.status = "complete" /\ checkpoint.verdict
                              \/ checkpoint.process = p
      BY <2>1 DEF IInv, Followed
    <3> QED BY <2>1, <2>2, <3>1, <3>2 DEF IInv, Followed, Moves, Working, Running, Closing, Verdicts
  <2>3. CASE Written(p) /\ pc'[p] \in {"interrupted", "exited"}
    BY <2>1, <2>3, WriterFollowed DEF Moves
  <2> QED BY <2>1, <2>2, <2>3
<1>33. ASSUME NEW p \in Launcher, SaveThrows(p) PROVE Followed'
  <2> SUFFICES ASSUME ~overwritten' PROVE Followed'
    BY DEF Followed
  <2>1. /\ Moves(p, {"settle", "conclude"}, {"caught"}) \/ Moves(p, Writing \ {"settle"}, {"exited"})
        /\ pc[p] = "publish" => fresh[p]
        /\ ~overwritten
        /\ \/ UNCHANGED <<checkpoint, fresh>>
           \/ Written(p) /\ ~Disputes(p) /\ ~(pc[p] = "conclude" /\ pc'[p] = "caught")
    BY <1>33, ThrowsIs DEF IInv
  <2>2. CASE UNCHANGED <<checkpoint, fresh>>
    BY <2>1, <2>2 DEF IInv, Followed, Working, Running, Closing, Verdicts, Moves
  <2>3. CASE Written(p) /\ pc[p] \in {"adopt", "refused", "pausing"} /\ ~Disputes(p)
    <3>1. \A q \in Launcher : pc[q] \notin Working
      BY <2>1, <2>3, UndisputedAlone
    <3>2. checkpoint'.status # "running" /\ pc'[p] = "exited"
      BY <2>1, <2>3 DEF Written, Moves
    <3> QED BY <2>1, <2>3, <3>1, <3>2 DEF Followed, Working, Running, Closing, Verdicts, Written, Moves
  <2>4. CASE Written(p) /\ pc[p] = "publish"
    <3>1. \A q \in Launcher : pc[q] \notin Working \cup Verdicts
      BY <2>1, <2>4, FreshAlone DEF Before, Reading
    <3>2. pc'[p] = "exited"
      BY <2>1, <2>4 DEF Moves
    <3> QED BY <2>1, <2>4, <3>1, <3>2 DEF Followed, Working, Running, Closing, Verdicts, Written, Moves
  <2>5. CASE /\ Written(p) /\ pc[p] \in {"settle", "conclude", "caught", "verdictWrite"}
             /\ ~(pc[p] = "conclude" /\ pc'[p] = "caught")
    BY <2>1, <2>5, WriterFollowed DEF Moves
  <2> QED BY <2>1, <2>2, <2>3, <2>4, <2>5 DEF Moves, Writing
<1> QED
  BY <1>2, <1>3, <1>4, <1>5, <1>6, <1>7, <1>8, <1>9, <1>10, <1>11, <1>12, <1>13, <1>14, <1>15,
     <1>16, <1>17, <1>18, <1>19, <1>20, <1>21, <1>22, <1>23, <1>24, <1>25, <1>26, <1>27,
     <1>28, <1>29, <1>30, <1>31, <1>32, <1>33
  DEF Next, Attempt, Stopping

LEMMA NextInv == ASSUME IInv, [Next]_vars PROVE IInv'
<1>1. TypeOK'
  BY NextType DEF IInv
<1>2. CASE UNCHANGED vars
  BY <1>1, <1>2 DEF IInv, vars, disk, local, history, Owned, VerdictSeen, Concluded, Recorded, Views, Followed, Live
<1>3. CASE Next
  BY <1>1, <1>3, OwnedNext, VerdictSeenNext, EndedNext, ViewsNext, FollowedNext DEF IInv
<1> QED BY <1>2, <1>3

THEOREM Invariant == Spec => []IInv
BY InitInv, NextInv, PTL DEF Spec

\* A verdict on record stays there, and nobody begins to run the role after it.
LEMMA VerdictNext ==
  ASSUME IInv, Next, checkpoint.verdict
  PROVE  checkpoint'.verdict /\ \A q \in Launcher : pc'[q] = "operate" => pc[q] = "operate"
<1> DEFINE Kept == checkpoint'.verdict /\ \A q \in Launcher : pc'[q] = "operate" => pc[q] = "operate"
<1>1. ASSUME NEW p \in Launcher, Start(p) PROVE Kept
  BY <1>1 DEF Start, IInv, TypeOK, Checkpoint, Goto, Write, others, disk, history, Operate, Launch, VerdictSeen
<1>2. ASSUME NEW p \in Launcher, Resume(p) PROVE Kept
  BY <1>2 DEF Resume, IInv, TypeOK, Checkpoint, Goto, Write, others, disk, history, Operate, Launch
<1>3. ASSUME NEW p \in Launcher, Open(p) PROVE Kept
  BY <1>3 DEF Open, IInv, TypeOK, Checkpoint, Goto, Write, others, disk, history, Operate, Opening
<1>4. ASSUME NEW p \in Launcher, OpenFails(p) PROVE Kept
  BY <1>4 DEF OpenFails, IInv, TypeOK, Checkpoint, Goto, Write, others, disk, history, Operate, Opening
<1>5. ASSUME NEW p \in Launcher, Consume(p) PROVE Kept
  BY <1>5 DEF Consume, IInv, TypeOK, Checkpoint, Goto, Write, VerdictSeen, Running, others, disk, history, Operate
<1>6. ASSUME NEW p \in Launcher, ReadCloseout(p) \/ Escapes(p) PROVE Kept
  BY <1>6 DEF ReadCloseout, Escapes, IInv, TypeOK, Checkpoint, Goto, Write, VerdictSeen, Running, others, disk, history, Operate
<1>7. ASSUME NEW p \in Launcher, SubmitVerdict(p) PROVE Kept
  BY <1>7 DEF SubmitVerdict, IInv, TypeOK, Checkpoint, Goto, Write, others, disk, history, Operate
<1>8. ASSUME NEW p \in Launcher, SaveUsage(p) PROVE Kept
  BY <1>8 DEF SaveUsage, IInv, TypeOK, Checkpoint, Goto, Write, others, disk, history, Operate
<1>9. ASSUME NEW p \in Launcher, EndOperation(p) PROVE Kept
  BY <1>9 DEF EndOperation, IInv, TypeOK, Checkpoint, Goto, Write, others, disk, history, Operate
<1>10. ASSUME NEW p \in Launcher, Finalize(p) PROVE Kept
  BY <1>10 DEF Finalize, IInv, TypeOK, Checkpoint, Goto, Write, others, disk, history, Operate
<1>11. ASSUME NEW p \in Launcher, Reopen(p) PROVE Kept
  BY <1>11 DEF Reopen, IInv, TypeOK, Checkpoint, Goto, Write, others, disk, history, Operate
<1>12. ASSUME NEW p \in Launcher, FinalizeFails(p) PROVE Kept
  BY <1>12 DEF FinalizeFails, IInv, TypeOK, Checkpoint, Goto, Write, others, disk, history, Operate
<1>13. ASSUME NEW p \in Launcher, Project(p) PROVE Kept
  BY <1>13 DEF Project, IInv, TypeOK, Checkpoint, Goto, Write, others, disk, history, Operate
<1>14. ASSUME NEW p \in Launcher, ReadStopRequest(p) PROVE Kept
  BY <1>14 DEF ReadStopRequest, IInv, TypeOK, Checkpoint, Goto, Write, others, disk, history, Operate
<1>15. ASSUME NEW p \in Launcher, ConsumeStopRequest(p) PROVE Kept
  BY <1>15 DEF ConsumeStopRequest, IInv, TypeOK, Checkpoint, Goto, Write, others, disk, history, Operate
<1>16. ASSUME NEW p \in Launcher, ReadForVerdict(p) PROVE Kept
  BY <1>16 DEF ReadForVerdict, IInv, TypeOK, Checkpoint, Goto, Write, others, disk, history, Operate
<1>17. ASSUME NEW p \in Launcher, CloseVerdictSession(p) PROVE Kept
  BY <1>17 DEF CloseVerdictSession, IInv, TypeOK, Checkpoint, Goto, Write, others, disk, history, Operate
<1>18. ASSUME NEW p \in Launcher, Dies(p) PROVE Kept
  BY <1>18 DEF Dies, IInv, TypeOK, Checkpoint, Goto, Write, others, disk, history, Operate
<1>19. ASSUME NEW p \in Launcher, Interrupt(p) PROVE Kept
  BY <1>19 DEF Interrupt, IInv, TypeOK, Checkpoint, Goto, Write, others, disk, history, Operate
<1>20. ASSUME StopFind PROVE Kept
  BY <1>20 DEF StopFind, IInv, TypeOK, Checkpoint, Goto, Write, others, disk, history, Operate
<1>21. ASSUME StopVerify PROVE Kept
  BY <1>21 DEF StopVerify, IInv, TypeOK, Checkpoint, Goto, Write, others, disk, history, Operate
<1>22. ASSUME StopWitness PROVE Kept
  BY <1>22 DEF StopWitness, IInv, TypeOK, Checkpoint, Goto, Write, others, disk, history, Operate
<1>23. ASSUME StopSignal PROVE Kept
  BY <1>23 DEF StopSignal, IInv, TypeOK, Checkpoint, Goto, Write, others, disk, history, Operate
<1>24. ASSUME StopKill PROVE Kept
  BY <1>24 DEF StopKill, IInv, TypeOK, Checkpoint, Goto, Write, others, disk, history, Operate
<1>25. ASSUME StopConfirm PROVE Kept
  BY <1>25 DEF StopConfirm, IInv, TypeOK, Checkpoint, Goto, Write, others, disk, history, Operate
<1>26. ASSUME DeleteSession PROVE Kept
  BY <1>26 DEF DeleteSession, IInv, TypeOK, Checkpoint, Goto, Write, others, disk, history, Operate
<1>27. ASSUME NEW p \in Launcher, WriterStep(p) PROVE Kept
  <2>1. pc[p] = "publish" => ~fresh[p]
    BY DEF IInv, VerdictSeen, Before, Reading
  <2> QED BY <1>27, <2>1, WriterIs, WrittenLeaves DEF Driving, Running
<1> HIDE DEF Kept
<1>28. Kept
  BY <1>1, <1>2, <1>3, <1>4, <1>5, <1>6, <1>7, <1>8, <1>9, <1>10, <1>11, <1>12, <1>13, <1>14,
     <1>15, <1>16, <1>17, <1>18, <1>19, <1>20, <1>21, <1>22, <1>23, <1>24, <1>25, <1>26, <1>27
  DEF Next, Attempt, Stopping, WriterStep, Disputing, Outcome
<1> QED BY <1>28 DEF Kept

-----------------------------------------------------------------------------
(* What the runs check.                                                     *)

\* Whoever drives the role holds the lease and is the process on record.
THEOREM OneOperator == Spec => []OperatorOwnsTheRun
<1>1. IInv => OperatorOwnsTheRun
  BY DEF IInv, Owned, Driving, Running, OperatorOwnsTheRun
<1> QED BY <1>1, Invariant, PTL

\* No attempt runs a role that has settled or is complete, unless a process wrote over what was
\* not its own: the record of a live process it took for an orphan, one that had moved on, or
\* its own recorded closeout whose save threw.
THEOREM NoReplay == Spec => []SettledIsNotReplayed
<1>1. IInv => SettledIsNotReplayed
  BY DEF IInv, Followed, Running, SettledIsNotReplayed
<1> QED BY <1>1, Invariant, PTL

\* An attempt that ended by itself left its outcome, or the means to record it, unless a save
\* threw as it ended or the read of an earlier closeout failed.
THEOREM EndIsRecorded == Spec => []EndedAttemptIsRecorded
<1>1. IInv => EndedAttemptIsRecorded
  BY DEF IInv, Concluded, Recorded, EndedAttemptIsRecorded
<1> QED BY <1>1, Invariant, PTL

\* Once a verdict is on record no process begins to run the role.
THEOREM TerminalVerdict == Spec => VerdictIsTerminal
<1>1. ASSUME IInv, [Next]_vars
      PROVE  [checkpoint.verdict => /\ checkpoint'.verdict
                                    /\ \A p \in Launcher : pc'[p] = "operate" => pc[p] = "operate"]_vars
  BY <1>1, VerdictNext
<1> QED BY <1>1, Invariant, PTL DEF Spec, VerdictIsTerminal

-----------------------------------------------------------------------------
(* Waits.                                                                   *)

\* What a step of a wait leaves alone keeps its type.
WorldTypes ==
  /\ kind \in {"timer", "run"} /\ poll \in BOOLEAN /\ at \in Time
  /\ deadline \in Time \cup {Nothing}
  /\ clock \in Time /\ watched \in Watched /\ crashes \in 0..MaxCrashes

WaitRecord == [life : {"absent", "pending"} \cup Ended, updatedAt : Time,
               witness : Ops \cup {Nothing}]

Call == [pc : {"idle", "due", "asking", "answered"}, since : Time,
         op : Ops \cup {Nothing}, answer : {"pending"} \cup Ended]

LEMMA WaitParts ==
  WaitTypeOK <=> /\ WorldTypes /\ record \in WaitRecord /\ call \in [Caller -> Call]
                 /\ minted \in 0..MaxOps /\ unsettled \subseteq Ops
BY DEF WaitTypeOK, WorldTypes, WaitRecord, Call

LEMMA WaitPartsNext ==
  ASSUME WorldTypes', record' \in WaitRecord, call' \in [Caller -> Call],
         minted' \in 0..MaxOps, unsettled' \subseteq Ops
  PROVE  WaitTypeOK'
BY DEF WaitTypeOK, WorldTypes, WaitRecord, Call

LEMMA IdleCall == 0 \in Time /\ Idle \in Call
BY TimeAssumption DEF Time, Idle, Call

\* An adapter answers that the wait goes on or how it ended.
LEMMA ObservationType == ASSUME WorldTypes PROVE Observations \subseteq {"pending"} \cup Ended
BY DEF Observations, WorldTypes, Watched, Ended

LEMMA DispatchTypes ==
  ASSUME WaitTypeOK, NEW c \in Caller, Dispatch(c) PROVE WaitTypeOK'
<1>1. WorldTypes' /\ call[c] \in Call /\ call[c].since \in Time
  BY WaitParts DEF Dispatch, policy, WorldTypes, Call
<1>2. CASE Unclaimed
  <2>1. minted' \in Ops /\ minted' \in 0..MaxOps
    BY <1>2, WaitParts, TimeAssumption DEF Dispatch, Ops
  <2>2. record' \in WaitRecord
    BY <1>1, <1>2, <2>1, WaitParts DEF Dispatch, WaitRecord
  <2>3. [call[c] EXCEPT !.pc = "asking", !.op = minted'] \in Call
    BY <1>1, <2>1 DEF Call
  <2>4. call' = [call EXCEPT ![c] = [call[c] EXCEPT !.pc = "asking", !.op = minted']]
    BY <1>1, <1>2, WaitParts DEF Dispatch, Call
  <2>5. call' \in [Caller -> Call] /\ unsettled' \subseteq Ops
    BY <1>2, <2>1, <2>3, <2>4, WaitParts DEF Dispatch
  <2> QED BY <1>1, <2>1, <2>2, <2>5, WaitParts, WaitPartsNext
<1>3. CASE ~Unclaimed
  BY <1>1, <1>3, WaitParts, WaitPartsNext, IdleCall DEF Dispatch
<1> QED BY <1>2, <1>3

LEMMA AskTypes ==
  ASSUME WaitTypeOK, NEW c \in Caller, Ask(c) PROVE WaitTypeOK'
<1>1. /\ WorldTypes' /\ call[c] \in Call /\ record' = record /\ minted' = minted
      /\ unsettled' = unsettled
  BY WaitParts DEF Ask, policy, WorldTypes
<1>2. \A answer \in Observations :
        [call[c] EXCEPT !.pc = "answered", !.answer = answer] \in Call
  BY <1>1, ObservationType, WaitParts DEF Call
<1>3. \/ \E answer \in Observations :
           call' = [call EXCEPT ![c] = [call[c] EXCEPT !.pc = "answered", !.answer = answer]]
      \/ call' = [call EXCEPT ![c] = Idle]
  BY <1>1, WaitParts DEF Ask, Call
<1>4. call' \in [Caller -> Call]
  BY <1>2, <1>3, IdleCall, WaitParts
<1> QED BY <1>1, <1>4, WaitParts, WaitPartsNext

LEMMA RecordTypes ==
  ASSUME WaitTypeOK, NEW c \in Caller, Record(c) PROVE WaitTypeOK'
<1>1. WorldTypes' /\ call' \in [Caller -> Call] /\ minted' = minted /\ unsettled' \subseteq Ops
  BY WaitParts, IdleCall DEF Record, policy, WorldTypes
<1>2. call[c].answer \in {"pending"} \cup Ended /\ clock \in Time
  BY WaitParts DEF Call, WorldTypes
<1>3. record' \in WaitRecord
  BY <1>2, WaitParts DEF Record, WaitRecord
<1> QED BY <1>1, <1>3, WaitParts, WaitPartsNext

LEMMA EndTypes ==
  ASSUME WaitTypeOK, NEW c \in Caller, create \/ cancel \/ Expire(c) PROVE WaitTypeOK'
<1>1. /\ WorldTypes' /\ call' = call /\ minted' = minted /\ unsettled' = unsettled
      /\ clock \in Time
  BY WaitParts DEF create, cancel, Expire, transition, policy, WorldTypes
<1>2. record' \in WaitRecord
  BY <1>1, WaitParts DEF create, cancel, Expire, transition, WaitRecord, Ended
<1> QED BY <1>1, <1>2, WaitParts, WaitPartsNext

LEMMA BeginTypes ==
  ASSUME WaitTypeOK, NEW c \in Caller, Begin(c) \/ Busy(c) \/ CallDies(c) PROVE WaitTypeOK'
<1>1. /\ WorldTypes' /\ record' = record /\ minted' = minted /\ unsettled' = unsettled
      /\ clock \in Time
  BY WaitParts, TimeAssumption DEF Begin, Busy, CallDies, policy, WorldTypes
<1>2. [Idle EXCEPT !.pc = "due", !.since = clock] \in Call
  BY <1>1 DEF Idle, Call
<1>3. call' \in [Caller -> Call]
  BY <1>2, IdleCall, WaitParts DEF Begin, Busy, CallDies
<1> QED BY <1>1, <1>3, WaitParts, WaitPartsNext

LEMMA WorldTypesStep ==
  ASSUME WaitTypeOK, Tick \/ RunGoesOn PROVE WaitTypeOK'
BY TimeAssumption DEF Tick, RunGoesOn, WaitTypeOK, policy, Time, Watched

LEMMA WaitNextTypes == WaitTypeOK /\ [WaitNext]_waitVars => WaitTypeOK'
<1> SUFFICES ASSUME WaitTypeOK, [WaitNext]_waitVars PROVE WaitTypeOK'
  OBVIOUS
<1>1. CASE UNCHANGED waitVars
  BY <1>1 DEF waitVars, policy, WaitTypeOK
<1>2. CASE create \/ cancel
  <2>1. WorldTypes' /\ call' = call /\ minted' = minted /\ unsettled' = unsettled /\ clock \in Time
    BY <1>2, WaitParts DEF create, cancel, transition, policy, WorldTypes
  <2>2. record' \in WaitRecord
    BY <1>2, <2>1, WaitParts DEF create, cancel, transition, WaitRecord, Ended
  <2> QED BY <2>1, <2>2, WaitParts, WaitPartsNext
<1>3. CASE Tick \/ RunGoesOn
  BY <1>3, WorldTypesStep
<1>4. ASSUME NEW c \in Caller, reconcile(c) \/ CallDies(c) PROVE WaitTypeOK'
  BY <1>4, DispatchTypes, AskTypes, RecordTypes, EndTypes, BeginTypes DEF reconcile
<1> QED BY <1>1, <1>2, <1>3, <1>4 DEF WaitNext

\* Every variable of a wait keeps its shape, through every answer, exception and
\* death (reconcile, cancel, create).
THEOREM WaitTypes == WaitSpec => []WaitTypeOK
<1>1. WaitInit => WaitTypeOK
  <2> SUFFICES ASSUME WaitInit PROVE WaitTypeOK
    OBVIOUS
  <2>1. WorldTypes
    BY TimeAssumption, IdleCall DEF WaitInit, WorldTypes, Watched
  <2>2. record \in WaitRecord /\ call \in [Caller -> Call]
    BY IdleCall DEF WaitInit, WaitRecord
  <2>3. minted \in 0..MaxOps /\ unsettled \subseteq Ops
    BY TimeAssumption DEF WaitInit
  <2> QED BY <2>1, <2>2, <2>3, WaitParts
<1> QED BY <1>1, WaitNextTypes, PTL DEF WaitSpec

LEMMA WitnessNext ==
  WaitTypeOK /\ UncertainIsWitnessed /\ [WaitNext]_waitVars => UncertainIsWitnessed'
<1> SUFFICES ASSUME WaitTypeOK, UncertainIsWitnessed, [WaitNext]_waitVars
             PROVE  UncertainIsWitnessed'
  OBVIOUS
<1>1. CASE unsettled' = unsettled /\ record'.witness = record.witness
  BY <1>1 DEF UncertainIsWitnessed
<1>2. CASE UNCHANGED waitVars \/ create \/ cancel \/ Tick \/ RunGoesOn
  BY <1>1, <1>2 DEF waitVars, create, cancel, transition, Tick, RunGoesOn, WaitTypeOK
<1>3. ASSUME NEW c \in Caller,
             Expire(c) \/ Begin(c) \/ Ask(c) \/ Busy(c) \/ CallDies(c)
      PROVE  UncertainIsWitnessed'
  BY <1>1, <1>3 DEF Expire, transition, Begin, Ask, Busy, CallDies, WaitTypeOK
<1>4. ASSUME NEW c \in Caller, Dispatch(c) PROVE UncertainIsWitnessed'
  <2>1. CASE Unclaimed
    <3>1. unsettled = {} /\ unsettled' = {minted'}
      BY <1>4, <2>1 DEF Dispatch, Unclaimed, UncertainIsWitnessed
    <3>2. record'.witness = minted'
      BY <1>4, <2>1 DEF Dispatch, WaitTypeOK
    <3>3. minted' \in Nat
      BY <1>4, <2>1, TimeAssumption DEF Dispatch, WaitTypeOK
    <3> QED BY <3>1, <3>2, <3>3, TimeAssumption DEF UncertainIsWitnessed
  <2>2. CASE ~Unclaimed
    BY <1>1, <1>4, <2>2 DEF Dispatch
  <2> QED BY <2>1, <2>2
<1>5. ASSUME NEW c \in Caller, Record(c) PROVE UncertainIsWitnessed'
  BY <1>1, <1>5 DEF Record, Awaited, UncertainIsWitnessed
<1> QED BY <1>2, <1>3, <1>4, <1>5 DEF WaitNext, reconcile

\* The record names the one operation whose outcome it does not have: a reconcile
\* writes the witness before it asks the adapter, and nothing but that operation's
\* answer removes it.
THEOREM UnknownIsNamed == WaitSpec => []UncertainIsWitnessed
<1>1. WaitInit => UncertainIsWitnessed
  BY DEF WaitInit, UncertainIsWitnessed
<1> QED BY <1>1, WaitTypes, WitnessNext, PTL DEF WaitSpec

\* A wait ends once: transition and the record of an answer look at the lifecycle
\* under the lock.
THEOREM EndsStay == WaitSpec => EndIsFinal
<1>1. WaitTypeOK /\ [WaitNext]_waitVars => [record.life \in Ended => record'.life = record.life]_waitVars
  <2> SUFFICES ASSUME WaitTypeOK, WaitNext, record.life \in Ended PROVE record'.life = record.life
    OBVIOUS
  <2>1. record.life # "absent" /\ record.life # "pending"
    BY DEF Ended
  <2>2. CASE create \/ cancel \/ Tick \/ RunGoesOn
    BY <2>1, <2>2 DEF create, cancel, transition, Tick, RunGoesOn
  <2>3. ASSUME NEW c \in Caller, reconcile(c) \/ CallDies(c) PROVE record' = record
    BY <2>1, <2>3 DEF reconcile, Expire, transition, Begin, Dispatch, Unclaimed, Ask, Record, Awaited,
       Busy, CallDies
  <2> QED BY <2>2, <2>3 DEF WaitNext
<1> QED BY <1>1, WaitTypes, PTL DEF WaitSpec, EndIsFinal
=============================================================================
