--------------------------- MODULE StandaloneRun ---------------------------
(***************************************************************************)
(* A standalone role run (src/cli.ts, runRoleStandalone): launchers that     *)
(* start it or resume it by its id, the checkpoint                          *)
(* runs/standalone-<id>.json, the managed session whose lease decides who    *)
(* may drive it, and `runs stop`, which signals the process the checkpoint   *)
(* names (src/orchestration/run-stop.ts, stop-run.ts, src/cli/runs-stop.ts). *)
(*                                                                         *)
(* A launcher is a process slot, named by its pid.  A slot whose process has *)
(* gone may be launched again: what named the earlier process then names     *)
(* Gone, as the birth witnesses of an identity tell a reused pid apart.      *)
(* The checkpoint is a VersionedState, whose save may be refused or land and  *)
(* then throw, and the lease an AdvisoryLock that the death of its holder     *)
(* frees; one access to either is one step here.                             *)
(***************************************************************************)
EXTENDS Naturals

CONSTANTS
  Launcher,  \* processes that may start or resume the run
  Gone,      \* a process that is no more, whose pid is used again
  None

ASSUME LauncherAssumption == Gone \notin Launcher /\ None \notin Launcher /\ Gone # None

Status == {"absent", "starting", "running", "settling", "paused", "complete", "failed"}

\* settled: a settledOperation is recorded; pause: it names a stop request, is a closeout
\* whose result is recorded, or neither.
Checkpoint == [status : Status, process : Launcher \cup {Gone, None},
               settled : BOOLEAN, verdict : BOOLEAN, pause : {"plain", "stop", "closeout"}]

PCs == {"down", "exited", "create", "adopt", "inspectStarting", "inspectSettling", "open",
        "openOrCreate", "refused", "publish", "consumeRun", "consumeCloseout",
        "consumeSettled", "readCloseout", "operate", "settle", "finalize", "reopen", "project",
        "conclude", "caught", "interrupted", "pausing", "consumeStop", "verdict",
        "verdictRead", "verdictWrite"}

VARIABLES
  checkpoint,  \* on disk
  session,     \* the managed session exists
  lease,       \* who holds session-<id>.lease
  request,     \* the witness stop-<id>.json is on disk
  pc, fresh,   \* fresh[p]: p's view of the checkpoint has the version on disk
  owner,       \* the process that p read in a starting or settling checkpoint
  aborted,     \* p received SIGINT or SIGTERM
  error,       \* what ended p's operation
  submitted,   \* p's role submitted its verdict
  frame,       \* whether p starts, resumes, or is inside the try that catches its errors
  asked,       \* p read a stop request
  stopper,     \* what `runs stop` does, and to whom
  overwritten, \* history: a process has written, or is about to, over what was not its own
  unrecorded   \* history: processes that ended as a save threw, or before the try

history == <<overwritten, unrecorded>>
local  == <<history, fresh, owner, aborted, error, submitted, frame, asked>>
disk   == <<checkpoint, session, lease, request>>
vars   == <<disk, pc, local, stopper>>

Errors == {"none", "limit", "interrupted", "failed"}
Stops  == [at : {"idle", "verify", "witness", "signal", "wait", "confirm"},
           target : Launcher \cup {None}, same : BOOLEAN]

\* What every variable holds.
TypeOK ==
  /\ checkpoint \in Checkpoint /\ session \in BOOLEAN /\ request \in BOOLEAN
  /\ lease \in Launcher \cup {Gone, None}
  /\ pc \in [Launcher -> PCs] /\ fresh \in [Launcher -> BOOLEAN]
  /\ owner \in [Launcher -> Launcher \cup {Gone, None}] /\ aborted \in [Launcher -> BOOLEAN]
  /\ error \in [Launcher -> Errors] /\ submitted \in [Launcher -> BOOLEAN]
  /\ frame \in [Launcher -> {"start", "resume", "try"}] /\ asked \in [Launcher -> BOOLEAN]
  /\ stopper \in Stops /\ overwritten \in BOOLEAN /\ unrecorded \subseteq Launcher

Init ==
  /\ checkpoint = [status |-> "absent", process |-> None,
                   settled |-> FALSE, verdict |-> FALSE, pause |-> "plain"]
  /\ session = FALSE /\ lease = None /\ request = FALSE
  /\ pc = [p \in Launcher |-> "down"] /\ fresh = [p \in Launcher |-> FALSE]
  /\ owner = [p \in Launcher |-> None] /\ aborted = [p \in Launcher |-> FALSE]
  /\ error = [p \in Launcher |-> "none"] /\ submitted = [p \in Launcher |-> FALSE]
  /\ frame = [p \in Launcher |-> "start"] /\ asked = [p \in Launcher |-> FALSE]
  /\ stopper = [at |-> "idle", target |-> None, same |-> FALSE]
  /\ overwritten = FALSE /\ unrecorded = {}

Live(p)    == p \in Launcher /\ pc[p] \notin {"down", "exited"}
Goto(p, l) == pc' = [pc EXCEPT ![p] = l]

\* updateCheckpoint, writeVersionedJson: the views of all others are stale now.
Write(p, value) == checkpoint' = value /\ fresh' = [q \in Launcher |-> q = p]

\* What a process writes next, where it writes.
NextRecord(p) ==
  CASE pc[p] = "adopt"    -> {[checkpoint EXCEPT !.status = "failed"]}
    [] pc[p] = "refused"  -> {[checkpoint EXCEPT !.status = "paused", !.pause = "plain"],
                              [checkpoint EXCEPT !.status = "failed"]}
    [] pc[p] = "publish"  -> {[checkpoint EXCEPT
                                 !.status = IF checkpoint.settled THEN "settling" ELSE "running",
                                 !.process = p, !.pause = "plain"]}
    [] pc[p] = "settle"   -> {[checkpoint EXCEPT !.status = "settling", !.settled = TRUE]}
    \* An operation that ended in its closeout reserve pauses, as one does that repeated an
    \* earlier closeout.
    [] pc[p] = "conclude" ->
         {[checkpoint EXCEPT !.status = "complete", !.settled = FALSE, !.pause = "plain"]}
           \cup {[checkpoint EXCEPT !.status = "paused", !.settled = FALSE, !.pause = why] :
                    why \in {"closeout", "plain"}}
    [] pc[p] = "caught"   -> IF error[p] = "limit"
                             THEN {[checkpoint EXCEPT !.status = "paused", !.pause = "plain"]}
                             ELSE {[checkpoint EXCEPT !.status = "failed"]}
    [] pc[p] = "pausing"  -> {[checkpoint EXCEPT !.status = "paused",
                                 !.pause = IF asked[p] THEN "stop" ELSE "plain"]}
    [] OTHER              -> {[checkpoint EXCEPT !.status = "complete", !.pause = "plain"]}

\* What it writes over is not its own: a process lives that was taken for an orphan, or the
\* record has moved on.
Disputes(p) ==
  \/ pc[p] = "adopt" /\ (checkpoint.status # "running" \/ Live(checkpoint.process))
  \/ pc[p] \in {"refused", "pausing"} /\ ~fresh[p]

Save(p) ==
  /\ \E written \in NextRecord(p) : Write(p, written)
  /\ overwritten' = (overwritten \/ Disputes(p))

Release(p) == lease' = IF lease = p THEN None ELSE lease

\* A lease that a resume takes from whoever has it.
BadClaim(p) == lease' = p

\* withLockedSession: the lease is free, or its holder is dead.
Claim(p) == ~Live(lease) /\ lease' = p

others(p) == UNCHANGED <<history, owner, aborted, error, submitted, frame, asked, stopper>>

-----------------------------------------------------------------------------
(* A process begins.  Whatever names the process that had its pid now names  *)
(* one that is gone.                                                        *)

Renamed(id, p) == IF id = p THEN Gone ELSE id

Launch(p, l, how) ==
  /\ ~Live(p)
  /\ Goto(p, l)
  /\ lease' = Renamed(lease, p)
  /\ owner' = [q \in Launcher |-> Renamed(IF q = p THEN checkpoint.process ELSE owner[q], p)]
  /\ aborted' = [aborted EXCEPT ![p] = FALSE] /\ error' = [error EXCEPT ![p] = "none"]
  /\ submitted' = [submitted EXCEPT ![p] = FALSE] /\ asked' = [asked EXCEPT ![p] = FALSE]
  /\ frame' = [frame EXCEPT ![p] = how]
  /\ stopper' = [stopper EXCEPT !.same = @ /\ stopper.target # p]
  /\ unrecorded' = unrecorded \ {p}
  /\ UNCHANGED <<session, request, overwritten>>

\* A new run: the intent is on disk before the session exists.
Start(p) ==
  /\ checkpoint.status = "absent"
  /\ Write(p, [checkpoint EXCEPT !.status = "starting", !.process = p])
  /\ Launch(p, "create", "start")

\* --resume-run reads the checkpoint, and is refused when the role is complete.
Resume(p) ==
  /\ checkpoint.status \notin {"absent", "complete"}
  /\ checkpoint' = [checkpoint EXCEPT !.process = Renamed(@, p)]
  /\ fresh' = [fresh EXCEPT ![p] = TRUE]
  /\ LET next == CASE checkpoint.status = "running"  -> "adopt"
                   [] checkpoint.status = "starting" -> "inspectStarting"
                   [] checkpoint.status = "settling" -> "inspectSettling"
                   [] OTHER                          -> "open"
     IN Launch(p, IF checkpoint.verdict /\ next # "adopt" THEN "verdict" ELSE next, "resume")

(* inspectOwnedCheckpoint tells a process that lives from one that is gone by *)
(* its birth and by its command line.  A process that lives passes for an     *)
(* orphan when its command line spells the target directory in another way;   *)
(* one whose witnesses cannot be read is held to be unknown.  Whoever is not  *)
(* taken for an orphan is left alone: the resume is refused.                  *)

Refuse(p) == Goto(p, "exited") /\ UNCHANGED <<disk, fresh>> /\ others(p)

\* A running checkpoint of an orphan has failed: decided under the checkpoint's lock, from
\* what is on disk then.
Adopt(p) ==
  /\ pc[p] = "adopt"
  /\ \/ Refuse(p)
     \/ /\ Save(p)
        /\ Goto(p, IF checkpoint.verdict THEN "verdict" ELSE "open")
        /\ UNCHANGED <<session, lease, request, unrecorded, owner, aborted, error, submitted,
                       frame, asked, stopper>>

\* A starting or settling checkpoint of an orphan is taken over.
Inspect(p) ==
  /\ pc[p] \in {"inspectStarting", "inspectSettling"}
  /\ \/ Refuse(p)
     \/ /\ Goto(p, IF pc[p] = "inspectStarting" THEN "openOrCreate" ELSE "open")
        /\ overwritten' = (overwritten \/ Live(owner[p]))
        /\ UNCHANGED <<disk, fresh, unrecorded, owner, aborted, error, submitted, frame,
                       asked, stopper>>

-----------------------------------------------------------------------------
(* The session is opened under its lease before the process publishes that   *)
(* it owns the run.  Opening also takes a lock that other runs of the        *)
(* project contend for, and reads a journal: it may fail at any time.        *)

Opening == {"create", "open", "openOrCreate"}

Open(p) ==
  /\ pc[p] \in Opening
  /\ CASE pc[p] = "create" -> ~session [] pc[p] = "open" -> session [] OTHER -> TRUE
  /\ Claim(p) /\ session' = TRUE
  /\ Goto(p, "publish")
  /\ UNCHANGED <<checkpoint, fresh, request>> /\ others(p)

OpenFails(p) ==
  /\ pc[p] \in Opening
  /\ Goto(p, "refused")
  /\ UNCHANGED <<disk, fresh>> /\ others(p)

\* reopenOrRecover: an ambiguous journal pauses the run, any other refusal fails it.
RecordRefusal(p) ==
  /\ pc[p] = "refused"
  /\ Save(p) /\ Goto(p, "exited")
  /\ UNCHANGED <<session, lease, request, unrecorded, owner, aborted, error, submitted,
                 frame, asked, stopper>>

\* The compare-and-swap that publishes the owner.
Publish(p) ==
  /\ pc[p] = "publish"
  /\ \/ /\ fresh[p]
        /\ \E written \in NextRecord(p) : Write(p, written)
        /\ Goto(p, IF frame[p] = "start" THEN "operate"
                   ELSE IF checkpoint.settled THEN "consumeSettled"
                   ELSE IF checkpoint.pause = "closeout" THEN "consumeCloseout" ELSE "consumeRun")
        /\ UNCHANGED lease
     \/ /\ ~fresh[p]
        /\ Goto(p, "exited")
        /\ IF frame[p] = "resume" THEN Release(p) ELSE UNCHANGED lease
        /\ UNCHANGED <<checkpoint, fresh>>
  /\ frame' = [frame EXCEPT ![p] = IF pc'[p] = "operate" THEN "try" ELSE @]
  /\ UNCHANGED <<session, request, owner, aborted, error, submitted, asked, history, stopper>>

\* A resume that runs the role again though its operation has settled.
BadConsume(p) ==
  /\ pc[p] \in {"consumeRun", "consumeCloseout", "consumeSettled"}
  /\ request' = FALSE
  /\ Goto(p, "operate") /\ frame' = [frame EXCEPT ![p] = "try"]
  /\ UNCHANGED <<checkpoint, session, lease, fresh, history, owner, aborted, error,
                 submitted, asked, stopper>>

Operate(p) == Goto(p, "operate") /\ frame' = [frame EXCEPT ![p] = "try"]

\* Resuming past a stop request answers it; a settled operation is not run again.
Consume(p) ==
  /\ \/ pc[p] = "consumeSettled" /\ Goto(p, "finalize") /\ UNCHANGED frame
     \/ pc[p] = "consumeCloseout" /\ Goto(p, "readCloseout") /\ UNCHANGED frame
     \/ pc[p] = "consumeRun" /\ Operate(p)
  /\ request' = FALSE
  /\ UNCHANGED <<checkpoint, session, lease, fresh, owner, aborted, error, submitted,
                 asked, history, stopper>>

\* After a closeout the session is read for its tool results.
ReadCloseout(p) ==
  /\ pc[p] = "readCloseout"
  /\ Operate(p)
  /\ UNCHANGED <<disk, fresh, owner, aborted, error, submitted, asked, history, stopper>>

\* That read fails, or the save of a start throws though it landed: both are outside the try,
\* and the process ends with them.
Escapes(p) ==
  /\ pc[p] \in {"create", "readCloseout"}
  /\ Goto(p, "exited") /\ unrecorded' = unrecorded \cup {p}
  /\ UNCHANGED <<disk, fresh, overwritten, owner, aborted, error, submitted, frame, asked,
                 stopper>>

-----------------------------------------------------------------------------
(* The operation, and how its outcome is recorded.                          *)

\* submit_verdict is acknowledged after the verdict is on disk.  A save that throws leaves
\* it unacknowledged; a later verdict that is invalid takes the acknowledged one back.
SubmitVerdict(p) ==
  /\ pc[p] = "operate"
  /\ \/ /\ Write(p, [checkpoint EXCEPT !.verdict = TRUE])
        /\ submitted' = [submitted EXCEPT ![p] = TRUE] \/ UNCHANGED submitted
     \/ submitted' = [submitted EXCEPT ![p] = FALSE] /\ UNCHANGED <<checkpoint, fresh>>
  /\ UNCHANGED <<session, lease, request, pc, owner, aborted, error, frame, asked, history,
                 stopper>>

\* stageLimitObserver saves what the role has used so far.
SaveUsage(p) ==
  /\ pc[p] = "operate"
  /\ Write(p, checkpoint)
  /\ UNCHANGED <<session, lease, request, pc>> /\ others(p)

\* runRole returns or throws; its harness has closed the session.
EndOperation(p) ==
  /\ pc[p] = "operate"
  /\ Release(p)
  /\ \E e \in Errors :
       /\ e = "interrupted" => aborted[p]
       /\ error' = [error EXCEPT ![p] = e]
       /\ Goto(p, IF e = "none" THEN "settle" ELSE "caught")
  /\ UNCHANGED <<checkpoint, session, request, fresh, owner, aborted, submitted, frame,
                 asked, history, stopper>>

Settle(p) ==
  /\ pc[p] = "settle"
  /\ \E written \in NextRecord(p) : Write(p, written)
  /\ Goto(p, "finalize")
  /\ UNCHANGED <<session, lease, request>> /\ others(p)

\* finalizeSettledOperation closes the session, reopens it and reads the final text.
Finalize(p) ==
  /\ pc[p] = "finalize"
  /\ Release(p) /\ Goto(p, "reopen")
  /\ UNCHANGED <<checkpoint, session, request, fresh>> /\ others(p)

Reopen(p) ==
  /\ pc[p] = "reopen" /\ session
  /\ Claim(p) /\ Goto(p, "project")
  /\ UNCHANGED <<checkpoint, session, request, fresh>> /\ others(p)

\* The session cannot be opened or read.  Outside the try the process ends with it.
FinalizeFails(p) ==
  /\ pc[p] \in {"reopen", "project"}
  /\ Release(p)
  /\ IF frame[p] = "try"
     THEN Goto(p, "caught") /\ error' = [error EXCEPT ![p] = "failed"]
     ELSE Goto(p, "exited") /\ UNCHANGED error
  /\ UNCHANGED <<checkpoint, session, request, fresh, owner, aborted, submitted, frame,
                 asked, history, stopper>>

Project(p) ==
  /\ pc[p] = "project"
  /\ Release(p) /\ Goto(p, "conclude")
  /\ UNCHANGED <<checkpoint, session, request, fresh>> /\ others(p)

Conclude(p) ==
  /\ pc[p] = "conclude"
  /\ \E written \in NextRecord(p) : Write(p, written)
  /\ Goto(p, "exited")
  /\ UNCHANGED <<session, lease, request>> /\ others(p)

Interrupted(p) == error[p] = "interrupted" \/ aborted[p]

RecordsFailure(p) == error[p] = "limit" \/ ~Interrupted(p)

\* A failure that escapes before the checkpoint records it.
BadCaught(p) ==
  /\ pc[p] = "caught"
  /\ Release(p)
  /\ Goto(p, CASE submitted[p] -> "verdict" [] aborted[p] -> "interrupted" [] OTHER -> "exited")
  /\ UNCHANGED <<checkpoint, session, request, fresh>> /\ others(p)

\* The catch: a submitted verdict completes the run, a limit pauses it, any other failure
\* fails it; an abort pauses it, after a limit too.
Caught(p) ==
  /\ pc[p] = "caught"
  /\ Release(p)
  /\ \/ /\ submitted[p]
        /\ Goto(p, "verdict") /\ UNCHANGED <<checkpoint, fresh>>
     \/ /\ ~submitted[p] /\ RecordsFailure(p)
        /\ \E written \in NextRecord(p) : Write(p, written)
        /\ Goto(p, IF Interrupted(p) THEN "interrupted" ELSE "exited")
     \/ /\ ~submitted[p] /\ ~RecordsFailure(p)
        /\ Goto(p, "interrupted") /\ UNCHANGED <<checkpoint, fresh>>
  /\ UNCHANGED <<session, request>> /\ others(p)

\* The pause of an interrupted run names the stop request it finds, which is then consumed.
ReadStopRequest(p) ==
  /\ pc[p] = "interrupted"
  /\ asked' = [asked EXCEPT ![p] = request]
  /\ Goto(p, "pausing")
  /\ UNCHANGED <<disk, fresh, owner, aborted, error, submitted, frame, history, stopper>>

PauseInterrupted(p) ==
  /\ pc[p] = "pausing"
  /\ Save(p)
  /\ Goto(p, IF asked[p] THEN "consumeStop" ELSE "exited")
  /\ UNCHANGED <<session, lease, request, unrecorded, owner, aborted, error, submitted,
                 frame, asked, stopper>>

ConsumeStopRequest(p) ==
  /\ pc[p] = "consumeStop"
  /\ request' = FALSE /\ Goto(p, "exited")
  /\ UNCHANGED <<checkpoint, session, lease, fresh>> /\ others(p)

\* finishPersistedVerdict: the session is read for its text, and the run is complete.
ReadForVerdict(p) ==
  /\ pc[p] = "verdict"
  /\ \/ session /\ Claim(p) /\ Goto(p, "verdictRead")
     \/ Goto(p, "exited") /\ UNCHANGED lease
  /\ UNCHANGED <<checkpoint, session, request, fresh>> /\ others(p)

CloseVerdictSession(p) ==
  /\ pc[p] = "verdictRead"
  /\ Release(p) /\ Goto(p, "verdictWrite")
  /\ UNCHANGED <<checkpoint, session, request, fresh>> /\ others(p)

CompleteVerdict(p) ==
  /\ pc[p] = "verdictWrite"
  /\ \E written \in NextRecord(p) : Write(p, written)
  /\ Goto(p, "exited")
  /\ UNCHANGED <<session, lease, request>> /\ others(p)

-----------------------------------------------------------------------------
(* A save that throws.                                                      *)

Saving(p) ==
  \/ pc[p] \in {"adopt", "refused", "settle", "conclude", "pausing", "verdictWrite"}
  \/ pc[p] = "publish" /\ fresh[p]
  \/ pc[p] = "caught" /\ ~submitted[p] /\ RecordsFailure(p)

\* Inside the try the error is caught, and the role failed.
Recovers(p) == pc[p] = "settle" \/ (pc[p] = "conclude" /\ frame[p] = "try")

\* It was refused, or the record landed: the catch then writes over a closeout that did.
\* Outside the try, and in the catch, the process ends.
SaveThrows(p) ==
  /\ Saving(p)
  /\ \/ UNCHANGED <<checkpoint, fresh, overwritten>>
     \/ /\ \E written \in NextRecord(p) : Write(p, written)
        /\ overwritten' = (overwritten \/ Disputes(p) \/ (pc[p] = "conclude" /\ Recovers(p)))
  /\ IF Recovers(p)
     THEN /\ Goto(p, "caught") /\ error' = [error EXCEPT ![p] = "failed"]
          /\ UNCHANGED unrecorded
     ELSE /\ Goto(p, "exited") /\ unrecorded' = unrecorded \cup {p}
          /\ UNCHANGED error
  /\ Release(p)
  /\ UNCHANGED <<session, request, owner, aborted, submitted, frame, asked, stopper>>

-----------------------------------------------------------------------------
(* What ends a process from outside: its death, an operator's interrupt, and  *)
(* `runs stop`, which signals by pid.  It verifies the identity in the        *)
(* checkpoint once, before its first signal.                                 *)

Dies(p) == /\ Live(p) /\ Goto(p, "down")
           /\ UNCHANGED <<disk, local, stopper>>

Interrupt(p) ==
  /\ Live(p) /\ aborted' = [aborted EXCEPT ![p] = TRUE]
  /\ UNCHANGED <<disk, pc, fresh, owner, error, submitted, frame, asked, history, stopper>>

StopAt(l) == stopper' = [stopper EXCEPT !.at = l]

\* findStoppableRunRecord: the process that the record names, if it names one.
StopFind ==
  /\ stopper.at = "idle" /\ checkpoint.process \in Launcher
  /\ stopper' = [at |-> "verify", target |-> checkpoint.process, same |-> TRUE]
  /\ UNCHANGED <<disk, pc, local>>

\* verifyStopTarget: anything but a live process that is the recorded one signals nothing,
\* nor does one that is not recognized.
StopVerify ==
  /\ stopper.at = "verify"
  /\ \/ Live(stopper.target) /\ stopper.same /\ StopAt("witness")
     \/ StopAt("idle")
  /\ UNCHANGED <<disk, pc, local>>

StopWitness ==
  /\ stopper.at = "witness" /\ StopAt("signal")
  /\ request' = TRUE
  /\ UNCHANGED <<checkpoint, session, lease, pc, local>>

\* SIGTERM; ESRCH takes the witness back.  Without --kill the command ends here.
StopSignal ==
  /\ stopper.at = "signal"
  /\ IF Live(stopper.target)
     THEN /\ aborted' = [aborted EXCEPT ![stopper.target] = TRUE]
          /\ StopAt("wait") \/ StopAt("idle")
          /\ UNCHANGED request
     ELSE /\ request' = FALSE /\ StopAt("idle")
          /\ UNCHANGED aborted
  /\ UNCHANGED <<checkpoint, session, lease, pc, fresh, owner, error, submitted, frame,
                 asked, history>>

\* --kill: after its grace, SIGKILL to whatever has the pid.
StopKill ==
  /\ stopper.at = "wait" /\ StopAt("confirm")
  /\ pc' = IF Live(stopper.target) THEN [pc EXCEPT ![stopper.target] = "down"] ELSE pc
  /\ UNCHANGED <<disk, local>>

\* The witness of a process that is confirmed dead is removed.
StopConfirm ==
  /\ stopper.at = "confirm"
  /\ StopAt("idle")
  /\ request' = (request /\ Live(stopper.target))
  /\ UNCHANGED <<checkpoint, session, lease, pc, local>>

\* deleteSession and cleanup("sessions"): only a session nobody holds.
DeleteSession ==
  /\ session /\ ~Live(lease)
  /\ session' = FALSE /\ lease' = None
  /\ UNCHANGED <<checkpoint, request, pc, local, stopper>>

Attempt(p) ==
  \/ Adopt(p) \/ Inspect(p) \/ Open(p) \/ OpenFails(p) \/ RecordRefusal(p)
  \/ Publish(p) \/ Consume(p) \/ ReadCloseout(p) \/ Escapes(p)
  \/ SubmitVerdict(p) \/ SaveUsage(p) \/ SaveThrows(p) \/ EndOperation(p) \/ Settle(p)
  \/ Finalize(p) \/ Reopen(p) \/ FinalizeFails(p) \/ Project(p) \/ Conclude(p)
  \/ Caught(p) \/ ReadStopRequest(p) \/ PauseInterrupted(p) \/ ConsumeStopRequest(p)
  \/ ReadForVerdict(p) \/ CloseVerdictSession(p) \/ CompleteVerdict(p)

Stopping == StopFind \/ StopVerify \/ StopWitness \/ StopSignal \/ StopKill \/ StopConfirm

Next ==
  \/ \E p \in Launcher : Start(p) \/ Resume(p) \/ Attempt(p) \/ Dies(p) \/ Interrupt(p)
  \/ Stopping
  \/ DeleteSession

Spec == Init /\ [][Next]_vars

-----------------------------------------------------------------------------
(* Properties.                                                              *)

\* Whoever drives the role holds the lease of a session that exists, and is the process that
\* the checkpoint names to `runs stop`: the lease, the compare-and-swap and the death of
\* owners together.
OperatorOwnsTheRun ==
  \A p \in Launcher : pc[p] = "operate" => lease = p /\ session /\ checkpoint.process = p

\* "A hard exit in either closeout step must not replay the original task", and a complete role
\* is not run again: unless a process wrote over what was not its own, took a live one for
\* an orphan, or took its own recorded closeout for failed, nobody runs a role that has settled.
SettledIsNotReplayed ==
  \A p \in Launcher :
    pc[p] = "operate" /\ ~overwritten => ~checkpoint.settled /\ checkpoint.status = "running"

\* "Never spend another provider turn": once a verdict is recorded, no process begins to run
\* the role, and the verdict stays recorded.
VerdictIsTerminal ==
  [][checkpoint.verdict => /\ checkpoint'.verdict
                           /\ \A p \in Launcher : pc'[p] = "operate" => pc[p] = "operate"]_vars

\* An attempt that ended by itself is not left advertised as a live one: its outcome is on
\* record, or what the next attempt needs to record it is; unless a save threw as it ended
\* or began, or the read of an earlier closeout failed.
EndedAttemptIsRecorded ==
  \A p \in Launcher :
    pc[p] = "exited" /\ checkpoint.process = p /\ p \notin unrecorded =>
      \/ checkpoint.status \in {"paused", "failed", "complete"}
      \/ checkpoint.status = "settling" /\ checkpoint.settled
      \/ checkpoint.verdict

\* A role that is complete is refused to a resume, and stays complete.
CompleteIsFinal == [][checkpoint.status = "complete" => checkpoint'.status = "complete"]_vars

=============================================================================
