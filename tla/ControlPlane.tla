---------------------------- MODULE ControlPlane ----------------------------
(***************************************************************************)
(* One root run of the durable control plane and the children it is split    *)
(* into (src/orchestration/control-plane.ts), with the live retry gate of a  *)
(* host process.                                                            *)
(*                                                                         *)
(* A run is a record on disk.  A call of resume works on the copy it read    *)
(* and every save is a compare-and-swap: fresh says that nobody has saved    *)
(* the run since the copy was read, so a save takes place or is a            *)
(* checkpoint_conflict; and any save may throw, refused by a busy lock, or    *)
(* with the record in place when what follows its rename fails.  Calls of    *)
(* several processes interleave between any two saves; those of one process  *)
(* only where resume awaits, so the model lets them do more than they can.   *)
(*                                                                         *)
(* The depth of decomposition is the default of one; automatic decomposition *)
(* and timed retry are on, other limits off.  The usage that session and     *)
(* project limits count is not modelled: a limit is reached or not.          *)
(***************************************************************************)
EXTENDS Naturals, Sequences, FiniteSets, SequencesExt

CONSTANTS
  Root,        \* the root run
  Child,       \* ids for child runs (a bound on them)
  Caller,      \* explicit calls of resume and requestDecision
  Admission,   \* the slots of a retry coordinator: maxConcurrentAdmissions of them
  None,
  MaxAttempts, \* maxAutomaticRetryAttempts; 0, the default, bounds nothing
  MaxQueued,   \* maxQueuedAdmissions
  MaxSpecs,    \* bound: children of one decomposition
  MaxTurns,    \* bound: launches of an execution
  MaxActs,     \* bound: acts of fronts: resumes, cancellations, decisions, publications
  MaxCrashes   \* bound: deaths of processes

ASSUME CallAssumption ==
  /\ Caller \cap Admission = {} /\ None \notin Caller \cup Admission /\ Root \notin Child
ASSUME CountAssumption ==
  {MaxAttempts, MaxQueued, MaxSpecs, MaxTurns, MaxActs, MaxCrashes} \subseteq Nat

Run      == {Root} \cup Child
Call     == Caller \cup Admission
Terminal == {"complete", "failed", "cancelled"}
Status   == {"absent", "queued", "running", "paused", "awaiting_decision"} \cup Terminal

\* DurableRunRecord.  remaining and pending count specs and unresolved decisions.
Record == [status : Status, cancelRequested : BOOLEAN, inFlight : BOOLEAN,
           lease : Call \cup {None}, children : SUBSET Child, remaining : 0..MaxSpecs,
           pending : 0..(MaxActs + MaxTurns), result : {"none", "approved", "decomposition"},
           breakpoint : {"none", "publication"}, attempts : Nat,
           budget : {"none", "startable", "blocked"}]

Absent == [status |-> "absent", cancelRequested |-> FALSE, inFlight |-> FALSE, lease |-> None,
           children |-> {}, remaining |-> 0, pending |-> 0, result |-> "none",
           breakpoint |-> "none", attempts |-> 0, budget |-> "none"]
Queued == [Absent EXCEPT !.status = "queued"]

\* The points of resume, runChildren and requestDecision at which a call may stand.
Points == {"idle", "gate", "stop", "limits", "executing", "persist", "settle",
           "caught", "fail", "series", "index", "result", "done", "asking", "publishing"}

\* A call: the run it works on with its copy; in runChildren also the copy of the root.
Frame == [pc : Points, run : Run, until : {"none", "stop", "publication"},
          outcome : {"none", "approved", "decomposition", "limit", "error"},
          view : Record, fresh : BOOLEAN, series : BOOLEAN, top : Record,
          current : BOOLEAN, held : BOOLEAN]

Idle == [pc |-> "idle", run |-> Root, until |-> "none", outcome |-> "none", view |-> Absent,
         fresh |-> FALSE, series |-> FALSE, top |-> Absent, current |-> FALSE, held |-> FALSE]

VARIABLES
  mode,          \* the mandate of the tree: auto or manual
  host,          \* the calls made in a process with a retry coordinator
  sessionLimits, \* a session limit controller is configured
  disk,          \* the records
  frame,         \* the calls
  timers, ready, \* the coordinator: runs with a timer, due runs in order
  admitted,      \* history: automatic resumes of each run
  authorised,    \* history: child specs that were accepted
  misreported,   \* history: runs whose settlement is on disk though its save threw
  turns, acts, crashes

given == <<mode, host, sessionLimits>>
retry == <<timers, ready, admitted>>
count == <<authorised, misreported, turns, acts, crashes>>
vars  == <<given, disk, frame, retry, count>>

\* What every variable holds.
TypeOK ==
  /\ mode \in {"auto", "manual"} /\ host \subseteq Caller /\ sessionLimits \in BOOLEAN
  /\ disk \in [Run -> Record] /\ frame \in [Call -> Frame]
  /\ timers \subseteq Run /\ ready \in Seq(Run) /\ Len(ready) <= MaxQueued
  /\ admitted \in [Run -> Nat] /\ authorised \in Nat /\ misreported \subseteq Run
  /\ turns \in 0..MaxTurns /\ acts \in 0..MaxActs /\ crashes \in 0..MaxCrashes

\* start has written the root's record, with or without a budget decision.
Init ==
  /\ mode \in {"auto", "manual"} /\ host \in SUBSET Caller /\ sessionLimits \in BOOLEAN
  /\ \E b \in {"none", "blocked"} :
       disk = [r \in Run |-> IF r = Root THEN [Queued EXCEPT !.budget = b] ELSE Absent]
  /\ frame = [c \in Call |-> Idle] /\ timers = {} /\ ready = <<>>
  /\ admitted = [r \in Run |-> 0] /\ authorised = 0 /\ misreported = {}
  /\ turns = 0 /\ acts = 0 /\ crashes = 0

-----------------------------------------------------------------------------
(* Saves.                                                                   *)

\* A save of r leaves f's copies of r behind.
Outdated(f, r) ==
  [f EXCEPT !.fresh = @ /\ f.run # r, !.current = @ /\ r # Root, !.held = @ /\ r # Root]

\* c saves r and goes on as f.
Write(c, r, record, f) ==
  /\ disk' = [disk EXCEPT ![r] = record]
  /\ frame' = [d \in Call |-> IF d = c THEN f ELSE Outdated(frame[d], r)]

Continue(c, f) == frame' = [frame EXCEPT ![c] = f] /\ UNCHANGED disk

Throw(c) == Continue(c, Idle)

\* resume returns: to its caller, or to the series that called it for a child.
Returned(f) == IF f.series THEN [f EXCEPT !.pc = "result"] ELSE Idle

\* Into the catch around an execution.
Catching(f, outcome) == [f EXCEPT !.pc = "caught", !.outcome = outcome, !.held = TRUE]

Caught(c, outcome) == Continue(c, Catching(frame[c], outcome))

\* A save that does not compare versions.
BadFresh(c) == TRUE

\* write: no other save has come between.
Fresh(c) == frame[c].fresh

\* A save of the run c works on; f is what c does next, with the record it saved.
Saved(c, record, f) ==
  /\ Fresh(c)
  /\ Write(c, frame[c].run, record,
           IF f.pc = "idle" THEN f ELSE [f EXCEPT !.view = record, !.fresh = TRUE])

\* write throws on a conflict, and whenever the lock or the disk refuses it: then the record
\* may be there all the same.
SaveOrThrow(c, record, f) == Saved(c, record, f) \/ Saved(c, record, Idle) \/ Throw(c)

SaveAndReturn(c, record) ==
  SaveOrThrow(c, record,
              IF frame[c].series THEN [frame[c] EXCEPT !.pc = "result"] ELSE Idle)

At(c, point) == frame[c].pc = point

InHost(c) == c \in host \cup Admission

\* The bound on acts.
Act ==
  acts < MaxActs /\ acts' = acts + 1 /\ UNCHANGED <<authorised, misreported, turns, crashes>>

-----------------------------------------------------------------------------
(* resume, up to the execution.                                             *)

\* The retry coordinator forgets a run when a call of its process resumes or cancels it.
Forget(r, here) ==
  /\ timers' = IF here THEN timers \ {r} ELSE timers
  /\ ready' = IF here THEN RemoveFirst(ready, r) ELSE ready

Resuming(f, r, until) ==
  [f EXCEPT !.pc = "gate", !.run = r, !.until = until, !.outcome = "none",
            !.view = disk[r], !.fresh = TRUE]

Resume(c, r, until) ==
  /\ c \in Caller /\ At(c, "idle") /\ disk[r].status # "absent" /\ Act
  /\ Continue(c, Resuming(Idle, r, until))
  /\ Forget(r, c \in host) /\ UNCHANGED admitted

\* A resume that does not look for a turn in flight.
BadSettled(record) == record.status \in Terminal

\* Terminal runs and runs in flight are left alone.
Settled(record) == record.status \in Terminal \/ record.inFlight

GateReturns(c) ==
  /\ At(c, "gate") /\ Settled(frame[c].view)
  /\ Continue(c, Returned(frame[c])) /\ UNCHANGED <<retry, count>>

AtGate(c) == At(c, "gate") /\ ~Settled(frame[c].view)

GateCancels(c) ==
  /\ AtGate(c) /\ frame[c].view.cancelRequested
  /\ SaveAndReturn(c, [frame[c].view EXCEPT !.status = "cancelled"])
  /\ UNCHANGED <<retry, count>>

\* A root without a budget gets the counter-estimate; one that is blocked waits.
GateBudget(c) ==
  /\ AtGate(c) /\ ~frame[c].view.cancelRequested /\ frame[c].run = Root
  /\ \/ /\ frame[c].view.budget = "none"
        /\ SaveOrThrow(c, [frame[c].view EXCEPT !.budget = "startable"], frame[c])
     \/ /\ frame[c].view.budget = "blocked"
        /\ SaveAndReturn(c, [frame[c].view EXCEPT !.status = "awaiting_decision"])
  /\ UNCHANGED <<retry, count>>

Startable(c) ==
  /\ AtGate(c) /\ ~frame[c].view.cancelRequested
  /\ frame[c].run = Root => frame[c].view.budget = "startable"

HasChildrenLeft(f) ==
  f.until = "none" /\ f.view.result = "decomposition" /\ f.view.remaining > 0

WaitedForPublication(f) ==
  f.until = "none" /\ f.view.breakpoint = "publication" /\ f.view.result = "approved"

\* Into runChildren with the record that has just been saved.
Series(f, record) ==
  [f EXCEPT !.pc = "series", !.series = TRUE, !.top = record, !.current = TRUE]

GateSeries(c) ==
  /\ Startable(c) /\ HasChildrenLeft(frame[c])
  /\ LET record == [frame[c].view EXCEPT !.status = "running"]
     IN SaveOrThrow(c, record, Series(frame[c], record))
  /\ UNCHANGED <<retry, count>>

GatePublished(c) ==
  /\ Startable(c) /\ ~HasChildrenLeft(frame[c]) /\ WaitedForPublication(frame[c])
  /\ SaveAndReturn(c, [frame[c].view EXCEPT !.status = "complete", !.breakpoint = "none"])
  /\ UNCHANGED <<retry, count>>

GateUntil(c) ==
  /\ Startable(c) /\ frame[c].until # "none"
  /\ LET stops == frame[c].until = "stop"
     IN SaveOrThrow(c, [frame[c].view EXCEPT !.breakpoint = IF stops THEN "none"
                                                            ELSE "publication"],
                    [frame[c] EXCEPT !.pc = IF stops THEN "stop" ELSE "limits"])
  /\ UNCHANGED <<retry, count>>

\* Past the gate, where the limits are looked at and the provider is awaited.
BeforeLaunch(c) ==
  \/ At(c, "limits")
  \/ /\ Startable(c) /\ frame[c].until = "none"
     /\ ~HasChildrenLeft(frame[c]) /\ ~WaitedForPublication(frame[c])

Stop(c) ==
  /\ At(c, "stop") /\ SaveAndReturn(c, [frame[c].view EXCEPT !.status = "paused"])
  /\ UNCHANGED <<retry, count>>

\* A project or session limit is reached, or the provider is not available.
Limited(c) ==
  /\ BeforeLaunch(c) /\ SaveAndReturn(c, [frame[c].view EXCEPT !.status = "paused"])
  /\ UNCHANGED <<retry, count>>

\* The execution lease.  Who loses the race to another execution reports that one; who is
\* told of a conflict though its own launch is on disk reports that, and nobody executes.
Launch(c) ==
  /\ BeforeLaunch(c) /\ turns < MaxTurns
  /\ LET launched == [frame[c].view EXCEPT !.status = "running", !.inFlight = TRUE, !.lease = c]
         told(record) == Returned([frame[c] EXCEPT !.view = record])
     IN \/ /\ \/ Saved(c, launched, [frame[c] EXCEPT !.pc = "executing", !.until = "none"])
              \/ Saved(c, launched, Idle)
              \/ Saved(c, launched, told(launched))
           /\ turns' = turns + 1
        \/ /\ \/ Throw(c)
              \/ disk[frame[c].run].inFlight /\ Continue(c, told(disk[frame[c].run]))
           /\ UNCHANGED turns
  /\ UNCHANGED <<retry, authorised, misreported, acts, crashes>>

-----------------------------------------------------------------------------
(* resume, after the execution.                                             *)

Executed(c) ==
  /\ At(c, "executing")
  /\ \/ \E outcome \in {"approved", "decomposition"} :
          Continue(c, [frame[c] EXCEPT !.pc = "persist", !.outcome = outcome, !.held = TRUE])
     \/ \E outcome \in {"limit", "error"} : Caught(c, outcome)
  /\ UNCHANGED <<retry, count>>

Reread(f, point) ==
  [f EXCEPT !.pc = point, !.view = disk[f.run], !.fresh = TRUE, !.held = FALSE]

\* persistSessionLimits saves the root, read at held, which leaves behind the copy that a series
\* has; c goes on as f, with the run read again, or as thrown when that save throws.
PersistsThen(c, f, thrown) ==
  IF ~sessionLimits THEN Continue(c, f)
  ELSE \/ /\ frame[c].held
          /\ \E g \in {f, thrown} : Write(c, Root, disk[Root], [g EXCEPT !.current = FALSE])
       \/ Continue(c, thrown)

\* The settlement of an execution that still has its lease; one that has lost it throws.
Persist(c) ==
  /\ At(c, "persist")
  /\ LET f == Reread(frame[c], "settle")
     IN PersistsThen(c, IF f.view.lease = c THEN f ELSE Catching(f, "error"),
                     Catching(frame[c], "error"))
  /\ UNCHANGED <<retry, count>>

\* The record of a run whose execution is over.
Over(c) ==
  [frame[c].view EXCEPT !.result = frame[c].outcome, !.inFlight = FALSE, !.lease = None]

\* A save inside the try: whatever it throws is caught and becomes a failure of the run.
CaughtSave(c, record) ==
  \/ /\ Saved(c, record, Catching(frame[c], "error"))
     /\ misreported' = misreported \cup {frame[c].run}
  \/ Caught(c, "error") /\ UNCHANGED misreported

SaveOrCatch(c, record, f) ==
  (Saved(c, record, f) /\ UNCHANGED misreported) \/ CaughtSave(c, record)

ReturnFrom(c) == Returned(frame[c])

\* A result that ends the call, cancelled or not.  A split is left to an operator in manual
\* mode; a child does not split further, and sometimes no child can be derived.
Settle(c) ==
  /\ At(c, "settle")
  /\ LET over == Over(c)
         cancelled == frame[c].view.cancelRequested
     IN \/ /\ cancelled
           /\ SaveOrCatch(c, [over EXCEPT !.status = "cancelled"], ReturnFrom(c))
        \/ /\ ~cancelled /\ frame[c].outcome = "approved"
           /\ SaveOrCatch(c, [over EXCEPT !.status = IF over.breakpoint = "publication"
                                                     THEN "paused" ELSE "complete"],
                          ReturnFrom(c))
        \/ /\ ~cancelled /\ frame[c].outcome = "decomposition"
           /\ SaveOrCatch(c, [over EXCEPT !.status = "paused"], ReturnFrom(c))
        \/ /\ ~cancelled /\ frame[c].outcome = "decomposition"
           /\ frame[c].run = Root /\ mode = "manual"
           /\ SaveOrCatch(c, [over EXCEPT !.status = "awaiting_decision", !.pending = @ + 1],
                          ReturnFrom(c))
  /\ UNCHANGED <<retry, authorised, turns, acts, crashes>>

\* In auto mode the resolver decides about the children, with the record read before.
Deciding(c) ==
  /\ At(c, "settle") /\ ~frame[c].view.cancelRequested
  /\ frame[c].outcome = "decomposition" /\ frame[c].run = Root /\ mode = "auto"

Accepted(c) ==
  /\ Deciding(c)
  /\ \E n \in 1..MaxSpecs :
       LET record == [Over(c) EXCEPT !.remaining = n, !.status = "running"]
       IN /\ SaveOrCatch(c, record, Series(frame[c], record))
          /\ authorised' = IF disk' = disk THEN authorised ELSE authorised + n
  /\ UNCHANGED <<retry, turns, acts, crashes>>

\* Rejected or deferred, or the resolver failed.
Declined(c) ==
  /\ Deciding(c)
  /\ SaveOrCatch(c, [Over(c) EXCEPT !.status = "paused"], ReturnFrom(c))
  /\ UNCHANGED <<retry, authorised, turns, acts, crashes>>

\* The catch: the limits are saved and the run is read again, outside any try.
CaughtPersists(c) ==
  At(c, "caught") /\ PersistsThen(c, Reread(frame[c], "fail"), Idle) /\ UNCHANGED <<retry, count>>

\* A ceiling that lets one more retry through.
BadShouldSchedule(c) == InHost(c) /\ frame[c].view.attempts <= MaxAttempts

\* Another automatic retry is within the ceiling, if there is one, and there is a coordinator.
shouldSchedule(c) ==
  InHost(c) /\ (MaxAttempts = 0 \/ frame[c].view.attempts < MaxAttempts)

\* A provider limit pauses the run and may schedule a retry.
LimitReached(c) ==
  /\ At(c, "fail") /\ frame[c].outcome = "limit"
  /\ LET again  == shouldSchedule(c)
         record == [frame[c].view EXCEPT !.status = "paused", !.inFlight = FALSE, !.lease = None,
                                         !.attempts = IF again THEN @ + 1 ELSE @]
     IN \/ /\ Saved(c, record, ReturnFrom(c))
           /\ timers' = IF again THEN timers \cup {frame[c].run} ELSE timers
           /\ ready' = IF again THEN RemoveFirst(ready, frame[c].run) ELSE ready
        \/ (Saved(c, record, Idle) \/ Throw(c)) /\ UNCHANGED <<timers, ready>>
  /\ UNCHANGED <<admitted, count>>

\* Any other failure is recorded and thrown: over whatever the run has become, with the lease
\* it has.
Failed(c) ==
  /\ At(c, "fail") /\ frame[c].outcome = "error"
  /\ SaveOrThrow(c, [frame[c].view EXCEPT !.status = "failed", !.inFlight = FALSE], Idle)
  /\ UNCHANGED <<retry, count>>

-----------------------------------------------------------------------------
(* runChildren.                                                             *)

\* The ids no child has; a call that finds none gives up, where the code would take a new one.
Unused == {ch \in Child : disk[ch].status = "absent"}

\* The next spec of the root as it is now becomes the record of a child.
NextChild(c) ==
  /\ At(c, "series")
  /\ LET root == disk[Root]
         f    == [frame[c] EXCEPT !.top = root, !.current = TRUE]
     IN IF root.cancelRequested
        THEN Write(c, Root, [root EXCEPT !.status = "cancelled"], Idle) \/ Throw(c)
        ELSE IF root.remaining = 0 THEN Continue(c, [f EXCEPT !.pc = "done"])
        ELSE IF Unused = {} THEN Throw(c)
        ELSE LET ch == CHOOSE ch \in Unused : TRUE
             IN \/ Write(c, ch, Queued, [f EXCEPT !.pc = "index", !.run = ch])
                \/ Write(c, ch, Queued, Idle)
                \/ Throw(c)
  /\ UNCHANGED <<retry, count>>

\* A series that saves the root over whatever is there.
BadTopSaved(c, record, f) == Write(c, Root, record, f)

\* A save of the root by the series, from the copy it has.
TopSaved(c, record, f) == frame[c].current /\ Write(c, Root, record, f)

TopSavedOrThrow(c, record) == TopSaved(c, record, Idle) \/ Throw(c)

\* The root names the child before the child is resumed.
IndexChild(c) ==
  /\ At(c, "index")
  /\ LET ch     == frame[c].run
         record == [frame[c].top EXCEPT !.children = @ \cup {ch}, !.remaining = @ - 1]
     IN \/ /\ TopSaved(c, record, Resuming([frame[c] EXCEPT !.top = record], ch, "none"))
           /\ Forget(ch, InHost(c))
        \/ TopSavedOrThrow(c, record) /\ UNCHANGED <<timers, ready>>
  /\ UNCHANGED <<admitted, count>>

\* A child that is not complete stops the series; else the next one, or the end.
ChildReturned(c) ==
  /\ At(c, "result")
  /\ IF frame[c].view.result = "decomposition" \/ frame[c].view.status # "complete"
     THEN TopSavedOrThrow(c, [frame[c].top EXCEPT !.status = "paused"])
     ELSE Continue(c, [frame[c] EXCEPT !.pc = IF frame[c].top.remaining > 0 THEN "series"
                                              ELSE "done"])
  /\ UNCHANGED <<retry, count>>

SeriesDone(c) ==
  /\ At(c, "done") /\ TopSavedOrThrow(c, [frame[c].top EXCEPT !.status = "complete"])
  /\ UNCHANGED <<retry, count>>

-----------------------------------------------------------------------------
(* Fronts: each reads a record and saves it in one go.                      *)

FrontSaves(r, record) ==
  /\ Act /\ record # disk[r] /\ disk' = [disk EXCEPT ![r] = record]
  /\ frame' = [d \in Call |-> Outdated(frame[d], r)]

\* cancel: cooperative while a turn is in flight.
cancel(r) ==
  /\ disk[r].status \notin Terminal \cup {"absent"}
  /\ FrontSaves(r, [disk[r] EXCEPT !.cancelRequested = TRUE,
                                   !.status = IF disk[r].inFlight THEN @ ELSE "cancelled"])
  /\ \E here \in BOOLEAN : Forget(r, here)
  /\ UNCHANGED admitted

recordBudgetDecision ==
  /\ disk[Root].status \in {"queued", "awaiting_decision"}
  /\ \E b \in {"startable", "blocked"} :
       FrontSaves(Root, [disk[Root] EXCEPT !.budget = b, !.status = "queued"])
  /\ UNCHANGED retry

\* requestDecision in manual mode waits for the operator.
requestDecision(r) ==
  /\ mode = "manual" /\ disk[r].status # "absent"
  /\ FrontSaves(r, [disk[r] EXCEPT !.status = "awaiting_decision", !.pending = @ + 1])
  /\ UNCHANGED retry

resolveDecisionFromOperator(r) ==
  /\ mode = "manual" /\ disk[r].pending > 0
  /\ \E status \in {"queued", "paused"} :
       FrontSaves(r, [disk[r] EXCEPT !.status = status, !.pending = @ - 1])
  /\ UNCHANGED retry

\* In auto mode the resolver answers between the read and the save.
Ask(c, r) ==
  /\ mode = "auto" /\ c \in Caller /\ At(c, "idle") /\ disk[r].status # "absent"
  /\ Act /\ Continue(c, [Resuming(Idle, r, "none") EXCEPT !.pc = "asking"])
  /\ UNCHANGED retry

Answered(c) ==
  /\ At(c, "asking")
  /\ \E status \in {"queued", "paused"} :
       SaveOrThrow(c, [frame[c].view EXCEPT !.status = status], Idle)
  /\ UNCHANGED <<retry, count>>

\* publish wants an approved run; the publication is awaited, and whatever the run has
\* become by then no longer waits for it.
publish(c, r) ==
  /\ c \in Caller /\ At(c, "idle") /\ disk[r].result = "approved"
  /\ Act /\ Continue(c, [Resuming(Idle, r, "none") EXCEPT !.pc = "publishing"])
  /\ UNCHANGED retry

Published(c) ==
  /\ At(c, "publishing")
  /\ \/ Write(c, frame[c].run, [disk[frame[c].run] EXCEPT !.breakpoint = "none"], Idle)
     \/ Throw(c)
  /\ UNCHANGED <<retry, count>>

-----------------------------------------------------------------------------
(* The live retry coordinator.                                              *)

\* A count of active admissions that is never taken back.
BadSlotFree(h) == At(h, "idle") /\ \A r \in Run : admitted[r] = 0

\* drain: fewer admissions are active than the host allows.
SlotFree(h) == At(h, "idle")

\* A due run queues for admission, or is dropped when the queue is full.  drain has
\* taken whatever could be admitted before.
Due(r) ==
  /\ r \in timers /\ (ready = <<>> \/ \A h \in Admission : ~SlotFree(h))
  /\ timers' = timers \ {r}
  /\ ready' = IF Len(ready) >= MaxQueued THEN ready ELSE Append(ready, r)
  /\ UNCHANGED <<disk, frame, admitted, count>>

\* drain: a free slot resumes the run at the head.
Admit(h) ==
  /\ h \in Admission /\ SlotFree(h) /\ ready # <<>>
  /\ LET r == Head(ready)
     IN /\ Continue(h, Resuming(Idle, r, "none"))
        /\ admitted' = [admitted EXCEPT ![r] = @ + 1]
        /\ timers' = timers \ {r} /\ ready' = RemoveFirst(Tail(ready), r)
  /\ UNCHANGED count

-----------------------------------------------------------------------------
(* Deaths, and the whole.                                                   *)

\* The host takes its calls, timers and queue with it; other callers are alone.
Dies ==
  /\ crashes < MaxCrashes /\ crashes' = crashes + 1
  /\ \/ /\ timers # {} \/ ready # <<>> \/ \E c \in Call : InHost(c) /\ ~At(c, "idle")
        /\ frame' = [c \in Call |-> IF InHost(c) THEN Idle ELSE frame[c]]
        /\ timers' = {} /\ ready' = <<>>
     \/ /\ \E c \in Caller \ host : ~At(c, "idle") /\ frame' = [frame EXCEPT ![c] = Idle]
        /\ UNCHANGED <<timers, ready>>
  /\ UNCHANGED <<disk, admitted, authorised, misreported, turns, acts>>

\* A call goes on.
Step(c) ==
  \/ GateReturns(c) \/ GateCancels(c) \/ GateBudget(c) \/ GateSeries(c) \/ GatePublished(c)
  \/ GateUntil(c) \/ Stop(c) \/ Limited(c) \/ Launch(c)
  \/ Executed(c) \/ Persist(c) \/ Settle(c) \/ Accepted(c)
  \/ Declined(c) \/ CaughtPersists(c) \/ LimitReached(c) \/ Failed(c)
  \/ NextChild(c) \/ IndexChild(c) \/ ChildReturned(c) \/ SeriesDone(c) \/ Answered(c)
  \/ Published(c)

FrontActs ==
  \/ recordBudgetDecision
  \/ \E r \in Run : cancel(r) \/ requestDecision(r) \/ resolveDecisionFromOperator(r)

Next ==
  /\ \/ \E c \in Call : Step(c)
     \/ \E c \in Caller, r \in Run :
          \/ Ask(c, r) \/ publish(c, r)
          \/ \E until \in {"none", "stop", "publication"} : Resume(c, r, until)
     \/ FrontActs \/ Dies
     \/ \E r \in Run : Due(r)
     \/ \E h \in Admission : Admit(h)
  /\ UNCHANGED given

Spec == Init /\ [][Next]_vars

-----------------------------------------------------------------------------
(* Properties.                                                              *)

\* A cancellation is kept once it is recorded, and the run never ends complete: resume,
\* the settlement of an execution and the end of a series each save whole records they
\* read before, so a cancel that comes between is a conflict and not lost
\* (control-plane.ts:569, :1072, :1431).
CancelledNeverCompletes ==
  [][\A r \in Run : disk[r].cancelRequested =>
       disk'[r].cancelRequested /\ disk'[r].status # "complete"]_vars

\* From the launch to the settlement a run belongs to one call, whatever the retry
\* coordinator, other processes, decisions and deaths do: the lease and
\* providerTurnInFlight keep a second resume out (:883, :1046).  A settlement that is on disk
\* though its save threw is excepted: the catch then fails the run without a look at the
\* lease, which by then may be another call's (:1174, :1225).
Executing(c) == frame[c].pc \in {"executing", "persist", "settle", "caught", "fail"}

OneExecutionPerRun ==
  \A c \in Call :
    Executing(c) /\ frame[c].run \notin misreported =>
      disk[frame[c].run].inFlight /\ disk[frame[c].run].lease = c

\* A timer never resumes a run more often than its record says, and the record never says
\* more than the ceiling, where there is one: attempts are saved before the timer is set, so
\* a new process cannot start over (:1188, :1197, :1201).
RetriesAreCounted ==
  \A r \in Run : /\ admitted[r] <= disk[r].attempts
                 /\ MaxAttempts > 0 => disk[r].attempts <= MaxAttempts

\* An accepted spec becomes at most one child that its root names, and the root never
\* forgets a child, although several calls may work through the series at once (:1470).
SpecsBecomeChildren ==
  [][/\ disk[Root].children \subseteq disk'[Root].children
     /\ Cardinality(disk'[Root].children) + disk'[Root].remaining <= authorised']_vars

\* Executions end, calls go on, and drain runs when a slot is free.
FairSpec ==
  /\ Spec
  /\ \A c \in Call : WF_vars(Step(c) /\ UNCHANGED given)
  /\ \A a \in Admission : WF_vars(Admit(a) /\ UNCHANGED given)

\* A retry that is due and was queued for admission leaves the queue: it is admitted, or
\* a call took its run (:320-344).
DueRetryIsServed ==
  \A r \in Run : (\E i \in DOMAIN ready : ready[i] = r) ~> ~(\E i \in DOMAIN ready : ready[i] = r)

=============================================================================
