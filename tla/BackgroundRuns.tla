--------------------------- MODULE BackgroundRuns ---------------------------
(***************************************************************************)
(* One detached background run, as the processes that manage it see it       *)
(* (src/orchestration/background-runs.ts) and the pump that turns its wakes  *)
(* into turns of a console (src/orchestration/wake.ts).                      *)
(*                                                                         *)
(* The record of the run is one file, runs/<id>.json.  Every process keeps a *)
(* copy of it.  A write stores the writer's whole copy; only the wake        *)
(* windows are merged with those on disk, and the worker's process identity  *)
(* is kept.  Each access to the file is a step of its own; a process does    *)
(* one synchronous thing at a time.                                         *)
(*                                                                         *)
(* The heartbeats of a living worker keep its lease fresh; late means that a *)
(* lease window has passed.  Two notices are not stamped in the same         *)
(* millisecond.  Retained windows stay below maxWakeEntriesPerRun.           *)
(***************************************************************************)
EXTENDS Naturals, Sequences

CONSTANTS
  Console,    \* managers with a wake pump and a front
  Other,      \* managers without: the detached worker, `background` commands
  None,
  MaxNotices, \* bound: wake notices recorded
  MaxCancels, \* bound: cancel requests
  MaxResumes  \* bound: foreground resumes

ASSUME ManagerAssumption == Console \cap Other = {} /\ None \notin Console \cup Other
ASSUME BoundAssumption == MaxNotices \in Nat /\ MaxCancels \in Nat /\ MaxResumes \in Nat

Manager  == Console \cup Other
Terminal == {"failed", "cancelled", "timed_out", "completed"}
Wakeful  == {"paused", "operator_attention", "failed", "timed_out", "completed", "stage_changed"}
Life     == {"absent", "requested", "started", "paused", "operator_attention"} \cup Terminal
Window   == [kind : Wakeful, first : Nat, last : Nat, handled : BOOLEAN]
Record   == [life : Life, seq : Nat, lease : Manager \cup {None}, process : Manager \cup {None},
             outcome : BOOLEAN, wakes : SUBSET Window]

VARIABLES
  disk,       \* the record on disk
  launch,     \* startDetached: none, pending, spawned or refused
  late,       \* leaseMs has passed since the request, or since a dead worker's heartbeat
  notices,    \* the wake notices so far: their kinds, in order; a position is a time
  mem,        \* mem[m]: m's copy of the record
  at,         \* the synchronous operation m is in
  active,     \* m executes the run
  cancelled,  \* the run was cancelled or timed out in m
  running,    \* m's executor has begun
  pump, batch, busy,  \* the pump of a console: its phase, the windows of its turn, turnBusy
  front, blocked,     \* a front turn is in flight; recoveryBlocked
  told,       \* history: the notices that a settled wake turn was about
  stalled,    \* history: a turn failed and nothing has been scheduled since
  reaped,     \* history: the run was reconciled to failed unclaimed
  crossed,    \* history: a writer whose copy had missed an event stored it all the same
  cancels, resumes

file == <<disk, crossed>>
proc == <<mem, at, active, cancelled, running>>
lane == <<pump, batch, busy, front, blocked, stalled>>
hist == <<told, cancels, resumes, reaped>>
now  == Len(notices) + 1
vars == <<file, launch, late, notices, proc, lane, hist>>

Absent == [life |-> "absent", seq |-> 0, lease |-> None, process |-> None,
           outcome |-> FALSE, wakes |-> {}]

Steps == {"down", "idle", "reaping", "abandoning", "claiming", "launching", "cancelling",
          "projecting", "settling"}

\* What every variable holds.
TypeOK ==
  /\ disk \in Record /\ mem \in [Manager -> Record]
  /\ launch \in {"none", "pending", "spawned", "refused"} /\ late \in BOOLEAN
  /\ notices \in Seq(Wakeful) /\ Len(notices) <= MaxNotices /\ told \subseteq DOMAIN notices
  /\ at \in [Manager -> Steps]
  /\ active \in [Manager -> BOOLEAN] /\ cancelled \in [Manager -> BOOLEAN]
  /\ running \in [Manager -> BOOLEAN]
  /\ pump \in [Console -> {"idle", "scheduled", "turn"}] /\ batch \in [Console -> SUBSET Window]
  /\ busy \in [Console -> BOOLEAN] /\ front \in [Console -> BOOLEAN]
  /\ blocked \in [Console -> BOOLEAN] /\ stalled \in [Console -> BOOLEAN]
  /\ cancels \in 0..MaxCancels /\ resumes \in 0..MaxResumes /\ reaped \in BOOLEAN /\ crossed \in BOOLEAN

Init ==
  /\ disk = Absent /\ launch = "none" /\ late = FALSE /\ notices = <<>>
  /\ mem = [m \in Manager |-> Absent]
  /\ at = [m \in Manager |-> IF m \in Console THEN "idle" ELSE "down"]
  /\ active = [m \in Manager |-> FALSE] /\ cancelled = [m \in Manager |-> FALSE]
  /\ running = [m \in Manager |-> FALSE]
  /\ pump = [c \in Console |-> "idle"] /\ batch = [c \in Console |-> {}]
  /\ busy = [c \in Console |-> FALSE] /\ front = [c \in Console |-> FALSE]
  /\ blocked = [c \in Console |-> FALSE]
  /\ stalled = [c \in Console |-> FALSE] /\ told = {} /\ cancels = 0 /\ resumes = 0 /\ reaped = FALSE /\ crossed = FALSE

isTerminal(record) == record.life \in Terminal

\* hasFreshLease: a living worker renews it, a dead one's goes stale with time.
hasFreshLease(record) ==
  record.lease # None /\ (active[record.lease] \/ ~late)

-----------------------------------------------------------------------------
(* Wake windows.                                                            *)

Latest(S) == CHOOSE n \in S : \A k \in S : k <= n

Unhandled(windows) == {w \in windows : ~w.handled}

\* coalesceWake: a notice extends the open window of its kind, or opens one.
coalesceWake(windows, kind) ==
  LET open == {w \in Unhandled(windows) : w.kind = kind}
  IN IF kind \notin Wakeful THEN windows
     ELSE IF open = {}
     THEN windows \cup {[kind |-> kind, first |-> now, last |-> now, handled |-> FALSE]}
     ELSE LET w == CHOOSE w \in open : w.first = Latest({v.first : v \in open})
          IN (windows \ {w}) \cup {[w EXCEPT !.last = now]}

\* A merge that keeps the writer's windows alone.
BadMerge(a, b) == b

\* mergeWake: a window is its kind and the notice that opened it; handled wins.
mergeWake(a, b) ==
  LET same(w) == {v \in a \cup b : v.kind = w.kind /\ v.first = w.first}
  IN {[kind |-> w.kind, first |-> w.first, last |-> Latest({v.last : v \in same(w)}),
       handled |-> \E v \in same(w) : v.handled] : w \in a \cup b}

\* append: one event with its wake.  The notices stamps wake notices only.
append(record, event) ==
  [record EXCEPT !.seq = @ + 1, !.wakes = coalesceWake(@, event)]

\* A persist that forgets the process that claimed the run.
BadPersisted(record) == [record EXCEPT !.wakes = mergeWake(disk.wakes, @)]

\* persist: the writer's copy, with the windows and the process that are on disk.
Persisted(record) ==
  [record EXCEPT !.wakes = mergeWake(disk.wakes, @),
                 !.process = IF @ = None THEN disk.process ELSE @]

Store(m, record) == disk' = Persisted(record) /\ crossed' = (crossed \/ mem[m].seq # disk.seq)

\* The bound on notices.
Notice(event) ==
  /\ event \in Wakeful => Len(notices) < MaxNotices
  /\ notices' = IF event \in Wakeful THEN Append(notices, event) ELSE notices

\* notify reaches the pump's subscription: a drain is scheduled unless one is or runs.
Nudge(m) ==
  IF m \in Console /\ pump[m] = "idle"
  THEN pump' = [pump EXCEPT ![m] = "scheduled"] /\ stalled' = [stalled EXCEPT ![m] = FALSE]
  ELSE UNCHANGED <<pump, stalled>>

\* m sets its copy to record, appends event, persists and notifies.
Commit(m, record, event) ==
  /\ Notice(event)
  /\ LET next == append(record, event)
     IN mem' = [mem EXCEPT ![m] = next] /\ Store(m, next)
  /\ Nudge(m) /\ UNCHANGED <<batch, busy, front, blocked>>

Goto(m, step) == at' = [at EXCEPT ![m] = step]

-----------------------------------------------------------------------------
(* A manager reads the record.                                              *)

\* reapStaleRequested, as its own copy tells it.
ReapDue(record) == record.life = "requested" /\ ~hasFreshLease(record) /\ late

\* refresh, of a manager that does not execute the run.
Refresh(m) ==
  /\ at[m] = "idle" /\ ~active[m] /\ mem[m].life # "absent" /\ mem[m] # disk
  /\ mem' = [mem EXCEPT ![m] = disk]
  /\ IF mem[m].seq # disk.seq THEN Nudge(m) ELSE UNCHANGED <<pump, stalled>>
  /\ Goto(m, IF ReapDue(disk) THEN "reaping" ELSE "idle")
  /\ UNCHANGED <<file, launch, late, notices, active, cancelled, running, batch, busy, front, blocked, hist>>

\* The claim deadline passes with the record unread.
ReapOnRead(m) ==
  /\ at[m] = "idle" /\ ~active[m] /\ mem[m] = disk /\ ReapDue(disk)
  /\ Goto(m, "reaping")
  /\ UNCHANGED <<file, launch, late, notices, mem, active, cancelled, running, lane, hist>>

ReapedRecord(record) ==
  [record EXCEPT !.life = "failed", !.lease = None, !.outcome = TRUE, !.seq = @ + 1,
     !.wakes = @ \cup {[kind |-> "failed", first |-> now, last |-> now, handled |-> FALSE]}]

\* The reconciliation, decided by the reader's own copy.
BadReap(m) ==
  /\ at[m] = "reaping" /\ Notice("failed")
  /\ disk' = ReapedRecord(mem[m]) /\ mem' = [mem EXCEPT ![m] = disk']
  /\ reaped' = TRUE /\ Nudge(m)
  /\ cancelled' = [cancelled EXCEPT ![m] = TRUE] /\ Goto(m, "idle")
  /\ UNCHANGED <<crossed, launch, late, active, running, batch, busy, front, blocked, told, cancels, resumes>>

\* The reconciliation, decided under the lock from what is on disk then.
Reap(m) ==
  /\ at[m] = "reaping"
  /\ IF ReapDue(disk)
     THEN /\ Notice("failed")
          /\ disk' = ReapedRecord(disk) /\ mem' = [mem EXCEPT ![m] = disk']
          /\ reaped' = TRUE /\ Nudge(m)
     ELSE UNCHANGED <<file, mem, notices, pump, stalled, reaped>>
  /\ cancelled' = [cancelled EXCEPT ![m] = TRUE] /\ Goto(m, "idle")
  /\ UNCHANGED <<crossed, launch, late, active, running, batch, busy, front, blocked, told, cancels, resumes>>

\* load, of a process that starts: a run without a living worker is abandoned, unless it
\* waits for its worker or is paused.
Load(m) ==
  /\ at[m] = "down"
  /\ m \in Other => launch = "spawned"
  /\ mem' = [mem EXCEPT ![m] = disk]
  /\ cancelled' = [cancelled EXCEPT ![m] = FALSE]
  /\ Goto(m, CASE ReapDue(disk) -> "reaping"
               [] disk.life \in {"started", "operator_attention"} /\ ~hasFreshLease(disk) -> "abandoning"
               [] OTHER -> "idle")
  /\ Nudge(m)
  /\ UNCHANGED <<file, launch, late, notices, active, running, batch, busy, front, blocked, hist>>

Abandon(m) ==
  /\ at[m] = "abandoning"
  /\ Commit(m, [mem[m] EXCEPT !.life = "failed", !.outcome = TRUE], "failed")
  /\ cancelled' = [cancelled EXCEPT ![m] = TRUE] /\ Goto(m, "idle")
  /\ UNCHANGED <<launch, late, active, running, hist>>

-----------------------------------------------------------------------------
(* The run's life: requested, claimed by a worker, executed.                *)

\* startDetached: the request is durable before a host is launched.
StartDetached(c) ==
  /\ at[c] = "idle" /\ disk.life = "absent" /\ launch = "none"
  /\ Commit(c, [Absent EXCEPT !.life = "requested"], "requested")
  /\ launch' = "pending"
  /\ UNCHANGED <<late, at, active, cancelled, running, hist>>

Spawn == /\ launch = "pending" /\ launch' = "spawned"
         /\ UNCHANGED <<file, late, notices, proc, lane, hist>>

\* failLaunch: the host could not be spawned.
FailLaunch(c) ==
  /\ launch = "pending" /\ at[c] = "idle" /\ mem[c].life # "absent"
  /\ Commit(c, [mem[c] EXCEPT !.life = "failed", !.outcome = TRUE], "failed")
  /\ launch' = "refused"
  /\ UNCHANGED <<late, at, active, cancelled, running, hist>>

\* claim: the worker's copy allows it, and what is on disk under the lock does.
Claim(w) ==
  /\ at[w] = "idle" /\ ~active[w] /\ mem[w].life = "requested" /\ mem[w].lease = None
  /\ w \in Other
  /\ disk.life = "requested" /\ disk.lease = None
  /\ disk' = [disk EXCEPT !.lease = w, !.process = w]
  /\ mem' = [mem EXCEPT ![w] = [@ EXCEPT !.lease = w, !.process = w]]
  /\ active' = [active EXCEPT ![w] = TRUE] /\ Goto(w, "launching")
  /\ UNCHANGED <<crossed, launch, late, notices, cancelled, running, lane, hist>>

Persist(m) == Store(m, mem[m])

Launch(w) ==
  /\ at[w] = "launching" /\ Goto(w, "idle")
  /\ Persist(w)
  /\ UNCHANGED <<launch, late, notices, mem, active, cancelled, running, lane, hist>>

Begin(w) ==
  /\ at[w] = "idle" /\ active[w] /\ ~running[w]
  /\ running' = [running EXCEPT ![w] = TRUE]
  /\ IF cancelled[w]
     THEN Goto(w, "settling") /\ UNCHANGED <<file, notices, mem, lane>>
     ELSE Commit(w, [mem[w] EXCEPT !.life = "started"], "started") /\ UNCHANGED at
  /\ UNCHANGED <<launch, late, active, cancelled, hist>>

Executing(w) == at[w] = "idle" /\ active[w] /\ running[w]

\* onStage.
StageChanged(w) ==
  /\ Executing(w) /\ ~cancelled[w]
  /\ Commit(w, mem[w], "stage_changed")
  /\ UNCHANGED <<launch, late, at, active, cancelled, running, hist>>

Heartbeat(w) ==
  /\ at[w] = "idle" /\ active[w] /\ mem[w].lease # None
  /\ Persist(w)
  /\ UNCHANGED <<launch, late, notices, mem, at, active, cancelled, running, lane, hist>>

Timeout(w) ==
  /\ Executing(w) /\ ~isTerminal(mem[w])
  /\ Commit(w, [mem[w] EXCEPT !.life = "timed_out", !.outcome = TRUE], "timed_out")
  /\ cancelled' = [cancelled EXCEPT ![w] = TRUE]
  /\ UNCHANGED <<launch, late, at, active, running, hist>>

\* A failure that is published before its outcome is assembled.
BadFinish(w) ==
  /\ Executing(w)
  /\ IF cancelled[w]
     THEN UNCHANGED <<file, notices, mem, lane>>
     ELSE \E life \in {"completed", "failed", "paused", "operator_attention"} :
            Commit(w, [mem[w] EXCEPT !.life = life, !.outcome = life = "completed"], life)
  /\ Goto(w, "settling")
  /\ UNCHANGED <<launch, late, active, cancelled, running, hist>>

\* The executor returns or throws.
Finish(w) ==
  /\ Executing(w)
  /\ IF cancelled[w]
     THEN UNCHANGED <<file, notices, mem, lane>>
     ELSE \E life \in {"completed", "failed", "paused", "operator_attention"} :
            Commit(w, [mem[w] EXCEPT !.life = life, !.outcome = life \in Terminal], life)
  /\ Goto(w, "settling")
  /\ UNCHANGED <<launch, late, active, cancelled, running, hist>>

\* finally: the lease is given up.  The worker has nothing more to do.
Settle(w) ==
  /\ at[w] = "settling"
  /\ Store(w, [mem[w] EXCEPT !.lease = None])
  /\ mem' = [mem EXCEPT ![w].lease = None]
  /\ active' = [active EXCEPT ![w] = FALSE] /\ running' = [running EXCEPT ![w] = FALSE]
  /\ Goto(w, "idle")
  /\ UNCHANGED <<launch, late, notices, cancelled, lane, hist>>

-----------------------------------------------------------------------------
(* What a manager that does not execute the run writes: each reads the       *)
(* record, then stores its copy whole.                                      *)

Cancel(m) ==
  /\ at[m] = "idle" /\ ~active[m] /\ cancels < MaxCancels
  /\ mem[m].life # "absent" /\ ~isTerminal(disk) /\ ~ReapDue(disk)
  /\ mem' = [mem EXCEPT ![m] = disk] /\ cancels' = cancels + 1
  /\ IF mem[m].seq # disk.seq THEN Nudge(m) ELSE UNCHANGED <<pump, stalled>>
  /\ Goto(m, "cancelling")
  /\ UNCHANGED <<file, launch, late, notices, active, cancelled, running, batch, busy, front, blocked, told,
                 resumes, reaped>>

WriteCancelled(m) ==
  /\ at[m] = "cancelling" /\ Goto(m, "idle")
  /\ Commit(m, [mem[m] EXCEPT !.life = "cancelled", !.outcome = TRUE], "cancelled")
  /\ cancelled' = [cancelled EXCEPT ![m] = TRUE]
  /\ UNCHANGED <<launch, late, active, running, hist>>

\* A resume in a turn of the console ran the workflow further.
ResumeHere(c) ==
  /\ at[c] = "idle" /\ ~active[c] /\ resumes < MaxResumes
  /\ front[c] \/ pump[c] = "turn"
  /\ mem[c].life # "absent" /\ disk.life \notin {"absent", "requested"}
  /\ mem' = [mem EXCEPT ![c] = disk] /\ resumes' = resumes + 1
  /\ IF mem[c].seq # disk.seq THEN Nudge(c) ELSE UNCHANGED <<pump, stalled>>
  /\ Goto(c, "projecting")
  /\ UNCHANGED <<file, launch, late, notices, active, cancelled, running, batch, busy, front, blocked, told,
                 cancels, reaped>>

\* projectForegroundPause, projectForegroundResult: the whole segment in one write.
Project(c) ==
  /\ at[c] = "projecting" /\ Goto(c, "idle")
  /\ \E life \in {"paused", "completed"} :
       Commit(c, [append(mem[c], "started") EXCEPT !.life = life, !.outcome = life = "completed"],
              life)
  /\ UNCHANGED <<launch, late, active, cancelled, running, hist>>

-----------------------------------------------------------------------------
(* The pump of a console, and its front.                                    *)

\* schedule's microtask: a busy lane or a blocked recovery is left alone.
Defer(c) ==
  /\ at[c] = "idle" /\ pump[c] = "scheduled" /\ (busy[c] \/ blocked[c])
  /\ pump' = [pump EXCEPT ![c] = "idle"]
  /\ UNCHANGED <<file, launch, late, notices, proc, batch, busy, front, blocked, stalled, hist>>

\* drain lists what is pending on disk and begins one turn for all of it; the conversation
\* refuses the turn if a front step is in flight after all.
Drain(c) ==
  /\ at[c] = "idle" /\ pump[c] = "scheduled" /\ ~busy[c] /\ ~blocked[c]
  /\ LET read == IF mem[c].life = "absent" THEN mem[c] ELSE disk
         all  == Unhandled(read.wakes)
         turn == all # {} /\ ~front[c]
     IN /\ ~ReapDue(read)
        /\ mem' = [mem EXCEPT ![c] = read]
        /\ batch' = [batch EXCEPT ![c] = IF turn THEN all ELSE {}]
        /\ pump' = [pump EXCEPT ![c] = IF turn THEN "turn" ELSE "idle"]
        /\ busy' = [busy EXCEPT ![c] = turn]
        /\ stalled' = [stalled EXCEPT ![c] = all # {} /\ ~turn]
  /\ UNCHANGED <<file, launch, late, notices, at, active, cancelled, running, front, blocked, hist>>

Handled(windows, drained) ==
  {IF w \in drained THEN [w EXCEPT !.handled = TRUE] ELSE w : w \in windows}

InWindow(n, w) == w.kind = notices[n] /\ n \in w.first..w.last

\* A settled turn that does not look for what was recorded while it ran.
BadTurnSettles(c) ==
  /\ at[c] = "idle" /\ pump[c] = "turn"
  /\ disk' = [disk EXCEPT !.wakes = Handled(@, batch[c])]
  /\ mem' = [mem EXCEPT ![c] = disk']
  /\ told' = told \cup {n \in DOMAIN notices : \E w \in batch[c] : InWindow(n, w)}
  /\ pump' = [pump EXCEPT ![c] = "idle"]
  /\ batch' = [batch EXCEPT ![c] = {}] /\ busy' = [busy EXCEPT ![c] = FALSE]
  /\ UNCHANGED <<crossed, launch, late, notices, at, active, cancelled, running, front, blocked, stalled,
                 cancels, resumes, reaped>>

\* The turn resolved: exactly the windows it was about are handled, in the copy and on disk;
\* what else is pending then is drained next.
TurnSettles(c) ==
  /\ at[c] = "idle" /\ pump[c] = "turn"
  /\ disk' = [disk EXCEPT !.wakes = Handled(@, batch[c])]
  /\ mem' = [mem EXCEPT ![c] = disk']
  /\ told' = told \cup {n \in DOMAIN notices : \E w \in batch[c] : InWindow(n, w)}
  /\ pump' = [pump EXCEPT ![c] = IF Unhandled(disk'.wakes) \subseteq batch[c] THEN "idle" ELSE "scheduled"]
  /\ batch' = [batch EXCEPT ![c] = {}] /\ busy' = [busy EXCEPT ![c] = FALSE]
  /\ UNCHANGED <<crossed, launch, late, notices, at, active, cancelled, running, front, blocked, stalled, cancels,
                 resumes, reaped>>

\* The turn failed: nothing is handled, and nothing is scheduled.  An interrupted turn leaves
\* a recovery that waits for the operator.
TurnFails(c) ==
  /\ at[c] = "idle" /\ pump[c] = "turn"
  /\ pump' = [pump EXCEPT ![c] = "idle"] /\ batch' = [batch EXCEPT ![c] = {}]
  /\ busy' = [busy EXCEPT ![c] = FALSE] /\ stalled' = [stalled EXCEPT ![c] = TRUE]
  /\ \E interrupted \in BOOLEAN : blocked' = [blocked EXCEPT ![c] = interrupted]
  /\ UNCHANGED <<file, launch, late, notices, proc, front, hist>>

\* The microtask of a scheduled drain runs before the next input does.
FrontBegins(c) ==
  /\ at[c] = "idle" /\ ~front[c] /\ pump[c] = "idle"
  /\ front' = [front EXCEPT ![c] = TRUE] /\ busy' = [busy EXCEPT ![c] = TRUE]
  /\ blocked' = [blocked EXCEPT ![c] = FALSE]
  /\ UNCHANGED <<file, launch, late, notices, proc, pump, batch, stalled, hist>>

FrontSettles(c) ==
  /\ at[c] = "idle" /\ front[c]
  /\ front' = [front EXCEPT ![c] = FALSE] /\ busy' = [busy EXCEPT ![c] = FALSE]
  /\ \E b \in BOOLEAN : blocked' = [blocked EXCEPT ![c] = b]
  /\ Nudge(c)
  /\ UNCHANGED <<file, launch, late, notices, proc, batch, hist>>

\* A front step while another step is in flight is refused, and settles all the same.
FrontRefused(c) ==
  /\ at[c] = "idle" /\ (front[c] \/ pump[c] = "turn")
  /\ busy' = [busy EXCEPT ![c] = FALSE]
  /\ Nudge(c)
  /\ UNCHANGED <<file, launch, late, notices, proc, batch, front, blocked, hist>>

-----------------------------------------------------------------------------

TimePasses == /\ ~late /\ launch = "spawned" /\ late' = TRUE
              /\ UNCHANGED <<file, launch, notices, proc, lane, hist>>

Dies(m) ==
  /\ at[m] # "down" /\ Goto(m, "down")
  /\ mem' = [mem EXCEPT ![m] = Absent]
  /\ active' = [active EXCEPT ![m] = FALSE] /\ running' = [running EXCEPT ![m] = FALSE]
  /\ cancelled' = [cancelled EXCEPT ![m] = FALSE]
  /\ IF m \in Console
     THEN /\ pump' = [pump EXCEPT ![m] = "idle"] /\ batch' = [batch EXCEPT ![m] = {}]
          /\ busy' = [busy EXCEPT ![m] = FALSE] /\ front' = [front EXCEPT ![m] = FALSE]
          /\ UNCHANGED <<blocked, stalled>>
     ELSE UNCHANGED lane
  /\ UNCHANGED <<file, launch, late, notices, hist>>

Manage(m) ==
  \/ Refresh(m) \/ ReapOnRead(m) \/ Reap(m) \/ Load(m) \/ Abandon(m) \/ Cancel(m) \/ WriteCancelled(m)

Work(w) ==
  \/ Claim(w) \/ Launch(w) \/ Begin(w) \/ StageChanged(w) \/ Heartbeat(w) \/ Timeout(w)
  \/ Finish(w) \/ Settle(w)

Converse(c) ==
  \/ StartDetached(c) \/ FailLaunch(c) \/ ResumeHere(c) \/ Project(c) \/ Defer(c) \/ Drain(c) \/ TurnSettles(c)
  \/ TurnFails(c) \/ FrontBegins(c) \/ FrontSettles(c) \/ FrontRefused(c)

Next ==
  \/ \E m \in Manager : Manage(m) \/ Work(m) \/ Dies(m)
  \/ \E c \in Console : Converse(c)
  \/ Spawn \/ TimePasses

Spec == Init /\ [][Next]_vars

\* The event loop of a console runs its callbacks; fs.watch reports a change to it; its turns end.
FairSpec ==
  /\ Spec
  /\ \A c \in Console : /\ WF_vars(Refresh(c)) /\ WF_vars(Reap(c) \/ Abandon(c) \/ WriteCancelled(c) \/ Project(c))
                        /\ WF_vars(Defer(c) \/ Drain(c)) /\ WF_vars(TurnSettles(c) \/ TurnFails(c))
                        /\ WF_vars(FrontSettles(c))

-----------------------------------------------------------------------------
(* Properties.                                                              *)

\* "The record invariant is isTerminal(lifecycle) === (outcome !== undefined)": whoever wrote
\* last, from whatever copy, the record on disk parses, and so does what a reader copies.
RecordIsReadable == isTerminal(disk) = disk.outcome

\* One process executes the run, and the record names it to `runs stop`: an owner's write that
\* races the claim does not erase the link from the run to its pid.
WorkerIsRecorded == \A m \in Manager : active[m] => disk.process = m

\* A run that was reconciled to failed because nobody claimed it is not executed.
ReapedIsNotExecuted == reaped => \A m \in Manager : ~active[m]

Told(n)    == n \in told
Pending(n) == \E w \in Unhandled(disk.wakes) : InWindow(n, w)

\* "A process restart, busy console, or disconnected renderer cannot erase an unhandled wake":
\* every pause and outcome has had its turn, or waits on disk for one.  It takes two consoles
\* to lose one: one settles a turn while the other writes the copy it has of the same window.
OutcomesReachATurn == \A n \in DOMAIN notices : notices[n] # "stage_changed" => Told(n) \/ Pending(n)

\* The same of every notice that initiates a turn.
EveryNoticeReachesATurn == \A n \in DOMAIN notices : Told(n) \/ Pending(n)

\* "State notices must start an orchestrator turn even when no front drives one": while
\* nobody stores a copy that has missed an event, a wake that waits gets its turn, unless the
\* console goes, a turn fails or the conversation waits for its operator.
PendingWakeGetsItsTurn ==
  \A c \in Console :
    (at[c] # "down" /\ mem[c].life # "absent" /\ Unhandled(disk.wakes) # {})
      ~> \/ Unhandled(disk.wakes) = {} \/ at[c] = "down" \/ stalled[c] \/ blocked[c]
         \/ crossed
         \/ at[c] # "idle" /\ Len(notices) = MaxNotices  \* a write that the bound excludes

\* "Repeated cancel is idempotent and reports the already-settled outcome": a cancelled run
\* stays cancelled.
CancelledIsFinal == [][disk.life = "cancelled" => disk'.life = "cancelled"]_vars
=============================================================================
