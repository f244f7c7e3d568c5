# Verification of ad-coder

TLA+ specifications of the parts of ad-coder that keep durable state and let
several processes, calls or callbacks meet over it; small instances that TLC
checks; and theorems that TLAPS proves for every instance.  Every definition
follows the TypeScript under `src/src`; `PROJECT.json` maps definitions to lines.

## 1. Inventory

ad-coder drives coding agents through a reviewed pipeline.  It has no daemon: a
command line, a machine API, a session manager and detached background runs are
separate processes that meet in the private files of the target directory.  A
process may be killed at any time, and the next one resumes from those files.

| Component (source) | State it keeps | Operations | Interacts with | Hard behaviour | What makes it correct |
|---|---|---|---|---|---|
| Versioned lock (`project-store/project-store.ts`) | lock file, coordination directory, quarantine names | acquireVersionedLock, acquireLock, reclamation (stale, legacy, empty), release | everything durable | every system call interleaves with other processes; deaths anywhere | one process acts on a record at a time; a dead owner strands nobody |
| Versioned state (same file) | JSON records with a version | writeVersionedJson, mutateVersionedJson, readVersionedJson | callers retry or fail on version_conflict | check-then-write, rename then failed sync, failing release | no acknowledged update is lost; a refusal wrote nothing |
| Session journal (`filesystem-store.ts`) | JSONL transactions numbered by the runtime, `OrderedAppendState` | appendTransaction, flush, repair, quarantine | pi-agent-core's asynchronous callbacks | callbacks out of order, a failed write in a run of pending ones, a death or a failed write in a repair | contiguous, append-only, settles |
| Sessions (`project-store.ts`) | session directory, record, lock, pending deletion | create, resume, open-or-create, clear ambiguous, delete, cleanup | lock, state, journal | deletion against resume | a resumed session is owned by one process; none is half deleted |
| Provider admission (`provider-admission.ts`) | permits, cooldown, queue per scope, snapshot | reserve, wrap, pump, limit, restore | runner, conversation | the synchronous pump between asynchronous calls, clocks, restart | bounded permits, no probe in a cooldown, fair queue |
| Run coordinator (`project-operations/run-coordinator.ts`) | run checkpoint | run, step, prepareStep, commitTransition, resumes, resolveDecision, closeout | workflow session, versioned state, backlog, documents | deaths between effects and saves, two coordinators, operator acts | effects once, one researcher call per act, nothing open at closeout |
| Workflow graph (`orchestration/session.ts`) | WorkflowState, carried in the checkpoint | stage steps, offers, applyTransition, pause, resume, raising the round cap | coordinator, runner | state that pauses and resumes carry over, a cap raised after it was spent, approvals that later rounds outdate | no coder turn without clearance, no verdict on red code, no approval of other work, bounded rounds |
| Standalone role runs (`cli.ts`, `cli/runs-stop.ts`) | checkpoint, session, lease | start, resume, settle, complete, verdict, interrupt | sessions, run stop, versioned state | two resumes and a live process, deaths in closeout, a failing reopening | one process operates the role; a settled role is not run again; an ended attempt is recorded |
| Background runs, wakes (`background-runs.ts`, `wake.ts`) | one record a run, copied by every process; wake windows in it; the pump | startDetached, claim, launch, heartbeat, deadline, refresh, reap, cancel, coalesce, merge, deliver | processes, the console's turns | blind writes of whole copies, a late claim, nudges during a turn | the record parses, its worker is named, a run given up is not executed, outcomes reach a turn |
| Wait service (`wait-service.ts`, `wait-adapters.ts`) | waits with a witness of the operation in flight | create, reconcile, cancel | run records, clock | an answer that never came, late answers against cancellation and deadline | nothing is dispatched twice while its outcome is unknown; one end; a deadline ends the wait |
| Control plane, live retry (`control-plane.ts`) | records of roots and children, decisions, timers and a queue in the process | start, resume, cancel, decide, publish; schedule, drain | pipeline, operator, retry coordinator | copies read before an await and saved after it, two series over one root, retries over restarts | one execution a run, cancellations hold, specs become children once, retries stay bounded and are served |
| Run stop (`run-stop.ts`, `stop-run.ts`) | the process a record names | find, verify, signal, confirm | standalone and background runs | pid reuse, a stop against an end | no stop of another process |
| Session manager (`session-manager/`) | leases, bindings, message order | attach, detach, send, transfer | conversation, sessions | lease expiry, reconnect | one writer, FIFO |
| Limits, economics (`stage-limits.ts`, `session-limits.ts`, `cost-anomaly.ts`) | counters | charge, check, raise | runner, coordinator | boundary values, counts across a resume | a ceiling is not passed unnoticed |
| Tool activity (`observability/tool-activity.ts`) | bounded channel | publish, drain, heartbeat | command line | drops under load | start and end pair up, losses are counted |
| Credential store, user profile | records, locks of their own | read, write, refresh | authentication | two processes | no lost update |
| Backlog, publishing, stamps, updater, import | items, intents, stamps, releases | claim, publish, stamp, replace, import | GitHub, git, file system | death between intent and effect | each effect once, or detectable |
| Configuration, registry, prompts, skills, gates, web, Telegram, command line, evals | none, or caches | parse, resolve, render, call out | all | little | not planned |

`PROJECT.json` lists every part with its status, and the hazards of the modelled
parts at the line where each bites.

## 2. Plan

Order: what everything else stands on first.  Done:

1. `VersionedLock` implements `AdvisoryLock`: checked and proved.
2. `VersionedState` over `AdvisoryLock` implements `VersionedRegister`: checked and proved.
3. `OrderedJournal`: checked and proved.
4. `ProviderAdmission`: checked, safety proved.
5. `RunCoordinator` implements `RunProgress`: checked and proved, with its other safety.
6. `WorkflowGraph`, whose transitions `RunCoordinator` abstracts, implements `RunProgress`
   too: checked and proved, with its other safety.
7. `StandaloneRun` over the lease and the versioned checkpoint, with run stop: checked and proved.
8. `BackgroundRuns` with the wake pump: checked, safety proved (that outcomes reach a turn
   for one console, which is where it holds).
9. `ControlPlane` with the live retry coordinator, and `WaitService`: checked, safety proved.

Left: the remaining operations of sessions (deletion, cleanup); the session manager and
the conversation's turn queue; the orchestrator's tools; tool activity, limits and cost
anomalies; the credential and profile locks; backlog claims, publishing and the updater;
the index of roots in the control plane.  Worth proving next: that each transition of
`WorkflowGraph` is among those `RunCoordinator` lets a stage offer, where the two now
meet in `RunProgress` only.

## 3. Modules

| Module | What it is |
|---|---|
| `AdvisoryLock` | What users of the lock rely on: one owner; the lock leaves its path only when the owner released it or is gone. |
| `VersionedLock` | The file protocol of the lock, one action per system call that another process can see. |
| `VersionedRegister` | What readers of a versioned record rely on: whole updates, one version each. |
| `VersionedState` | Compare-and-swap and mutate over `AdvisoryLock`. |
| `OrderedJournal` | Appends, flush, repair and quarantine of one journal. |
| `ProviderAdmission` | The controller of one process with its scopes. |
| `RunProgress` | What a host that watches a run relies on: which stage follows which, what opens a round, and that a paused run stays where it is. |
| `RunCoordinator` | Several coordinators of one run over a compare-and-swapped checkpoint. |
| `WorkflowGraph` | The stages of one run, its pauses, resumes and raised caps. |
| `StandaloneRun` | Launchers of one standalone role run, and who stops it. |
| `BackgroundRuns` | The copies of one background run's record in every process, and the wake pump. |
| `ControlPlane` | A root run, its children, the calls that work on them, and the retry coordinator. |
| `WaitService` | One durable wait and the processes that reconcile it. |
| `MC*` | Small values for the constants of the module each extends. |
| `*Proofs` | Theorems about the modules each extends: `ProjectStoreProofs` about `VersionedState` and `OrderedJournal`, `RunAndWaitProofs` about `StandaloneRun` and `WaitService`, each other about the module it is named for. |

**VersionedLock.**  `lock` is the file at lockPath, `coord` the directory
`lockPath.coordination`; `quar`, `victim` and `graves` are the renamed directories.
`pc` and `task` say where a process is in `withLockCoordination` and which operation
the frame protects.  A contender makes the directory, opens and writes its owner
entry, does its operation, checks that the directory is still its own, removes it
and returns; each is an action, and so is the failure of the owner write and the
cleanup after it.  Owner tokens are UUIDs in the code and processes here.

**VersionedState.**  `file` is a record with a version and the set of updates that
went into it.  A write begins from a content read earlier, takes the lock, compares
versions (or reads again, for mutate), renames the new file into place, syncs the
directory, and releases.  Preparing and syncing may fail; release may fail, which the
code tells its caller as version_conflict although the write took place.

**OrderedJournal.**  A transaction is the interval of sequence numbers it carries;
`disk` is the file's lines, `next` and `pending` are `OrderedAppendState`, `status` is
what each caller has been told.  Opening finds the journal in order, out of order
(repair: truncate, then write, which may fail) or ambiguous (the operator sets it aside).

**ProviderAdmission.**  One action for each stretch of a method between two saves of
the snapshot; `running` is the rest of the method.  `Tick` moves the clock between
methods.  A restart takes up the last saved snapshot: queued requests come back as
placeholders without a token, permits in flight as `Uncertain`.  A save may throw, and the
method with it, on what it did in memory: a request is then `failed`, or `leaked` with a
permit that nobody returns.

**RunCoordinator.**  `checkpoint` is the file; `persisted` and `fresh` are each
coordinator's view of it and whether its version is current: a save is `Written` from
the version on disk, and from an older one the instance is gone (`Stop`).  `pc` is the
point in `run` at which a coordinator stands.  The stages are those of the workflow graph
as far as the coordinator tells them apart (security and gates belong to code, in
`RunProgress` too: `HostStage`).  `applied` counts effects in the world (backlog items,
documents, contract text), `dispatched` the researcher calls since an operator last asked
for one.  The cap on rounds is the configuration of the host, which may differ in every
instance, so each use takes any of the configured caps; drivers may rework past it.

**WorkflowGraph.**  `state` is WorkflowState, `offers` the transitions the last stage
offers, `pause` the coordinator's pause.  A stage is one action, from its dispatch to the
save of its offers, since nothing is durable in between.  Every model turn has a number;
`tree`, `gated` and `reviewed` say which coder turn left the tree, the last gates and the
last verdict were about.  A configuration says who drives the run and which stages it has.

**StandaloneRun.**  `checkpoint` is `runs/standalone-<id>.json`, `lease` the session lock,
`pc` the point in `runRoleStandalone` at which a process stands, `fresh` whether its view
is current.  A process that dies leaves a pid, which another may get: its identity is then
`Gone`.  A resume may take a live process for an orphan (`Adopt`, `Inspect`), a save may be
refused, or land, and throw (`SaveThrows`), and what lies outside the try may end the process
(`Escapes`, `FinalizeFails`).  `overwritten` and `unrecorded` remember what the properties
except.  `stopper`, `request` and `aborted` are `runs stop` and what it does to the process.

**BackgroundRuns.**  `disk` is the record and `mem[m]` the copy of each process; a write
stores the copy (only wake windows merge, and the worker's identity is kept), and each
access to the file is a step.  `notices` are the things worth a turn, `told` those a turn was about.
The worker is a process of `Other`, the pump runs in each `Console`.

**ControlPlane.**  `disk` holds the records, `frame` each call of resume or requestDecision:
where it stands, its copies of the run and, in a series, of the root, and whether they
are current.  A save is `Saved`, or it throws: on a conflict, a busy lock, or with the record
in place (its directory's sync fails, say); resume passes that on (`SaveOrThrow`) or catches
it (`SaveOrCatch`).  `misreported` names the runs whose settlement is on disk though its save
threw.  A child's resume inside runChildren is the same frame with
`series` set.  `timers` and `ready` are LiveRetryCoordinator, whose
cancel takes the first entry of the run out of the queue; its slots are calls.

**WaitService.**  `record` is the wait, `call` each reconcile between its three accesses to
it: the read (`Begin`), the dispatch that writes the witness, the record of the answer.
`unsettled` holds the operations whose answer is not on record.

## 4. What the runs check

| Run | Instance | Shows |
|---|---|---|
| `lock` | 2 processes, 3 retries, one death anywhere, failing owner writes, acquireLock too; one process alone over an empty, a legacy or a published leftover | the protocol implements `AdvisoryLock`; a process that is left gets the lock again and again, unless something is `Orphaned` |
| `lock_replaced_under_reclaim` (violation) | 2 processes over the published lock of one that is gone | finding 1 |
| `versioned_state` | 3 processes, 3 updates, one death, symmetry | no lost update, conflict means unwritten, implements `VersionedRegister` |
| `journal` | 4 transactions over sequences 1..5 and an overlapping one, any of 7 initial files, 2 failed writes, 2 deaths | contiguous, committed survives, appends settle |
| `admission` | 4 requests of all classes, 2 scopes, 1 permit, queues of 2, one limit, one save that throws, one restart | accounting, no permit idles beside a parked request, no probe in a cooldown, order, aging, and every parked request served while nobody is limited and no save fails |
| `run_shared` | 2 coordinators, a contract proposal and a note, 2 rounds, deaths anywhere, symmetry | researcher once per act, effects once, closeout leaves nothing open, the run on disk implements `RunProgress` |
| `workflow` | every part configured, or some left out; caps 1 and 2; 2 attempts, 2 failures | clearance, gates before verdicts, approval of the work as it is, bounded rounds, current carry-over, implements `RunProgress`; a driven run settles or pauses |
| `standalone` | 2 launchers with reused pids, live ones taken for orphans, saves and reads that throw, `runs stop`, symmetry, a view | one process operates and is named; a settled role is not run again and an ended attempt is recorded, but for the ways section 5 lists |
| `background_runs` | a console and a worker, 2 notices, one cancel, one foreground resume, deaths anywhere | the record parses, its worker is named, a run given up is not executed, outcomes are told or wait on disk; what waits gets its turn |
| `background_lost` (violation) | the same, about every notice that initiates a turn | finding 2 |
| `control_plane` | a root and 2 children, a front and a retry slot, 1 automatic retry, a queue of 1, 4 executions, 2 acts of fronts, one death; any save may throw | one execution a run until a settlement lands and throws, cancellations hold and never complete, specs become children once, retries within the record, a due retry leaves the queue |
| `wait_service` | 2 processes, interval 2, clock to 3, 3 operations, one death, either source, with or without a deadline | unknown outcomes are named and not repeated, a deadline ends the wait |

Deadlock is off where the instance comes to rest: every update made, every transaction
appended, the run over, the clock or the acts at their bound.  What every variable holds
is `TypeOK` of each module; it is proved where section 6 says so, and no run repeats it.

**Why the bounds are enough.** The lock's hazards are in two processes that are inside the
coordination directory at once, and three retries let each lose and come back. The journal's
need a gap, a transaction two numbers long, an overlap, and a second failure after the
first. Admission needs a request of every class, one more than the permit and the queue
hold, a second scope whose release pumps the first, and a limit, a failing save or a restart
in between. The coordinator needs two contenders for the checkpoint, a proposal that an
operator decides and one that is done at once, and a round to go back to; that one
contract's review does not settle another's is not in that instance, and is covered by the
theorems alone. The workflow needs a second round, a second failure of one stage, and a cap
that a later resume raises. A standalone run needs a process that is stopped or dies and
another that takes its id or its pid; its states are counted without what a process
remembers and will not read again (`StandaloneView`), which is all that runs without end
would add. A background run needs the writer that races each other writer, and a second
notice that extends the window of the first. The control plane needs a front that resumes
while the retry coordinator does, a split in two, an execution to repeat after a limit (with
the root and both children, four), and a cancel between any two saves. A wait needs two
processes, and a clock that passes the interval and the deadline. `MaxTime` is long enough
for a cooldown to expire and for a request to age past `MaxWait`.

**Fairness.**  `VersionedLock!FairSpec`: a live process goes on (its calls are
synchronous system calls) and callers come back; the disk does not fail for ever
(`DiskRecovers`).  `OrderedJournal!FairSpec`: an open, a rewrite and a flush that began go on, and a
transaction the runtime numbered is handed over once; nothing is assumed about
retrying failed ones.  `ProviderAdmission!FairSpec`: methods run to their end, a
granted call is issued and ends (the runner bounds its calls), time passes; that
another request arrives is not assumed.  `WorkflowGraph!FairSpec`: a stage ends and the
driver of an automatic run applies what it is offered; operators need not come.
`BackgroundRuns!FairSpec`: a console goes on refreshing, its pump drains, and turns and
foreground work end, as its timers and event loop see to; nothing is assumed about the
worker.  `ControlPlane!FairSpec`: a call goes on (executions are bounded by the runner)
and drain runs when a slot is free; fronts need not act.  `WaitService!FairSpec`: time
passes and hosts reconcile "at their bounded cadence".  `RunCoordinator` and
`StandaloneRun` state no liveness: operators need not come back.

## 5. Findings

1. **The inspected lock can be replaced** (`lock_replaced_under_reclaim`).  A
   coordination directory without an owner entry is inert and may be renamed away
   between its creator's mkdir and owner write, so two processes can believe they own
   it.  One of them can then replace the stale lock between the other's identity check
   and rename, which the comment in `reclaimStaleLock` (:1068-1069) excludes.  In the
   run both contenders found the lock of a process that is gone: one reclaims it and
   publishes its own, and the other then moves that live lock to quarantine, throws
   "stale lock ownership changed" and leaves the path free, so mutual exclusion is lost.
   `reclaimLegacyLock` (:1091-1105) meets the same race with a lock of the old form, and
   unlinks what it moved: its doc comment claims that "The byte comparison prevents
   deleting a lock a contender installed after the initial inspection".
2. **A wake notice can be handled before any turn was about it** (`background_lost`).
   The worker extends its own copy of a wake window that a console has meanwhile handled;
   the merge of the two lets "handled" win (background-runs.ts:1409), so the new notice
   is lost.  With one console pauses and outcomes are safe from it (`OutcomesReachATurn`).
   With two consoles a pause can be lost in the same way, since `pendingWakes` has no
   condition on the session and every console of the directory drains the record.  One
   resumes the run and has read it; the other settles the turn about the open pause window
   and marks it handled; the resumed run pauses again and the first extends its own copy of
   that window; the merge lets "handled" win, and no turn is about that pause.  (`Console =
   {c1, c2}` and `MaxCancels = 0` in Background.cfg make TLC find it.)

Further behaviour of the code, without a run.

Project store:

- A repair that is interrupted after its truncation (filesystem-store.ts:440) loses the
  lines it had not written again, though its comment (:93-98) promises to discard
  nothing: by a death, or by a write that fails, on a full disk say, while the process
  goes on (:125).  The next opening finds a shorter journal in order and accepts it.
- A refused removal can leave a coordination directory that names a live process
  whose frame is over; nobody removes it while that process lives (`Orphaned`;
  project-store.ts:839, :872).  `ResumeIsNeverStranded` excepts it.
- `reclaimEmptyLegacyLock` renames what is on the path after it inspected an empty
  file, a freshly published lock included (project-store.ts:1034).
- Two survivors can for ever quarantine each other's half-made directory, so the
  liveness of the lock is about one that is left.

Provider admission:

- No timer pumps the queue when a cooldown expires (provider-admission.ts:497, :626): without
  another request or a release parked requests stay, against docs/contracts/provider-admission.md.
- With two permits a request granted before a limit is called after it
  (:551, :699): `NoProbeDuringCooldown` is checked with one permit.
- A later limit with a shorter hint shortens an open cooldown (:644).
- Permits that were out at a death stay counted after the restart (:443), and one slot
  records which of several is in flight (:620); with one permit the scope never grants again.
- A snapshot save that throws (:295-301) is handled nowhere.  After the grant in `reserve`
  (:503-504), or in `openCooldown` before `settleToken` (:645, :714-715), the permit stays
  counted and nobody holds it; after the append (:512-513) the entry stays in the queue
  and may be granted a permit later that nobody returns; in `releaseToken` (:622) the queue
  is not pumped until the next method.  The caller gets the store's error, in place of an
  answer the provider gave too (:706).  `PermitsAccounted` bounds the loss to one request for
  a save that threw; `NoPermitIdles` excepts the time up to the next pump.

Runs and stages:

- Two processes that found a document's lock stale can both remove it, one of them the lock
  the other has just made (documentation.ts:164), and then both append one proposal.  The
  model applies an effect in one go (`Applied`), so `EffectsExactlyOnce` does not see that.
- A contract's rework can be lost: with several accepted contracts to review, the
  approval of one overwrites the code round the other asked for (run-coordinator.ts:1389);
  run() then ends in unresolved_review until that contract is decided again.
- After a contract that was approved is decided again and the process dies before its
  new review, run() reports awaiting_decision with no decision pending.
- Two coordinators of one run can both be inside the same stage; the checkpoint
  lets only one save its outcome.
- After two pauses of one stage the first attempt's usage is in no entry
  (session.ts:813, :850), while docs/cost-economics.md says that stage usage must remain
  cumulative; the pauses missing_plan and review_not_run drop an attempt's metrics, and
  the reviewer's retry overwrites its first attempt's.
- An operator who stops a run early after a rework settles it on the verdict before that
  rework (session.ts:1896); the comment above says that an early stop does not approve.
- A raised round cap is saved and not consulted by a later resume.

Standalone role runs (`SettledIsNotReplayed` excepts the first three, once they happened;
`EndedAttemptIsRecorded` the attempts of the fourth and fifth):

- A live process passes for an orphan when its command line spells the target directory
  in another way than the resume does, a relative --target-dir say (cli.ts:833-841,
  run-stop.ts:530-551).  Its running record is set to failed (:1081-1107); if it then settles
  and gives its lease up before that save, the resume publishes its own view of the run and
  runs the role again.  A starting or settling one is taken over without a save.
- A resume may write its refusal over the completion another process recorded (:899), and an
  interrupted process its pause over what a resume recorded since (:1394-1407).
- A completion whose save lands and throws (the sync of the directory, say) is inside
  the try: the catch writes failed over it (:1428), without its settledOperation, and a
  resume runs the role again.
- The read of the session after a closeout is outside the try, after running was published
  (:1237-1241): when it fails, the process ends and the record says running, for which the
  comment above the catch's last save (:1416-1418) calls an earlier version wrong.
- A save that throws ends the process unrecorded where it is the catch's own (:1367, :1394,
  :1428), outside the try (:889, :899, :1217, of a start or a verdict), or when the limit that
  ended the role brought no usage (:1360-1365).  The next resume finds an orphan.
- After a valid verdict was acknowledged, an invalid one takes it back in memory: a limit or
  an interrupt is then recorded as such, and only the next resume ends with the verdict.

Background runs:

- A cancel is overwritten by the worker's next write if the worker has not noticed it.
- The eviction of old windows (maxWakeEntriesPerRun) is undone by the next merge.
- A dead worker's run is noticed at the next load only, and operator_attention becomes
  failed there.
- After crossed writes two notices have one sequence number, and the second nudge is
  suppressed (`crossed`); its window still waits on disk.

Control plane and waits:

- A process that dies with a turn in flight, or whose catch meets a conflict, leaves
  providerTurnInFlight set, and no resume gets past it (control-plane.ts:883).  So does a
  launch that is on disk though its save threw: the error goes to the caller, or, if it was
  reported as a conflict, the record says that somebody executes (:1040-1050); nobody does.
- A settlement that lands and throws (:1167) sends the call into the catch, which reads the
  run again, does not compare the lease (:1174-1176), and writes failed with
  providerTurnInFlight false (:1221-1237): over a run that has completed, or over the execution
  another call has begun since, whose settlement then writes over the failure.
  `OneExecutionPerRun` excepts the runs this happened to.  The lease stays on a failed record.
- A comment has "Zero disables automatic retry" (:220); the code takes a ceiling of zero, the
  default, as none (:1188), and the retries are as many as the provider's limits.  The model
  follows the code, and `RetriesAreCounted` bounds the attempts where there is a ceiling.
- With session limits configured, an execution saves the root's limits, so the copy that
  the series of its parent holds is stale and its next save throws: the root stays running.
- Two resumes of a root work through its children side by side, and a child record
  whose root save failed belongs to nobody; ROADMAP.md:1091 has commands serialize in a tree.
- A resume of a root goes on past a child that paused or failed, and completes the root.
- A resume until publication of a root with children left executes the root again, and
  a decomposition accepted then drops the specs that had not begun.
- In manual mode an accepted decomposition leaves no children to run; the next resume
  executes the root again.
- requestDecision has no condition on the status, so it takes a run that is over back to
  queued.  A cancel while the resolver answers ends as failed.
- publish removes the breakpoint of a run that waits for publication, so a resume
  executes it again instead of completing it.
- A wait's interval and deadline are not looked at again at the dispatch, so two processes
  can dispatch closer together than the interval; an answer after the deadline counts if
  nobody expired the wait first.
- An uncertain wait without a deadline stays pending until it is cancelled; the recovery
  it names (inspect, retry, replace) has no code.

## 6. Proofs

Checked by TLAPS with no assumption but those named.

| Theorem | Assumes | Argument |
|---|---|---|
| `VersionedLockProofs!TypeCorrect` | the module's ASSUMEs | `TypeOK` is inductive; one lemma per way an action moves a frame |
| `...!Ownership`, `Exclusion` | no two live processes meet the lock of one that is gone (`Lonely`) | `IInv`: whoever is past linking and before releasing owns the file on the path, and who is about to rename a lock it did not publish is `Alone`.  The coordination directory does not occur in it: exclusion rests on link(2) |
| `...!Implementation` | one process where a lock was left behind, two where any may die (`FewSurvive`, which implies `Lonely`: `FewAreAlone`) | refinement mapping `Owner`, `Active`; each step is `Take`, `CallRelease`, `Leave` or a stutter |
| `ProjectStoreProofs!NoUpdateIsLost`, `ConflictIsHarmless`, `VersionsCount`, `Implementation` | the module's ASSUMEs | `LockInv` (only the owner is between check and release), `BaseInv` (equal versions are equal records), `UpdateInv` (an update is one process's and is answered after it is in), `ConflictInv` (who was refused has not written) |
| `...!Contiguity`, `Growth` | `Initially` | `Numbering` (next follows the last line) and `Sound` (what an opening accepts has no gap) |
| `...!Survival` | `Initially` | in addition `Kept`: only a journal found out of order is repaired, and none of its lines was acknowledged, since what this code writes, or leaves of a repair, is in order |
| `ProviderAdmissionProofs!TypeCorrect`, `Accounting` | finitely many requests | `SavedOK` (what a restart takes up fits the limits), `Parked` (an entry is about one request of its scope, queued or failed), `Running` (what the rest of a method is about), `Balanced` and `HarmCounted`, the halves of `PermitsAccounted`: a save that throws harms at most one request (`OneMoreHarmed`) |
| `...!ParkedRequestsAreQueued`, `PermitsAreUsed`, `NoArrivalJumpsTheQueue` | finitely many requests | in addition `TurnsKept` (an arrival that may be granted meets an empty queue), which holds as `pump` leaves nobody behind where a permit is free: of parked requests one is always next (`SomebodyIsNext`) |
| `...!AgedComeFirst` | in addition `PriorityClasses[1] = "interactive"` (ADMISSION_PRIORITY_CLASSES, provider-admission.ts:51, :78, which no host configures) | the same invariant; an aged request counts as interactive, which comes first, so only an entry as old is granted before it (`AgeCounts`) |
| `...!CooldownIsRespected` | in addition `MaxConcurrent = 1`, the default (:75); with two permits it is false (section 5) | in addition `GrantsAreOpen`: a request that was granted holds the only permit, so no call can report a limit before it is issued |
| `WorkflowGraphProofs!TypeCorrect`, `Clearance`, `GreenVerdicts`, `Approval`, `Bounded`, `CarryOver` | the module's ASSUMEs | `Shape` (which phases, offers and pauses occur together), `Carried` (what a stage takes over is its own), `Cleared` and `GatedOnly` (what is offered leads to the coder, or to a review, only with the clearance, or with green gates on this tree), `Reviewed` (an approval ends what nobody chooses otherwise), `Rounds` (one blocking verdict leaves the run going, a second ends it) |
| `...!Implementation` | the module's ASSUMEs | `Graph`: every transition offered goes forward in its round, opens the coder's next round, or ends the run; each action is then an `Advance`, `Pause`, `Resume`, `Reopen` or a stutter |
| `RunAndWaitProofs!TypeCorrect`, `OneOperator`, `NoReplay`, `EndIsRecorded`, `TerminalVerdict` | the module's ASSUMEs | `Owned` (who drives has the lease and is named), `VerdictSeen` (a view that misses a verdict is stale), `Concluded` (when an attempt is over, and no save or read escaped, the checkpoint has what a resume needs), `Followed` (until something is written over it that is not the writer's own, `overwritten`, the checkpoint says how far its process has come), `Views` (what a fresh view tells a resume).  The saves are summed up once (`WriterIs`: which record, and whether it is disputed), as each of them may also throw |
| `...!WaitTypes`, `UnknownIsNamed`, `EndsStay` | the module's ASSUMEs | the witness is written with the dispatch and removed with the answer of that operation only, so both are inductive with the types; whatever ends a wait looks at its lifecycle under the lock |
| `BackgroundRunsProofs!TypeCorrect`, `RecordParses`, `WorkerIsNamed`, `NoLateClaim`, `OneWorker` | the module's ASSUMEs | `Past` (windows are of recorded notices), `Readable` (every copy parses), `Working`, `Leased`, `Recorded` (every copy names the claimant or nobody), `Reaped`, `Requested`; every step is summed up as a write or a commit of one copy |
| `...!OutcomesAreTold` | one console (`OneConsole`; finding 2 says why) | in addition `Windows`: what a copy holds is on disk, and handled there if the copy says so (`Held`), and a console knows what was handled (`Sees`), so the merge handles nothing that it extends; `Course`: other processes open windows in an order (stages while a run goes on, its failure only afterwards) in which they extend none that a console may have handled for a pause or an outcome |
| `RunCoordinatorProofs!TypeCorrect`, `ResearchOnce`, `StageLeft`, `ClosedRunIsSettled` | the module's ASSUMEs | `Good` (what every checkpoint and every view of one has), `At` (what a coordinator knows of its view at each point of run), `Views` (a current version has the content on disk), `Research` (the call was made at most once, and then it is on disk); a save is inductive because only a current view can be written, every other step because views do not change |
| `...!EffectsOnce`, `PausesHold` | the module's ASSUMEs | in addition `EInv`: what the checkpoint says is done is in effect or was answered by an operator (`Effects`), what a coordinator at each point knows of that (`Holds`), only a workflow is paused and nobody works past the loop on a paused view (`Quiet`, `Holds`) |
| `...!Implementation` | the module's ASSUMEs | in addition `Where`: a view that left its workflow is done or at a review, a step that waits to be applied offers what follows its stage, and decisions are taken of coded work.  Only a current view is saved, so its step is one of the run on disk |
| `ControlPlaneProofs!Invariant`, `TypeCorrect`, `ExecutionsAreExclusive`, `RetriesStayCounted`, `CancellationIsKept`, `SpecsAreSpentOnce` | the module's ASSUMEs | every step is one of four effects: a call goes on, a call saves, a front saves, calls end.  `CopiesAreCurrent` (a copy nobody saved over is the record), `TurnIsHeld` (who executes has the lease and no save of another takes it, but for the misreported runs, which only grow: `Remembers`), `RetryInv` (who waits for a retry waits once and is counted), `SpecsInv` (children and specs left are within what was accepted), `PendingInv` (every open decision was asked for, and while a run has a lease its turn may still ask for one) |

`Initially` says that the journals found on disk are sequences of transactions, and
that one whose numbers increase has no gap: an older runtime wrote them all, in
whatever order.  `VersionedLock` and `VersionedState` meet in `AdvisoryLock`: the first
implements it, the second is built on it.  `RunCoordinator` and `WorkflowGraph` meet in
`RunProgress`, which both implement.

`HolderOwnsPath` (`Ownership`), `VersionCountsUpdates`, `JournalOnlyGrows` (`Growth`),
`ParkedIsQueued`, `PausedUntilResumed` (`PausesHold`), `WorkflowHasAStage` (`StageLeft`),
`VerdictIsTerminal` and `EndIsFinal` (`EndsStay`) are proved for every instance; no run
repeats them.

Only model-checked: liveness under fairness, which the prover does not reach
(`ResumeIsNeverStranded`, `PendingWakeGetsItsTurn`, what `ControlPlane` and `WaitService`
promise to happen in the end, and the rest).  Neither checked nor proved because it is false: the lock where two
live processes meet a dead one's lock (finding 1), and that outcomes reach a turn with
more than one console (finding 2).  Induction over data and RECURSIVE operators are also
out of the prover's reach; the modules have none.

## 7. Not modelled

File modes and path confinement; torn records; the encoding of any record; text of
prompts, messages and reports; what providers, git, GitHub and pi-agent-core do
beyond how the code uses them.  In `VersionedState`, writes without an expected
version.  In `OrderedJournal`, the record size limit.  In `ProviderAdmission`, two
processes that write one snapshot file, the recognition of limit errors, and cancel
and resolveUncertain, which nobody can call.  In `RunCoordinator`, the decision and
byte limits, how the lock beside a document is taken, the binding of legacy checkpoints to a task, resolveDecision at other
times than after run() reported awaiting_decision, and a stage's edits of the target.
In `WorkflowGraph`, the content of plans, verdicts and prompts, and two drivers at once.  In
`StandaloneRun`, profiles, prompts and the deletion of sessions; in `BackgroundRuns`, two
notices in one millisecond, the bound on retained windows, and the stage notices of a foreground
resume (background-runs.ts:644-656, :685-697).  In `ControlPlane`, the index
of roots and the limits on it, decompositions deeper than the default of one, how usage
reaches a limit, content bindings, scopes, and a budget that cannot be estimated (the
defaults always can).  In `WaitService`, bounds on events, evidence and bytes, which two
events do not reach.
Components with status not_modelled in `PROJECT.json` have their reason there.
