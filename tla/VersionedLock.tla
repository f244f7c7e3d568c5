--------------------------- MODULE VersionedLock ---------------------------
(***************************************************************************)
(* The advisory lock ProjectStore takes around every durable record         *)
(* (src/project-store/project-store.ts): a lock file published with link(2),*)
(* and next to it a coordination directory that is meant to make creation,  *)
(* stale reclamation and release of that file one protocol.                 *)
(*                                                                         *)
(* Processes share nothing but the file system.  One action is one system  *)
(* call, or a run of calls that no other process can tell apart.  A process *)
(* executes the protocol synchronously, so it is in one frame at a time.    *)
(*                                                                         *)
(* Owner tokens are fresh UUIDs in the code.  They are abstracted to the    *)
(* process that drew them.  A process has at most one lock on the path, so  *)
(* no lock comparison is affected; of coordination directories, one that an *)
(* earlier frame of the same process left and CleanCheck put back counts as *)
(* the present frame's.  Identities have one length, so a second write over *)
(* an owner entry replaces the first.                                       *)
(***************************************************************************)
EXTENDS Naturals, FiniteSets

CONSTANTS
  Proc,          \* processes that use the lock
  Gone,          \* pid recorded by a process that died before the run began
  Retries,       \* length of lockRetryDelaysMs
  MaxCrashes,    \* bound on process deaths
  WriteFaults,   \* whether writing the owner entry may fail (ENOSPC, EIO)
  PlainAcquire,  \* whether acquireLock is used on this path too (sessions only)
  InitialLocks,  \* lock files an earlier run may have left behind
  LoneSurvivor   \* whether one process alone meets such a file

Pids == Proc \cup {Gone}

Locks == [kind : {"none", "empty", "legacy", "versioned"}, pid : Pids]

NoLock == [kind |-> "none", pid |-> Gone]

\* A coordination directory: whether it has an "owner" entry, the identity
\* that entry holds (Gone while it is empty), and the processes that opened
\* the entry and have not written it yet.
Dirs == [present : BOOLEAN, file : BOOLEAN, owner : Pids, fds : SUBSET Proc]

NoDir    == [present |-> FALSE, file |-> FALSE, owner |-> Gone, fds |-> {}]
EmptyDir == [NoDir EXCEPT !.present = TRUE]

ASSUME ProcAssumption    == IsFiniteSet(Proc) /\ Gone \notin Proc
ASSUME RetriesAssumption == Retries \in Nat \ {0} /\ MaxCrashes \in Nat
ASSUME FaultAssumption   ==
  WriteFaults \in BOOLEAN /\ PlainAcquire \in BOOLEAN /\ LoneSurvivor \in BOOLEAN
ASSUME LocksAssumption   ==
  InitialLocks \subseteq {NoLock} \cup
    [kind : {"empty", "legacy", "versioned"}, pid : {Gone}]

VARIABLES
  lock,       \* the lock file at lockPath
  coord,      \* the directory at lockPath.coordination
  pc,         \* where each process is
  task,       \* the operation its coordination frame protects
  result,     \* what that operation returned
  inspected,  \* the stale lock a reclaimer read before entering its frame
  quar,       \* the directory a process renamed away and still examines
  victim,     \* the dead coordination owner a process is about to evict
  graves,     \* dead owners whose evicted directory is still in quarantine
  tries,      \* coordination attempts used, at most Retries
  lockTries,  \* lock attempts used, at most Retries
  dead        \* pids whose process is gone

vars == <<lock, coord, pc, task, result, inspected, quar, victim, graves,
          tries, lockTries, dead>>

files == <<victim, graves>>

PCs == {"idle", "mkdir", "open", "write", "cleanRename", "cleanCheck",
        "renameDead", "removeDead", "renameInert", "checkInert", "op",
        "opRename", "relCheck", "rmOwner", "rmDir", "return", "retry",
        "retryLegacy", "contend", "emptyRename", "held", "dead"}

Tasks   == {"none", "create", "reclaim", "release"}
Results == {"none", "ok", "no", "error"}

TypeOK ==
  /\ lock \in Locks
  /\ coord \in Dirs
  /\ pc \in [Proc -> PCs]
  /\ task \in [Proc -> Tasks]
  /\ result \in [Proc -> Results]
  /\ inspected \in [Proc -> Locks]
  /\ quar \in [Proc -> Dirs]
  /\ victim \in [Proc -> Pids]
  /\ graves \in SUBSET Pids
  /\ tries \in [Proc -> 0..Retries]
  /\ lockTries \in [Proc -> 0..Retries]
  /\ dead \in SUBSET Pids

Alive == IF LoneSurvivor /\ lock # NoLock THEN {{p} : p \in Proc} ELSE {Proc}

Init ==
  /\ lock \in InitialLocks
  /\ coord \in {NoDir, EmptyDir}
  /\ \E alive \in Alive : /\ pc = [p \in Proc |-> IF p \in alive THEN "idle" ELSE "dead"]
                          /\ dead = {Gone} \cup (Proc \ alive)
  /\ task = [p \in Proc |-> "none"]
  /\ result = [p \in Proc |-> "none"]
  /\ inspected = [p \in Proc |-> NoLock]
  /\ quar = [p \in Proc |-> NoDir]
  /\ victim = [p \in Proc |-> Gone]
  /\ graves = {}
  /\ tries = [p \in Proc |-> 0]
  /\ lockTries = [p \in Proc |-> 0]

-----------------------------------------------------------------------------
(* Control helpers.                                                         *)

Goto(p, l) == pc' = [pc EXCEPT ![p] = l]

Bumped(n) == IF n < Retries THEN n + 1 ELSE n

\* Enter withVersionedLockCoordination for operation t.
EnterFrame(p, t) ==
  /\ Goto(p, "mkdir")
  /\ task' = [task EXCEPT ![p] = t]
  /\ tries' = [tries EXCEPT ![p] = 0]
  /\ result' = [result EXCEPT ![p] = "none"]

\* A frame is over: its locals are forgotten.
LeaveFrame(p, l) ==
  /\ Goto(p, l)
  /\ task' = [task EXCEPT ![p] = "none"]
  /\ result' = [result EXCEPT ![p] = "none"]
  /\ tries' = [tries EXCEPT ![p] = 0]

\* An exception leaves the store operation; a release that throws leaves its
\* lock file behind.
Throw(p) == LeaveFrame(p, "idle")

\* The coordination loop goes round: `continue`, or a delay after contention.
LoopFrame(p) ==
  /\ Goto(p, "mkdir")
  /\ tries' = [tries EXCEPT ![p] = Bumped(@)]
  /\ UNCHANGED <<task, result>>

ContendFrame(p) ==
  \/ tries[p] < Retries /\ LoopFrame(p)
  \/ tries[p] = Retries /\ Throw(p)

-----------------------------------------------------------------------------
(* Entering the coordination directory.                                     *)

\* mkdirSync succeeds.
Mkdir(p) ==
  /\ pc[p] = "mkdir"
  /\ ~coord.present
  /\ coord' = EmptyDir
  /\ Goto(p, "open")
  /\ UNCHANGED <<lock, task, result, inspected, quar, tries, lockTries, dead, files>>

\* mkdirSync answers EEXIST; the owner entry and the shape are read.
Inspect(p) ==
  /\ pc[p] = "mkdir"
  /\ coord.present
  /\ \/ /\ coord.owner \in dead \ {Gone}
        /\ victim' = [victim EXCEPT ![p] = coord.owner]
        /\ Goto(p, "renameDead") /\ UNCHANGED <<task, result, tries>>
     \/ /\ coord.owner = Gone
        /\ Goto(p, "renameInert") /\ UNCHANGED <<task, result, tries, victim>>
     \/ coord.owner \notin dead /\ ContendFrame(p) /\ UNCHANGED victim
  /\ UNCHANGED <<lock, coord, inspected, quar, graves, lockTries, dead>>

\* The owner named a dead process on two reads: whatever is on the path now
\* is renamed to a name made of the dead owner's token.  Another reclaimer's
\* directory, not yet removed from that name, refuses the rename (ENOTEMPTY).
RenameDead(p) ==
  /\ pc[p] = "renameDead"
  /\ \/ ~coord.present /\ LoopFrame(p) /\ UNCHANGED <<coord, graves>>
     \/ coord.present /\ victim[p] \in graves /\ Throw(p) /\ UNCHANGED <<coord, graves>>
     \/ /\ coord.present /\ victim[p] \notin graves
        /\ coord' = NoDir
        /\ graves' = IF coord.file THEN graves \cup {victim[p]} ELSE graves
        /\ Goto(p, "removeDead") /\ UNCHANGED <<task, result, tries>>
  /\ victim' = IF pc'[p] = "removeDead" THEN victim ELSE [victim EXCEPT ![p] = Gone]
  /\ UNCHANGED <<lock, inspected, quar, lockTries, dead>>

RemoveDead(p) ==
  /\ pc[p] = "removeDead"
  /\ graves' = graves \ {victim[p]}
  /\ victim' = [victim EXCEPT ![p] = Gone]
  /\ LoopFrame(p)
  /\ UNCHANGED <<lock, coord, inspected, quar, lockTries, dead>>

\* reclaimInertCoordination: rename what is on the path now ...
RenameInert(p) ==
  /\ pc[p] = "renameInert"
  /\ \/ /\ coord.present
        /\ quar' = [quar EXCEPT ![p] = coord]
        /\ coord' = NoDir
        /\ Goto(p, "checkInert")
        /\ UNCHANGED <<task, result, tries>>
     \/ ~coord.present /\ ContendFrame(p) /\ UNCHANGED <<coord, quar>>
  /\ UNCHANGED <<lock, inspected, lockTries, dead, files>>

\* ... then look again: an owner published meanwhile is kept as evidence.
CheckInert(p) ==
  /\ pc[p] = "checkInert"
  /\ \/ quar[p].owner = Gone /\ LoopFrame(p)
     \/ quar[p].owner # Gone /\ ContendFrame(p)
  /\ quar' = [quar EXCEPT ![p] = NoDir]
  /\ UNCHANGED <<lock, coord, inspected, lockTries, dead, files>>

\* writeFileSync opens (and truncates) "owner" in the directory now on the path.
OpenOwner(p) ==
  /\ pc[p] = "open"
  /\ coord.present
  /\ coord' = [coord EXCEPT !.file = TRUE, !.owner = Gone, !.fds = @ \cup {p}]
  /\ Goto(p, "write")
  /\ UNCHANGED <<lock, task, result, inspected, quar, tries, lockTries, dead, files>>

\* The bytes land in the entry that was opened, wherever its directory is now.
Written(p, d) ==
  IF p \in d.fds THEN [d EXCEPT !.owner = p, !.fds = @ \ {p}] ELSE d

WriteOwner(p) ==
  /\ pc[p] = "write"
  /\ coord' = Written(p, coord)
  /\ quar' = [q \in Proc |-> Written(p, quar[q])]
  /\ Goto(p, "op")
  /\ UNCHANGED <<lock, task, result, inspected, tries, lockTries, dead, files>>

Closed(p, d) == [d EXCEPT !.fds = @ \ {p}]

\* Publication fails: the directory is gone (ENOENT), or the disk refuses.
OwnerWriteFails(p) ==
  /\ \/ pc[p] = "open" /\ ~coord.present
     \/ pc[p] \in {"open", "write"} /\ WriteFaults
  /\ coord' = Closed(p, coord)
  /\ quar' = [q \in Proc |-> Closed(p, quar[q])]
  /\ Goto(p, "cleanRename")
  /\ UNCHANGED <<lock, task, result, inspected, tries, lockTries, dead, files>>

\* reclaimOwnCoordinationOnly: quarantine the path, then decide whose it was.
CleanRename(p) ==
  /\ pc[p] = "cleanRename"
  /\ \/ /\ coord.present
        /\ quar' = [quar EXCEPT ![p] = coord]
        /\ coord' = NoDir
        /\ Goto(p, "cleanCheck")
        /\ UNCHANGED <<task, result, tries>>
     \/ ~coord.present /\ Throw(p) /\ UNCHANGED <<coord, quar>>
  /\ UNCHANGED <<lock, inspected, lockTries, dead, files>>

\* Removed when it is this frame's; otherwise put back, unless a non-empty
\* directory has taken the path (rename(2) replaces an empty one).
CleanCheck(p) ==
  /\ pc[p] = "cleanCheck"
  /\ coord' = IF quar[p].owner \notin {Gone, p} /\ ~coord.file THEN quar[p] ELSE coord
  /\ quar' = [quar EXCEPT ![p] = NoDir]
  /\ Throw(p)
  /\ UNCHANGED <<lock, inspected, lockTries, dead, files>>

-----------------------------------------------------------------------------
(* The operation a frame protects.                                          *)

Finish(p, r) ==
  /\ result' = [result EXCEPT ![p] = r]
  /\ Goto(p, "relCheck")

\* Faulty variants, named "Bad...", are what the mutation runs put in place of
\* the definition that follows them: here an O_TRUNC open for the exclusive link.
BadLinkLock(p) ==
  /\ pc[p] = "op" /\ task[p] = "create"
  /\ lock' = [kind |-> "versioned", pid |-> p] /\ Finish(p, "ok")
  /\ UNCHANGED <<coord, task, inspected, quar, tries, lockTries, dead, files>>

\* createLock: link(2) of a fully written private file.
LinkLock(p) ==
  /\ pc[p] = "op" /\ task[p] = "create"
  /\ \/ lock = NoLock /\ lock' = [kind |-> "versioned", pid |-> p] /\ Finish(p, "ok")
     \/ lock # NoLock /\ Finish(p, "no") /\ UNCHANGED lock
  /\ UNCHANGED <<coord, task, inspected, quar, tries, lockTries, dead, files>>

\* The lock file a frame is about to move: the inspected one when reclaiming,
\* its own when releasing.
Expected(p, l) ==
  IF task[p] = "reclaim" THEN l = inspected[p]
  ELSE l.kind \in {"versioned", "legacy"} /\ l.pid = p

\* The identity check of reclaimStaleLock, reclaimLegacyLock and release.
CheckLock(p) ==
  /\ pc[p] = "op" /\ task[p] \in {"reclaim", "release"}
  /\ \/ Expected(p, lock) /\ Goto(p, "opRename") /\ UNCHANGED result
     \/ ~Expected(p, lock) /\ Finish(p, "no")
  /\ UNCHANGED <<lock, coord, task, inspected, quar, tries, lockTries, dead, files>>

\* renameSync moves whatever is on lockPath now.  Only the versioned
\* reclamation looks at what it moved.
RenameLock(p) ==
  /\ pc[p] = "opRename"
  /\ lock' = NoLock
  /\ \/ lock = NoLock /\ Finish(p, "no")
     \/ /\ lock # NoLock
        /\ IF task[p] = "reclaim" /\ inspected[p].kind = "versioned" /\ lock # inspected[p]
           THEN Finish(p, "error") ELSE Finish(p, "ok")
  /\ UNCHANGED <<coord, task, inspected, quar, tries, lockTries, dead, files>>

\* ownsPublishedCoordination on the fixed path ...
CheckOwnCoordination(p) ==
  /\ pc[p] = "relCheck"
  /\ IF coord.owner = p THEN Goto(p, "rmOwner") ELSE Goto(p, "return")
  /\ UNCHANGED <<lock, coord, task, result, inspected, quar, tries, lockTries, dead, files>>

\* ... then rmSync of the fixed path: the entry first, the directory second,
\* with whatever stands on the path by then.
RemoveOwner(p) ==
  /\ pc[p] = "rmOwner"
  /\ coord' = IF coord.present THEN EmptyDir ELSE coord
  /\ Goto(p, "rmDir")
  /\ UNCHANGED <<lock, task, result, inspected, quar, tries, lockTries, dead, files>>

RemoveDir(p) ==
  /\ pc[p] = "rmDir"
  /\ coord' = NoDir
  /\ Goto(p, "return")
  /\ UNCHANGED <<lock, task, result, inspected, quar, tries, lockTries, dead, files>>

\* The frame returns to acquireVersionedLock or to the release closure.
Return(p) ==
  /\ pc[p] = "return"
  /\ \/ /\ task[p] = "create"
        /\ LeaveFrame(p, IF result[p] = "ok" THEN "held" ELSE "retry")
        /\ UNCHANGED lockTries
     \/ /\ task[p] = "reclaim" /\ result[p] = "ok"
        /\ EnterFrame(p, "create")
        /\ lockTries' = [lockTries EXCEPT ![p] = Bumped(@)]
     \/ /\ task[p] = "reclaim" /\ result[p] = "no"
        /\ LeaveFrame(p, IF inspected[p].kind = "versioned" THEN "retryLegacy" ELSE "contend")
        /\ UNCHANGED lockTries
     \/ /\ task[p] = "release" \/ result[p] = "error"
        /\ Throw(p) /\ UNCHANGED lockTries
  /\ inspected' = [inspected EXCEPT ![p] = NoLock]
  /\ UNCHANGED <<lock, coord, quar, dead, files>>

-----------------------------------------------------------------------------
(* acquireVersionedLock, acquireLock and release.                           *)

Acquire(p) ==
  /\ pc[p] = "idle"
  /\ EnterFrame(p, "create")
  /\ lockTries' = [lockTries EXCEPT ![p] = 0]
  /\ UNCHANGED <<lock, coord, inspected, quar, dead, files>>

\* acquireLock (deleteSession, cleanup): one link without a frame, and an
\* identity without a start-time witness.
AcquirePlain(p) ==
  /\ PlainAcquire
  /\ pc[p] = "idle"
  /\ lock = NoLock
  /\ lock' = [kind |-> "legacy", pid |-> p]
  /\ Goto(p, "held")
  /\ UNCHANGED <<coord, task, result, inspected, quar, tries, lockTries, dead, files>>

\* Only the old lock shapes are ever found stale.
BadRetryLegacyOnly(p) ==
  /\ pc[p] \in {"retry", "retryLegacy"}
  /\ IF lock.kind = "legacy" /\ lock.pid \in dead
     THEN EnterFrame(p, "reclaim") /\ inspected' = [inspected EXCEPT ![p] = lock]
     ELSE Goto(p, "contend") /\ UNCHANGED <<task, result, tries, inspected>>
  /\ UNCHANGED <<lock, coord, quar, lockTries, dead, files>>

\* EEXIST: a lock whose holder is dead is reclaimed in a frame of its own.
Retry(p) ==
  /\ pc[p] \in {"retry", "retryLegacy"}
  /\ LET stale == /\ lock.pid \in dead
                  /\ \/ lock.kind = "legacy"
                     \/ lock.kind = "versioned" /\ pc[p] = "retry"
     IN \/ /\ stale
           /\ EnterFrame(p, "reclaim")
           /\ inspected' = [inspected EXCEPT ![p] = lock]
        \/ ~stale /\ Goto(p, "contend") /\ UNCHANGED <<task, result, tries, inspected>>
  /\ UNCHANGED <<lock, coord, quar, lockTries, dead, files>>

\* Wait for the next delay; after the last one only the empty legacy file may
\* still be reclaimed.
Contend(p) ==
  /\ pc[p] = "contend"
  /\ \/ /\ lockTries[p] < Retries
        /\ lockTries' = [lockTries EXCEPT ![p] = @ + 1]
        /\ EnterFrame(p, "create")
     \/ /\ lockTries[p] = Retries /\ lock.kind = "empty"
        /\ Goto(p, "emptyRename") /\ UNCHANGED <<task, result, tries, lockTries>>
     \/ /\ lockTries[p] = Retries /\ lock.kind # "empty"
        /\ Throw(p) /\ UNCHANGED lockTries
  /\ UNCHANGED <<lock, coord, inspected, quar, dead, files>>

\* reclaimEmptyLegacyLock: rename without a frame; a file that is not empty
\* after all stays in quarantine.
RenameEmpty(p) ==
  /\ pc[p] = "emptyRename"
  /\ lock' = NoLock
  /\ IF lock.kind = "empty" THEN EnterFrame(p, "create") ELSE Throw(p)
  /\ UNCHANGED <<coord, inspected, quar, lockTries, dead, files>>

Release(p) ==
  /\ pc[p] = "held"
  /\ EnterFrame(p, "release")
  /\ UNCHANGED <<lock, coord, inspected, quar, lockTries, dead, files>>

\* A process dies anywhere; its files stay, its open descriptors do not.
Crash(p) ==
  /\ pc[p] # "dead"
  /\ Cardinality(dead \ {Gone}) < MaxCrashes
  /\ dead' = dead \cup {p}
  /\ LeaveFrame(p, "dead")
  /\ coord' = Closed(p, coord)
  /\ quar' = [q \in Proc |-> IF q = p THEN NoDir ELSE Closed(p, quar[q])]
  /\ inspected' = [inspected EXCEPT ![p] = NoLock]
  /\ victim' = [victim EXCEPT ![p] = Gone]
  /\ lockTries' = [lockTries EXCEPT ![p] = 0]
  /\ UNCHANGED <<lock, graves>>

Step(p) ==
  \/ Mkdir(p) \/ Inspect(p) \/ RenameDead(p) \/ RemoveDead(p) \/ RenameInert(p) \/ CheckInert(p)
  \/ OpenOwner(p) \/ WriteOwner(p) \/ OwnerWriteFails(p)
  \/ CleanRename(p) \/ CleanCheck(p)
  \/ LinkLock(p) \/ CheckLock(p) \/ RenameLock(p)
  \/ CheckOwnCoordination(p) \/ RemoveOwner(p) \/ RemoveDir(p) \/ Return(p)
  \/ Acquire(p) \/ Retry(p) \/ Contend(p) \/ RenameEmpty(p) \/ Release(p)

Next == \E p \in Proc : Step(p) \/ AcquirePlain(p) \/ Crash(p)

Spec == Init /\ [][Next]_vars

-----------------------------------------------------------------------------
(* What the lock is for.                                                    *)

\* A process may act on the record: its link is made and its release has not
\* been called.
Active(p) == pc[p] = "held" \/ (task[p] = "create" /\ result[p] = "ok")

\* A coordination frame is open (withVersionedLockCoordination has not returned).
InFrame(p) == task[p] # "none"

\* No two processes act on one durable record at once: the point of
\* acquireVersionedLock and acquireLock.  A lock that is moved away from under
\* its holder, at any of the four places that rename lockPath, breaks it.
MutualExclusion == \A p, q \in Proc : Active(p) /\ Active(q) => p = q

\* Whoever acts on the record owns the file on lockPath, so a release removes
\* its own lock and a contender reads the right identity.
HolderOwnsPath == \A p \in Proc : Active(p) => lock # NoLock /\ lock.pid = p

\* The file protocol implements the lock its callers rely on.
Owner == IF lock = NoLock THEN Gone ELSE lock.pid

Advisory == INSTANCE AdvisoryLock
  WITH Client <- Proc, None <- Gone, owner <- Owner,
       active <- {p \in Proc : Active(p)}, gone <- dead \ {Gone}

ImplementsAdvisoryLock == Advisory!LockSpec

\* reclaimStaleLock says of its own check that a contender cannot replace the
\* path between the identity check and the rename.
NothingReplacesTheInspectedLock ==
  \A p \in Proc :
    pc[p] = "opRename" /\ task[p] = "reclaim" /\ inspected[p].kind = "versioned"
      => lock \in {inspected[p], NoLock}

-----------------------------------------------------------------------------
(* Fairness: a live process goes on taking its steps, and callers come back *)
(* (every resume acquires again).  The disk does not fail for ever.         *)

DiskRecovers ==
  <>[][\A p \in Proc : pc[p] = "write" \/ (pc[p] = "open" /\ coord.present)
                        => pc'[p] # "cleanRename"]_vars

FairSpec == Spec /\ (\A p \in Proc : WF_vars(Step(p))) /\ DiskRecovers

\* What no contender may take away and its owner does not come back for: a
\* coordination directory that names a live process whose frame is over (its owner
\* took it for another's and refused), or a live process's own lock, left behind by
\* an acquire that was refused after it had linked it.
Orphaned ==
  \/ coord.owner \in Proc \ dead /\ ~InFrame(coord.owner)
  \/ \E p \in Proc \ dead : pc[p] = "idle" /\ lock # NoLock /\ lock.pid = p

\* A dead owner must not strand every future resume: whatever an earlier release of
\* the program or a dead process left, on the path, in the coordination directory or
\* beside it, the one process that is left gets the lock again and again, unless
\* something is orphaned.
ResumeIsNeverStranded ==
  \A p \in Proc : Proc \ {p} \subseteq dead ~> pc[p] = "held" \/ Orphaned \/ p \in dead
=============================================================================
