------------------------ MODULE VersionedLockProofs ------------------------
(* Proofs about VersionedLock, for every number of processes and retries.   *)
EXTENDS VersionedLock, FiniteSetTheorems, TLAPS

USE DEF PCs, Tasks, Results, files

\* The values the actions assign outright.
LEMMA Values ==
  /\ Gone \in Pids /\ Proc \subseteq Pids
  /\ NoLock \in Locks /\ InitialLocks \subseteq Locks
  /\ \A p \in Proc : /\ [kind |-> "versioned", pid |-> p] \in Locks
                     /\ [kind |-> "legacy", pid |-> p] \in Locks
  /\ NoDir \in Dirs /\ EmptyDir \in Dirs
<1>1. Gone \in Pids /\ Proc \subseteq Pids
  BY DEF Pids
<1>2. NoLock \in Locks
  BY <1>1 DEF Locks, NoLock
<1>3. InitialLocks \subseteq Locks
  <2>1. [kind : {"empty", "legacy", "versioned"}, pid : {Gone}] \subseteq Locks
    BY <1>1 DEF Locks
  <2>2. QED
    BY <2>1, <1>2, LocksAssumption
<1>4. \A p \in Proc : /\ [kind |-> "versioned", pid |-> p] \in Locks
                      /\ [kind |-> "legacy", pid |-> p] \in Locks
  BY <1>1 DEF Locks
<1>5. NoDir \in Dirs /\ EmptyDir \in Dirs
  BY <1>1 DEF Dirs, NoDir, EmptyDir
<1>6. QED
  BY <1>1, <1>2, <1>3, <1>4, <1>5

LEMMA AliveFacts ==
  ASSUME Init
  PROVE  pc \in [Proc -> PCs] /\ dead \in SUBSET Pids
<1>1. PICK alive \in Alive : /\ pc = [p \in Proc |-> IF p \in alive THEN "idle" ELSE "dead"]
                             /\ dead = {Gone} \cup (Proc \ alive)
  BY DEF Init
<1>2. QED
  BY <1>1 DEF Pids

LEMMA Closing ==
  ASSUME NEW p, NEW d \in Dirs
  PROVE  Closed(p, d) \in Dirs
BY DEF Closed, Dirs

LEMMA Writing ==
  ASSUME NEW p \in Proc, NEW d \in Dirs
  PROVE  Written(p, d) \in Dirs
BY DEF Written, Dirs, Pids

\* What entering, leaving or repeating a frame assigns keeps its type.
FrameTypeOK ==
  /\ pc \in [Proc -> PCs]
  /\ task \in [Proc -> Tasks]
  /\ result \in [Proc -> Results]
  /\ tries \in [Proc -> 0..Retries]

LEMMA EnterTypes ==
  ASSUME TypeOK, NEW p \in Proc, NEW t \in Tasks, EnterFrame(p, t)
  PROVE  FrameTypeOK'
BY RetriesAssumption DEF TypeOK, FrameTypeOK, EnterFrame, Goto

LEMMA LeaveTypes ==
  ASSUME TypeOK, NEW p \in Proc, NEW l \in PCs, LeaveFrame(p, l)
  PROVE  FrameTypeOK'
BY RetriesAssumption DEF TypeOK, FrameTypeOK, LeaveFrame, Goto

LEMMA ThrowTypes ==
  ASSUME TypeOK, NEW p \in Proc, Throw(p)
  PROVE  FrameTypeOK'
BY LeaveTypes DEF Throw

LEMMA LoopTypes ==
  ASSUME TypeOK, NEW p \in Proc, LoopFrame(p)
  PROVE  FrameTypeOK'
<1>1. Bumped(tries[p]) \in 0..Retries
  BY RetriesAssumption DEF TypeOK, Bumped
<1>2. QED
  BY <1>1 DEF TypeOK, FrameTypeOK, LoopFrame, Goto

LEMMA ContendTypes ==
  ASSUME TypeOK, NEW p \in Proc, ContendFrame(p)
  PROVE  FrameTypeOK'
BY LoopTypes, ThrowTypes DEF ContendFrame

LEMMA TypeStep == TypeOK /\ [Next]_vars => TypeOK'
<1> SUFFICES ASSUME TypeOK, [Next]_vars PROVE TypeOK'
  OBVIOUS
<1>1. CASE UNCHANGED vars
  BY <1>1 DEF vars, TypeOK
<1>2. ASSUME NEW p \in Proc, Mkdir(p) PROVE TypeOK'
  BY <1>2, Values DEF TypeOK, Mkdir, Goto
<1>3. ASSUME NEW p \in Proc, Inspect(p) PROVE TypeOK'
  BY <1>3, Values, ContendTypes DEF TypeOK, FrameTypeOK, Inspect, Goto
<1>4. ASSUME NEW p \in Proc, RenameDead(p) PROVE TypeOK'
  BY <1>4, Values, LoopTypes, ThrowTypes DEF TypeOK, FrameTypeOK, RenameDead, Goto
<1>5. ASSUME NEW p \in Proc, RemoveDead(p) PROVE TypeOK'
  BY <1>5, Values, LoopTypes DEF TypeOK, FrameTypeOK, RemoveDead
<1>6. ASSUME NEW p \in Proc, RenameInert(p) PROVE TypeOK'
  BY <1>6, Values, ContendTypes DEF TypeOK, FrameTypeOK, RenameInert, Goto
<1>7. ASSUME NEW p \in Proc, CheckInert(p) PROVE TypeOK'
  BY <1>7, Values, LoopTypes, ContendTypes DEF TypeOK, FrameTypeOK, CheckInert
<1>8. ASSUME NEW p \in Proc, OpenOwner(p) PROVE TypeOK'
  <2>1. coord' \in Dirs
    BY <1>8, Values DEF TypeOK, OpenOwner, Dirs
  <2>2. QED
    BY <1>8, <2>1, Values DEF TypeOK, OpenOwner, Goto
<1>9. ASSUME NEW p \in Proc, WriteOwner(p) PROVE TypeOK'
  BY <1>9, Values, Writing DEF TypeOK, WriteOwner, Goto
<1>10. ASSUME NEW p \in Proc, OwnerWriteFails(p) PROVE TypeOK'
  BY <1>10, Values, Closing DEF TypeOK, OwnerWriteFails, Goto
<1>11. ASSUME NEW p \in Proc, CleanRename(p) PROVE TypeOK'
  BY <1>11, Values, ThrowTypes DEF TypeOK, FrameTypeOK, CleanRename, Goto
<1>12. ASSUME NEW p \in Proc, CleanCheck(p) PROVE TypeOK'
  BY <1>12, Values, ThrowTypes DEF TypeOK, FrameTypeOK, CleanCheck
<1>13. ASSUME NEW p \in Proc, LinkLock(p) PROVE TypeOK'
  BY <1>13, Values DEF TypeOK, LinkLock, Finish, Goto
<1>14. ASSUME NEW p \in Proc, CheckLock(p) PROVE TypeOK'
  BY <1>14, Values DEF TypeOK, CheckLock, Finish, Goto
<1>15. ASSUME NEW p \in Proc, RenameLock(p) PROVE TypeOK'
  BY <1>15, Values DEF TypeOK, RenameLock, Finish, Goto
<1>16. ASSUME NEW p \in Proc, CheckOwnCoordination(p) PROVE TypeOK'
  BY <1>16, Values DEF TypeOK, CheckOwnCoordination, Goto
<1>17. ASSUME NEW p \in Proc, RemoveOwner(p) \/ RemoveDir(p) PROVE TypeOK'
  BY <1>17, Values DEF TypeOK, RemoveOwner, RemoveDir, Goto
<1>18. ASSUME NEW p \in Proc, Return(p) PROVE TypeOK'
  BY <1>18, Values, EnterTypes, LeaveTypes, ThrowTypes, RetriesAssumption DEF TypeOK, FrameTypeOK, Return, Bumped
<1>19. ASSUME NEW p \in Proc, Acquire(p) PROVE TypeOK'
  BY <1>19, Values, EnterTypes, RetriesAssumption DEF TypeOK, FrameTypeOK, Acquire
<1>20. ASSUME NEW p \in Proc, AcquirePlain(p) PROVE TypeOK'
  BY <1>20, Values DEF TypeOK, AcquirePlain, Goto
<1>21. ASSUME NEW p \in Proc, Retry(p) PROVE TypeOK'
  BY <1>21, Values, EnterTypes DEF TypeOK, FrameTypeOK, Retry, Goto
<1>22. ASSUME NEW p \in Proc, Contend(p) PROVE TypeOK'
  BY <1>22, Values, EnterTypes, ThrowTypes, RetriesAssumption DEF TypeOK, FrameTypeOK, Contend, Goto
<1>23. ASSUME NEW p \in Proc, RenameEmpty(p) PROVE TypeOK'
  BY <1>23, Values, EnterTypes, ThrowTypes DEF TypeOK, FrameTypeOK, RenameEmpty
<1>24. ASSUME NEW p \in Proc, Release(p) PROVE TypeOK'
  BY <1>24, Values, EnterTypes DEF TypeOK, FrameTypeOK, Release
<1>25. ASSUME NEW p \in Proc, Crash(p) PROVE TypeOK'
  BY <1>25, Values, LeaveTypes, Closing, RetriesAssumption DEF TypeOK, FrameTypeOK, Crash
<1>26. QED
  BY <1>1, <1>2, <1>3, <1>4, <1>5, <1>6, <1>7, <1>8, <1>9, <1>10, <1>11, <1>12,
     <1>13, <1>14, <1>15, <1>16, <1>17, <1>18, <1>19, <1>20, <1>21, <1>22,
     <1>23, <1>24, <1>25 DEF Next, Step

\* Every state is well typed, whatever crashes, write faults and leftovers a
\* run of acquireVersionedLock, acquireLock and their releases meets.
THEOREM TypeCorrect == Spec => []TypeOK
<1>1. Init => TypeOK
  BY Values, RetriesAssumption, AliveFacts DEF Init, TypeOK
<1>2. QED
  BY <1>1, TypeStep, PTL DEF Spec

-----------------------------------------------------------------------------
(* The lock excludes as long as no two live processes meet the lock of one  *)
(* that is gone, whatever happens to the coordination directory: link(2)    *)
(* publishes at most one lock, and nobody but its owner finds a reason to   *)
(* move it.  (Where two of them may meet it, NothingReplacesTheInspectedLock *)
(* fails.)                                                                  *)

Alone == \A p, q \in Proc \ dead : p = q

\* There is, or may be, a lock whose holder is gone.
Abandoned == dead # {Gone} \/ (lock # NoLock /\ lock.pid = Gone)

Lonely == Abandoned => Alone

\* Instances where that is so: one process alone meets the leftovers of an
\* earlier run, and deaths leave one.
FewSurvive ==
  /\ LoneSurvivor \/ InitialLocks = {NoLock}
  /\ MaxCrashes = 0 \/ \A p, q, r \in Proc : p = q \/ q = r \/ p = r

\* The lock file and the dead change at few places.
LEMMA LockMoves ==
  ASSUME NEW p \in Proc, Step(p) \/ AcquirePlain(p)
  PROVE  /\ dead' = dead
         /\ \/ lock' \in {lock, NoLock}
            \/ lock = NoLock /\ lock' = [kind |-> "versioned", pid |-> p]
            \/ lock = NoLock /\ lock' = [kind |-> "legacy", pid |-> p]
BY DEF Step, AcquirePlain, Mkdir, Inspect, RenameDead, RemoveDead, RenameInert, CheckInert,
   OpenOwner, WriteOwner, OwnerWriteFails, CleanRename, CleanCheck, LinkLock, CheckLock,
   RenameLock, CheckOwnCoordination, RemoveOwner, RemoveDir, Return, Acquire, Retry, Contend,
   RenameEmpty, Release

LEMMA FewAreAlone ==
  ASSUME FewSurvive PROVE Spec => []Lonely
<1>1. Init => Lonely /\ TypeOK
  <2> SUFFICES ASSUME Init PROVE Lonely
    BY Values, RetriesAssumption, AliveFacts DEF Init, TypeOK
  <2>1. PICK alive \in Alive : dead = {Gone} \cup (Proc \ alive)
    BY DEF Init
  <2>2. alive = Proc \/ \E p \in Proc : alive = {p}
    BY DEF Alive
  <2>3. CASE \E p \in Proc : alive = {p}
    BY <2>1, <2>3 DEF Lonely, Alone
  <2>4. CASE alive = Proc /\ ~ \E p \in Proc : alive = {p}
    <3>1. dead = {Gone}
      BY <2>1, <2>4
    <3>2. lock = NoLock
      BY <2>4 DEF Alive, Init, FewSurvive
    <3> QED BY <3>1, <3>2 DEF Lonely, Abandoned
  <2> QED BY <2>2, <2>3, <2>4
<1>2. TypeOK /\ Lonely /\ [Next]_vars => Lonely'
  <2> SUFFICES ASSUME TypeOK, Lonely, [Next]_vars PROVE Lonely'
    OBVIOUS
  <2>1. CASE UNCHANGED vars
    BY <2>1 DEF vars, Lonely, Abandoned, Alone
  <2>2. ASSUME NEW p \in Proc, Step(p) \/ AcquirePlain(p) PROVE Lonely'
    BY <2>2, LockMoves, ProcAssumption DEF Lonely, Abandoned, Alone, NoLock
  <2>3. ASSUME NEW p \in Proc, Crash(p) PROVE Lonely'
    <3>1. dead' = dead \cup {p} /\ MaxCrashes # 0
      <4>1. dead \ {Gone} \subseteq Proc
        BY DEF TypeOK, Pids
      <4>2. IsFiniteSet(dead \ {Gone})
        BY <4>1, ProcAssumption, FS_Subset
      <4>3. Cardinality(dead \ {Gone}) \in Nat
        BY <4>2, FS_CardinalityType
      <4> QED BY <2>3, <4>3 DEF Crash
    <3>2. ASSUME NEW q \in Proc \ dead', NEW r \in Proc \ dead' PROVE q = r
      BY <3>1 DEF FewSurvive
    <3> QED BY <3>2 DEF Lonely, Alone
  <2> QED BY <2>1, <2>2, <2>3 DEF Next
<1> QED BY <1>1, <1>2, TypeStep, PTL DEF Spec

\* A process that acts on the record, or is about to release its lock, owns the
\* lock on lockPath.
OwnedBy(p) == lock # NoLock /\ lock.pid = p

Quiet == Gone \in dead /\ (lock.kind = "empty" => lock.pid = Gone)

ProcInv(p) ==
  /\ p \in dead <=> pc[p] = "dead"
  /\ task[p] = "reclaim" \/ pc[p] = "emptyRename" => Alone
  /\ pc[p] \in {"idle", "held", "dead"} => task[p] = "none"
  /\ pc[p] \in {"relCheck", "rmOwner", "rmDir", "return"} \/ result[p] = "none"
  /\ pc[p] = "opRename" => task[p] \in {"reclaim", "release"}
  /\ Active(p) \/ (pc[p] = "opRename" /\ task[p] = "release") => OwnedBy(p)

IInv == TypeOK /\ Quiet /\ Lonely /\ \A p \in Proc : ProcInv(p)

\* A step that keeps the lock file and the other processes where they are keeps
\* the invariant if it keeps that of the process that takes it.
LEMMA LocalStep ==
  ASSUME IInv, TypeOK', NEW p \in Proc, lock' = lock, dead' = dead,
         \A q \in Proc \ {p} : pc'[q] = pc[q] /\ task'[q] = task[q] /\ result'[q] = result[q],
         ProcInv(p)'
  PROVE  IInv'
<1>1. Quiet' /\ Lonely' /\ (Alone => Alone')
  BY DEF IInv, Quiet, Lonely, Abandoned, Alone
<1>2. ASSUME NEW q \in Proc PROVE ProcInv(q)'
  <2>1. CASE q = p
    BY <2>1
  <2>2. CASE q # p
    BY <1>1, <2>2 DEF IInv, ProcInv, Active, OwnedBy
  <2>3. QED
    BY <2>1, <2>2
<1>3. QED
  BY <1>1, <1>2 DEF IInv

\* A step that changes the lock file keeps the invariant if no other process acts
\* on the record.
LEMMA LockStep ==
  ASSUME IInv, TypeOK', NEW p \in Proc, Quiet', Lonely', dead' = dead,
         \A q \in Proc \ {p} : ~Active(q) /\ ~(pc[q] = "opRename" /\ task[q] = "release"),
         \A q \in Proc \ {p} : pc'[q] = pc[q] /\ task'[q] = task[q] /\ result'[q] = result[q],
         ProcInv(p)'
  PROVE  IInv'
<1>1. ASSUME NEW q \in Proc PROVE ProcInv(q)'
  <2>1. CASE q = p
    BY <2>1
  <2>2. CASE q # p
    BY <2>2 DEF IInv, ProcInv, Active, Alone
  <2>3. QED
    BY <2>1, <2>2
<1>2. QED
  BY <1>1 DEF IInv

\* Where the lock is free or a process's own, and where it is alone, no other acts.
LEMMA NoOtherActs ==
  ASSUME IInv, NEW p \in Proc, p \notin dead, lock = NoLock \/ lock.pid = p \/ Alone
  PROVE  \A q \in Proc \ {p} : ~Active(q) /\ ~(pc[q] = "opRename" /\ task[q] = "release")
<1> SUFFICES ASSUME NEW q \in Proc \ {p}
             PROVE  ~Active(q) /\ ~(pc[q] = "opRename" /\ task[q] = "release")
  OBVIOUS
<1>1. CASE lock = NoLock \/ lock.pid = p
  BY <1>1 DEF IInv, ProcInv, OwnedBy
<1>2. CASE Alone
  <2>1. pc[q] = "dead" /\ task[q] = "none"
    BY <1>2 DEF Alone, IInv, ProcInv
  <2> QED BY <2>1 DEF Active
<1> QED BY <1>1, <1>2

LEMMA SameDead ==
  ASSUME dead' = dead PROVE Alone' <=> Alone
BY DEF Alone

LEMMA InvStep ==
  ASSUME IInv, Lonely', [Next]_vars
  PROVE  IInv'
<1> USE DEF ProcInv, Active
<1>0. TypeOK /\ TypeOK'
  BY TypeStep DEF IInv
<1>1. CASE UNCHANGED vars
  BY <1>1, <1>0 DEF vars, IInv, Quiet, OwnedBy, Alone
<1>2. ASSUME NEW p \in Proc,
             \/ Mkdir(p) \/ RemoveDead(p) \/ CheckInert(p) \/ RenameInert(p) \/ OpenOwner(p)
             \/ WriteOwner(p) \/ OwnerWriteFails(p) \/ CleanRename(p) \/ CleanCheck(p)
             \/ Inspect(p) \/ RenameDead(p)
      PROVE  IInv'
  <2>1. lock' = lock /\ dead' = dead
    BY <1>2 DEF Mkdir, RemoveDead, CheckInert, RenameInert, OpenOwner, WriteOwner,
                OwnerWriteFails, CleanRename, CleanCheck, Inspect, RenameDead
  <2>2. \A q \in Proc \ {p} : pc'[q] = pc[q] /\ task'[q] = task[q] /\ result'[q] = result[q]
    BY <1>2, <1>0 DEF TypeOK, Mkdir, RemoveDead, CheckInert, RenameInert, OpenOwner, WriteOwner,
                OwnerWriteFails, CleanRename, CleanCheck, Inspect, RenameDead,
                Goto, LeaveFrame, Throw, LoopFrame, ContendFrame
  <2>3. ProcInv(p)'
    BY <1>2, <1>0, <2>1, SameDead DEF IInv, TypeOK, Mkdir, RemoveDead, CheckInert, RenameInert, OpenOwner, WriteOwner,
                OwnerWriteFails, CleanRename, CleanCheck, Inspect, RenameDead,
                Goto, LeaveFrame, Throw, LoopFrame, ContendFrame
  <2>4. QED
    BY <2>1, <2>2, <2>3, <1>0, LocalStep
<1>3. ASSUME NEW p \in Proc, LinkLock(p) PROVE IInv'
  <2>1. CASE lock = NoLock /\ lock' = [kind |-> "versioned", pid |-> p] /\ Finish(p, "ok")
    <3>1. Quiet' /\ OwnedBy(p)' /\ dead' = dead /\ p \notin dead
      BY <1>3, <2>1 DEF LinkLock, IInv, Quiet, OwnedBy, NoLock
    <3>2. ProcInv(p)'
      BY <1>3, <2>1, <3>1, <1>0, SameDead DEF LinkLock, Finish, Goto, TypeOK, IInv
    <3>3. \A q \in Proc \ {p} : pc'[q] = pc[q] /\ task'[q] = task[q] /\ result'[q] = result[q]
      BY <1>3, <2>1, <1>0 DEF LinkLock, Finish, Goto, TypeOK
    <3>4. QED
      BY <2>1, <3>1, <3>2, <3>3, <1>0, NoOtherActs, LockStep
  <2>2. CASE lock # NoLock /\ Finish(p, "no") /\ UNCHANGED lock
    <3>1. lock' = lock /\ dead' = dead
      BY <1>3, <2>2 DEF LinkLock
    <3>2. ProcInv(p)'
      BY <1>3, <2>2, <3>1, <1>0, SameDead DEF LinkLock, Finish, Goto, TypeOK, IInv, OwnedBy
    <3>3. \A q \in Proc \ {p} : pc'[q] = pc[q] /\ task'[q] = task[q] /\ result'[q] = result[q]
      BY <1>3, <2>2, <1>0 DEF LinkLock, Finish, Goto, TypeOK
    <3>4. QED
      BY <3>1, <3>2, <3>3, <1>0, LocalStep
  <2>3. QED
    BY <1>3, <2>1, <2>2 DEF LinkLock
<1>4. ASSUME NEW p \in Proc,
             CheckLock(p) \/ CheckOwnCoordination(p) \/ RemoveOwner(p) \/ RemoveDir(p)
             \/ Return(p) \/ Acquire(p) \/ Release(p)
      PROVE  IInv'
  <2>1. lock' = lock /\ dead' = dead
    BY <1>4 DEF CheckLock, CheckOwnCoordination, RemoveOwner, RemoveDir, Return, Acquire, Release
  <2>2. \A q \in Proc \ {p} : pc'[q] = pc[q] /\ task'[q] = task[q] /\ result'[q] = result[q]
    BY <1>4, <1>0 DEF TypeOK, CheckLock, CheckOwnCoordination, RemoveOwner, RemoveDir, Return,
                      Acquire, Release, Goto, Finish, EnterFrame, LeaveFrame, Throw
  <2>3. ASSUME CheckLock(p) PROVE ProcInv(p)'
    BY <2>1, <2>3, <1>0, SameDead DEF CheckLock, Expected, Finish, Goto, IInv, TypeOK, OwnedBy, NoLock
  <2>4. ASSUME CheckOwnCoordination(p) \/ RemoveOwner(p) \/ RemoveDir(p) PROVE ProcInv(p)'
    BY <2>4, <2>1, <1>0, SameDead DEF CheckOwnCoordination, RemoveOwner, RemoveDir, Goto, IInv, TypeOK, OwnedBy
  <2>5. ASSUME Return(p) PROVE ProcInv(p)'
    BY <2>5, <2>1, <1>0, SameDead DEF Return, LeaveFrame, Throw, EnterFrame, Goto, IInv, TypeOK, OwnedBy
  <2>6. ASSUME Acquire(p) \/ Release(p) PROVE ProcInv(p)'
    BY <2>6, <2>1, <1>0, SameDead DEF Acquire, Release, EnterFrame, Goto, IInv, TypeOK
  <2>7. QED
    BY <1>4, <2>1, <2>2, <2>3, <2>4, <2>5, <2>6, <1>0, LocalStep
<1>5. ASSUME NEW p \in Proc, RenameLock(p) PROVE IInv'
  <2>1. lock.pid = p \/ Alone
    BY <1>5 DEF RenameLock, IInv, OwnedBy
  <2>2. Quiet' /\ dead' = dead /\ p \notin dead
    BY <1>5 DEF RenameLock, IInv, Quiet, NoLock
  <2>3. ProcInv(p)'
    BY <1>5, <2>2, <1>0, SameDead DEF RenameLock, Finish, Goto, IInv, TypeOK
  <2>4. \A q \in Proc \ {p} : pc'[q] = pc[q] /\ task'[q] = task[q] /\ result'[q] = result[q]
    BY <1>5, <1>0 DEF RenameLock, Finish, Goto, TypeOK
  <2>5. QED
    BY <2>1, <2>2, <2>3, <2>4, <1>0, NoOtherActs, LockStep
<1>6. ASSUME NEW p \in Proc, AcquirePlain(p) PROVE IInv'
  <2>1. Quiet' /\ OwnedBy(p)' /\ lock = NoLock /\ dead' = dead /\ p \notin dead
    BY <1>6 DEF AcquirePlain, IInv, Quiet, OwnedBy, NoLock
  <2>2. ProcInv(p)'
    BY <1>6, <2>1, <1>0, SameDead DEF AcquirePlain, Goto, IInv, TypeOK
  <2>3. \A q \in Proc \ {p} : pc'[q] = pc[q] /\ task'[q] = task[q] /\ result'[q] = result[q]
    BY <1>6, <1>0 DEF AcquirePlain, Goto, TypeOK
  <2>4. QED
    BY <2>1, <2>2, <2>3, <1>0, NoOtherActs, LockStep
<1>7. ASSUME NEW p \in Proc, Retry(p) \/ Contend(p) PROVE IInv'
  <2>1. lock.kind \in {"legacy", "versioned"} /\ lock.pid \in dead => Alone
    <3>1. lock.kind \in {"legacy", "versioned"} => lock # NoLock
      BY DEF NoLock
    <3> QED BY <3>1 DEF IInv, Lonely, Abandoned
  <2>2. lock.kind = "empty" => Alone
    BY DEF IInv, Quiet, Lonely, Abandoned, NoLock
  <2>3. lock' = lock /\ dead' = dead
    BY <1>7 DEF Retry, Contend
  <2>4. ProcInv(p)'
    <3>1. CASE Retry(p)
      BY <2>1, <2>3, <3>1, <1>0, SameDead DEF Retry, EnterFrame, Goto, IInv, TypeOK, OwnedBy
    <3>2. CASE Contend(p)
      BY <2>2, <2>3, <3>2, <1>0, SameDead DEF Contend, EnterFrame, LeaveFrame, Throw, Goto, IInv, TypeOK
    <3>3. QED
      BY <1>7, <3>1, <3>2
  <2>5. \A q \in Proc \ {p} : pc'[q] = pc[q] /\ task'[q] = task[q] /\ result'[q] = result[q]
    BY <1>7, <1>0 DEF Retry, Contend, EnterFrame, LeaveFrame, Throw, Goto, TypeOK
  <2>6. QED
    BY <2>3, <2>4, <2>5, <1>0, LocalStep
<1>8. ASSUME NEW p \in Proc, RenameEmpty(p) PROVE IInv'
  <2>1. Alone /\ Quiet' /\ dead' = dead /\ p \notin dead
    BY <1>8 DEF RenameEmpty, IInv, Quiet, NoLock
  <2>2. ProcInv(p)'
    BY <1>8, <2>1, <1>0, SameDead DEF RenameEmpty, EnterFrame, LeaveFrame, Throw, Goto, IInv, TypeOK
  <2>3. \A q \in Proc \ {p} : pc'[q] = pc[q] /\ task'[q] = task[q] /\ result'[q] = result[q]
    BY <1>8, <1>0 DEF RenameEmpty, EnterFrame, LeaveFrame, Throw, Goto, TypeOK
  <2>4. QED
    BY <2>1, <2>2, <2>3, <1>0, NoOtherActs, LockStep
<1>9. ASSUME NEW p \in Proc, Crash(p) PROVE IInv'
  <2>1. /\ lock' = lock /\ dead' = dead \cup {p} /\ pc'[p] = "dead" /\ task'[p] = "none"
        /\ result'[p] = "none"
        /\ \A q \in Proc \ {p} : pc'[q] = pc[q] /\ task'[q] = task[q] /\ result'[q] = result[q]
    BY <1>9, <1>0 DEF Crash, LeaveFrame, Goto, TypeOK
  <2>2. Quiet' /\ (Alone => Alone')
    BY <2>1 DEF IInv, Quiet, Alone
  <2>3. ASSUME NEW q \in Proc PROVE ProcInv(q)'
    BY <2>1, <2>2 DEF IInv, OwnedBy
  <2> QED BY <2>2, <2>3, <1>0 DEF IInv
<1>10. QED
  BY <1>1, <1>2, <1>3, <1>4, <1>5, <1>6, <1>7, <1>8, <1>9 DEF Next, Step

LEMMA InvHolds == Spec /\ []Lonely => []IInv
<1>1. Init /\ Lonely => IInv
  <2> SUFFICES ASSUME Init, Lonely PROVE IInv
    OBVIOUS
  <2>1. TypeOK
    BY Values, RetriesAssumption, AliveFacts DEF Init, TypeOK
  <2>2. PICK alive \in Alive : /\ pc = [p \in Proc |-> IF p \in alive THEN "idle" ELSE "dead"]
                               /\ dead = {Gone} \cup (Proc \ alive)
    BY DEF Init
  <2>3. Quiet
    BY <2>2, LocksAssumption DEF Init, Quiet, NoLock
  <2>4. ASSUME NEW p \in Proc PROVE ProcInv(p)
    BY <2>2, ProcAssumption DEF Init, ProcInv, Active
  <2> QED BY <2>1, <2>3, <2>4 DEF IInv
<1>2. IInv /\ Lonely' /\ [Next]_vars => IInv'
  BY InvStep
<1>3. QED
  BY <1>1, <1>2, PTL DEF Spec

\* Whoever acts on a record owns the lock file, for any number of processes,
\* whatever dies: as long as no two live processes meet the lock of a dead one.
THEOREM Ownership == Spec /\ []Lonely => []HolderOwnsPath
<1>1. IInv => HolderOwnsPath
  BY DEF IInv, ProcInv, OwnedBy, HolderOwnsPath
<1>2. QED
  BY <1>1, InvHolds, PTL

\* Two processes never act on one record at once (acquireVersionedLock and
\* acquireLock, with every reclamation and release), even when owner entries fail
\* to be written: as long as no two live processes meet the lock of a dead one.
THEOREM Exclusion == Spec /\ []Lonely => []MutualExclusion
<1>1. IInv => MutualExclusion
  BY DEF IInv, ProcInv, OwnedBy, MutualExclusion
<1>2. QED
  BY <1>1, InvHolds, PTL

-----------------------------------------------------------------------------
(* The file protocol implements AdvisoryLock.                               *)

ActiveSet == {p \in Proc : Active(p)}

\* A step that leaves the lock file alone and nobody's Active changed stutters.
LEMMA Stuttering ==
  ASSUME lock' = lock, dead' = dead, \A q \in Proc : Active(q)' <=> Active(q)
  PROVE  UNCHANGED Advisory!lockVars
BY DEF Advisory!lockVars, Owner

LEMMA StepImplements ==
  ASSUME IInv, [Next]_vars
  PROVE  [Advisory!LockNext]_(Advisory!lockVars)
<1>0. TypeOK
  BY DEF IInv
<1>1. CASE UNCHANGED vars
  BY <1>1 DEF vars, Advisory!lockVars, Owner, Active
<1>2. ASSUME NEW p \in Proc,
             \/ Mkdir(p) \/ RemoveDead(p) \/ CheckInert(p) \/ RenameInert(p) \/ OpenOwner(p)
             \/ WriteOwner(p) \/ OwnerWriteFails(p) \/ CleanRename(p) \/ CleanCheck(p)
             \/ Inspect(p) \/ RenameDead(p) \/ CheckLock(p) \/ CheckOwnCoordination(p)
             \/ RemoveOwner(p) \/ RemoveDir(p) \/ Return(p) \/ Acquire(p)
             \/ Retry(p) \/ Contend(p)
      PROVE  UNCHANGED Advisory!lockVars
  <2>1. lock' = lock /\ dead' = dead
    BY <1>2 DEF Mkdir, RemoveDead, CheckInert, RenameInert, OpenOwner, WriteOwner,
                OwnerWriteFails, CleanRename, CleanCheck, Inspect, RenameDead,
                CheckLock, CheckOwnCoordination, RemoveOwner, RemoveDir, Return, Acquire,
                Retry, Contend
  <2>2. ASSUME NEW q \in Proc, q # p PROVE Active(q)' <=> Active(q)
    BY <1>2, <2>2, <1>0 DEF TypeOK, Active, Mkdir, RemoveDead, CheckInert, RenameInert, OpenOwner,
                WriteOwner, OwnerWriteFails, CleanRename, CleanCheck, Inspect, RenameDead,
                CheckLock, CheckOwnCoordination, RemoveOwner, RemoveDir, Return, Acquire,
                Retry, Contend, Goto, Finish, EnterFrame, LeaveFrame, Throw, LoopFrame, ContendFrame
  <2>3. Active(p)' <=> Active(p)
    <3>1. CASE Mkdir(p) \/ RemoveDead(p) \/ CheckInert(p) \/ RenameInert(p) \/ OpenOwner(p)
             \/ WriteOwner(p) \/ OwnerWriteFails(p) \/ CleanRename(p) \/ CleanCheck(p)
             \/ Inspect(p) \/ RenameDead(p)
      BY <3>1, <1>0 DEF TypeOK, IInv, ProcInv, Active, Mkdir, RemoveDead, CheckInert, RenameInert,
                OpenOwner, WriteOwner, OwnerWriteFails, CleanRename, CleanCheck, Inspect,
                RenameDead, Goto, LeaveFrame, Throw, LoopFrame, ContendFrame
    <3>2. CASE CheckLock(p) \/ CheckOwnCoordination(p) \/ RemoveOwner(p) \/ RemoveDir(p)
      BY <3>2, <1>0 DEF TypeOK, IInv, ProcInv, Active, CheckLock, CheckOwnCoordination,
                RemoveOwner, RemoveDir, Goto, Finish
    <3>3. CASE Return(p)
      BY <3>3, <1>0 DEF TypeOK, IInv, ProcInv, Active, Return, Goto, EnterFrame, LeaveFrame, Throw
    <3>4. CASE Acquire(p) \/ Retry(p) \/ Contend(p)
      BY <3>4, <1>0 DEF TypeOK, IInv, ProcInv, Active, Acquire, Retry, Contend, Goto,
                EnterFrame, LeaveFrame, Throw
    <3>5. QED
      BY <1>2, <3>1, <3>2, <3>3, <3>4
  <2>4. QED
    BY <2>1, <2>2, <2>3, Stuttering
<1>3. ASSUME NEW p \in Proc, LinkLock(p) PROVE [Advisory!LockNext]_(Advisory!lockVars)
  <2>1. \A q \in Proc \ {p} : Active(q)' <=> Active(q)
    BY <1>3, <1>0 DEF TypeOK, LinkLock, Finish, Goto, Active
  <2>2. CASE lock = NoLock /\ lock' = [kind |-> "versioned", pid |-> p] /\ Finish(p, "ok")
    <3>1. Active(p)'
      BY <1>3, <2>2, <1>0 DEF TypeOK, LinkLock, Finish, Goto, Active
    <3>2. ActiveSet' = ActiveSet \cup {p}
      BY <2>1, <3>1 DEF ActiveSet
    <3>3. Owner = Gone /\ Owner' = p /\ p \notin dead \ {Gone} /\ dead' = dead
      BY <1>3, <2>2, ProcAssumption DEF Owner, NoLock, LinkLock, IInv, ProcInv
    <3>4. Advisory!Take(p)
      BY <3>2, <3>3 DEF Advisory!Take, ActiveSet
    <3>5. QED
      BY <3>4 DEF Advisory!LockNext
  <2>3. CASE lock # NoLock /\ Finish(p, "no") /\ UNCHANGED lock
    <3>1. Active(p)' <=> Active(p)
      BY <1>3, <2>3, <1>0 DEF TypeOK, IInv, ProcInv, LinkLock, Finish, Goto, Active
    <3>2. dead' = dead
      BY <1>3 DEF LinkLock
    <3>3. QED
      BY <2>1, <2>3, <3>1, <3>2, Stuttering
  <2>4. QED
    BY <1>3, <2>2, <2>3 DEF LinkLock
<1>4. ASSUME NEW p \in Proc, AcquirePlain(p) PROVE Advisory!Take(p)
  <2>1. ActiveSet' = ActiveSet \cup {p}
    BY <1>4, <1>0 DEF TypeOK, AcquirePlain, Goto, Active, ActiveSet
  <2>2. Owner = Gone /\ Owner' = p /\ p \notin dead \ {Gone} /\ dead' = dead
    BY <1>4, ProcAssumption DEF Owner, NoLock, AcquirePlain, IInv, ProcInv
  <2>3. QED
    BY <2>1, <2>2 DEF Advisory!Take, ActiveSet
<1>5. ASSUME NEW p \in Proc, Release(p) PROVE Advisory!CallRelease(p)
  <2>1. Active(p) /\ ~Active(p)' /\ \A q \in Proc \ {p} : Active(q)' <=> Active(q)
    BY <1>5, <1>0 DEF TypeOK, Release, EnterFrame, Goto, Active
  <2>2. ActiveSet' = ActiveSet \ {p} /\ p \in ActiveSet
    BY <2>1 DEF ActiveSet
  <2>3. Owner' = Owner /\ dead' = dead
    BY <1>5 DEF Release, Owner
  <2>4. QED
    BY <2>2, <2>3 DEF Advisory!CallRelease, ActiveSet
<1>6. ASSUME NEW p \in Proc, RenameLock(p) \/ RenameEmpty(p)
      PROVE  Advisory!Leave \/ UNCHANGED Advisory!lockVars
  <2>1. /\ ~Active(p) /\ ~Active(p)' /\ Owner' = Gone /\ dead' = dead /\ p \notin dead
        /\ \A q \in Proc \ {p} : Active(q)' <=> Active(q)
    BY <1>6, <1>0 DEF TypeOK, RenameLock, RenameEmpty, Finish, EnterFrame, LeaveFrame, Throw, Goto,
                     IInv, ProcInv, Owner, Active
  <2>2. ActiveSet' = ActiveSet
    BY <2>1 DEF ActiveSet
  <2>3. CASE Owner = Gone
    BY <2>1, <2>2, <2>3 DEF Advisory!lockVars, ActiveSet
  <2>4. CASE Owner # Gone
    <3>1. Owner \in Proc /\ lock # NoLock /\ Owner = lock.pid
      BY <2>4, <1>0 DEF Owner, TypeOK, Locks, Pids
    <3>2. lock.pid = p \/ Alone
      BY <1>6 DEF RenameLock, RenameEmpty, IInv, ProcInv, OwnedBy
    <3>3. Owner \notin ActiveSet
      BY <2>1, <3>1, <3>2, NoOtherActs DEF ActiveSet
    <3> QED BY <2>1, <2>2, <3>1, <3>3 DEF Advisory!Leave, ActiveSet
  <2> QED BY <2>3, <2>4
<1>7. ASSUME NEW p \in Proc, Crash(p) PROVE Advisory!Die(p)
  <2>1. /\ lock' = lock /\ dead' = dead \cup {p} /\ p \notin dead /\ ~Active(p)'
        /\ \A q \in Proc \ {p} : Active(q)' <=> Active(q)
    BY <1>7, <1>0 DEF Crash, LeaveFrame, Goto, TypeOK, IInv, ProcInv, Active
  <2>2. /\ ActiveSet' = ActiveSet \ {p} /\ Owner' = Owner
        /\ dead' \ {Gone} = (dead \ {Gone}) \cup {p} /\ p \notin dead \ {Gone}
    BY <2>1, ProcAssumption DEF ActiveSet, Owner
  <2> QED BY <2>2 DEF Advisory!Die, ActiveSet
<1>8. QED
  BY <1>1, <1>2, <1>3, <1>4, <1>5, <1>6, <1>7 DEF Next, Step, Advisory!LockNext

\* Every behaviour of the file protocol, seen through Owner and Active, is one of
\* AdvisoryLock: with any leftovers and deaths that leave one process to meet them,
\* and for any number of processes without.
THEOREM Implementation ==
  ASSUME FewSurvive
  PROVE  Spec => ImplementsAdvisoryLock
<1>1. Init => Advisory!LockInit
  <2> SUFFICES ASSUME Init PROVE Advisory!LockInit
    OBVIOUS
  <2>1. Owner = Gone
    BY LocksAssumption DEF Init, Owner, NoLock
  <2>2. ActiveSet = {}
    BY AliveFacts DEF Init, ActiveSet, Active
  <2>3. dead \ {Gone} \in SUBSET Proc
    BY AliveFacts DEF Pids
  <2> QED BY <2>1, <2>2, <2>3 DEF Advisory!LockInit, ActiveSet
<1>2. IInv /\ [Next]_vars => [Advisory!LockNext]_(Advisory!lockVars)
  BY StepImplements
<1>3. QED
  BY <1>1, <1>2, FewAreAlone, InvHolds, PTL DEF Spec, ImplementsAdvisoryLock, Advisory!LockSpec
=============================================================================
