------------------------ MODULE ProjectStoreProofs ------------------------
(***************************************************************************)
(* Proofs about ProjectStore: OrderedJournal, for any transactions and any  *)
(* bounds, and VersionedState, for any processes, updates and deaths.       *)
(***************************************************************************)
EXTENDS OrderedJournal, VersionedState, FiniteSetTheorems, TLAPS

-----------------------------------------------------------------------------
(* The journal.                                                             *)

Types ==
  /\ disk \in Seq(Txn)
  /\ rewrite \in Seq(Txn)
  /\ pending \subseteq Txn
  /\ status \in [Txn -> Statuses]
  /\ next \in Nat

\* The append state follows the last line of an open journal.
Numbering ==
  /\ phase # "open" => next = 0
  /\ next # 0 => next = LastCommitted(disk) + 1
  /\ flushing => phase = "open" /\ next # 0

\* What an opening accepts, or is about to write, has no gap.
Sound ==
  /\ Contiguous(rewrite)
  /\ phase # "repairing" => rewrite = <<>>
  /\ phase = "open" => Contiguous(disk)
  /\ Monotonic(disk) => Contiguous(disk)

IInv == Types /\ Numbering /\ Sound

LEMMA TxnFields ==
  ASSUME NEW t \in Txn
  PROVE  t.first \in Nat /\ t.last \in Nat
BY IntervalsAssumption DEF Txn

\* An order of the same lines is a sequence of them.
LEMMA RepairType ==
  ASSUME NEW s \in Seq(Txn), NEW r \in Repairs(s)
  PROVE  r \in Seq(Txn) /\ Contiguous(r) /\ Lines(r) = Lines(s)
<1>1. r \in [1..Len(s) -> Lines(s)] /\ Lines(r) = Lines(s) /\ Contiguous(r)
  BY DEF Repairs
<1>2. Lines(s) \subseteq Txn
  BY DEF Lines
<1>3. r \in [1..Len(s) -> Txn]
  BY <1>1, <1>2
<1>4. r \in Seq(Txn)
  BY <1>3
<1> QED BY <1>1, <1>4

\* The transaction whose turn it is continues the journal.
LEMMA NextLine ==
  ASSUME NEW s \in Seq(Txn), NEW t \in Txn
  PROVE  /\ Append(s, t) \in Seq(Txn)
         /\ LastCommitted(Append(s, t)) = t.last
         /\ Lines(Append(s, t)) = Lines(s) \cup {t}
         /\ Contiguous(s) /\ t.first = LastCommitted(s) + 1 => Contiguous(Append(s, t))
<1>1. /\ Append(s, t) \in Seq(Txn)
      /\ Len(Append(s, t)) = Len(s) + 1
      /\ Len(s) \in Nat
      /\ Append(s, t)[Len(s) + 1] = t
      /\ \A k \in 1..Len(s) : Append(s, t)[k] = s[k]
  OBVIOUS
<1>2. LastCommitted(Append(s, t)) = t.last
  <2>1. Append(s, t) # <<>>
    BY <1>1
  <2> QED BY <1>1, <2>1 DEF LastCommitted
<1>3. Lines(Append(s, t)) = Lines(s) \cup {t}
  BY <1>1 DEF Lines
<1>4. ASSUME Contiguous(s), t.first = LastCommitted(s) + 1
      PROVE  Contiguous(Append(s, t))
  <2>1. SUFFICES ASSUME NEW k \in 2..Len(Append(s, t))
                 PROVE  Append(s, t)[k].first = Append(s, t)[k-1].last + 1
    BY DEF Contiguous
  <2>2. CASE k \in 2..Len(s)
    <3>1. Append(s, t)[k] = s[k] /\ Append(s, t)[k-1] = s[k-1]
      BY <1>1, <2>2
    <3> QED BY <1>4, <2>2, <3>1 DEF Contiguous
  <2>3. CASE k = Len(s) + 1
    <3>1. Append(s, t)[k] = t /\ Append(s, t)[k-1] = s[Len(s)]
      BY <1>1, <2>3
    <3>2. s # <<>>
      BY <1>1, <2>1, <2>3
    <3> QED BY <1>4, <3>1, <3>2 DEF LastCommitted
  <2> QED BY <1>1, <2>1, <2>2, <2>3
<1> QED BY <1>1, <1>2, <1>3, <1>4

\* What a failed write or a death leaves of a repair is a journal without a gap.
LEMMA PrefixFacts ==
  ASSUME NEW s \in Seq(Txn), Contiguous(s), NEW k \in 0..Len(s)
  PROVE  SubSeq(s, 1, k) \in Seq(Txn) /\ Contiguous(SubSeq(s, 1, k))
<1>1. /\ SubSeq(s, 1, k) \in Seq(Txn)
      /\ Len(SubSeq(s, 1, k)) = k
      /\ \A i \in 1..k : SubSeq(s, 1, k)[i] = s[i]
  OBVIOUS
<1>2. \A i \in 2..k : i \in 2..Len(s) /\ i \in 1..k /\ i - 1 \in 1..k
  OBVIOUS
<1> QED BY <1>1, <1>2 DEF Contiguous

LEMMA InterruptedFacts ==
  ASSUME rewrite \in Seq(Txn), Contiguous(rewrite), Interrupted
  PROVE  disk' \in Seq(Txn) /\ Contiguous(disk')
BY PrefixFacts DEF Interrupted

-----------------------------------------------------------------------------
\* Initial journals are sequences of transactions, and whatever the runtime
\* accepts as they are has no gap.
Initially == InitialDisks \subseteq Seq(Txn)
             /\ \A d \in InitialDisks : Monotonic(d) => Contiguous(d)

LEMMA InitInvariant == ASSUME Initially, Init PROVE IInv
<1>1. Contiguous(<<>>) /\ <<>> \in Seq(Txn)
  BY DEF Contiguous
<1> QED BY <1>1 DEF Initially, Init, IInv, Types, Numbering, Sound, Statuses

LEMMA StepInvariant == ASSUME IInv, [Next]_vars PROVE IInv'
<1> USE DEF IInv, Types
<1>e. Contiguous(<<>>) /\ <<>> \in Seq(Txn) /\ LastCommitted(<<>>) = 0
  BY DEF Contiguous, LastCommitted
<1>1. CASE Open
  <2>1. phase = "closed" /\ next = 0 /\ ~flushing
        /\ phase' \in {"open", "repairing", "ambiguous", "corrupt"}
        /\ next' = next /\ pending' = pending /\ status' = status /\ flushing' = flushing
    BY <1>1 DEF Open, memory, Numbering
  <2>2. CASE UNCHANGED <<disk, rewrite>> /\ (phase' = "open" => Monotonic(disk))
    BY <2>1, <2>2 DEF Numbering, Sound
  <2>3. CASE rewrite' \in Repairs(disk) /\ disk' = <<>> /\ phase' = "repairing"
    <3>1. rewrite' \in Seq(Txn) /\ Contiguous(rewrite')
      BY <2>3, RepairType
    <3> QED BY <1>e, <2>1, <2>3, <3>1 DEF Numbering, Sound
  <2>4. QED BY <1>1, <2>2, <2>3 DEF Open
<1>2. CASE Rewrite
  <2>1. next' = LastCommitted(disk') + 1 /\ next' \in Nat
    <3>1. LastCommitted(rewrite) \in Nat
      BY TxnFields DEF LastCommitted
    <3> QED BY <1>2, <3>1 DEF Rewrite
  <2> QED BY <1>2, <1>e, <2>1 DEF Rewrite, Numbering, Sound
<1>3. CASE Clear
  BY <1>3, <1>e DEF Clear, memory, Numbering, Sound
<1>4. ASSUME NEW t \in Txn, AppendTransaction(t) PROVE IInv'
  <2>1. NextSequence = LastCommitted(disk) + 1 /\ NextSequence \in Nat \ {0}
    <3>1. LastCommitted(disk) \in Nat
      BY TxnFields DEF LastCommitted
    <3> QED BY <3>1 DEF NextSequence, Numbering
  <2> QED BY <1>4, <2>1 DEF AppendTransaction, CanAppend, Numbering, Sound, Statuses
<1>5. CASE FlushFails
  BY <1>5 DEF FlushFails, Due, Numbering, Sound, Statuses
<1>6. CASE Flush
  <2>1. CASE UNCHANGED <<disk, pending, next, status>>
    BY <1>6, <2>1 DEF Flush, Numbering, Sound
  <2>2. ASSUME NEW t \in Due, disk' = Write(t), pending' = pending \ {t},
               next' = t.last + 1, status' = [status EXCEPT ![t] = "ok"]
        PROVE  IInv'
    <3>1. t \in Txn /\ t.first = next /\ phase = "open" /\ next # 0
      BY <1>6, <2>2 DEF Due, Flush, Numbering
    <3>2. disk' \in Seq(Txn) /\ Contiguous(disk') /\ LastCommitted(disk') = t.last
      BY <2>2, <3>1, NextLine DEF Write, Numbering, Sound
    <3>3. next' \in Nat /\ next' # 0
      BY <2>2, <3>1, TxnFields
    <3> QED BY <1>6, <2>2, <3>1, <3>2, <3>3 DEF Flush, Numbering, Sound, Statuses
  <2> QED BY <1>6, <2>1, <2>2 DEF Flush
<1>7. CASE Crash
  <2>1. disk' \in Seq(Txn) /\ (Monotonic(disk') => Contiguous(disk'))
    BY <1>7, InterruptedFacts DEF Crash, Sound
  <2> QED BY <1>7, <1>e, <2>1 DEF Crash, Numbering, Sound, Statuses
<1>8. CASE RewriteFails
  <2>1. disk' \in Seq(Txn) /\ Contiguous(disk')
    BY <1>8, InterruptedFacts DEF RewriteFails, Sound
  <2> QED BY <1>8, <1>e, <2>1 DEF RewriteFails, memory, Numbering, Sound
<1>9. CASE UNCHANGED vars
  BY <1>9 DEF vars, memory, bounds, Numbering, Sound
<1> QED BY <1>1, <1>2, <1>3, <1>4, <1>5, <1>6, <1>7, <1>8, <1>9 DEF Next

LEMMA Invariant == ASSUME Initially PROVE Spec => []IInv
BY InitInvariant, StepInvariant, PTL DEF Spec

-----------------------------------------------------------------------------
\* Whatever order appendTransaction is called in, whichever writes fail and
\* wherever the process dies, an open journal has no gap and no overlap.
THEOREM Contiguity == ASSUME Initially PROVE Spec => []OpenJournalIsContiguous
<1>1. IInv => OpenJournalIsContiguous
  BY DEF IInv, Sound, OpenJournalIsContiguous
<1> QED BY <1>1, Invariant, PTL

\* A step of flushTransactions, the only one that writes to an open journal,
\* extends it.
THEOREM Growth == ASSUME Initially PROVE Spec => JournalOnlyGrows
<1>1. ASSUME IInv, [Next]_vars
      PROVE  [phase = "open" /\ phase' = "open" =>
                Len(disk') >= Len(disk) /\ SubSeq(disk', 1, Len(disk)) = disk]_vars
  <2>1. SUFFICES ASSUME phase = "open", phase' = "open", Next
                 PROVE  Len(disk') >= Len(disk) /\ SubSeq(disk', 1, Len(disk)) = disk
    BY <1>1
  <2>2. disk \in Seq(Txn)
    BY <1>1 DEF IInv, Types
  <2>3. disk' = disk \/ \E t \in Txn : disk' = Append(disk, t)
    BY <1>1, <2>1 DEF IInv, Types, Next, Open, Rewrite, Clear, AppendTransaction,
                      RewriteFails, FlushFails, Flush, Due, Write, Crash
  <2>4. SubSeq(disk, 1, Len(disk)) = disk
    BY <2>2
  <2>5. ASSUME NEW t \in Txn
        PROVE  Len(Append(disk, t)) >= Len(disk) /\ SubSeq(Append(disk, t), 1, Len(disk)) = disk
    BY <2>2
  <2> QED BY <2>2, <2>3, <2>4, <2>5
<1> QED BY <1>1, Invariant, PTL DEF JournalOnlyGrows, Spec

-----------------------------------------------------------------------------
\* Every transaction that was on disk is on disk still, set aside, about to be
\* written again, or lost by an interrupted repair.  Only a journal that was found
\* out of order is repaired, and none of its lines was acknowledged by an append.
Kept ==
  /\ durable \subseteq Txn
  /\ durable \subseteq archive \cup lost
                  \cup (IF phase = "repairing" THEN Lines(rewrite) ELSE Lines(disk))
  /\ \A t \in Txn : status[t] = "ok" =>
       /\ t \in Lines(disk) \cup archive
       /\ phase # "repairing" /\ Monotonic(disk)

\* Lines without a gap are in order.
LEMMA GaplessIsMonotonic ==
  ASSUME NEW s \in Seq(Txn), Contiguous(s)
  PROVE  Monotonic(s)
<1>1. ASSUME NEW k \in 2..Len(s) PROVE s[k].first > s[k-1].last
  <2>1. s[k-1] \in Txn /\ s[k].first = s[k-1].last + 1
    BY DEF Contiguous
  <2> QED BY <2>1, TxnFields
<1> QED BY <1>1 DEF Monotonic

LEMMA KeptStep ==
  ASSUME IInv, Kept, [Next]_vars
  PROVE  Kept'
<1> USE DEF Kept, IInv, Types
<1>1. CASE Open
  <2>1. CASE UNCHANGED <<disk, rewrite>> /\ phase # "repairing" /\ phase' # "repairing"
    BY <1>1, <2>1 DEF Open, memory, bounds
  <2>2. CASE rewrite' \in Repairs(disk) /\ phase' = "repairing" /\ ~Monotonic(disk)
    <3>1. Lines(rewrite') = Lines(disk)
      BY <2>2, RepairType
    <3> QED BY <1>1, <2>2, <3>1 DEF Open, memory, bounds
  <2> QED BY <1>1, <2>1, <2>2 DEF Open
<1>2. CASE Rewrite
  BY <1>2 DEF Rewrite, bounds
<1>3. CASE Clear
  <2>1. Monotonic(<<>>)
    BY DEF Monotonic
  <2> QED BY <1>3, <2>1 DEF Clear, memory, bounds
<1>4. ASSUME NEW t \in Txn, AppendTransaction(t) PROVE Kept'
  BY <1>4 DEF AppendTransaction, CanAppend, bounds
<1>5. CASE FlushFails
  BY <1>5 DEF FlushFails, Due
<1>6. CASE Flush
  <2>1. CASE UNCHANGED <<disk, pending, next, status, durable>>
    BY <1>6, <2>1 DEF Flush, bounds
  <2>2. ASSUME NEW t \in Due, disk' = Write(t), durable' = durable \cup {t},
               status' = [status EXCEPT ![t] = "ok"], next' = t.last + 1
        PROVE  Kept'
    <3>1. t \in Txn /\ phase = "open" /\ Lines(disk') = Lines(disk) \cup {t}
      BY <1>6, <2>2, NextLine DEF Due, Flush, Numbering, Write
    <3>2. Monotonic(disk')
      <4>1. disk' \in Seq(Txn) /\ Contiguous(disk')
        BY <1>6, <2>2, <3>1, NextLine DEF Due, Flush, Write, Numbering, Sound
      <4> QED BY <4>1, GaplessIsMonotonic
    <3> QED BY <1>6, <2>2, <3>1, <3>2 DEF Flush, bounds
  <2> QED BY <1>6, <2>1, <2>2 DEF Flush
<1>7. CASE Crash
  <2>1. CASE phase = "repairing"
    BY <1>7, <2>1 DEF Crash, Interrupted
  <2>2. CASE phase # "repairing"
    BY <1>7, <2>2 DEF Crash
  <2> QED BY <2>1, <2>2
<1>8. CASE RewriteFails
  BY <1>8 DEF RewriteFails, Interrupted, memory
<1>9. CASE UNCHANGED vars
  BY <1>9 DEF vars, memory, bounds
<1> QED BY <1>1, <1>2, <1>3, <1>4, <1>5, <1>6, <1>7, <1>8, <1>9 DEF Next

\* No append that was acknowledged is ever lost, whatever fails, is repaired or set
\* aside, and wherever the process dies; a line that was found on disk only where
\* repairOutOfOrderTransactions was interrupted after it truncated the journal.
THEOREM Survival ==
  ASSUME Initially
  PROVE  Spec => []CommittedSurvives
<1>1. Init => Kept
  <2>1. SUFFICES ASSUME Init PROVE Kept
    OBVIOUS
  <2>2. disk \in Seq(Txn) /\ Lines(disk) \subseteq Txn
    BY <2>1 DEF Init, Initially, Lines
  <2> QED BY <2>1, <2>2 DEF Init, Kept
<1>2. IInv /\ Kept /\ [Next]_vars => Kept'
  BY KeptStep
<1>3. Kept => CommittedSurvives
  BY DEF Kept, CommittedSurvives
<1> QED BY <1>1, <1>2, <1>3, Invariant, PTL DEF Spec

-----------------------------------------------------------------------------
(* Versioned records.                                                       *)

USE DEF PCs, Outcomes, local, lockVars

\* Only the lock's owner is between the check and the release.
LockInv ==
  /\ \A p \in Client : pc[p] \in {"check", "publish", "sync"} => p \in active
  /\ \A p \in Client : pc[p] = "release" => owner = p
  /\ \A p \in active : owner = p /\ pc[p] \in {"check", "publish", "sync", "release"}
  /\ \A p \in gone : pc[p] = "dead"

\* What a process read is an earlier record, and versions tell records apart.
BaseInv ==
  \A p \in Client :
    /\ base[p].version <= file.version
    /\ base[p].version = file.version => base[p] = file
    /\ pc[p] = "publish" => base[p] = file

\* Each update is made by one process, which has not been answered until its
\* write is over; what is in the record was attempted.
UpdateInv ==
  /\ \A p, q \in Client : update[p] = update[q] /\ update[p] # None => p = q
  /\ \A p \in Client :
       /\ pc[p] \in {"lock", "check", "publish", "sync", "release"} => update[p] # None
       /\ pc[p] \in {"lock", "check", "publish"} => update[p] \notin file.value
       /\ pc[p] = "sync" => update[p] \in file.value
       /\ pc[p] \in {"idle", "release"} /\ update[p] # None => outcome[update[p]] # "none"
  /\ \A u \in file.value : outcome[u] # "none" \/ \E p \in Client : update[p] = u

ValueInv ==
  /\ IsFiniteSet(file.value)
  /\ VersionCountsUpdates
  /\ NoLostUpdate

\* Who was told of a conflict was answered before it wrote, and who may write has not
\* been answered.
ConflictInv ==
  /\ ConflictMeansUnwritten
  /\ \A p \in Client :
       pc[p] \in {"lock", "check", "publish", "sync"} => outcome[update[p]] = "none"

StateInv == StateTypeOK /\ LockInv /\ BaseInv /\ UpdateInv /\ ValueInv /\ ConflictInv

LEMMA StateInitially == StateInit => StateInv
<1> SUFFICES ASSUME StateInit PROVE StateInv
  OBVIOUS
<1>1. StateTypeOK
  BY DEF StateInit, StateTypeOK, LockInit, Content, Fresh
<1>2. LockInv /\ BaseInv /\ UpdateInv
  BY DEF StateInit, LockInit, Fresh, LockInv, BaseInv, UpdateInv
<1>3. ValueInv
  BY FS_EmptySet DEF StateInit, Fresh, ValueInv, VersionCountsUpdates,
         NoLostUpdate
<1>4. ConflictInv
  BY DEF StateInit, ConflictInv, ConflictMeansUnwritten
<1>5. QED
  BY <1>1, <1>2, <1>3, <1>4 DEF StateInv

LEMMA StateTypeStep ==
  ASSUME StateTypeOK, UpdateInv, [StateNext]_stateVars
  PROVE  StateTypeOK'
<1>1. CASE UNCHANGED stateVars
  BY <1>1 DEF stateVars, StateTypeOK
<1>2. CASE Reclaim
  BY <1>2 DEF Reclaim, Leave, StateTypeOK
<1>3. ASSUME NEW p \in Client, NEW u \in Update, NEW m \in Modes, Begin(p, u, m)
      PROVE  StateTypeOK'
  BY <1>3, ModesAssumption DEF Begin, Goto, StateTypeOK
<1>4. ASSUME NEW p \in Client,
             \/ Lock(p) \/ LockRefused(p) \/ PrepareFails(p) \/ Sync(p)
      PROVE  StateTypeOK'
  BY <1>4 DEF Lock, LockRefused, PrepareFails, Sync, Take,
         Goto, Told, StateTypeOK
<1>5. ASSUME NEW p \in Client, Check(p) PROVE StateTypeOK'
  BY <1>5 DEF Check, Goto, Told, StateTypeOK
<1>6. ASSUME NEW p \in Client, Publish(p) PROVE StateTypeOK'
  <2>1. update[p] \in Update
    BY <1>6 DEF UpdateInv, Publish, StateTypeOK
  <2>2. file' \in Content
    BY <1>6, <2>1 DEF Publish, StateTypeOK, Content
  <2>3. QED
    BY <1>6, <2>2 DEF Publish, Goto, StateTypeOK
<1>7. ASSUME NEW p \in Client,
             \/ Release(p) \/ Unlock(p) \/ Abandon(p) \/ Dies(p)
      PROVE  StateTypeOK'
  BY <1>7 DEF Release, Unlock, Abandon, Dies, CallRelease,
         Leave, Die, Goto, Told, StateTypeOK
<1>8. QED
  BY <1>1, <1>2, <1>3, <1>4, <1>5, <1>6, <1>7 DEF StateNext, Step

LEMMA LockStep ==
  ASSUME StateTypeOK, LockInv, [StateNext]_stateVars
  PROVE  LockInv'
<1>1. CASE UNCHANGED stateVars
  BY <1>1 DEF stateVars, LockInv
<1>2. CASE Reclaim
  BY <1>2 DEF Reclaim, Leave, StateTypeOK, LockInv
<1>3. ASSUME NEW p \in Client, NEW u \in Update, NEW m \in Modes, Begin(p, u, m)
      PROVE  LockInv'
  BY <1>3 DEF Begin, Goto, StateTypeOK, LockInv
<1>4. ASSUME NEW p \in Client, Lock(p) PROVE LockInv'
  BY <1>4, ClientAssumption DEF Lock, Take, Goto, StateTypeOK, LockInv
<1>5. ASSUME NEW p \in Client,
             \/ LockRefused(p) \/ PrepareFails(p) \/ Sync(p)
             \/ Check(p) \/ Publish(p)
      PROVE LockInv'
  BY <1>5 DEF LockRefused, PrepareFails, Sync, Check, Publish,
         Goto, StateTypeOK, LockInv
<1>6. ASSUME NEW p \in Client, Release(p) \/ Unlock(p) \/ Abandon(p)
      PROVE  LockInv'
  BY <1>6 DEF Release, Unlock, Abandon, CallRelease, Leave,
         Goto, StateTypeOK, LockInv
<1>7. ASSUME NEW p \in Client, Dies(p) PROVE LockInv'
  BY <1>7 DEF Dies, Die, Goto, StateTypeOK, LockInv
<1>8. QED
  BY <1>1, <1>2, <1>3, <1>4, <1>5, <1>6, <1>7 DEF StateNext, Step

\* Two processes that may both write are one.
LEMMA OneWriter ==
  ASSUME LockInv, NEW p \in Client, NEW q \in Client,
         pc[p] \in {"check", "publish", "sync"}, pc[q] \in {"check", "publish", "sync"}
  PROVE  p = q
BY DEF LockInv

LEMMA BaseStep ==
  ASSUME StateTypeOK, LockInv, BaseInv, UpdateInv, [StateNext]_stateVars
  PROVE  BaseInv'
<1>1. CASE UNCHANGED stateVars
  BY <1>1 DEF stateVars, BaseInv
<1>2. CASE Reclaim
  BY <1>2 DEF Reclaim, BaseInv
<1>3. ASSUME NEW p \in Client, NEW u \in Update, NEW m \in Modes, Begin(p, u, m)
      PROVE  BaseInv'
  BY <1>3 DEF Begin, Goto, StateTypeOK, Content, BaseInv
<1>4. ASSUME NEW p \in Client,
             \/ Lock(p) \/ LockRefused(p) \/ PrepareFails(p) \/ Sync(p)
             \/ Release(p) \/ Unlock(p)
             \/ Abandon(p) \/ Dies(p)
      PROVE BaseInv'
  BY <1>4 DEF Lock, LockRefused, PrepareFails, Sync, Release,
         Unlock, Abandon, Dies, Goto, StateTypeOK, BaseInv
<1>5. ASSUME NEW p \in Client, Check(p) PROVE BaseInv'
  BY <1>5 DEF Check, Goto, StateTypeOK, Content, BaseInv
<1>6. ASSUME NEW p \in Client, Publish(p) PROVE BaseInv'
  <2>1. base[p] = file /\ file'.version = file.version + 1 /\ file.version \in Nat
    BY <1>6 DEF Publish, BaseInv, StateTypeOK, Content
  <2>2. ASSUME NEW q \in Client PROVE base[q].version \in Nat /\ pc'[q] # "publish"
    <3>1. base[q].version \in Nat
      BY DEF StateTypeOK, Content
    <3>2. CASE q = p
      BY <3>1, <3>2, <1>6 DEF Publish, Goto, StateTypeOK
    <3>3. CASE q # p
      BY <3>1, <3>3, <1>6, OneWriter DEF Publish, Goto, StateTypeOK
    <3>4. QED
      BY <3>2, <3>3
  <2>3. QED
    BY <1>6, <2>1, <2>2 DEF Publish, BaseInv
<1>7. QED
  BY <1>1, <1>2, <1>3, <1>4, <1>5, <1>6 DEF StateNext, Step

LEMMA UpdateStep ==
  ASSUME StateTypeOK, LockInv, BaseInv, UpdateInv, NoLostUpdate,
         [StateNext]_stateVars
  PROVE  UpdateInv'
<1>1. CASE UNCHANGED stateVars
  BY <1>1 DEF stateVars, UpdateInv
<1>2. CASE Reclaim
  BY <1>2 DEF Reclaim, UpdateInv
<1>3. ASSUME NEW p \in Client, NEW u \in Update, NEW m \in Modes, Begin(p, u, m)
      PROVE  UpdateInv'
  <2>1. u \notin file.value /\ u # None
    BY <1>3, ClientAssumption DEF Begin, Unused, UpdateInv
  <2>2. /\ update'[p] = u
        /\ \A q \in Client \ {p} : update'[q] = update[q] /\ update[q] # u /\ pc'[q] = pc[q]
    BY <1>3 DEF Begin, Unused, Goto, StateTypeOK
  <2>3. pc'[p] = "lock" /\ file' = file /\ outcome' = outcome
    BY <1>3 DEF Begin, Goto, StateTypeOK
  <2>4. ASSUME NEW v \in file.value PROVE outcome[v] # "none" \/ \E q \in Client : update'[q] = v
    <3>1. CASE update[p] = v
      BY <3>1, <1>3, <2>2, ClientAssumption DEF UpdateInv, Begin, StateTypeOK, Content
    <3>2. CASE update[p] # v
      BY <3>2, <2>2 DEF UpdateInv
    <3>3. QED
      BY <3>1, <3>2
  <2>5. QED
    BY <2>1, <2>2, <2>3, <2>4 DEF UpdateInv
<1>4. ASSUME NEW p \in Client, Lock(p) PROVE UpdateInv'
  BY <1>4 DEF Lock, Goto, StateTypeOK, UpdateInv
<1>5. ASSUME NEW p \in Client,
             \/ LockRefused(p) \/ PrepareFails(p) \/ Sync(p) \/ Abandon(p)
      PROVE  UpdateInv'
  <2>1. \A u \in Update : outcome[u] # "none" => outcome'[u] # "none"
    BY <1>5 DEF LockRefused, PrepareFails, Sync, Abandon, Told,
           StateTypeOK
  <2>2. update[p] # None => outcome'[update[p]] # "none"
    BY <1>5 DEF LockRefused, PrepareFails, Sync, Abandon, Told,
           StateTypeOK
  <2>3. \A q \in Client : update[q] \in Update \cup {None}
    BY DEF StateTypeOK
  <2>4. file' = file /\ update' = update /\ \A q \in Client \ {p} : pc'[q] = pc[q]
    BY <1>5 DEF LockRefused, PrepareFails, Sync, Abandon, Goto,
           StateTypeOK
  <2>5. pc'[p] \in {"idle", "release"}
    BY <1>5 DEF LockRefused, PrepareFails, Sync, Abandon, Goto,
           StateTypeOK
  <2>6. update[p] # None
    BY <1>5 DEF LockRefused, PrepareFails, Sync, Abandon, UpdateInv
  <2>7. \A u \in file.value : u \in Update
    BY DEF StateTypeOK, Content
  <2>8. QED
    BY <2>1, <2>2, <2>3, <2>4, <2>5, <2>6, <2>7 DEF UpdateInv
<1>6. ASSUME NEW p \in Client, Check(p) PROVE UpdateInv'
  <2>1. \A u \in Update : outcome[u] # "none" => outcome'[u] # "none"
    BY <1>6 DEF Check, Told, StateTypeOK
  <2>2. \/ pc'[p] = "publish"
        \/ pc'[p] = "release" /\ (update[p] # None => outcome'[update[p]] # "none")
    BY <1>6 DEF Check, Told, Goto, StateTypeOK
  <2>3. \A q \in Client : update[q] \in Update \cup {None}
    BY DEF StateTypeOK
  <2>4. file' = file /\ update' = update /\ \A q \in Client \ {p} : pc'[q] = pc[q]
    BY <1>6 DEF Check, Goto, StateTypeOK
  <2>5. \A u \in file.value : u \in Update
    BY DEF StateTypeOK, Content
  <2>6. pc[p] = "check"
    BY <1>6 DEF Check
  <2>7. QED
    BY <2>1, <2>2, <2>3, <2>4, <2>5, <2>6 DEF UpdateInv
<1>7. ASSUME NEW p \in Client, Publish(p) PROVE UpdateInv'
  <2>1. file'.value = file.value \cup {update[p]}
    BY <1>7 DEF Publish, BaseInv
  <2>2. pc[p] = "publish" /\ pc'[p] = "sync" /\ update' = update /\ outcome' = outcome
    BY <1>7 DEF Publish, Goto, StateTypeOK
  <2>3. \A q \in Client \ {p} : update[q] # update[p] \/ update[q] = None
    BY <1>7 DEF Publish, Goto, StateTypeOK, UpdateInv
  <2>4. \A q \in Client \ {p} : pc'[q] = pc[q]
    BY <1>7 DEF Publish, Goto, StateTypeOK
  <2>5. QED
    BY <2>1, <2>2, <2>3, <2>4 DEF UpdateInv
<1>8. ASSUME NEW p \in Client, Release(p) \/ Unlock(p) \/ Dies(p)
      PROVE  UpdateInv'
  BY <1>8 DEF Release, Unlock, Dies, Goto, StateTypeOK, UpdateInv
<1>9. QED
  BY <1>1, <1>2, <1>3, <1>4, <1>5, <1>6, <1>7, <1>8 DEF StateNext, Step

\* A step changes the record only by publishing one more update.
LEMMA OneUpdate ==
  ASSUME StateTypeOK, BaseInv, UpdateInv, [StateNext]_stateVars
  PROVE  file' = file \/ \E u \in Update :
           /\ u \notin file.value
           /\ file' = [version |-> file.version + 1, value |-> file.value \cup {u}]
<1>1. ASSUME NEW p \in Client, Publish(p)
      PROVE  \E u \in Update :
               /\ u \notin file.value
               /\ file' = [version |-> file.version + 1, value |-> file.value \cup {u}]
  <2>1. update[p] \in Update /\ update[p] \notin file.value
    BY <1>1 DEF Publish, UpdateInv, StateTypeOK
  <2>2. base[p] = file
    BY <1>1 DEF Publish, BaseInv
  <2>3. QED
    BY <1>1, <2>1, <2>2 DEF Publish
<1>2. QED
  BY <1>1 DEF stateVars, StateNext, Step, Reclaim, Begin, Lock,
         LockRefused, Check, PrepareFails, Sync, Release,
         Unlock, Abandon, Dies

LEMMA ValueStep ==
  ASSUME StateTypeOK, BaseInv, UpdateInv, ValueInv, [StateNext]_stateVars
  PROVE  ValueInv'
<1>1. IsFiniteSet(file.value)' /\ VersionCountsUpdates'
  BY OneUpdate, FS_AddElement DEF ValueInv, VersionCountsUpdates
<1>2. ASSUME NEW u \in Update, outcome'[u] = "ok" PROVE u \in file'.value
  <2>1. CASE outcome[u] = "ok"
    BY <2>1, OneUpdate DEF ValueInv, NoLostUpdate
  <2>2. CASE outcome[u] # "ok"
    <3>1. PICK p \in Client : Sync(p)
      BY <1>2, <2>2 DEF stateVars, StateNext, Step, Reclaim, Begin,
             Lock, LockRefused, Check, PrepareFails, Publish,
             Release, Unlock, Abandon, Dies, Told, StateTypeOK
    <3>2. u = update[p]
      BY <1>2, <2>2, <3>1 DEF Sync, Told, StateTypeOK
    <3>3. QED
      BY <3>1, <3>2 DEF Sync, UpdateInv
  <2>3. QED
    BY <2>1, <2>2
<1>3. QED
  BY <1>1, <1>2 DEF ValueInv, NoLostUpdate

LEMMA ConflictStep ==
  ASSUME StateTypeOK, LockInv, BaseInv, UpdateInv, ConflictInv, [StateNext]_stateVars
  PROVE  ConflictInv'
<1> USE DEF ConflictInv, ConflictMeansUnwritten
<1>1. CASE UNCHANGED stateVars
  BY <1>1 DEF stateVars
<1>2. CASE Reclaim
  BY <1>2 DEF Reclaim
<1>3. ASSUME NEW p \in Client, NEW u \in Update, NEW m \in Modes, Begin(p, u, m)
      PROVE  ConflictInv'
  BY <1>3 DEF Begin, Unused, Goto, StateTypeOK
<1>4. ASSUME NEW p \in Client, Lock(p) PROVE ConflictInv'
  BY <1>4 DEF Lock, Goto, StateTypeOK
\* The caller is answered and leaves the write; its update is nobody else's.
<1>5. ASSUME NEW p \in Client,
             \/ LockRefused(p) \/ PrepareFails(p) \/ Sync(p) \/ Abandon(p)
             \/ Check(p)
      PROVE  ConflictInv'
  <2>1. \E r \in Outcomes :
          /\ outcome' = outcome \/ outcome' = [outcome EXCEPT ![update[p]] = r]
          /\ r = "conflict" => pc[p] \in {"lock", "check"}
          /\ outcome' # outcome => pc'[p] \in {"idle", "release"}
    BY <1>5 DEF LockRefused, PrepareFails, Sync, Abandon, Check,
                Told, Goto, StateTypeOK
  <2>2. /\ file' = file /\ update' = update /\ \A q \in Client \ {p} : pc'[q] = pc[q]
        /\ pc[p] \in {"lock", "check", "publish", "sync", "release"}
        /\ pc'[p] = "publish" => pc[p] = "check"
        /\ pc'[p] \in {"idle", "release", "publish"}
    BY <1>5 DEF LockRefused, PrepareFails, Sync, Abandon, Check,
                Goto, StateTypeOK
  <2>3. update[p] \in Update /\ \A q \in Client \ {p} : update[q] # update[p]
    BY <2>2 DEF UpdateInv, StateTypeOK
  <2>4. pc[p] \in {"lock", "check"} => update[p] \notin file.value
    BY DEF UpdateInv
  <2>5. outcome \in [Update -> Outcomes]
    BY DEF StateTypeOK
  <2>6. CASE outcome' = outcome
    BY <2>2, <2>6
  <2>7. CASE outcome' # outcome
    <3>1. \A u \in Update : u # update[p] => outcome'[u] = outcome[u]
      BY <2>1, <2>5
    <3>2. outcome'[update[p]] = "conflict" => update[p] \notin file.value
      BY <2>1, <2>3, <2>4, <2>5, <2>7
    <3>3. \A u \in Update : outcome'[u] = "conflict" => u \notin file'.value
      BY <2>2, <3>1, <3>2
    <3>4. ASSUME NEW q \in Client, pc'[q] \in {"lock", "check", "publish", "sync"}
          PROVE  outcome'[update'[q]] = "none"
      <4>1. q # p
        BY <2>1, <2>7, <3>4
      <4>2. update[q] \in Update /\ outcome[update[q]] = "none"
        BY <2>2, <3>4, <4>1 DEF UpdateInv, StateTypeOK
      <4> QED BY <2>2, <2>3, <3>1, <4>1, <4>2
    <3> QED BY <3>3, <3>4
  <2> QED BY <2>6, <2>7
<1>6. ASSUME NEW p \in Client, Publish(p) PROVE ConflictInv'
  <2>1. file'.value = file.value \cup {update[p]} /\ outcome[update[p]] = "none"
    BY <1>6 DEF Publish, BaseInv
  <2>2. update' = update /\ outcome' = outcome /\ pc[p] = "publish"
        /\ \A q \in Client : pc'[q] # pc[q] => q = p
    BY <1>6 DEF Publish, Goto, StateTypeOK
  <2> QED BY <2>1, <2>2
<1>7. ASSUME NEW p \in Client, Release(p) \/ Unlock(p) \/ Dies(p)
      PROVE  ConflictInv'
  BY <1>7 DEF Release, Unlock, Dies, Goto, StateTypeOK
<1> QED BY <1>1, <1>2, <1>3, <1>4, <1>5, <1>6, <1>7 DEF StateNext, Step

LEMMA StateInvHolds == StateSpec => []StateInv
<1>1. StateInv /\ [StateNext]_stateVars => StateInv'
  BY StateTypeStep, LockStep, BaseStep, UpdateStep, ValueStep, ConflictStep DEF StateInv, ValueInv
<1>2. QED
  BY StateInitially, <1>1, PTL DEF StateSpec

\* Whoever was told ok finds its update in every later record, for any number
\* of processes that write, crash, and fail to release.
THEOREM NoUpdateIsLost == StateSpec => []NoLostUpdate
<1>1. StateInv => NoLostUpdate
  BY DEF StateInv, ValueInv
<1>2. QED
  BY <1>1, StateInvHolds, PTL

\* A caller that writeVersionedJson refused with version_conflict, at the lock or
\* at the comparison, has not written and never will have, whoever else writes.
THEOREM ConflictIsHarmless == StateSpec => []ConflictMeansUnwritten
<1>1. StateInv => ConflictMeansUnwritten
  BY DEF StateInv, ConflictInv
<1>2. QED
  BY <1>1, StateInvHolds, PTL

\* The version of a record is the number of updates in it.
THEOREM VersionsCount == StateSpec => []VersionCountsUpdates
<1>1. StateInv => VersionCountsUpdates
  BY DEF StateInv, ValueInv
<1>2. QED
  BY <1>1, StateInvHolds, PTL

\* Readers see an atomic register.
THEOREM Implementation == StateSpec => ImplementsVersionedRegister
<1>1. StateInit => Register!RegisterInit
  BY DEF StateInit, Fresh, Register!RegisterInit
<1>2. StateInv /\ [StateNext]_stateVars => [Register!RegisterNext]_file
  BY OneUpdate DEF StateInv, Register!RegisterNext, Register!Apply
<1>3. QED
  BY <1>1, <1>2, StateInvHolds, PTL DEF StateSpec, ImplementsVersionedRegister,
         Register!RegisterSpec
=============================================================================
