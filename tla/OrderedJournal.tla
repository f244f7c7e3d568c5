--------------------------- MODULE OrderedJournal ---------------------------
(***************************************************************************)
(* A session's JSONL journal (src/project-store/filesystem-store.ts): the   *)
(* runtime numbers its transactions, and its callbacks reach the file in    *)
(* any order; ProjectStoreFileSystem keeps the committed prefix contiguous. *)
(* Opening repairs a journal an older runtime wrote out of order, and an    *)
(* operator may set an ambiguous one aside (project-store.ts).              *)
(*                                                                         *)
(* A transaction is the interval of sequence numbers it carries and the     *)
(* continuation (life) it belongs to.  Appending is synchronous: while      *)
(* flushing nothing else happens in the process, but it may die.  A write   *)
(* that fails leaves whole lines behind, the repair's after it truncated    *)
(* the file: torn records are left out.                                     *)
(***************************************************************************)
EXTENDS Naturals, Sequences

CONSTANTS
  Intervals,     \* [first, last] of every transaction
  Issued,        \* of those this runtime issues; others are found on disk
  InitialDisks,  \* journals found on disk
  MaxFaults,     \* bound on failed writes
  MaxCrashes     \* bound on process deaths

ASSUME IntervalsAssumption ==
  \A i \in Intervals : i.first \in Nat /\ i.last \in Nat /\ i.first <= i.last
ASSUME IssuedAssumption == Issued \subseteq Intervals
ASSUME BoundAssumption == MaxFaults \in Nat /\ MaxCrashes \in Nat

Txn == {[first |-> i.first, last |-> i.last, life |-> n] : i \in Intervals, n \in {0, 1}}

VARIABLES
  disk,      \* the journal, oldest line first
  archive,   \* transactions of a journal set aside for the operator
  phase,     \* "closed", "repairing", "open", "ambiguous", "corrupt"
  rewrite,   \* what a repair is about to write
  life,      \* the continuation the runtime writes
  next,      \* nextSequence, 0 while the path has no OrderedAppendState
  pending,   \* transactions whose turn has not come
  flushing,  \* flushTransactions is in its loop
  status,    \* what the caller of each append knows, "found" if there was none
  durable,   \* history: every transaction that was ever on disk
  lost,      \* history: transactions an interrupted repair did not write again
  faults, crashes

vars == <<disk, archive, phase, rewrite, life, next, pending, flushing, status,
          durable, lost, faults, crashes>>

memory == <<next, pending, flushing, status>>
bounds == <<lost, faults, crashes>>

Lines(s) == {s[k] : k \in 1..Len(s)}

Statuses == {"new", "found", "waiting", "ok", "error"}
Phases   == {"closed", "repairing", "open", "ambiguous", "corrupt"}

\* What every variable holds; a transaction waits only for its turn to come.
TypeOK ==
  /\ disk \in Seq(Txn) /\ rewrite \in Seq(Txn)
  /\ archive \subseteq Txn /\ durable \subseteq Txn /\ lost \subseteq Txn
  /\ pending \subseteq {t \in Txn : t.first >= next}
  /\ phase \in Phases /\ life \in {0, 1} /\ next \in Nat /\ flushing \in BOOLEAN
  /\ status \in [Txn -> Statuses]
  /\ faults \in 0..MaxFaults /\ crashes \in 0..MaxCrashes

Init ==
  /\ disk \in InitialDisks
  /\ archive = {} /\ phase = "closed" /\ rewrite = <<>> /\ life = 0
  /\ next = 0 /\ pending = {} /\ flushing = FALSE
  /\ status = [t \in Txn |-> IF t \in Lines(disk) THEN "found" ELSE "new"]
  /\ durable = Lines(disk)
  /\ lost = {} /\ faults = 0 /\ crashes = 0

-----------------------------------------------------------------------------
(* Opening a journal.                                                       *)

\* What JsonlSessionRepo.open accepts (external): line after line continues
\* the sequence.
Monotonic(s) == \A k \in 2..Len(s) : s[k].first > s[k-1].last

Overlapping(s) ==
  \E j, k \in 1..Len(s) : j # k /\ s[j].first <= s[k].first /\ s[k].first <= s[j].last

Contiguous(s) == \A k \in 2..Len(s) : s[k].first = s[k-1].last + 1

\* The same lines by their first sequence number, each starting where the one
\* before it ended: at most one order.
Repairs(s) == {r \in [1..Len(s) -> Lines(s)] : Lines(r) = Lines(s) /\ Contiguous(r)}

\* lastCommittedSequence.
LastCommitted(s) == IF s = <<>> THEN 0 ELSE s[Len(s)].last

Open ==
  /\ phase = "closed"
  /\ \/ /\ Monotonic(disk)
        /\ phase' = "open"
        /\ UNCHANGED <<disk, rewrite>>
     \* repairOutOfOrderTransactions: the file is truncated ...
     \/ /\ ~Monotonic(disk)
        /\ rewrite' \in Repairs(disk)
        /\ disk' = <<>>
        /\ phase' = "repairing"
     \/ /\ ~Monotonic(disk) /\ Repairs(disk) = {}
        /\ phase' = IF Overlapping(disk) THEN "ambiguous" ELSE "corrupt"
        /\ UNCHANGED <<disk, rewrite>>
  /\ UNCHANGED <<archive, life, memory, durable, bounds>>

\* The header is taken off twice.
BadRewrite ==
  /\ phase = "repairing"
  /\ disk' = Tail(rewrite)
  /\ next' = LastCommitted(rewrite) + 1
  /\ pending' = {}
  /\ phase' = "open"
  /\ rewrite' = <<>>
  /\ UNCHANGED <<archive, life, flushing, status, durable, bounds>>

\* ... and written again, and the append state starts after the last line.
Rewrite ==
  /\ phase = "repairing"
  /\ disk' = rewrite
  /\ next' = LastCommitted(rewrite) + 1
  /\ pending' = {}
  /\ phase' = "open"
  /\ rewrite' = <<>>
  /\ UNCHANGED <<archive, life, flushing, status, durable, bounds>>

\* What is on disk when the repair stops after it truncated the file: the lines
\* written so far.  The rest is nowhere else.
Interrupted ==
  /\ disk' \in {SubSeq(rewrite, 1, k) : k \in 0..Len(rewrite)}
  /\ lost' = lost \cup (Lines(rewrite) \ Lines(disk'))

\* writeSecureFile fails after ftruncate (a full disk): repairOutOfOrderTransactions
\* throws, the opening fails, and the process lives and may open the journal again.
RewriteFails ==
  /\ phase = "repairing" /\ faults < MaxFaults
  /\ Interrupted
  /\ phase' = "closed"
  /\ rewrite' = <<>>
  /\ faults' = faults + 1
  /\ UNCHANGED <<archive, life, memory, durable, crashes>>

\* clearAmbiguousSession: the operator asks for a fresh continuation; the
\* journal is renamed into scratch/recovery as it is.
Clear ==
  /\ phase = "ambiguous"
  /\ archive' = archive \cup Lines(disk)
  /\ disk' = <<>>
  /\ phase' = "open"
  /\ life' = 1
  /\ UNCHANGED <<rewrite, memory, durable, bounds>>

-----------------------------------------------------------------------------
(* Appending.                                                               *)

\* The path gets its state with its first append.
NextSequence == IF next = 0 THEN LastCommitted(disk) + 1 ELSE next

CanAppend(t) ==
  /\ phase = "open" /\ ~flushing
  /\ t.life = life /\ [first |-> t.first, last |-> t.last] \in Issued

\* appendTransaction: refused when its sequence is committed or pending.
AppendTransaction(t) ==
  /\ CanAppend(t)
  /\ next' = NextSequence
  /\ IF t.first < NextSequence \/ \E u \in pending : u.first = t.first
     THEN UNCHANGED <<pending, status, flushing>>
     ELSE /\ pending' = pending \cup {t}
          /\ status' = [status EXCEPT ![t] = "waiting"]
          /\ flushing' = TRUE
  /\ UNCHANGED <<disk, archive, phase, rewrite, life, durable, bounds>>

Due == {t \in pending : t.first = next}

\* A failed write advances the sequence all the same.
BadFlushFails ==
  /\ flushing /\ faults < MaxFaults
  /\ \E t \in Due :
       /\ pending' = pending \ {t}
       /\ next' = t.last + 1
       /\ status' = [status EXCEPT ![t] = "error"]
  /\ flushing' = FALSE
  /\ faults' = faults + 1
  /\ UNCHANGED <<disk, archive, phase, rewrite, life, durable, lost, crashes>>

\* A failed write settles its caller with the error and ends the loop.
FlushFails ==
  /\ flushing /\ faults < MaxFaults
  /\ \E t \in Due :
       /\ pending' = pending \ {t}
       /\ status' = [status EXCEPT ![t] = "error"]
  /\ flushing' = FALSE
  /\ faults' = faults + 1
  /\ UNCHANGED <<disk, archive, phase, rewrite, life, next, durable, lost, crashes>>

\* writeSecureFile with append.
Write(t) == Append(disk, t)

\* Only the transaction that was just appended is written.
BadFlush ==
  /\ flushing
  /\ \/ /\ Due = {}
        /\ flushing' = FALSE
        /\ UNCHANGED <<disk, pending, next, status, durable>>
     \/ \E t \in Due :
          /\ disk' = Write(t)
          /\ durable' = durable \cup {t}
          /\ pending' = pending \ {t}
          /\ next' = t.last + 1
          /\ status' = [status EXCEPT ![t] = "ok"]
          /\ flushing' = FALSE
  /\ UNCHANGED <<archive, phase, rewrite, life, bounds>>

\* flushTransactions writes pending transactions while the next one is there.
Flush ==
  /\ flushing
  /\ \/ /\ Due = {}
        /\ flushing' = FALSE
        /\ UNCHANGED <<disk, pending, next, status, durable>>
     \/ \E t \in Due :
          /\ disk' = Write(t)
          /\ durable' = durable \cup {t}
          /\ pending' = pending \ {t}
          /\ next' = t.last + 1
          /\ status' = [status EXCEPT ![t] = "ok"]
          /\ UNCHANGED flushing
  /\ UNCHANGED <<archive, phase, rewrite, life, bounds>>

\* The process dies.  Its successor reads the journal and numbers its
\* transactions after the last line, so unwritten ones are issued again.
Crash ==
  /\ crashes < MaxCrashes
  /\ crashes' = crashes + 1
  /\ IF phase = "repairing" THEN Interrupted ELSE UNCHANGED <<disk, lost>>
  /\ phase' = "closed" /\ rewrite' = <<>>
  /\ next' = 0 /\ pending' = {} /\ flushing' = FALSE
  /\ status' = [t \in Txn |-> IF status[t] \in {"found", "ok"} THEN status[t] ELSE "new"]
  /\ UNCHANGED <<archive, life, durable, faults>>

Next ==
  \/ Open \/ Rewrite \/ RewriteFails \/ Clear
  \/ \E t \in Txn : AppendTransaction(t)
  \/ FlushFails \/ Flush
  \/ Crash

Spec == Init /\ [][Next]_vars

-----------------------------------------------------------------------------
\* Whatever order the callbacks come in and whichever writes fail, an open
\* journal can be opened again: its lines continue the sequence without gap or
\* overlap ("Keep each journal's committed prefix monotonic").
OpenJournalIsContiguous == phase = "open" => Contiguous(disk)

\* An append that was acknowledged is in the journal or in the one set aside for the
\* operator, whatever fails or dies and wherever.  So is every line that was found on
\* disk, unless a repair truncated the journal and was interrupted, by a death or by
\* a failed write: then the lines it had not written again are gone.
CommittedSurvives ==
  /\ \A t \in Txn : status[t] = "ok" => t \in Lines(disk) \cup archive
  /\ phase # "repairing" => durable \subseteq Lines(disk) \cup archive \cup lost

\* The committed journal only grows, except when the operator sets it aside.
JournalOnlyGrows ==
  [][phase = "open" /\ phase' = "open" =>
       Len(disk') >= Len(disk) /\ SubSeq(disk', 1, Len(disk)) = disk]_vars

\* The runtime reopens its journal and hands over every transaction it numbered;
\* the flush loop runs to its end.
FairSpec ==
  /\ Spec
  /\ WF_vars(Open) /\ WF_vars(Rewrite \/ RewriteFails) /\ WF_vars(Flush)
  /\ \A t \in Txn : WF_vars(AppendTransaction(t) /\ status[t] = "new")

\* While writes succeed no append waits for ever behind a gap: its callback is
\* settled once those before it are written, whatever order they came in.
EveryAppendSettles ==
  \A t \in Txn : status[t] = "waiting" ~> status[t] # "waiting" \/ faults > 0 \/ lost # {}
=============================================================================
