--------------------------- MODULE VersionedState ---------------------------
(***************************************************************************)
(* ProjectStore's versioned JSON records: writeVersionedJson (compare and   *)
(* swap on a version the caller read earlier) and mutateVersionedJson (read,*)
(* modify and write under the record's lock), both through atomicWrite.     *)
(* The lock is AdvisoryLock, which VersionedLock implements.                *)
(*                                                                         *)
(* A record's content is the set of updates that went into it.  A caller    *)
(* makes an update by adding it to the content it read.                     *)
(***************************************************************************)
EXTENDS AdvisoryLock, Naturals, FiniteSets

CONSTANTS
  Update,       \* updates, each attempted at most once
  Modes,        \* how callers write: "cas", "mutate"
  MaxDeaths     \* bound on process deaths

ASSUME ClientAssumption == IsFiniteSet(Client) /\ None \notin Client /\ None \notin Update
ASSUME ModesAssumption  == Modes \subseteq {"cas", "mutate"}
ASSUME DeathAssumption  == MaxDeaths \in Nat

VARIABLES
  file,     \* the record on disk
  pc,       \* where each process is in its write
  update,   \* the update it makes
  mode,     \* and how
  base,     \* the content that update was added to
  outcome   \* what each update's caller was told

local     == <<pc, update, mode, base>>
stateVars == <<file, local, outcome, lockVars>>

Content == [version : Nat, value : SUBSET Update]
Fresh   == [version |-> 0, value |-> {}]
PCs     == {"idle", "lock", "check", "publish", "sync", "release", "dead"}

Outcomes == {"none", "ok", "conflict", "error", "abandoned"}

StateTypeOK ==
  /\ file \in Content
  /\ pc \in [Client -> PCs]
  /\ update \in [Client -> Update \cup {None}]
  /\ mode \in [Client -> {"cas", "mutate"}]
  /\ base \in [Client -> Content]
  /\ outcome \in [Update -> Outcomes]
  /\ owner \in Client \cup {None}
  /\ active \in SUBSET Client
  /\ gone \in SUBSET Client

StateInit ==
  /\ file = Fresh
  /\ pc = [p \in Client |-> "idle"]
  /\ update = [p \in Client |-> None]
  /\ mode = [p \in Client |-> "cas"]
  /\ base = [p \in Client |-> Fresh]
  /\ outcome = [u \in Update |-> "none"]
  /\ LockInit /\ gone = {}

Goto(p, l) == pc' = [pc EXCEPT ![p] = l]

Told(p, r) == outcome' = [outcome EXCEPT ![update[p]] = r]

\* Nobody has attempted u yet.
Unused(u) == outcome[u] = "none" /\ \A p \in Client : update[p] # u

-----------------------------------------------------------------------------
\* The caller reads the record, without the lock, and builds its update on what
\* it found.  Any amount of time may pass before it calls writeVersionedJson
\* with the version it read; mutateVersionedJson reads again.
Begin(p, u, m) ==
  /\ pc[p] = "idle" /\ Unused(u)
  /\ update' = [update EXCEPT ![p] = u]
  /\ mode' = [mode EXCEPT ![p] = m]
  /\ base' = [base EXCEPT ![p] = file]
  /\ Goto(p, "lock")
  /\ UNCHANGED <<file, outcome, lockVars>>

Lock(p) ==
  /\ pc[p] = "lock"
  /\ Take(p)
  /\ Goto(p, "check")
  /\ UNCHANGED <<file, update, mode, base, outcome>>

\* The lock stays busy through every retry: version_conflict.
LockRefused(p) ==
  /\ pc[p] = "lock" /\ owner # None
  /\ Told(p, "conflict")
  /\ Goto(p, "idle")
  /\ UNCHANGED <<file, update, mode, base, lockVars>>

\* The check without its comparison.
BadCheck(p) ==
  /\ pc[p] = "check"
  /\ Goto(p, "publish")
  /\ UNCHANGED <<file, update, mode, base, outcome, lockVars>>

\* Under the lock: compare with the expected version, or read for the mutator.
Check(p) ==
  /\ pc[p] = "check"
  /\ \/ /\ mode[p] = "cas" /\ base[p].version # file.version
        /\ Told(p, "conflict") /\ Goto(p, "release") /\ UNCHANGED base
     \/ /\ mode[p] = "cas" /\ base[p].version = file.version
        /\ Goto(p, "publish") /\ UNCHANGED <<base, outcome>>
     \/ /\ mode[p] = "mutate"
        /\ base' = [base EXCEPT ![p] = file]
        /\ Goto(p, "publish") /\ UNCHANGED outcome
  /\ UNCHANGED <<file, update, mode, lockVars>>

\* The mutator throws, the byte limit refuses, or the temporary file cannot be
\* written: nothing reaches the record.
PrepareFails(p) ==
  /\ pc[p] = "publish"
  /\ Told(p, "error")
  /\ Goto(p, "release")
  /\ UNCHANGED <<file, update, mode, base, lockVars>>

\* The rename of a temporary file that was written and fsynced before.
Publish(p) ==
  /\ pc[p] = "publish"
  /\ file' = [version |-> base[p].version + 1, value |-> base[p].value \cup {update[p]}]
  /\ Goto(p, "sync")
  /\ UNCHANGED <<update, mode, base, outcome, lockVars>>

\* A failed directory sync is reported as a conflict.
BadSync(p) ==
  /\ pc[p] = "sync"
  /\ \E r \in {"ok", "conflict"} : Told(p, r)
  /\ Goto(p, "release")
  /\ UNCHANGED <<file, update, mode, base, lockVars>>

\* The directory is synced, or not: then the caller sees an error although the
\* record has been replaced.
Sync(p) ==
  /\ pc[p] = "sync"
  /\ \E r \in {"ok", "error"} : Told(p, r)
  /\ Goto(p, "release")
  /\ UNCHANGED <<file, update, mode, base, lockVars>>

\* The lock file goes before release returns.
Release(p) ==
  /\ pc[p] = "release" /\ p \in active
  /\ CallRelease(p)
  /\ UNCHANGED <<file, local, outcome>>

Unlock(p) ==
  /\ pc[p] = "release" /\ p \notin active
  /\ owner = p /\ Leave
  /\ Goto(p, "idle")
  /\ UNCHANGED <<file, update, mode, base, outcome>>

\* The release frame gives up on a busy coordination directory and throws out of
\* the finally block, whatever the write had come to; the lock file stays.  The
\* code calls this version_conflict too.
Abandon(p) ==
  /\ pc[p] = "release" /\ p \notin active
  /\ Told(p, "abandoned")
  /\ Goto(p, "idle")
  /\ UNCHANGED <<file, update, mode, base, lockVars>>

\* A process dies; a contender reclaims its lock.
Dies(p) ==
  /\ Cardinality(gone) < MaxDeaths
  /\ Die(p)
  /\ Goto(p, "dead")
  /\ UNCHANGED <<file, update, mode, base, outcome>>

Reclaim ==
  /\ owner \in gone /\ Leave
  /\ UNCHANGED <<file, local, outcome>>

Step(p) ==
  \/ \E u \in Update, m \in Modes : Begin(p, u, m)
  \/ Lock(p) \/ LockRefused(p) \/ Check(p) \/ PrepareFails(p) \/ Publish(p) \/ Sync(p)
  \/ Release(p) \/ Unlock(p) \/ Abandon(p) \/ Dies(p)

StateNext == Reclaim \/ \E p \in Client : Step(p)

StateSpec == StateInit /\ [][StateNext]_stateVars

-----------------------------------------------------------------------------
\* A caller that was told ok finds its update in every later record: no writer
\* builds on a stale read (mutateVersionedJson reads under the lock,
\* writeVersionedJson compares versions under it).
NoLostUpdate == \A u \in Update : outcome[u] = "ok" => u \in file.value

\* One version per update: the version counts the updates the record contains,
\* so no update overwrote another and none was applied twice.
VersionCountsUpdates == file.version = Cardinality(file.value)

\* A caller whose acquisition or comparison was refused with version_conflict has
\* not written, so it may try again.  The version_conflict of a release that
\* gives up says nothing of the kind.
ConflictMeansUnwritten ==
  \A u \in Update : outcome[u] = "conflict" => u \notin file.value

\* Seen by readers, who take no lock, the record is a register whose updates
\* are atomic: atomicWrite publishes with one rename.
Register == INSTANCE VersionedRegister WITH register <- file

ImplementsVersionedRegister == Register!RegisterSpec
=============================================================================
