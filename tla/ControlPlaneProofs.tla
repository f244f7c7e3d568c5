------------------------- MODULE ControlPlaneProofs -------------------------
(***************************************************************************)
(* Proofs about ControlPlane: for any children, calls, admission slots and  *)
(* any bounds, whatever interleaving of calls, fronts and deaths.           *)
(***************************************************************************)
EXTENDS ControlPlane, FiniteSetTheorems, TLAPS

-----------------------------------------------------------------------------
(* The inductive invariant.                                                 *)

\* The points where a call may still save the copy it has of its run; of these, the
\* points of an execution; the points of a series.
ViewPoints   == {"gate", "stop", "limits", "executing", "persist", "settle", "caught", "fail",
                 "asking", "publishing"}
ExecPoints   == {"executing", "persist", "settle", "caught", "fail"}
SeriesPoints == {"series", "index", "result", "done"}

\* A copy that nobody has saved over is the record.
CopiesAreCurrent(f, d) ==
  /\ f.pc \in ViewPoints \cup {"index"} => d[f.run].status # "absent"
  /\ f.pc \in ViewPoints /\ f.fresh => f.view = d[f.run]
  /\ f.current => f.top = d[Root]

\* A call works on children within a series only, and on the root outside of one only; a
\* series was not cancelled when its copy of the root was read.
SeriesOfTheRoot(f) ==
  /\ f.current => f.series
  /\ f.pc \in SeriesPoints => f.series
  /\ f.series => ~f.top.cancelRequested
  /\ f.series /\ f.pc \in ViewPoints \cup {"index"} => f.run \in Child
  /\ f.pc = "index" => f.top.remaining > 0

\* Who is past the gate read no turn in flight; who executes has the lease, unless its run is
\* among the misreported ones m; who settles has read that it has.
TurnIsHeld(c, f, d, m) ==
  /\ f.pc \in {"stop", "limits"} => ~f.view.inFlight
  /\ f.pc \in ExecPoints => f.run \in m \/ (d[f.run].inFlight /\ d[f.run].lease = c)
  /\ f.pc \in {"persist", "settle"} => f.outcome \in {"approved", "decomposition"}
  /\ f.pc = "settle" => f.view.lease = c

FrameOK(c, f, d, m) ==
  f \in Frame /\ CopiesAreCurrent(f, d) /\ SeriesOfTheRoot(f) /\ TurnIsHeld(c, f, d, m)

FramesInv == \A c \in Call : FrameOK(c, frame[c], disk, misreported)

\* Records: the root has one, those of nobody are blank, a cancelled run is not complete, and
\* only the root has specs left; where retries have a ceiling, no record counts more.
DiskInv ==
  /\ disk \in [Run -> Record] /\ disk[Root].status # "absent"
  /\ \A r \in Run : disk[r].status = "absent" => disk[r] = Absent
  /\ \A r \in Run : disk[r].cancelRequested => disk[r].status # "complete"
  /\ \A r \in Child : disk[r].remaining = 0
  /\ MaxAttempts > 0 => \A r \in Run : disk[r].attempts <= MaxAttempts

\* Children and specs left are not more than were accepted.
SpecsInv ==
  /\ authorised \in Nat /\ IsFiniteSet(disk[Root].children)
  /\ Cardinality(disk[Root].children) + disk[Root].remaining <= authorised

\* A run that waits for a retry waits once, in the timers or in the queue, and its record
\* counts that retry already.
RetryInv ==
  /\ timers \subseteq Run /\ ready \in Seq(Run) /\ Len(ready) <= MaxQueued
  /\ admitted \in [Run -> Nat]
  /\ \A r \in Run : admitted[r] <= disk[r].attempts
  /\ \A r \in timers : disk[r].status # "absent" /\ admitted[r] < disk[r].attempts
  /\ \A i \in 1..Len(ready) :
       /\ disk[ready[i]].status # "absent" /\ admitted[ready[i]] < disk[ready[i]].attempts
       /\ ready[i] \notin timers
       /\ \A j \in 1..Len(ready) : ready[i] = ready[j] => i = j

\* Every decision that waits was asked for by a front or at the end of a launched turn; while
\* a run has a lease, its turn may still ask for one.
PendingInv ==
  /\ acts \in 0..MaxActs /\ turns \in 0..MaxTurns /\ crashes \in 0..MaxCrashes
  /\ \A r \in Run : /\ disk[r].pending <= acts + turns
                    /\ disk[r].lease # None => disk[r].pending < acts + turns

GivenInv == mode \in {"auto", "manual"} /\ host \subseteq Caller /\ sessionLimits \in BOOLEAN

IInv ==
  /\ frame \in [Call -> Frame] /\ FramesInv /\ misreported \subseteq Run
  /\ DiskInv /\ SpecsInv /\ RetryInv /\ PendingInv /\ GivenInv

-----------------------------------------------------------------------------
(* What any step does to records and calls.                                 *)

\* A settlement that lands and throws is remembered.
Remembers == misreported \subseteq misreported'

\* A decision is asked for by a front, or by a save that takes the lease back.
Pends(r, rec) ==
  \/ rec.pending \in {disk[r].pending, disk[r].pending - 1}
  \/ acts' > acts /\ turns' = turns /\ rec.pending = disk[r].pending + 1
  \/ disk[r].lease # None /\ rec.lease = None /\ rec.pending = disk[r].pending + 1

\* A lease is new only with a turn.
Leases(rec, old) == rec.lease # None => old.lease # None \/ turns' > turns

\* At most one more retry is counted, within the ceiling.
Counts(rec, old) ==
  \/ rec.attempts = old.attempts
  \/ rec.attempts = old.attempts + 1 /\ (MaxAttempts = 0 \/ old.attempts < MaxAttempts)

\* What a save of r by c, or by a front, may write.
RecordOK(c, r, rec) ==
  /\ rec \in Record /\ rec.status # "absent"
  /\ disk[r].cancelRequested => rec.cancelRequested
  /\ rec.cancelRequested => rec.status # "complete"
  /\ Counts(rec, disk[r]) /\ Leases(rec, disk[r])
  /\ r \in Child => rec.remaining = 0
  /\ r = Root => /\ disk[Root].children \subseteq rec.children /\ IsFiniteSet(rec.children)
                 /\ Cardinality(rec.children) + rec.remaining <= authorised'
  /\ \/ ~disk[r].inFlight \/ disk[r].lease = c \/ r \in misreported'
     \/ rec.inFlight /\ rec.lease = disk[r].lease
  /\ Pends(r, rec)

\* One call goes on, with a save or without, a front saves, or calls end.
Goes(c, f) == Continue(c, f) /\ FrameOK(c, f, disk, misreported')

Saves(c, r, rec, f) ==
  /\ Write(c, r, rec, f) /\ RecordOK(c, r, rec)
  /\ FrameOK(c, f, [disk EXCEPT ![r] = rec], misreported')

FrontWrites(r, rec) ==
  /\ disk' = [disk EXCEPT ![r] = rec] /\ RecordOK(None, r, rec)
  /\ frame' = [d \in Call |-> Outdated(frame[d], r)]

CallsEnd ==
  /\ disk' = disk /\ frame' = [c \in Call |-> frame'[c]]
  /\ \A c \in Call : frame'[c] \in {frame[c], Idle}

Effect ==
  \/ \E c \in Call, f \in Frame : Goes(c, f)
  \/ \E c \in Call, r \in Run, rec \in Record, f \in Frame : Saves(c, r, rec, f)
  \/ \E r \in Run, rec \in Record : FrontWrites(r, rec)
  \/ CallsEnd

LEMMA AbsentType == Absent \in Record /\ Queued \in Record /\ Idle \in Frame
<1>1. 0 \in 0..MaxSpecs /\ 0 \in 0..(MaxActs + MaxTurns) /\ 0 \in Nat
  BY CountAssumption
<1>2. Absent \in Record
  BY <1>1 DEF Absent, Record, Status
<1>3. Queued \in Record
  BY <1>1 DEF Absent, Queued, Record, Status
<1>4. Idle \in Frame
  BY <1>2 DEF Idle, Frame, Points, Run
<1> QED BY <1>2, <1>3, <1>4

LEMMA IdleOK == ASSUME NEW c, NEW d, NEW m PROVE FrameOK(c, Idle, d, m)
BY AbsentType DEF FrameOK, CopiesAreCurrent, SeriesOfTheRoot, TurnIsHeld, Idle, ViewPoints,
                  ExecPoints, SeriesPoints

LEMMA OutdatedFacts ==
  ASSUME NEW f \in Frame, NEW r \in Run
  PROVE  LET g == Outdated(f, r) IN
         /\ g \in Frame /\ g.pc = f.pc /\ g.run = f.run /\ g.until = f.until
         /\ g.outcome = f.outcome /\ g.view = f.view /\ g.series = f.series /\ g.top = f.top
         /\ g.fresh => f.fresh /\ f.run # r
         /\ g.current => f.current /\ r # Root
BY DEF Outdated, Frame

\* Another call loses its copies of r, and keeps its turn.
LEMMA OthersKeepTheirs ==
  ASSUME NEW c \in Call, NEW f, FrameOK(c, f, disk, misreported'), NEW r \in Run, NEW rec \in Record,
         disk \in [Run -> Record], rec.status # "absent",
         f.pc \in ExecPoints /\ f.run = r =>
           r \in misreported' \/ (rec.inFlight /\ rec.lease = c)
  PROVE  FrameOK(c, Outdated(f, r), [disk EXCEPT ![r] = rec], misreported')
<1> DEFINE g == Outdated(f, r)
           d == [disk EXCEPT ![r] = rec]
<1>1. f \in Frame /\ f.run \in Run
  BY DEF FrameOK, Frame
<1>2. /\ g \in Frame /\ g.pc = f.pc /\ g.run = f.run /\ g.outcome = f.outcome /\ g.view = f.view
      /\ g.series = f.series /\ g.top = f.top
      /\ g.fresh => f.fresh /\ f.run # r
      /\ g.current => f.current /\ r # Root
  BY <1>1, OutdatedFacts
<1>3. d[r] = rec /\ \A q \in Run : q # r => d[q] = disk[q]
  OBVIOUS
<1>4. Root \in Run
  BY DEF Run
<1> HIDE DEF g, d
<1>5. CopiesAreCurrent(g, d)
  BY <1>1, <1>2, <1>3, <1>4 DEF FrameOK, CopiesAreCurrent
<1>6. SeriesOfTheRoot(g)
  BY <1>2 DEF FrameOK, SeriesOfTheRoot
<1>7. TurnIsHeld(c, g, d, misreported')
  BY <1>1, <1>2, <1>3 DEF FrameOK, TurnIsHeld
<1> QED BY <1>2, <1>5, <1>6, <1>7 DEF FrameOK, g, d

\* The invariant of a call outlives what is remembered besides.
LEMMA FramesRemember ==
  ASSUME FramesInv, Remembers, NEW c \in Call
  PROVE  FrameOK(c, frame[c], disk, misreported')
BY DEF FramesInv, FrameOK, TurnIsHeld, Remembers

\* Whoever executes a run other than the one that saves it has the lease that is kept.
LEMMA LeaseIsKept ==
  ASSUME FramesInv, Remembers, NEW c \in Call \cup {None}, NEW r \in Run, NEW rec, RecordOK(c, r, rec),
         NEW d \in Call, d # c, frame[d].pc \in ExecPoints, frame[d].run = r
  PROVE  r \in misreported' \/ (rec.inFlight /\ rec.lease = d)
BY FramesRemember DEF FrameOK, TurnIsHeld, RecordOK

LEMMA EffectKeepsFrames ==
  ASSUME FramesInv, Remembers, DiskInv, frame \in [Call -> Frame], Effect
  PROVE  FramesInv' /\ frame' \in [Call -> Frame]
<1> None \notin Call
  BY CallAssumption DEF Call
<1>1. ASSUME NEW c \in Call, NEW f \in Frame, Goes(c, f)
      PROVE  FramesInv' /\ frame' \in [Call -> Frame]
  <2>1. frame' = [frame EXCEPT ![c] = f] /\ disk' = disk /\ FrameOK(c, f, disk, misreported')
    BY <1>1 DEF Goes, Continue
  <2> QED BY <2>1, FramesRemember DEF FramesInv
<1>2. ASSUME NEW c \in Call, NEW r \in Run, NEW rec \in Record, NEW f \in Frame, Saves(c, r, rec, f)
      PROVE FramesInv' /\ frame' \in [Call -> Frame]
  <2>1. /\ disk' = [disk EXCEPT ![r] = rec]
        /\ frame' = [d \in Call |-> IF d = c THEN f ELSE Outdated(frame[d], r)]
    BY <1>2 DEF Saves, Write
  <2>2. FrameOK(c, frame'[c], disk', misreported')
    BY <1>2, <2>1 DEF Saves
  <2>3. ASSUME NEW d \in Call, d # c PROVE FrameOK(d, frame'[d], disk', misreported')
    <3>1. frame[d].pc \in ExecPoints /\ frame[d].run = r =>
            r \in misreported' \/ (rec.inFlight /\ rec.lease = d)
      BY <1>2, <2>3, LeaseIsKept DEF Saves
    <3>2. FrameOK(d, frame[d], disk, misreported') /\ rec.status # "absent"
      BY <1>2, FramesRemember DEF Saves, RecordOK
    <3>3. FrameOK(d, Outdated(frame[d], r), [disk EXCEPT ![r] = rec], misreported')
      BY <3>1, <3>2, OthersKeepTheirs DEF DiskInv
    <3> QED BY <2>1, <2>3, <3>3
  <2>4. FramesInv'
    BY <2>2, <2>3 DEF FramesInv
  <2> QED BY <2>1, <2>4 DEF FramesInv, FrameOK
<1>3. ASSUME NEW r \in Run, NEW rec \in Record, FrontWrites(r, rec)
      PROVE  FramesInv' /\ frame' \in [Call -> Frame]
  <2>1. disk' = [disk EXCEPT ![r] = rec] /\ frame' = [d \in Call |-> Outdated(frame[d], r)]
    BY <1>3 DEF FrontWrites
  <2>2. ASSUME NEW d \in Call PROVE FrameOK(d, frame'[d], disk', misreported')
    <3>1. frame[d].pc \in ExecPoints /\ frame[d].run = r =>
            r \in misreported' \/ (rec.inFlight /\ rec.lease = d)
      BY <1>3, LeaseIsKept DEF FrontWrites
    <3>2. FrameOK(d, frame[d], disk, misreported') /\ rec.status # "absent"
      BY <1>3, FramesRemember DEF FrontWrites, RecordOK
    <3>3. FrameOK(d, Outdated(frame[d], r), [disk EXCEPT ![r] = rec], misreported')
      BY <3>1, <3>2, OthersKeepTheirs DEF DiskInv
    <3> QED BY <2>1, <3>3
  <2>3. FramesInv'
    BY <2>2 DEF FramesInv
  <2> QED BY <2>1, <2>3 DEF FramesInv, FrameOK
<1>4. CASE CallsEnd
  <2>1. \A c \in Call : FrameOK(c, frame'[c], disk', misreported')
    BY <1>4, IdleOK, FramesRemember DEF CallsEnd
  <2> QED BY <1>4, <2>1 DEF CallsEnd, FramesInv, FrameOK
<1> QED BY <1>1, <1>2, <1>3, <1>4 DEF Effect

LEMMA EffectKeepsDisk ==
  ASSUME DiskInv, Effect
  PROVE  /\ DiskInv'
         /\ \A r \in Run : /\ disk[r].status # "absent" => disk'[r].status # "absent"
                           /\ disk[r].attempts <= disk'[r].attempts
                           /\ disk[r].cancelRequested => disk'[r].cancelRequested
<1>1. ASSUME NEW c, NEW r \in Run, NEW rec, RecordOK(c, r, rec), disk' = [disk EXCEPT ![r] = rec]
      PROVE  /\ DiskInv'
             /\ \A q \in Run : /\ disk[q].status # "absent" => disk'[q].status # "absent"
                               /\ disk[q].attempts <= disk'[q].attempts
                               /\ disk[q].cancelRequested => disk'[q].cancelRequested
  <2>1. disk'[r] = rec /\ \A q \in Run : q # r => disk'[q] = disk[q]
    BY <1>1 DEF DiskInv
  <2>2. \A q \in Run : disk[q].attempts \in Nat
    BY CountAssumption DEF DiskInv, Record
  <2>3. disk' \in [Run -> Record]
    BY <1>1 DEF DiskInv, RecordOK
  <2>4. Child \subseteq Run
    BY DEF Run
  <2>5. /\ disk[r].attempts <= rec.attempts
        /\ MaxAttempts > 0 => \A q \in Run : disk'[q].attempts <= MaxAttempts
    <3>1. rec.attempts \in Nat /\ MaxAttempts \in Nat /\ Counts(rec, disk[r])
      BY <1>1, CountAssumption DEF RecordOK, Record
    <3>2. MaxAttempts > 0 => disk[r].attempts <= MaxAttempts
      BY DEF DiskInv
    <3>3. disk[r].attempts <= rec.attempts /\ (MaxAttempts > 0 => rec.attempts <= MaxAttempts)
      BY <2>2, <3>1, <3>2 DEF Counts
    <3> QED BY <2>1, <3>3 DEF DiskInv
  <2> QED BY <1>1, <2>1, <2>2, <2>3, <2>4, <2>5 DEF DiskInv, RecordOK
<1>2. CASE disk' = disk
  <2>1. \A q \in Run : disk[q].attempts \in Nat
    BY CountAssumption DEF DiskInv, Record
  <2> QED BY <1>2, <2>1 DEF DiskInv
<1> QED BY <1>1, <1>2 DEF Effect, Goes, Continue, Saves, Write, FrontWrites, CallsEnd

LEMMA EffectKeepsSpecs ==
  ASSUME DiskInv, SpecsInv, Effect, authorised' \in Nat, authorised <= authorised'
  PROVE  SpecsInv' /\ disk[Root].children \subseteq disk'[Root].children
<1> Root \in Run /\ disk \in [Run -> Record]
  BY DEF Run, DiskInv
<1>1. ASSUME NEW c, NEW r \in Run, NEW rec, RecordOK(c, r, rec), disk' = [disk EXCEPT ![r] = rec]
      PROVE  SpecsInv' /\ disk[Root].children \subseteq disk'[Root].children
  <2>1. CASE r = Root
    BY <1>1, <2>1 DEF SpecsInv, RecordOK
  <2>2. CASE r # Root
    <3>1. disk'[Root] = disk[Root]
      BY <1>1, <2>2
    <3>2. Cardinality(disk[Root].children) \in Nat /\ disk[Root].remaining \in Nat
      BY FS_CardinalityType, CountAssumption DEF SpecsInv, Record
    <3> QED BY <3>1, <3>2 DEF SpecsInv
  <2> QED BY <2>1, <2>2
<1>2. CASE disk' = disk
  <2>1. Cardinality(disk[Root].children) \in Nat /\ disk[Root].remaining \in Nat
    BY FS_CardinalityType, CountAssumption DEF SpecsInv, Record
  <2> QED BY <1>2, <2>1 DEF SpecsInv
<1> QED BY <1>1, <1>2 DEF Effect, Goes, Continue, Saves, Write, FrontWrites, CallsEnd

-----------------------------------------------------------------------------
(* Saves of the run a call works on.                                        *)

\* What is known of the call that acts.
LEMMA Acting ==
  ASSUME FramesInv, Remembers, DiskInv, NEW c \in Call
  PROVE  /\ FrameOK(c, frame[c], disk, misreported') /\ frame[c] \in Frame
         /\ frame[c].run \in Run /\ frame[c].view \in Record /\ frame[c].top \in Record
         /\ disk[frame[c].run] \in Record /\ Root \in Run /\ disk[Root] \in Record
BY FramesRemember DEF FrameOK, Frame, DiskInv, Run

LEMMA ThrowGoes == ASSUME NEW c \in Call, Throw(c) PROVE Effect
BY AbsentType, IdleOK DEF Throw, Effect, Goes

\* Where a call stands after a save of rec: it has ended, or it goes on with its run.
Lands(c, f, rec) ==
  \/ f = Idle
  \/ /\ f \in Frame /\ f.pc \notin {"idle", "index"} /\ f.run = frame[c].run
     /\ f.series = frame[c].series /\ f.top = frame[c].top /\ f.current = frame[c].current
     /\ f.pc \in SeriesPoints => f.series
     /\ f.pc \in {"stop", "limits"} => ~rec.inFlight
     /\ f.pc \in ExecPoints =>
          \/ f.pc = "executing" /\ rec.inFlight /\ rec.lease = c
          \/ f.pc = "caught" /\ f.run \in misreported'

\* The specs of a run and its children are what they were.
SameTree(rec, old) ==
  rec.children = old.children /\ rec.remaining = old.remaining /\ Counts(rec, old)

LEMMA LandsOK ==
  ASSUME FramesInv, Remembers, DiskInv, NEW c \in Call, frame[c].pc \in ViewPoints, NEW rec \in Record,
         NEW f, Lands(c, f, rec), f # Idle, rec.status # "absent"
  PROVE  FrameOK(c, [f EXCEPT !.view = rec, !.fresh = TRUE], [disk EXCEPT ![frame[c].run] = rec], misreported')
<1> DEFINE g == [f EXCEPT !.view = rec, !.fresh = TRUE]
           d == [disk EXCEPT ![frame[c].run] = rec]
<1>1. f \in Frame /\ frame[c] \in Frame /\ frame[c].run \in Run /\ FrameOK(c, frame[c], disk, misreported')
  BY Acting DEF Lands
<1>2. /\ g \in Frame /\ g.pc = f.pc /\ g.run = f.run /\ g.outcome = f.outcome /\ g.view = rec
      /\ g.series = f.series /\ g.top = f.top /\ g.current = f.current
  BY <1>1 DEF Frame
<1>3. d[frame[c].run] = rec /\ \A q \in Run : q # frame[c].run => d[q] = disk[q]
  BY <1>1 DEF DiskInv
<1>4. Root \in Run /\ Root \notin Child
  BY CallAssumption DEF Run
<1> HIDE DEF g, d
<1>5. CopiesAreCurrent(g, d)
  <2>1. g.current => g.top = d[Root]
    BY <1>1, <1>2, <1>3, <1>4 DEF FrameOK, CopiesAreCurrent, SeriesOfTheRoot, Lands
  <2> QED BY <1>2, <1>3, <2>1 DEF CopiesAreCurrent, Lands
<1>6. SeriesOfTheRoot(g)
  BY <1>1, <1>2 DEF FrameOK, SeriesOfTheRoot, Lands
<1>7. TurnIsHeld(c, g, d, misreported')
  BY <1>1, <1>2, <1>3 DEF TurnIsHeld, Lands, ExecPoints
<1> QED BY <1>2, <1>5, <1>6, <1>7 DEF FrameOK, g, d

\* A save that may be made, by a call that lands.
LEMMA LandingEffect ==
  ASSUME FramesInv, Remembers, DiskInv, NEW c \in Call, frame[c].pc \in ViewPoints,
         NEW rec \in Record, NEW f, Saved(c, rec, f), Lands(c, f, rec),
         RecordOK(c, frame[c].run, rec)
  PROVE  Effect
<1> DEFINE r == frame[c].run
           g == IF f.pc = "idle" THEN f ELSE [f EXCEPT !.view = rec, !.fresh = TRUE]
<1>1. r \in Run /\ rec.status # "absent" /\ Write(c, r, rec, g)
  BY Acting DEF Saved, RecordOK
<1>2. FrameOK(c, g, [disk EXCEPT ![r] = rec], misreported')
  <2>1. CASE f = Idle
    BY <2>1, IdleOK DEF Idle
  <2>2. CASE f # Idle
    <3>1. f.pc # "idle"
      BY <2>2 DEF Lands
    <3> QED BY <1>1, <2>2, <3>1, LandsOK
  <2> QED BY <2>1, <2>2
<1>3. g \in Frame
  BY <1>2 DEF FrameOK
<1> HIDE DEF g
<1> QED BY <1>1, <1>2, <1>3 DEF Effect, Saves

LEMMA SaveEffect ==
  ASSUME FramesInv, Remembers, DiskInv, SpecsInv, authorised' = authorised, NEW c \in Call,
         frame[c].pc \in ViewPoints, NEW rec \in Record, NEW f, Saved(c, rec, f), Lands(c, f, rec),
         SameTree(rec, frame[c].view), rec.status # "absent",
         rec.cancelRequested = frame[c].view.cancelRequested,
         rec.cancelRequested => rec.status # "complete",
         \/ ~frame[c].view.inFlight \/ frame[c].view.lease = c \/ frame[c].run \in misreported'
         \/ rec.inFlight /\ rec.lease = frame[c].view.lease,
         Leases(rec, frame[c].view),
         \/ rec.pending = frame[c].view.pending
         \/ /\ frame[c].view.lease # None /\ rec.lease = None
            /\ rec.pending = frame[c].view.pending + 1
  PROVE  Effect
<1> DEFINE r == frame[c].run
<1>1. FrameOK(c, frame[c], disk, misreported') /\ r \in Run
  BY Acting
<1>2. frame[c].view = disk[r]
  BY <1>1 DEF FrameOK, CopiesAreCurrent, Saved, Fresh
<1>3. RecordOK(c, r, rec)
  <2>1. r \in Child => rec.remaining = 0
    BY <1>2 DEF DiskInv, SameTree
  <2>2. Counts(rec, disk[r]) /\ Leases(rec, disk[r])
    BY <1>2 DEF SameTree
  <2>3. r = Root => /\ disk[Root].children \subseteq rec.children /\ IsFiniteSet(rec.children)
                    /\ Cardinality(rec.children) + rec.remaining <= authorised'
    BY <1>2 DEF SpecsInv, SameTree
  <2>4. Pends(r, rec)
    BY <1>2 DEF Pends
  <2> QED BY <1>2, <2>1, <2>2, <2>3, <2>4 DEF RecordOK
<1> QED BY <1>3, LandingEffect

-----------------------------------------------------------------------------
(* The actions, one by one: resume up to the execution.                     *)

LEMMA ReturnGoes ==
  ASSUME FramesInv, Remembers, DiskInv, NEW c \in Call, NEW f \in Frame, Continue(c, Returned(f)),
         f.series => f.current = frame[c].current /\ f.top = frame[c].top /\ frame[c].series
  PROVE  Effect
<1>1. CASE ~f.series
  BY <1>1, ThrowGoes DEF Returned, Throw
<1>2. CASE f.series
  <2> DEFINE g == [f EXCEPT !.pc = "result"]
  <2>1. g \in Frame /\ g.pc = "result" /\ g.series /\ g.current = f.current /\ g.top = f.top
    BY <1>2 DEF Frame, Points
  <2>2. FrameOK(c, frame[c], disk, misreported') /\ frame[c] \in Frame
    BY Acting
  <2>3. Continue(c, g)
    BY <1>2 DEF Returned
  <2> HIDE DEF g
  <2>4. FrameOK(c, g, disk, misreported')
    BY <1>2, <2>1, <2>2 DEF FrameOK, CopiesAreCurrent, SeriesOfTheRoot, TurnIsHeld, ViewPoints,
                            ExecPoints, SeriesPoints
  <2> QED BY <2>1, <2>3, <2>4 DEF Effect, Goes, ExecPoints
<1> QED BY <1>1, <1>2

\* Where a call lands that returns from a save.
LEMMA ReturnLands ==
  ASSUME FramesInv, Remembers, DiskInv, NEW c \in Call, NEW rec
  PROVE  /\ Lands(c, IF frame[c].series THEN [frame[c] EXCEPT !.pc = "result"] ELSE Idle, rec)
         /\ Lands(c, Returned(frame[c]), rec)
         /\ Lands(c, Idle, rec)
<1>1. frame[c] \in Frame
  BY Acting
<1>2. ASSUME frame[c].series PROVE Lands(c, [frame[c] EXCEPT !.pc = "result"], rec)
  BY <1>1, <1>2 DEF Lands, Frame, Points, ViewPoints, ExecPoints, SeriesPoints
<1> QED BY <1>2 DEF Lands, Returned

\* A save that keeps the tree and the decisions, and takes no lease without a turn.
Resaves(rec, old) ==
  /\ rec \in Record /\ SameTree(rec, old) /\ Leases(rec, old) /\ rec.status # "absent"
  /\ rec.pending = old.pending
  /\ rec.cancelRequested = old.cancelRequested
  /\ rec.cancelRequested => rec.status # "complete"

LEMMA SaveOrThrowEffect ==
  ASSUME FramesInv, Remembers, DiskInv, SpecsInv, authorised' = authorised, NEW c \in Call,
         frame[c].pc \in ViewPoints, NEW rec, Resaves(rec, frame[c].view),
         \/ ~frame[c].view.inFlight \/ frame[c].view.lease = c \/ frame[c].run \in misreported'
         \/ rec.inFlight /\ rec.lease = frame[c].view.lease
  PROVE  /\ \A f : Lands(c, f, rec) /\ SaveOrThrow(c, rec, f) => Effect
         /\ SaveAndReturn(c, rec) => Effect
BY SaveEffect, ThrowGoes, ReturnLands DEF SaveOrThrow, SaveAndReturn, Resaves

\* The record with another status, and fields of no tree.
LEMMA Restatus ==
  ASSUME NEW old \in Record, NEW status \in Status \ {"absent"},
         old.cancelRequested => status # "complete"
  PROVE  /\ Resaves([old EXCEPT !.status = status], old)
         /\ [old EXCEPT !.status = status].inFlight = old.inFlight
         /\ [old EXCEPT !.status = status].lease = old.lease
BY DEF Resaves, SameTree, Counts, Leases, Record, Status

LEMMA GateReturnsEffect ==
  ASSUME FramesInv, Remembers, DiskInv, NEW c \in Call, GateReturns(c) PROVE Effect
BY Acting, ReturnGoes DEF GateReturns

LEMMA GateFacts ==
  ASSUME FramesInv, Remembers, DiskInv, NEW c \in Call, AtGate(c)
  PROVE  /\ frame[c].pc \in ViewPoints /\ ~frame[c].view.inFlight
         /\ frame[c].view \in Record /\ frame[c] \in Frame
         /\ frame[c].view.status # "absent" \/ ~Fresh(c)
BY Acting DEF AtGate, At, Settled, ViewPoints, FrameOK, CopiesAreCurrent, Fresh

LEMMA GateCancelsEffect ==
  ASSUME FramesInv, Remembers, DiskInv, SpecsInv, NEW c \in Call, GateCancels(c) PROVE Effect
<1>1. AtGate(c) /\ authorised' = authorised
      /\ SaveAndReturn(c, [frame[c].view EXCEPT !.status = "cancelled"])
  BY DEF GateCancels, count
<1> QED BY <1>1, GateFacts, Restatus, SaveOrThrowEffect DEF Status, Terminal

LEMMA GateBudgetEffect ==
  ASSUME FramesInv, Remembers, DiskInv, SpecsInv, NEW c \in Call, GateBudget(c) PROVE Effect
<1>1. AtGate(c) /\ authorised' = authorised
  BY DEF GateBudget, count
<1>2. CASE SaveAndReturn(c, [frame[c].view EXCEPT !.status = "awaiting_decision"])
  BY <1>1, <1>2, GateFacts, Restatus, SaveOrThrowEffect DEF Status
<1>3. CASE SaveOrThrow(c, [frame[c].view EXCEPT !.budget = "startable"], frame[c])
  <2> DEFINE rec == [frame[c].view EXCEPT !.budget = "startable"]
  <2>1. CASE ~Fresh(c)
    BY <1>3, <2>1, ThrowGoes DEF SaveOrThrow, Saved
  <2>2. CASE Fresh(c)
    <3>1. /\ rec \in Record /\ rec.status = frame[c].view.status /\ SameTree(rec, frame[c].view)
          /\ rec.cancelRequested = frame[c].view.cancelRequested /\ rec.inFlight = FALSE
          /\ rec.pending = frame[c].view.pending /\ Leases(rec, frame[c].view)
      BY <1>1, GateFacts DEF SameTree, Counts, Leases, Record
    <3>2. frame[c].view = disk[frame[c].run] /\ frame[c].run \in Run
      BY <1>1, <2>2, GateFacts, Acting DEF FrameOK, CopiesAreCurrent, Fresh
    <3>3. Resaves(rec, frame[c].view)
      BY <1>1, <2>2, <3>1, <3>2, GateFacts DEF Resaves, DiskInv
    <3>4. Lands(c, frame[c], rec)
      BY <1>1, <3>1, GateFacts DEF Lands, AtGate, At, ExecPoints, SeriesPoints
    <3> QED BY <1>1, <1>3, <3>3, <3>4, GateFacts, SaveOrThrowEffect
  <2> QED BY <2>1, <2>2
<1> QED BY <1>2, <1>3 DEF GateBudget

LEMMA GatePublishedEffect ==
  ASSUME FramesInv, Remembers, DiskInv, SpecsInv, NEW c \in Call, GatePublished(c) PROVE Effect
<1> DEFINE rec == [frame[c].view EXCEPT !.status = "complete", !.breakpoint = "none"]
<1>1. AtGate(c) /\ ~frame[c].view.cancelRequested /\ authorised' = authorised /\ SaveAndReturn(c, rec)
  BY DEF GatePublished, Startable, count
<1>3. ASSUME NEW old \in Record
      PROVE  LET new == [old EXCEPT !.status = "complete", !.breakpoint = "none"]
             IN  /\ new \in Record /\ new.status = "complete" /\ SameTree(new, old)
                 /\ new.cancelRequested = old.cancelRequested
                 /\ new.pending = old.pending /\ Leases(new, old)
  <2>1. [old EXCEPT !.status = "complete", !.breakpoint = "none"] \in Record
    BY DEF Record, Status, Terminal
  <2> QED BY <1>3, <2>1 DEF SameTree, Counts, Leases, Record
<1>4. /\ rec \in Record /\ rec.status = "complete" /\ SameTree(rec, frame[c].view)
      /\ rec.cancelRequested = frame[c].view.cancelRequested
      /\ rec.pending = frame[c].view.pending /\ Leases(rec, frame[c].view)
  BY <1>1, <1>3, GateFacts
<1> HIDE DEF rec
<1>5. Resaves(rec, frame[c].view)
  BY <1>1, <1>4 DEF Resaves
<1> QED BY <1>1, <1>5, GateFacts, SaveOrThrowEffect

LEMMA GateUntilEffect ==
  ASSUME FramesInv, Remembers, DiskInv, SpecsInv, NEW c \in Call, GateUntil(c) PROVE Effect
<1> DEFINE stop == frame[c].until = "stop"
           rec == [frame[c].view EXCEPT !.breakpoint = IF stop THEN "none" ELSE "publication"]
           f == [frame[c] EXCEPT !.pc = IF stop THEN "stop" ELSE "limits"]
<1>1. AtGate(c) /\ ~frame[c].view.cancelRequested /\ authorised' = authorised /\ SaveOrThrow(c, rec, f)
  BY DEF GateUntil, Startable, count
<1>2. CASE ~Fresh(c)
  BY <1>1, <1>2, ThrowGoes DEF SaveOrThrow, Saved
<1>3. CASE Fresh(c)
  <2>2. Resaves(rec, frame[c].view) /\ ~rec.inFlight
    BY <1>1, <1>3, GateFacts DEF Resaves, SameTree, Counts, Leases, Record
  <2>3. Lands(c, f, rec)
    <3>1. f \in Frame /\ f.pc \in {"stop", "limits"} /\ f.run = frame[c].run
          /\ f.series = frame[c].series /\ f.top = frame[c].top /\ f.current = frame[c].current
      BY <1>1, GateFacts DEF Frame, Points
    <3> QED BY <2>2, <3>1 DEF Lands, ExecPoints, SeriesPoints
  <2> QED BY <1>1, <2>2, <2>3, GateFacts, SaveOrThrowEffect
<1> QED BY <1>2, <1>3

\* Before the launch no turn was in flight.
LEMMA BeforeLaunchFacts ==
  ASSUME FramesInv, Remembers, DiskInv, NEW c \in Call, BeforeLaunch(c) \/ At(c, "stop")
  PROVE  /\ frame[c].pc \in {"gate", "stop", "limits"} /\ ~frame[c].view.inFlight
         /\ frame[c].view \in Record /\ frame[c] \in Frame
BY Acting, GateFacts DEF BeforeLaunch, Startable, AtGate, At, FrameOK, TurnIsHeld

LEMMA StopEffect ==
  ASSUME FramesInv, Remembers, DiskInv, SpecsInv, NEW c \in Call, Stop(c) \/ Limited(c) PROVE Effect
<1>1. /\ BeforeLaunch(c) \/ At(c, "stop")
      /\ authorised' = authorised /\ SaveAndReturn(c, [frame[c].view EXCEPT !.status = "paused"])
  BY DEF Stop, Limited, count
<1> QED BY <1>1, BeforeLaunchFacts, Restatus, SaveOrThrowEffect DEF Status, ViewPoints

LEMMA LaunchEffect ==
  ASSUME FramesInv, Remembers, DiskInv, SpecsInv, turns \in Nat, NEW c \in Call, Launch(c)
  PROVE  Effect
<1> DEFINE rec == [frame[c].view EXCEPT !.status = "running", !.inFlight = TRUE, !.lease = c]
           f == [frame[c] EXCEPT !.pc = "executing", !.until = "none"]
           told(record) == [frame[c] EXCEPT !.view = record]
<1>1. BeforeLaunch(c) /\ authorised' = authorised /\ frame[c] \in Frame
  BY BeforeLaunchFacts DEF Launch
<1>2. ASSUME NEW record \in Record
      PROVE  /\ told(record) \in Frame /\ told(record).run = frame[c].run
             /\ told(record).series = frame[c].series /\ told(record).top = frame[c].top
             /\ told(record).current = frame[c].current
  BY <1>1 DEF Frame
<1>3. ASSUME NEW g, Saved(c, rec, g), turns' = turns + 1,
             g = f \/ g = Idle \/ g = Returned(told(rec))
      PROVE  Effect
  <2>1. Resaves(rec, frame[c].view) /\ rec.inFlight /\ rec.lease = c
    <3> DEFINE old == frame[c].view
    <3>1. old \in Record
      BY <1>1, BeforeLaunchFacts
    <3>2. turns' > turns
      BY <1>3
    <3> HIDE DEF old
    <3>3. [old EXCEPT !.status = "running", !.inFlight = TRUE, !.lease = c] \in Record
      BY <3>1 DEF Record, Status
    <3>4. rec = [old EXCEPT !.status = "running", !.inFlight = TRUE, !.lease = c]
      BY DEF old
    <3>5. /\ SameTree(rec, old) /\ rec.status = "running" /\ rec.inFlight /\ rec.lease = c
          /\ rec.cancelRequested = old.cancelRequested /\ rec.pending = old.pending
      BY <3>1, <3>4 DEF Record, SameTree, Counts, old
    <3> HIDE DEF rec
    <3> QED BY <3>2, <3>3, <3>4, <3>5 DEF Resaves, Leases, old
  <2>2. Lands(c, f, rec)
    <3>1. f \in Frame /\ f.pc = "executing" /\ f.run = frame[c].run
          /\ f.series = frame[c].series /\ f.top = frame[c].top /\ f.current = frame[c].current
      BY <1>1 DEF Frame, Points
    <3> QED BY <2>1, <3>1 DEF Lands, SeriesPoints
  <2>3. rec \in Record
    BY <2>1 DEF Resaves
  <2> HIDE DEF rec, f
  <2>4. Lands(c, Returned(told(rec)), rec)
    <3> DEFINE h == told(rec)
    <3>1. /\ h \in Frame /\ h.run = frame[c].run /\ h.series = frame[c].series
          /\ h.top = frame[c].top /\ h.current = frame[c].current
      BY <1>2, <2>3
    <3> HIDE DEF h
    <3>2. h.series => Lands(c, Returned(h), rec)
      <4> SUFFICES ASSUME h.series PROVE Lands(c, [h EXCEPT !.pc = "result"], rec)
        BY DEF Returned
      <4>1. /\ [h EXCEPT !.pc = "result"] \in Frame /\ [h EXCEPT !.pc = "result"].pc = "result"
            /\ [h EXCEPT !.pc = "result"].run = h.run /\ [h EXCEPT !.pc = "result"].series
            /\ [h EXCEPT !.pc = "result"].top = h.top
            /\ [h EXCEPT !.pc = "result"].current = h.current
        BY <3>1 DEF Frame, Points
      <4> QED BY <3>1, <4>1 DEF Lands, ExecPoints
    <3>3. ~h.series => Lands(c, Returned(h), rec)
      BY DEF Lands, Returned
    <3> QED BY <3>2, <3>3 DEF h
  <2>5. Lands(c, g, rec) /\ frame[c].pc \in ViewPoints /\ ~frame[c].view.inFlight
    BY <1>1, <1>3, <2>2, <2>4, BeforeLaunchFacts DEF ViewPoints, Lands
  <2> QED BY <1>1, <1>3, <2>1, <2>5, SaveEffect DEF Resaves
<1>4. CASE Continue(c, Returned(told(disk[frame[c].run])))
  <2> DEFINE g == told(disk[frame[c].run])
  <2>1. g \in Frame /\ g.series = frame[c].series /\ g.current = frame[c].current /\ g.top = frame[c].top
    BY <1>2, Acting
  <2> HIDE DEF g
  <2> QED BY <1>4, <2>1, ReturnGoes DEF g
<1>5. CASE Throw(c)
  BY <1>5, ThrowGoes
<1> QED BY <1>3, <1>4, <1>5 DEF Launch

-----------------------------------------------------------------------------
(* The actions, one by one: resume after the execution.                     *)

\* What an executing call may become without a save of its run.
KeepsRun(c, f) ==
  /\ f \in Frame /\ f.run = frame[c].run
  /\ f.series = frame[c].series /\ f.top = frame[c].top
  /\ f.current => frame[c].current
  /\ f.fresh => f.view = disk[f.run]

StillExecutes(c, f) ==
  /\ KeepsRun(c, f) /\ f.pc \in ExecPoints
  /\ f.pc \in {"persist", "settle"} => f.outcome \in {"approved", "decomposition"}
  /\ f.pc = "settle" => f.view.lease = c

LEMMA StillExecutesGoes ==
  ASSUME FramesInv, Remembers, DiskInv, NEW c \in Call, frame[c].pc \in ExecPoints, NEW f,
         StillExecutes(c, f)
  PROVE  FrameOK(c, f, disk, misreported') /\ (Continue(c, f) => Effect)
<1>1. FrameOK(c, frame[c], disk, misreported')
  BY Acting
<1>2. FrameOK(c, f, disk, misreported')
  BY <1>1 DEF StillExecutes, KeepsRun, FrameOK, CopiesAreCurrent, SeriesOfTheRoot, TurnIsHeld,
              ViewPoints, ExecPoints, SeriesPoints
<1> QED BY <1>2 DEF StillExecutes, KeepsRun, Effect, Goes

\* The call itself keeps its run, with its run read again too, and in the catch it executes.
LEMMA KeepingFacts ==
  ASSUME FramesInv, Remembers, DiskInv, NEW c \in Call, frame[c].pc \in ExecPoints
  PROVE  /\ KeepsRun(c, frame[c])
         /\ \A point \in {"settle", "fail"} :
              LET f == Reread(frame[c], point)
              IN  /\ KeepsRun(c, f) /\ f.pc = point /\ f.outcome = frame[c].outcome
                  /\ f.view = disk[frame[c].run]
         /\ \A f, outcome : KeepsRun(c, f) /\ outcome \in {"limit", "error"} =>
              StillExecutes(c, Catching(f, outcome))
<1>1. FrameOK(c, frame[c], disk, misreported') /\ frame[c] \in Frame
      /\ disk[frame[c].run] \in Record
  BY Acting
<1>2. KeepsRun(c, frame[c])
  BY <1>1 DEF KeepsRun, FrameOK, CopiesAreCurrent, ViewPoints, ExecPoints
<1>3. ASSUME NEW point \in {"settle", "fail"}
      PROVE  LET f == Reread(frame[c], point)
             IN  /\ KeepsRun(c, f) /\ f.pc = point /\ f.outcome = frame[c].outcome
                 /\ f.view = disk[frame[c].run]
  <2> DEFINE f == Reread(frame[c], point)
  <2>1. /\ f \in Frame /\ f.pc = point /\ f.run = frame[c].run /\ f.outcome = frame[c].outcome
        /\ f.series = frame[c].series /\ f.top = frame[c].top /\ f.current = frame[c].current
        /\ f.view = disk[frame[c].run]
    BY <1>1 DEF Reread, Frame, Points
  <2> QED BY <2>1 DEF KeepsRun
<1>4. ASSUME NEW f, NEW outcome \in {"limit", "error"}, KeepsRun(c, f)
      PROVE  StillExecutes(c, Catching(f, outcome))
  <2> DEFINE g == Catching(f, outcome)
  <2>1. /\ g \in Frame /\ g.pc = "caught" /\ g.run = f.run /\ g.series = f.series
        /\ g.top = f.top /\ g.current = f.current /\ g.view = f.view /\ g.fresh = f.fresh
    BY <1>4 DEF Catching, KeepsRun, Frame, Points
  <2> HIDE DEF g
  <2>2. StillExecutes(c, g)
    BY <1>4, <2>1 DEF StillExecutes, KeepsRun, ExecPoints
  <2> QED BY <2>2 DEF g
<1> QED BY <1>2, <1>3, <1>4

LEMMA CaughtEffect ==
  ASSUME FramesInv, Remembers, DiskInv, NEW c \in Call, frame[c].pc \in ExecPoints,
         NEW outcome \in {"limit", "error"}, Caught(c, outcome)
  PROVE  Effect
BY KeepingFacts, StillExecutesGoes DEF Caught

LEMMA ExecutedEffect ==
  ASSUME FramesInv, Remembers, DiskInv, NEW c \in Call, Executed(c) PROVE Effect
<1>1. frame[c].pc = "executing" /\ frame[c].pc \in ExecPoints
  BY DEF Executed, At, ExecPoints
<1>2. ASSUME NEW outcome \in {"approved", "decomposition"},
             Continue(c, [frame[c] EXCEPT !.pc = "persist", !.outcome = outcome, !.held = TRUE])
      PROVE  Effect
  <2> DEFINE f == [frame[c] EXCEPT !.pc = "persist", !.outcome = outcome, !.held = TRUE]
  <2>1. KeepsRun(c, frame[c]) /\ frame[c] \in Frame
    BY <1>1, KeepingFacts, Acting
  <2>2. /\ f \in Frame /\ f.pc = "persist" /\ f.run = frame[c].run /\ f.series = frame[c].series
        /\ f.top = frame[c].top /\ f.current = frame[c].current /\ f.view = frame[c].view
        /\ f.fresh = frame[c].fresh /\ f.outcome = outcome
    BY <2>1 DEF Frame, Points
  <2>3. Continue(c, f)
    BY <1>2
  <2> HIDE DEF f
  <2>4. StillExecutes(c, f)
    BY <2>1, <2>2 DEF StillExecutes, KeepsRun, ExecPoints
  <2> QED BY <1>1, <2>3, <2>4, StillExecutesGoes
<1> QED BY <1>1, <1>2, CaughtEffect DEF Executed

\* Saving the limits of the root leaves its record as it is here.
LEMMA SameRecordOK ==
  ASSUME DiskInv, SpecsInv, authorised' = authorised, NEW c
  PROVE  RecordOK(c, Root, disk[Root]) /\ [disk EXCEPT ![Root] = disk[Root]] = disk
<1>1. Root \in Run /\ disk \in [Run -> Record] /\ disk[Root].inFlight \in BOOLEAN
  BY DEF Run, DiskInv, Record
<1> QED BY <1>1, CallAssumption DEF RecordOK, DiskInv, SpecsInv, Pends, Counts, Leases

LEMMA PersistsThenEffect ==
  ASSUME FramesInv, Remembers, DiskInv, SpecsInv, authorised' = authorised, NEW c \in Call,
         frame[c].pc \in ExecPoints, NEW f, NEW thrown, PersistsThen(c, f, thrown),
         StillExecutes(c, f), StillExecutes(c, thrown) \/ thrown = Idle
  PROVE  Effect
<1>1. Continue(c, f) => Effect
  BY StillExecutesGoes
<1>2. Continue(c, thrown) => Effect
  BY StillExecutesGoes, ThrowGoes DEF Throw
<1>3. ASSUME NEW g \in {f, thrown}, Write(c, Root, disk[Root], [g EXCEPT !.current = FALSE])
      PROVE  Effect
  <2> DEFINE h == [g EXCEPT !.current = FALSE]
  <2>1. FrameOK(c, h, disk, misreported')
    <3>1. CASE StillExecutes(c, g)
      <4>1. g \in Frame
        BY <3>1 DEF StillExecutes, KeepsRun
      <4>2. /\ h \in Frame /\ h.pc = g.pc /\ h.run = g.run /\ h.outcome = g.outcome
            /\ h.series = g.series /\ h.top = g.top /\ ~h.current /\ h.view = g.view
            /\ h.fresh = g.fresh
        BY <4>1 DEF Frame
      <4> HIDE DEF h
      <4>3. StillExecutes(c, h)
        BY <3>1, <4>2 DEF StillExecutes, KeepsRun
      <4> QED BY <4>3, StillExecutesGoes
    <3>2. CASE g = Idle
      <4>1. h \in Frame /\ h.pc = "idle" /\ ~h.series /\ ~h.current
        BY <3>2, AbsentType DEF Frame, Idle
      <4> HIDE DEF h
      <4> QED BY <4>1 DEF FrameOK, CopiesAreCurrent, SeriesOfTheRoot, TurnIsHeld, ViewPoints,
                          ExecPoints, SeriesPoints
    <3> QED BY <1>3, <3>1, <3>2
  <2>2. h \in Frame /\ Write(c, Root, disk[Root], h)
    BY <1>3, <2>1 DEF FrameOK
  <2> HIDE DEF h
  <2>3. Saves(c, Root, disk[Root], h)
    BY <2>1, <2>2, SameRecordOK DEF Saves
  <2> QED BY <2>2, <2>3, Acting DEF Effect
<1> QED BY <1>1, <1>2, <1>3 DEF PersistsThen

LEMMA PersistEffect ==
  ASSUME FramesInv, Remembers, DiskInv, SpecsInv, NEW c \in Call, Persist(c) \/ CaughtPersists(c)
  PROVE  Effect
<1>1. authorised' = authorised
  BY DEF Persist, CaughtPersists, count
<1>2. CASE Persist(c)
  <2> DEFINE f == Reread(frame[c], "settle")
             caught == Catching(f, "error")
             thrown == Catching(frame[c], "error")
  <2>1. frame[c].pc \in ExecPoints /\ frame[c].outcome \in {"approved", "decomposition"}
    BY <1>2, Acting DEF Persist, At, ExecPoints, FrameOK, TurnIsHeld
  <2>2. /\ KeepsRun(c, f) /\ f.pc = "settle" /\ f.outcome = frame[c].outcome
        /\ StillExecutes(c, caught) /\ StillExecutes(c, thrown)
    BY <2>1, KeepingFacts
  <2>3. PersistsThen(c, IF f.view.lease = c THEN f ELSE caught, thrown)
    BY <1>2 DEF Persist
  <2> HIDE DEF f, caught, thrown
  <2>4. f.view.lease = c => StillExecutes(c, f)
    BY <2>1, <2>2 DEF StillExecutes, ExecPoints
  <2> QED BY <1>1, <2>1, <2>2, <2>3, <2>4, PersistsThenEffect
<1>3. CASE CaughtPersists(c)
  <2> DEFINE f == Reread(frame[c], "fail")
  <2>1. frame[c].pc \in ExecPoints /\ PersistsThen(c, f, Idle)
    BY <1>3 DEF CaughtPersists, At, ExecPoints
  <2>2. KeepsRun(c, f) /\ f.pc = "fail"
    BY <2>1, KeepingFacts
  <2> HIDE DEF f
  <2>3. StillExecutes(c, f)
    BY <2>2 DEF StillExecutes, ExecPoints
  <2> QED BY <1>1, <2>1, <2>3, PersistsThenEffect
<1> QED BY <1>2, <1>3

\* The record of an execution that is over: nothing in flight, and no lease.
Ends(rec, old) ==
  /\ rec \in Record /\ SameTree(rec, old) /\ rec.status # "absent"
  /\ rec.cancelRequested = old.cancelRequested
  /\ rec.cancelRequested => rec.status # "complete"
  /\ ~rec.inFlight /\ rec.lease = None

LEMMA OverFacts ==
  ASSUME FramesInv, Remembers, DiskInv, NEW c \in Call, At(c, "settle"),
         NEW status \in Status \ {"absent"},
         frame[c].view.cancelRequested => status # "complete"
  PROVE  LET rec == [Over(c) EXCEPT !.status = status]
         IN  Ends(rec, frame[c].view) /\ rec.pending = frame[c].view.pending
<1> DEFINE old == frame[c].view
           outcome == frame[c].outcome
<1>1. old \in Record /\ outcome \in {"approved", "decomposition"}
  BY Acting DEF At, FrameOK, TurnIsHeld
<1>3. Over(c) = [old EXCEPT !.result = outcome, !.inFlight = FALSE, !.lease = None]
  BY DEF Over
<1>4. old.cancelRequested => status # "complete"
  OBVIOUS
<1> HIDE DEF old, outcome
<1>5. /\ Over(c) \in Record /\ SameTree(Over(c), old) /\ Over(c).pending = old.pending
      /\ Over(c).cancelRequested = old.cancelRequested
      /\ ~Over(c).inFlight /\ Over(c).lease = None
  <2>1. [old EXCEPT !.result = outcome, !.inFlight = FALSE, !.lease = None] \in Record
    BY <1>1 DEF Record
  <2> QED BY <1>1, <1>3, <2>1 DEF Record, SameTree, Counts
<1>6. [Over(c) EXCEPT !.status = status] \in Record
  BY <1>5 DEF Record
<1> QED BY <1>4, <1>5, <1>6 DEF Ends, SameTree, Counts, Record, old

\* The call goes on in the catch, where its save has landed.
LEMMA CatchingLands ==
  ASSUME FramesInv, Remembers, DiskInv, NEW c \in Call, NEW rec, frame[c].run \in misreported'
  PROVE  Lands(c, Catching(frame[c], "error"), rec)
<1> DEFINE f == Catching(frame[c], "error")
<1>1. /\ f \in Frame /\ f.pc = "caught" /\ f.run = frame[c].run /\ f.series = frame[c].series
      /\ f.top = frame[c].top /\ f.current = frame[c].current
  BY Acting DEF Catching, Frame, Points
<1> HIDE DEF f
<1>2. Lands(c, f, rec)
  BY <1>1 DEF Lands, SeriesPoints, ExecPoints
<1> QED BY <1>2 DEF f

\* What is known of a call that settles: it has read that the lease is its own.
LEMMA SettlingFacts ==
  ASSUME FramesInv, Remembers, DiskInv, NEW c \in Call, At(c, "settle")
  PROVE  /\ frame[c].pc \in ViewPoints /\ frame[c].pc \in ExecPoints
         /\ frame[c].view.lease = c /\ c # None
         /\ Fresh(c) => frame[c].view = disk[frame[c].run]
BY Acting, CallAssumption
   DEF At, ViewPoints, ExecPoints, FrameOK, TurnIsHeld, CopiesAreCurrent, Fresh, Call

LEMMA SettleSaves ==
  ASSUME FramesInv, Remembers, DiskInv, SpecsInv, authorised' = authorised, NEW c \in Call,
         At(c, "settle"), NEW rec, Ends(rec, frame[c].view), SaveOrCatch(c, rec, ReturnFrom(c)),
         Fresh(c) => rec.pending \in {frame[c].view.pending, frame[c].view.pending + 1}
  PROVE  Effect
<1>1. frame[c].pc \in ViewPoints /\ frame[c].pc \in ExecPoints /\ frame[c].view.lease = c
      /\ frame[c].view.lease # None
  BY SettlingFacts
<1>2. CASE Caught(c, "error")
  BY <1>1, <1>2, CaughtEffect
<1>3. ASSUME NEW f, Saved(c, rec, f), Lands(c, f, rec) PROVE Effect
  BY <1>1, <1>3, SaveEffect DEF Ends, Leases, Saved
<1>4. CASE Saved(c, rec, Returned(frame[c]))
  BY <1>3, <1>4, ReturnLands
<1>5. CASE Saved(c, rec, Catching(frame[c], "error")) /\ misreported' = misreported \cup {frame[c].run}
  BY <1>3, <1>5, CatchingLands
<1> QED BY <1>2, <1>4, <1>5 DEF SaveOrCatch, CaughtSave, ReturnFrom

\* A decision more has room for it while an execution is on.
LEMMA AwaitingFacts ==
  ASSUME FramesInv, Remembers, DiskInv, PendingInv, NEW c \in Call, At(c, "settle"), Fresh(c)
  PROVE  LET rec == [Over(c) EXCEPT !.status = "awaiting_decision", !.pending = @ + 1]
         IN  Ends(rec, frame[c].view) /\ rec.pending = frame[c].view.pending + 1
<1> DEFINE old == frame[c].view
           m == MaxActs + MaxTurns
           over == [Over(c) EXCEPT !.status = "awaiting_decision"]
           rec == [Over(c) EXCEPT !.status = "awaiting_decision", !.pending = @ + 1]
<1>1. old.pending + 1 \in 0..m
  <2>1. frame[c].run \in Run /\ old = disk[frame[c].run] /\ old.lease # None /\ old \in Record
    BY SettlingFacts, Acting
  <2>2. old.pending < acts + turns /\ acts \in 0..MaxActs /\ turns \in 0..MaxTurns
    BY <2>1 DEF PendingInv
  <2>3. old.pending \in 0..m
    BY <2>1 DEF Record
  <2> QED BY <2>2, <2>3, CountAssumption
<1>2. Ends(over, old) /\ over.pending = old.pending
  BY OverFacts DEF Status
<1>4. rec = [over EXCEPT !.pending = @ + 1]
  BY DEF Over
<1> HIDE DEF old, over, rec, m
<1>5. over \in Record
  BY <1>2 DEF Ends
<1>6. [over EXCEPT !.pending = @ + 1] \in Record
  BY <1>1, <1>2, <1>5 DEF Record, m
<1>7. /\ rec \in Record /\ rec.pending = old.pending + 1 /\ rec.status = over.status
      /\ rec.children = over.children /\ rec.remaining = over.remaining
      /\ rec.attempts = over.attempts /\ rec.cancelRequested = over.cancelRequested
      /\ rec.inFlight = over.inFlight /\ rec.lease = over.lease
  BY <1>2, <1>4, <1>5, <1>6 DEF Record
<1> QED BY <1>2, <1>7 DEF Ends, SameTree, Counts, rec, old

LEMMA SettleEffect ==
  ASSUME FramesInv, Remembers, DiskInv, SpecsInv, PendingInv, NEW c \in Call, Settle(c)
  PROVE  Effect
<1> DEFINE over == Over(c)
           await == [Over(c) EXCEPT !.status = "awaiting_decision", !.pending = @ + 1]
           cancelled == frame[c].view.cancelRequested
<1>1. At(c, "settle") /\ authorised' = authorised
  BY DEF Settle
<1>2. ASSUME NEW status \in {"cancelled", "paused", "complete"}, cancelled => status # "complete",
             SaveOrCatch(c, [over EXCEPT !.status = status], ReturnFrom(c))
      PROVE  Effect
  <2> DEFINE rec == [over EXCEPT !.status = status]
  <2>1. Ends(rec, frame[c].view) /\ rec.pending = frame[c].view.pending
    BY <1>1, <1>2, OverFacts DEF Status, Terminal
  <2> HIDE DEF rec
  <2> QED BY <1>1, <1>2, <2>1, SettleSaves DEF rec
<1>3. CASE SaveOrCatch(c, await, ReturnFrom(c))
  <2>1. CASE Fresh(c)
    <3>1. Ends(await, frame[c].view) /\ await.pending = frame[c].view.pending + 1
      BY <1>1, <2>1, AwaitingFacts
    <3> HIDE DEF await
    <3> QED BY <1>1, <1>3, <3>1, SettleSaves
  <2>2. CASE ~Fresh(c)
    <3>1. Caught(c, "error")
      BY <1>3, <2>2 DEF SaveOrCatch, CaughtSave, Saved
    <3> QED BY <1>1, <3>1, SettlingFacts, CaughtEffect
  <2> QED BY <2>1, <2>2
<1> QED
  <2>1. CASE ~cancelled /\ SaveOrCatch(c, [over EXCEPT !.status = IF over.breakpoint = "publication"
                                                         THEN "paused" ELSE "complete"], ReturnFrom(c))
    BY <1>2, <2>1
  <2>2. CASE SaveOrCatch(c, [over EXCEPT !.status = "paused"], ReturnFrom(c))
    BY <1>2, <2>2
  <2>3. CASE SaveOrCatch(c, [over EXCEPT !.status = "cancelled"], ReturnFrom(c))
    BY <1>2, <2>3
  <2> QED BY <1>3, <2>1, <2>2, <2>3 DEF Settle

LEMMA DecliningEffect ==
  ASSUME FramesInv, Remembers, DiskInv, SpecsInv, NEW c \in Call, Declined(c) PROVE Effect
<1> DEFINE rec == [Over(c) EXCEPT !.status = "paused"]
<1>1. At(c, "settle") /\ authorised' = authorised /\ SaveOrCatch(c, rec, ReturnFrom(c))
  BY DEF Declined, Deciding
<1>2. Ends(rec, frame[c].view) /\ rec.pending = frame[c].view.pending
  BY <1>1, OverFacts DEF Status, Terminal
<1> HIDE DEF rec
<1> QED BY <1>1, <1>2, SettleSaves

\* A call that enters the series saves the root it works on.
LEMMA SeriesSaves ==
  ASSUME FramesInv, Remembers, DiskInv, NEW c \in Call, frame[c].pc \in ViewPoints, frame[c].run = Root,
         NEW rec \in Record, Saved(c, rec, Series(frame[c], rec)), RecordOK(c, Root, rec),
         ~rec.cancelRequested
  PROVE  Effect
<1> DEFINE f == Series(frame[c], rec)
           g == [f EXCEPT !.view = rec, !.fresh = TRUE]
           d == [disk EXCEPT ![Root] = rec]
<1>1. frame[c] \in Frame /\ Root \in Run
  BY Acting
<1>2. /\ f \in Frame /\ f.pc = "series" /\ f.series /\ f.top = rec /\ f.current /\ f.run = Root
  BY <1>1 DEF Series, Frame, Points
<1>3. Write(c, Root, rec, IF f.pc = "idle" THEN f ELSE g)
  BY DEF Saved
<1> HIDE DEF f
<1>4. /\ g \in Frame /\ g.pc = "series" /\ g.series /\ g.top = rec /\ g.current /\ g.run = Root
      /\ g.view = rec
  BY <1>2 DEF Frame
<1>5. Write(c, Root, rec, g)
  BY <1>2, <1>3
<1>6. d[Root] = rec
  BY <1>1 DEF DiskInv
<1> HIDE DEF g, d
<1>7. FrameOK(c, g, d, misreported')
  BY <1>4, <1>6 DEF FrameOK, CopiesAreCurrent, SeriesOfTheRoot, TurnIsHeld,
         ViewPoints, ExecPoints, SeriesPoints
<1> QED BY <1>1, <1>4, <1>5, <1>7 DEF Effect, Saves, d

LEMMA GateSeriesEffect ==
  ASSUME FramesInv, Remembers, DiskInv, SpecsInv, NEW c \in Call, GateSeries(c) PROVE Effect
<1> DEFINE rec == [frame[c].view EXCEPT !.status = "running"]
<1>1. /\ AtGate(c) /\ ~frame[c].view.cancelRequested /\ authorised' = authorised
      /\ frame[c].view.remaining > 0 /\ SaveOrThrow(c, rec, Series(frame[c], rec))
  BY DEF GateSeries, Startable, HasChildrenLeft, count
<1>2. CASE Throw(c)
  BY <1>2, ThrowGoes
<1>3. ASSUME NEW f, Saved(c, rec, f), f = Series(frame[c], rec) \/ f = Idle PROVE Effect
  <2>1. frame[c].view = disk[frame[c].run] /\ frame[c].pc \in ViewPoints /\ frame[c].view \in Record
        /\ ~frame[c].view.inFlight /\ frame[c].run \in Run
    BY <1>1, <1>3, GateFacts, Acting DEF Saved, Fresh, FrameOK, CopiesAreCurrent
  <2>2. frame[c].run = Root
    BY <1>1, <2>1 DEF DiskInv, Run
  <2>3. Resaves(rec, frame[c].view)
    BY <2>1, Restatus DEF Status
  <2>4. RecordOK(c, Root, rec) /\ ~rec.cancelRequested
    <3> HIDE DEF rec
    <3> QED BY <1>1, <2>1, <2>2, <2>3, CallAssumption
            DEF RecordOK, Resaves, SameTree, SpecsInv, Pends
  <2> HIDE DEF rec
  <2>5. rec \in Record /\ Lands(c, Idle, rec)
    BY <2>3 DEF Resaves, Lands
  <2> QED BY <1>3, <2>1, <2>2, <2>4, <2>5, SeriesSaves, LandingEffect
<1> QED BY <1>1, <1>2, <1>3 DEF SaveOrThrow

LEMMA AcceptedEffect ==
  ASSUME FramesInv, Remembers, DiskInv, SpecsInv, NEW c \in Call, Accepted(c)
  PROVE  Effect /\ authorised' \in Nat /\ authorised <= authorised'
<1>1. /\ At(c, "settle") /\ ~frame[c].view.cancelRequested /\ frame[c].run = Root
  BY DEF Accepted, Deciding
<1>2. /\ frame[c].pc \in ViewPoints /\ frame[c].pc \in ExecPoints
      /\ frame[c].view.lease = c /\ c # None
      /\ Fresh(c) => frame[c].view = disk[Root]
  BY <1>1, SettlingFacts
<1>3. PICK n \in 1..MaxSpecs :
        LET record == [Over(c) EXCEPT !.remaining = n, !.status = "running"]
        IN  /\ SaveOrCatch(c, record, Series(frame[c], record))
            /\ authorised' = IF disk' = disk THEN authorised ELSE authorised + n
  BY DEF Accepted
<1>4. n \in Nat /\ n \in 0..MaxSpecs /\ authorised \in Nat
  BY CountAssumption DEF SpecsInv
<1> DEFINE over == [Over(c) EXCEPT !.status = "running"]
           rec == [Over(c) EXCEPT !.remaining = n, !.status = "running"]
<1>5. CASE Caught(c, "error")
  <2>1. disk' = disk
    BY <1>5 DEF Caught, Continue
  <2> QED BY <1>2, <1>3, <1>4, <1>5, <2>1, CaughtEffect
<1>6. ASSUME NEW f, Saved(c, rec, f),
             \/ f = Series(frame[c], rec)
             \/ f = Catching(frame[c], "error") /\ frame[c].run \in misreported'
      PROVE  Effect /\ authorised' \in Nat /\ authorised <= authorised'
  <2>1. frame[c].view = disk[Root] /\ Root \in Run /\ disk[Root] \in Record
    BY <1>2, <1>6, Acting DEF Saved
  <2>2. Ends(over, disk[Root]) /\ over.pending = disk[Root].pending
    BY <1>1, <2>1, OverFacts DEF Status
  <2>3. over \in Record /\ rec = [over EXCEPT !.remaining = n]
    BY <2>2 DEF Ends, Over
  <2> HIDE DEF over, rec
  <2>4. [over EXCEPT !.remaining = n] \in Record
    BY <1>4, <2>3 DEF Record
  <2>5. /\ rec \in Record /\ rec.status = over.status /\ rec.children = over.children
        /\ rec.remaining = n /\ rec.attempts = over.attempts /\ rec.pending = over.pending
        /\ rec.cancelRequested = over.cancelRequested /\ rec.lease = over.lease
    BY <2>3, <2>4 DEF Record
  <2>6. authorised' = authorised + n
    <3>1. disk'[Root] = rec
      BY <1>1, <1>6, <2>1 DEF Saved, Write, DiskInv
    <3>2. rec.lease # disk[Root].lease
      BY <1>2, <2>1, <2>2, <2>5 DEF Ends
    <3>3. disk' # disk
      BY <3>1, <3>2
    <3> QED BY <1>3, <3>3
  <2>7. RecordOK(c, Root, rec) /\ ~rec.cancelRequested
    <3>1. disk[Root].remaining \in Nat /\ Cardinality(disk[Root].children) \in Nat
      BY <2>1, CountAssumption, FS_CardinalityType DEF Record, SpecsInv
    <3>2. Cardinality(rec.children) + rec.remaining <= authorised'
      BY <1>4, <2>2, <2>5, <2>6, <3>1 DEF Ends, SameTree, SpecsInv
    <3>3. Counts(rec, disk[Root]) /\ Leases(rec, disk[Root])
      BY <2>2, <2>5 DEF Ends, SameTree, Counts, Leases
    <3> QED BY <1>1, <1>2, <2>1, <2>2, <2>5, <3>2, <3>3, CallAssumption
            DEF RecordOK, Ends, SameTree, SpecsInv, Pends
  <2>8. Effect
    <3>1. CASE f = Series(frame[c], rec)
      BY <1>1, <1>2, <1>6, <2>5, <2>7, <3>1, SeriesSaves
    <3>2. CASE f = Catching(frame[c], "error") /\ frame[c].run \in misreported'
      BY <1>1, <1>2, <1>6, <2>5, <2>7, <3>2, CatchingLands, LandingEffect
    <3> QED BY <1>6, <3>1, <3>2
  <2> QED BY <1>4, <2>6, <2>8
<1>7. \/ Caught(c, "error")
      \/ Saved(c, rec, Series(frame[c], rec))
      \/ Saved(c, rec, Catching(frame[c], "error")) /\ frame[c].run \in misreported'
  BY <1>3 DEF SaveOrCatch, CaughtSave
<1> HIDE DEF rec
<1> QED BY <1>5, <1>6, <1>7

\* Another retry is counted in the record, within the ceiling.
LEMMA LimitFacts ==
  ASSUME FramesInv, Remembers, DiskInv, NEW c \in Call, At(c, "fail"), Fresh(c)
  PROVE  LET again == shouldSchedule(c)
             rec == [frame[c].view EXCEPT !.status = "paused", !.inFlight = FALSE, !.lease = None,
                                          !.attempts = IF again THEN @ + 1 ELSE @]
         IN  /\ Resaves(rec, frame[c].view)
             /\ rec.attempts = IF again THEN disk[frame[c].run].attempts + 1
                                        ELSE disk[frame[c].run].attempts
<1> DEFINE old == frame[c].view
           again == shouldSchedule(c)
<1>1. old \in Record /\ old = disk[frame[c].run] /\ old.attempts \in Nat
  BY Acting DEF At, Fresh, FrameOK, CopiesAreCurrent, ViewPoints, Record
<1>2. again => MaxAttempts = 0 \/ old.attempts < MaxAttempts
  BY DEF shouldSchedule
<1>3. shouldSchedule(c) = again
  OBVIOUS
<1> HIDE DEF old, again
<1> DEFINE n == IF again THEN old.attempts + 1 ELSE old.attempts
           rec == [old EXCEPT !.status = "paused", !.inFlight = FALSE, !.lease = None,
                              !.attempts = IF again THEN @ + 1 ELSE @]
<1>4. n \in Nat
  BY <1>1
<1>5. rec = [old EXCEPT !.status = "paused", !.inFlight = FALSE, !.lease = None, !.attempts = n]
  BY <1>1 DEF Record
<1> HIDE DEF n, rec
<1>6. [old EXCEPT !.status = "paused", !.inFlight = FALSE, !.lease = None, !.attempts = n] \in Record
  BY <1>1, <1>4 DEF Record, Status
<1>7. /\ rec \in Record /\ rec.attempts = n /\ rec.lease = None /\ rec.status = "paused"
      /\ rec.children = old.children /\ rec.remaining = old.remaining
      /\ rec.pending = old.pending /\ rec.cancelRequested = old.cancelRequested
  BY <1>1, <1>5, <1>6 DEF Record
<1>8. Counts(rec, old) /\ Leases(rec, old)
  BY <1>2, <1>7 DEF Counts, Leases, n
<1>9. Resaves(rec, old)
  BY <1>7, <1>8 DEF Resaves, SameTree
<1>10. rec.attempts = IF again THEN disk[frame[c].run].attempts + 1 ELSE disk[frame[c].run].attempts
  BY <1>1, <1>7 DEF n
<1> QED BY <1>3, <1>9, <1>10 DEF rec, old, again

\* In the catch the run has the lease of the call, or its settlement was misreported.
LEMMA FailingFacts ==
  ASSUME FramesInv, Remembers, DiskInv, NEW c \in Call, At(c, "fail")
  PROVE  /\ frame[c].pc \in ViewPoints /\ frame[c].run \in Run
         /\ Fresh(c) => /\ frame[c].view = disk[frame[c].run]
                        /\ frame[c].view.lease = c \/ frame[c].run \in misreported'
BY Acting DEF At, Fresh, FrameOK, CopiesAreCurrent, TurnIsHeld, ViewPoints, ExecPoints

LEMMA LimitReachedEffect ==
  ASSUME FramesInv, Remembers, DiskInv, SpecsInv, NEW c \in Call, LimitReached(c)
  PROVE  /\ Effect
         /\ \/ UNCHANGED <<timers, ready>>
            \/ /\ timers' = timers \cup {frame[c].run} /\ ready' = RemoveFirst(ready, frame[c].run)
               /\ disk'[frame[c].run].attempts = disk[frame[c].run].attempts + 1
<1> DEFINE again == shouldSchedule(c)
           rec == [frame[c].view EXCEPT !.status = "paused", !.inFlight = FALSE, !.lease = None,
                                        !.attempts = IF again THEN @ + 1 ELSE @]
<1>1. At(c, "fail") /\ authorised' = authorised
  BY DEF LimitReached, count
<1>2. Throw(c) => Effect
  BY ThrowGoes
<1>3. ASSUME NEW f, Saved(c, rec, f), f = Returned(frame[c]) \/ f = Idle
      PROVE  Effect /\ (again => disk'[frame[c].run].attempts = disk[frame[c].run].attempts + 1)
  <2>1. Fresh(c) /\ frame[c].run \in Run
    BY <1>1, <1>3, FailingFacts DEF Saved
  <2>2. /\ Resaves(rec, frame[c].view)
        /\ rec.attempts = IF again THEN disk[frame[c].run].attempts + 1
                                   ELSE disk[frame[c].run].attempts
    BY <1>1, <2>1, LimitFacts
  <2> HIDE DEF rec
  <2>3. Lands(c, f, rec)
    BY <1>3, ReturnLands
  <2>4. Effect
    BY <1>1, <1>3, <2>1, <2>2, <2>3, SaveEffect, FailingFacts DEF Resaves
  <2>5. disk'[frame[c].run] = rec
    BY <1>3, <2>1 DEF Saved, Write, DiskInv
  <2> QED BY <2>2, <2>4, <2>5
<1>4. \/ /\ Saved(c, rec, Returned(frame[c]))
         /\ timers' = IF again THEN timers \cup {frame[c].run} ELSE timers
         /\ ready' = IF again THEN RemoveFirst(ready, frame[c].run) ELSE ready
      \/ (Saved(c, rec, Idle) \/ Throw(c)) /\ UNCHANGED <<timers, ready>>
  BY DEF LimitReached, ReturnFrom
<1> HIDE DEF rec
<1> QED BY <1>2, <1>3, <1>4

LEMMA FailedEffect ==
  ASSUME FramesInv, Remembers, DiskInv, SpecsInv, NEW c \in Call, Failed(c) PROVE Effect
<1> DEFINE rec == [frame[c].view EXCEPT !.status = "failed", !.inFlight = FALSE]
<1>1. At(c, "fail") /\ authorised' = authorised /\ SaveOrThrow(c, rec, Idle)
  BY DEF Failed, count
<1>2. CASE Throw(c)
  BY <1>2, ThrowGoes
<1>3. CASE Saved(c, rec, Idle)
  <2>1. Resaves(rec, frame[c].view)
    <3> DEFINE old == frame[c].view
    <3>1. old \in Record
      BY Acting
    <3>2. rec = [old EXCEPT !.status = "failed", !.inFlight = FALSE]
      OBVIOUS
    <3> HIDE DEF old, rec
    <3>3. [old EXCEPT !.status = "failed", !.inFlight = FALSE] \in Record
      BY <3>1 DEF Record, Status, Terminal
    <3> QED BY <3>1, <3>2, <3>3 DEF Resaves, SameTree, Counts, Leases, Record, old
  <2>2. Lands(c, Idle, rec) /\ Fresh(c)
    BY <1>3 DEF Lands, Saved
  <2> HIDE DEF rec
  <2> QED BY <1>1, <1>3, <2>1, <2>2, SaveEffect, FailingFacts DEF Resaves
<1> QED BY <1>1, <1>2, <1>3 DEF SaveOrThrow

-----------------------------------------------------------------------------
(* The actions, one by one: runChildren.                                    *)

\* A write of the root by a call that ends with it.
LEMMA RootWrite ==
  ASSUME DiskInv, SpecsInv, authorised' = authorised, NEW c \in Call,
         NEW status \in Status \ {"absent"}, disk[Root].cancelRequested => status # "complete",
         Write(c, Root, [disk[Root] EXCEPT !.status = status], Idle)
  PROVE  Effect
<1> DEFINE rec == [disk[Root] EXCEPT !.status = status]
<1>1. Root \in Run /\ disk[Root] \in Record
  BY DEF Run, DiskInv
<1>2. Resaves(rec, disk[Root]) /\ rec.inFlight = disk[Root].inFlight /\ rec.lease = disk[Root].lease
  BY <1>1, Restatus
<1>3. Write(c, Root, rec, Idle)
  OBVIOUS
<1> HIDE DEF rec
<1>4. rec.inFlight \in BOOLEAN
  BY <1>1, <1>2 DEF Resaves, Record
<1>5. RecordOK(c, Root, rec)
  BY <1>1, <1>2, <1>4, CallAssumption DEF RecordOK, Resaves, SameTree, SpecsInv, Pends
<1> QED BY <1>1, <1>2, <1>3, <1>5, IdleOK, AbsentType
    DEF Effect, Saves, Resaves

\* A call that goes on with the series from the copy of the root it has.
LEMMA SeriesGoes ==
  ASSUME FramesInv, Remembers, DiskInv, NEW c \in Call, NEW f \in Frame, Continue(c, f),
         f.pc \in {"series", "done"}, f.series, ~f.top.cancelRequested,
         f.current => f.top = disk[Root]
  PROVE  Effect
<1>1. FrameOK(c, f, disk, misreported')
  BY DEF FrameOK, CopiesAreCurrent, SeriesOfTheRoot, TurnIsHeld, ViewPoints,
         ExecPoints, SeriesPoints
<1> QED BY <1>1 DEF Effect, Goes

LEMMA NextChildEffect ==
  ASSUME FramesInv, Remembers, DiskInv, SpecsInv, NEW c \in Call, NextChild(c) PROVE Effect
<1> DEFINE root == disk[Root]
           f == [frame[c] EXCEPT !.top = root, !.current = TRUE]
           ch == CHOOSE ch \in Unused : TRUE
<1>1. At(c, "series") /\ authorised' = authorised
  BY DEF NextChild, count
<1>2. frame[c] \in Frame /\ root \in Record /\ Root \in Run /\ FrameOK(c, frame[c], disk, misreported')
      /\ frame[c].series
  BY <1>1, Acting DEF At, FrameOK, SeriesOfTheRoot, SeriesPoints
<1>3. CASE root.cancelRequested
  BY <1>1, <1>3, RootWrite, ThrowGoes DEF NextChild, Status, Terminal
<1>4. CASE ~root.cancelRequested /\ root.remaining = 0
  <2> DEFINE g == [f EXCEPT !.pc = "done"]
  <2>1. Continue(c, g)
    BY <1>4 DEF NextChild
  <2>2. g \in Frame /\ g.pc = "done" /\ g.series /\ g.top = root
    BY <1>2 DEF Frame, Points
  <2> HIDE DEF g
  <2> QED BY <1>4, <2>1, <2>2, SeriesGoes
<1>5. CASE Throw(c)
  BY <1>5, ThrowGoes
<1>6. CASE ~root.cancelRequested /\ root.remaining # 0 /\ Unused # {}
  <2> DEFINE g == [f EXCEPT !.pc = "index", !.run = ch]
             d == [disk EXCEPT ![ch] = Queued]
  <2>1. Write(c, ch, Queued, g) \/ Write(c, ch, Queued, Idle) \/ Throw(c)
    BY <1>6 DEF NextChild
  <2>2. ch \in Child /\ disk[ch].status = "absent" /\ ch \in Run /\ ch # Root
    BY <1>6, CallAssumption DEF Unused, Run
  <2> HIDE DEF ch
  <2>3. /\ g \in Frame /\ g.pc = "index" /\ g.series /\ g.top = root /\ g.run = ch
        /\ g.current = TRUE
    BY <1>2, <2>2 DEF Frame, Points
  <2>4. d[ch] = Queued /\ d[Root] = root /\ Queued.status = "queued" /\ disk[ch] = Absent
    BY <1>2, <2>2 DEF DiskInv, Queued, Absent
  <2>5. root.remaining > 0
    BY <1>2, <1>6, CountAssumption DEF Record
  <2>6. RecordOK(c, ch, Queued)
    BY <2>2, <2>4, AbsentType DEF RecordOK, Absent, Queued, Pends, Counts, Leases
  <2> HIDE DEF g, d
  <2>7. FrameOK(c, g, d, misreported')
    BY <1>6, <2>2, <2>3, <2>4, <2>5 DEF FrameOK, CopiesAreCurrent, SeriesOfTheRoot, TurnIsHeld,
       ViewPoints, ExecPoints, SeriesPoints
  <2>8. Write(c, ch, Queued, g) => Effect
    BY <2>2, <2>3, <2>6, <2>7, AbsentType DEF Effect, Saves, d
  <2>9. Write(c, ch, Queued, Idle) => Effect
    BY <2>2, <2>6, IdleOK, AbsentType DEF Effect, Saves
  <2> QED BY <1>5, <2>1, <2>8, <2>9
<1> QED BY <1>3, <1>4, <1>5, <1>6 DEF NextChild

\* A call that starts on a run, or on a child of the series it works through.
LEMMA ResumingFacts ==
  ASSUME NEW f \in Frame, NEW r \in Run, NEW until \in {"none", "stop", "publication"},
         disk \in [Run -> Record]
  PROVE  LET g == Resuming(f, r, until)
         IN  /\ g \in Frame /\ g.pc = "gate" /\ g.run = r /\ g.view = disk[r]
             /\ g.series = f.series /\ g.top = f.top /\ g.current = f.current
BY DEF Resuming, Frame, Points

LEMMA IndexChildEffect ==
  ASSUME FramesInv, Remembers, DiskInv, SpecsInv, NEW c \in Call, IndexChild(c) PROVE Effect
<1> DEFINE ch == frame[c].run
           rec == [frame[c].top EXCEPT !.children = @ \cup {ch}, !.remaining = @ - 1]
           f == [frame[c] EXCEPT !.top = rec]
           g == Resuming(f, ch, "none")
           d == [disk EXCEPT ![Root] = rec]
<1>1. At(c, "index") /\ authorised' = authorised
      /\ (TopSaved(c, rec, g) \/ TopSaved(c, rec, Idle) \/ Throw(c))
  BY DEF IndexChild, TopSavedOrThrow, count
<1>2. /\ frame[c] \in Frame /\ FrameOK(c, frame[c], disk, misreported') /\ Root \in Run /\ disk[Root] \in Record
      /\ frame[c].series /\ ~frame[c].top.cancelRequested /\ frame[c].top.remaining > 0
      /\ ch \in Child /\ ch \in Run /\ ch # Root /\ disk[ch].status # "absent"
  BY <1>1, Acting, CallAssumption DEF At, FrameOK, SeriesOfTheRoot, CopiesAreCurrent, SeriesPoints
<1>3. CASE Throw(c)
  BY <1>3, ThrowGoes
<1>4. CASE frame[c].current /\ (Write(c, Root, rec, g) \/ Write(c, Root, rec, Idle))
  <2>1. frame[c].top = disk[Root]
    BY <1>2, <1>4 DEF FrameOK, CopiesAreCurrent
  <2>2. /\ rec \in Record /\ rec.children = disk[Root].children \cup {ch}
        /\ rec.remaining = disk[Root].remaining - 1
        /\ rec.status = disk[Root].status /\ rec.cancelRequested = disk[Root].cancelRequested
        /\ rec.inFlight = disk[Root].inFlight /\ rec.lease = disk[Root].lease
        /\ rec.attempts = disk[Root].attempts /\ rec.pending = disk[Root].pending
    <3> DEFINE old == disk[Root]
               kids == old.children \cup {ch}
               rest == old.remaining - 1
    <3>1. old \in Record /\ kids \in SUBSET Child /\ rest \in 0..MaxSpecs
      BY <1>2, <2>1, CountAssumption DEF Record
    <3>2. rec = [old EXCEPT !.children = kids, !.remaining = rest]
      BY <1>2, <2>1 DEF Record
    <3> HIDE DEF old, kids, rest, rec
    <3>3. [old EXCEPT !.children = kids, !.remaining = rest] \in Record
      BY <3>1 DEF Record
    <3>4. rec \in Record /\ rec.children = kids /\ rec.remaining = rest
          /\ rec.status = old.status /\ rec.cancelRequested = old.cancelRequested
          /\ rec.inFlight = old.inFlight /\ rec.lease = old.lease
          /\ rec.attempts = old.attempts /\ rec.pending = old.pending
      BY <3>1, <3>2, <3>3 DEF Record
    <3> QED BY <3>4 DEF old, kids, rest
  <2> HIDE DEF rec
  <2>3. /\ f \in Frame /\ f.series /\ f.top = rec /\ f.current = frame[c].current
    BY <1>2, <2>2 DEF Frame
  <2> HIDE DEF f
  <2>4. /\ g \in Frame /\ g.pc = "gate" /\ g.run = ch /\ g.view = disk[ch]
        /\ g.series /\ g.top = rec
    BY <1>2, <2>3, ResumingFacts DEF DiskInv
  <2> HIDE DEF g
  <2>5. d[Root] = rec /\ d[ch] = disk[ch]
    BY <1>2 DEF DiskInv
  <2>6. RecordOK(c, Root, rec)
    <3>1. IsFiniteSet(disk[Root].children) /\ Cardinality(disk[Root].children) \in Nat
      BY FS_CardinalityType DEF SpecsInv
    <3>2. IsFiniteSet(rec.children) /\ Cardinality(rec.children) <= Cardinality(disk[Root].children) + 1
          /\ Cardinality(rec.children) \in Nat
      <4>1. /\ IsFiniteSet(disk[Root].children \cup {ch})
            /\ \/ Cardinality(disk[Root].children \cup {ch}) = Cardinality(disk[Root].children)
               \/ Cardinality(disk[Root].children \cup {ch}) = Cardinality(disk[Root].children) + 1
        BY <3>1, FS_AddElement
      <4> QED BY <2>2, <3>1, <4>1
    <3>3. disk[Root].remaining \in Nat /\ disk[Root].inFlight \in BOOLEAN
      BY <1>2, CountAssumption DEF Record
    <3>4. Cardinality(rec.children) + rec.remaining <= authorised'
      BY <1>1, <2>2, <3>1, <3>2, <3>3 DEF SpecsInv
    <3>5. Pends(Root, rec) /\ Counts(rec, disk[Root]) /\ Leases(rec, disk[Root])
      BY <2>2 DEF Pends, Counts, Leases
    <3>6. rec.status # "absent" /\ ~rec.cancelRequested
      BY <1>2, <2>1, <2>2 DEF DiskInv
    <3> HIDE DEF ch
    <3> QED BY <1>2, <2>1, <2>2, <3>2, <3>3, <3>4, <3>5, <3>6, CallAssumption DEF RecordOK
  <2> HIDE DEF d, ch
  <2>7. FrameOK(c, g, d, misreported')
    BY <1>2, <2>1, <2>2, <2>4, <2>5 DEF FrameOK, CopiesAreCurrent, SeriesOfTheRoot, TurnIsHeld,
       ViewPoints, ExecPoints, SeriesPoints
  <2>8. Write(c, Root, rec, g) => Effect
    BY <1>2, <2>2, <2>4, <2>6, <2>7 DEF Effect, Saves, d
  <2>9. Write(c, Root, rec, Idle) => Effect
    BY <1>2, <2>2, <2>6, IdleOK, AbsentType DEF Effect, Saves
  <2> QED BY <1>4, <2>8, <2>9
<1> QED BY <1>1, <1>3, <1>4 DEF TopSaved

LEMMA ChildReturnedEffect ==
  ASSUME FramesInv, Remembers, DiskInv, SpecsInv, NEW c \in Call, ChildReturned(c) PROVE Effect
<1>1. At(c, "result") /\ authorised' = authorised
  BY DEF ChildReturned, count
<1>2. /\ frame[c] \in Frame /\ FrameOK(c, frame[c], disk, misreported') /\ frame[c].series
      /\ ~frame[c].top.cancelRequested
  BY <1>1, Acting DEF At, FrameOK, SeriesOfTheRoot, SeriesPoints
<1>3. CASE TopSavedOrThrow(c, [frame[c].top EXCEPT !.status = "paused"])
  <2>1. CASE Throw(c)
    BY <2>1, ThrowGoes
  <2>2. CASE frame[c].current /\ Write(c, Root, [frame[c].top EXCEPT !.status = "paused"], Idle)
    <3>1. frame[c].top = disk[Root]
      BY <1>2, <2>2 DEF FrameOK, CopiesAreCurrent
    <3> QED BY <1>1, <2>2, <3>1, RootWrite DEF Status
  <2> QED BY <1>3, <2>1, <2>2 DEF TopSaved, TopSavedOrThrow
<1>4. ASSUME NEW point \in {"series", "done"}, Continue(c, [frame[c] EXCEPT !.pc = point])
      PROVE  Effect
  <2> DEFINE f == [frame[c] EXCEPT !.pc = point]
  <2>1. /\ f \in Frame /\ f.pc = point /\ f.series /\ f.top = frame[c].top
        /\ f.current = frame[c].current
    BY <1>2 DEF Frame, Points
  <2>2. Continue(c, f)
    BY <1>4
  <2> HIDE DEF f
  <2>3. f.current => f.top = disk[Root]
    BY <1>2, <2>1 DEF FrameOK, CopiesAreCurrent
  <2> QED BY <1>2, <2>1, <2>2, <2>3, SeriesGoes
<1> QED
  <2>1. CASE Continue(c, [frame[c] EXCEPT !.pc = IF frame[c].top.remaining > 0 THEN "series" ELSE "done"])
    BY <1>4, <2>1
  <2> QED BY <1>3, <2>1 DEF ChildReturned

LEMMA SeriesDoneEffect ==
  ASSUME FramesInv, Remembers, DiskInv, SpecsInv, NEW c \in Call, SeriesDone(c) PROVE Effect
<1>1. /\ At(c, "done") /\ authorised' = authorised
      /\ TopSavedOrThrow(c, [frame[c].top EXCEPT !.status = "complete"])
  BY DEF SeriesDone, count
<1>2. /\ FrameOK(c, frame[c], disk, misreported') /\ frame[c].series /\ ~frame[c].top.cancelRequested
  BY <1>1, Acting DEF At, FrameOK, SeriesOfTheRoot, SeriesPoints
<1>3. CASE Throw(c)
  BY <1>3, ThrowGoes
<1>4. CASE frame[c].current /\ Write(c, Root, [frame[c].top EXCEPT !.status = "complete"], Idle)
  <2>1. frame[c].top = disk[Root]
    BY <1>2, <1>4 DEF FrameOK, CopiesAreCurrent
  <2> QED BY <1>1, <1>2, <1>4, <2>1, RootWrite DEF Status, Terminal
<1> QED BY <1>1, <1>3, <1>4 DEF TopSaved, TopSavedOrThrow

-----------------------------------------------------------------------------
(* The actions, one by one: calls that start, fronts, retries, deaths.      *)

\* An idle call starts on a run that exists.
Starts(f, r) ==
  /\ f \in Frame /\ f.pc \in {"gate", "asking", "publishing"} /\ f.run = r /\ f.view = disk[r]
  /\ ~f.series /\ ~f.current

LEMMA StartGoes ==
  ASSUME DiskInv, NEW c \in Call, NEW r \in Run, disk[r].status # "absent", NEW f,
         Continue(c, f), Starts(f, r)
  PROVE  Effect
<1>1. FrameOK(c, f, disk, misreported')
  BY DEF FrameOK, CopiesAreCurrent, SeriesOfTheRoot, TurnIsHeld, ViewPoints,
         ExecPoints, SeriesPoints, Starts
<1> QED BY <1>1 DEF Effect, Goes, Starts

LEMMA StartingFacts ==
  ASSUME DiskInv, NEW r \in Run, NEW until \in {"none", "stop", "publication"}
  PROVE  /\ Starts(Resuming(Idle, r, until), r)
         /\ \A point \in {"asking", "publishing"} :
              Starts([Resuming(Idle, r, until) EXCEPT !.pc = point], r)
<1> DEFINE g == Resuming(Idle, r, until)
<1>1. g \in Frame /\ g.pc = "gate" /\ g.run = r /\ g.view = disk[r] /\ ~g.series /\ ~g.current
  <2>1. Idle \in Frame /\ ~Idle.series /\ ~Idle.current
    BY AbsentType DEF Idle
  <2>2. disk \in [Run -> Record]
    BY DEF DiskInv
  <2> QED BY <2>1, <2>2, ResumingFacts
<1> HIDE DEF g
<1>2. \A point \in {"asking", "publishing"} : [g EXCEPT !.pc = point] \in Frame
  BY <1>1 DEF Frame, Points
<1>3. Starts(g, r) /\ \A point \in {"asking", "publishing"} : Starts([g EXCEPT !.pc = point], r)
  BY <1>1, <1>2 DEF Frame, Starts
<1> QED BY <1>3 DEF g

LEMMA StartEffect ==
  ASSUME DiskInv, NEW c \in Call, NEW r \in Run,
         \/ Ask(c, r) \/ publish(c, r)
         \/ \E until \in {"none", "stop", "publication"} : Resume(c, r, until)
  PROVE  Effect /\ authorised' = authorised
<1>1. disk[r].status # "absent" /\ authorised' = authorised
  BY DEF Ask, publish, Resume, Act, DiskInv, Absent
<1>2. \E f : Continue(c, f) /\ Starts(f, r)
  BY StartingFacts DEF Ask, publish, Resume
<1> QED BY <1>1, <1>2, StartGoes

LEMMA AdmitEffect ==
  ASSUME DiskInv, RetryInv, NEW h \in Admission, Admit(h)
  PROVE  Effect /\ authorised' = authorised
<1> DEFINE r == Head(ready)
<1>1. r \in Run /\ disk[r].status # "absent"
  <2>1. 1 \in 1..Len(ready) /\ r = ready[1] /\ ready[1] \in Run
    BY DEF Admit, RetryInv
  <2> QED BY <2>1 DEF RetryInv
<1>2. h \in Call /\ Continue(h, Resuming(Idle, r, "none")) /\ authorised' = authorised
  BY DEF Admit, Call, count
<1>3. \A q \in Run : Starts(Resuming(Idle, q, "none"), q)
  BY StartingFacts
<1> QED BY <1>1, <1>2, <1>3, StartGoes

LEMMA AnsweredEffect ==
  ASSUME FramesInv, Remembers, DiskInv, SpecsInv, NEW c \in Call, Answered(c) PROVE Effect
<1>1. /\ frame[c].pc = "asking" /\ authorised' = authorised /\ frame[c].pc \in ViewPoints
      /\ frame[c].view \in Record
  BY Acting DEF Answered, At, count, ViewPoints
<1>2. PICK status \in {"queued", "paused"} :
        SaveOrThrow(c, [frame[c].view EXCEPT !.status = status], Idle)
  BY DEF Answered
<1> DEFINE rec == [frame[c].view EXCEPT !.status = status]
<1>3. Resaves(rec, frame[c].view) /\ rec.inFlight = frame[c].view.inFlight
      /\ rec.lease = frame[c].view.lease
  BY <1>1, Restatus DEF Status
<1>4. SaveOrThrow(c, rec, Idle) /\ Lands(c, Idle, rec)
  BY <1>2 DEF Lands
<1> HIDE DEF rec
<1>5. ~frame[c].view.inFlight \/ (rec.inFlight /\ rec.lease = frame[c].view.lease)
  BY <1>1, <1>3 DEF Record
<1> QED BY <1>1, <1>3, <1>4, <1>5, SaveOrThrowEffect

\* A record whose status, budget, cancellation or decisions a front has changed.
FrontRecord(r, rec) ==
  /\ rec \in Record /\ rec.status # "absent"
  /\ rec.children = disk[r].children /\ rec.remaining = disk[r].remaining
  /\ rec.attempts = disk[r].attempts /\ rec.inFlight = disk[r].inFlight
  /\ rec.lease = disk[r].lease
  /\ disk[r].cancelRequested => rec.cancelRequested
  /\ rec.cancelRequested => rec.status # "complete"

LEMMA FrontRecordOK ==
  ASSUME DiskInv, SpecsInv, authorised' = authorised, NEW c, NEW r \in Run, NEW rec,
         FrontRecord(r, rec), Pends(r, rec)
  PROVE  RecordOK(c, r, rec)
<1>1. disk[r].inFlight \in BOOLEAN
  BY DEF DiskInv, Record
<1> QED BY <1>1 DEF RecordOK, FrontRecord, DiskInv, SpecsInv, Counts, Leases

LEMMA PublishedEffect ==
  ASSUME FramesInv, Remembers, DiskInv, SpecsInv, NEW c \in Call, Published(c) PROVE Effect
<1> DEFINE r == frame[c].run
           rec == [disk[r] EXCEPT !.breakpoint = "none"]
<1>1. authorised' = authorised /\ r \in Run /\ disk[r] \in Record /\ disk[r].status # "absent"
  BY Acting DEF Published, At, count, FrameOK, CopiesAreCurrent, ViewPoints
<1>2. CASE Throw(c)
  BY <1>2, ThrowGoes
<1>3. CASE Write(c, r, rec, Idle)
  <2>1. FrontRecord(r, rec) /\ rec.pending = disk[r].pending
    <3> DEFINE old == disk[r]
    <3>1. old \in Record /\ rec = [old EXCEPT !.breakpoint = "none"]
      BY <1>1
    <3>2. old.cancelRequested => old.status # "complete"
      BY <1>1 DEF DiskInv
    <3> HIDE DEF old, rec
    <3>3. rec \in Record
      BY <3>1 DEF Record
    <3> QED BY <1>1, <3>1, <3>2, <3>3 DEF FrontRecord, Record, old
  <2> HIDE DEF rec
  <2>2. RecordOK(c, r, rec)
    BY <1>1, <2>1, FrontRecordOK DEF Pends
  <2> QED BY <1>1, <1>3, <2>1, <2>2, IdleOK, AbsentType
      DEF Effect, Saves, FrontRecord
<1> QED BY <1>2, <1>3 DEF Published

\* A front that saves a record of this form takes effect.
LEMMA FrontEffect ==
  ASSUME DiskInv, SpecsInv, NEW r \in Run, NEW rec, FrontSaves(r, rec), FrontRecord(r, rec),
         Pends(r, rec)
  PROVE  Effect
<1>1. authorised' = authorised
  BY DEF FrontSaves, Act
<1>2. FrontWrites(r, rec)
  BY <1>1, FrontRecordOK DEF FrontWrites, FrontSaves
<1> QED BY <1>2 DEF Effect, FrontRecord

LEMMA CancelEffect ==
  ASSUME DiskInv, SpecsInv, NEW r \in Run, cancel(r) PROVE Effect
<1> DEFINE old == disk[r]
           status == IF old.inFlight THEN old.status ELSE "cancelled"
           rec == [old EXCEPT !.cancelRequested = TRUE,
                              !.status = IF old.inFlight THEN @ ELSE "cancelled"]
<1>1. old \in Record /\ old.status # "absent" /\ old.status # "complete" /\ FrontSaves(r, rec)
  BY DEF cancel, DiskInv, Terminal
<1> HIDE DEF old
<1>2. rec = [old EXCEPT !.cancelRequested = TRUE, !.status = status]
  BY <1>1 DEF Record
<1>3. status \in Status \ {"absent", "complete"}
  BY <1>1 DEF Record, Status, Terminal
<1> HIDE DEF status
<1>4. [old EXCEPT !.cancelRequested = TRUE, !.status = status] \in Record
  BY <1>1, <1>3 DEF Record
<1>5. /\ rec \in Record /\ rec.status = status /\ rec.cancelRequested
      /\ rec.children = old.children /\ rec.remaining = old.remaining
      /\ rec.attempts = old.attempts /\ rec.inFlight = old.inFlight
      /\ rec.lease = old.lease /\ rec.pending = old.pending
  BY <1>1, <1>2, <1>4 DEF Record
<1> HIDE DEF rec
<1>6. FrontRecord(r, rec) /\ Pends(r, rec)
  BY <1>3, <1>5 DEF FrontRecord, Pends, old
<1> QED BY <1>1, <1>6, FrontEffect

LEMMA BudgetEffect ==
  ASSUME DiskInv, SpecsInv, recordBudgetDecision PROVE Effect
<1> DEFINE old == disk[Root]
<1>1. old \in Record /\ old.status # "absent" /\ Root \in Run
  BY DEF recordBudgetDecision, DiskInv, Run
<1>2. PICK b \in {"startable", "blocked"} :
        FrontSaves(Root, [old EXCEPT !.budget = b, !.status = "queued"])
  BY DEF recordBudgetDecision
<1> DEFINE rec == [old EXCEPT !.budget = b, !.status = "queued"]
<1>3. FrontSaves(Root, rec)
  BY <1>2
<1> HIDE DEF old
<1>4. [old EXCEPT !.budget = b, !.status = "queued"] \in Record
  BY <1>1 DEF Record, Status
<1>5. /\ rec \in Record /\ rec.status = "queued" /\ rec.cancelRequested = old.cancelRequested
      /\ rec.children = old.children /\ rec.remaining = old.remaining
      /\ rec.attempts = old.attempts /\ rec.inFlight = old.inFlight
      /\ rec.lease = old.lease /\ rec.pending = old.pending
  BY <1>1, <1>4 DEF Record
<1> HIDE DEF rec
<1>6. FrontRecord(Root, rec) /\ Pends(Root, rec)
  BY <1>5 DEF FrontRecord, Pends, old
<1> QED BY <1>1, <1>3, <1>6, FrontEffect

LEMMA DecisionEffect ==
  ASSUME DiskInv, SpecsInv, PendingInv, NEW r \in Run,
         requestDecision(r) \/ resolveDecisionFromOperator(r)
  PROVE  Effect
<1> DEFINE old == disk[r]
           m == MaxActs + MaxTurns
<1>1. old \in Record /\ old.pending \in 0..m /\ old.pending <= acts + turns
      /\ acts \in 0..MaxActs /\ turns \in 0..MaxTurns /\ m \in Nat
  <2>1. old \in Record
    BY DEF DiskInv
  <2> QED BY <2>1, CountAssumption DEF PendingInv, Record
<1>2. ASSUME NEW status \in {"awaiting_decision", "queued", "paused"}, NEW n \in 0..m,
             FrontSaves(r, [old EXCEPT !.status = status, !.pending = n]),
             n = old.pending - 1 \/ n = old.pending + 1
      PROVE  Effect
  <2> DEFINE rec == [old EXCEPT !.status = status, !.pending = n]
  <2>1. /\ rec \in Record /\ rec.status = status /\ rec.pending = n
        /\ rec.cancelRequested = old.cancelRequested
        /\ rec.children = old.children /\ rec.remaining = old.remaining
        /\ rec.attempts = old.attempts /\ rec.inFlight = old.inFlight
        /\ rec.lease = old.lease
    <3> HIDE DEF old
    <3>1. [old EXCEPT !.status = status, !.pending = n] \in Record
      BY <1>1 DEF Record, Status
    <3> QED BY <1>1, <3>1 DEF Record
  <2>2. FrontSaves(r, rec) /\ acts' > acts /\ turns' = turns
    BY <1>1, <1>2 DEF FrontSaves, Act
  <2> HIDE DEF rec
  <2>3. FrontRecord(r, rec) /\ Pends(r, rec)
    BY <1>2, <2>1, <2>2 DEF FrontRecord, Pends
  <2> QED BY <2>2, <2>3, FrontEffect
<1>3. CASE requestDecision(r)
  <2> DEFINE n == old.pending + 1
  <2>1. n \in 0..m
    BY <1>1, <1>3, CountAssumption DEF requestDecision, FrontSaves, Act
  <2>2. [old EXCEPT !.status = "awaiting_decision", !.pending = @ + 1]
          = [old EXCEPT !.status = "awaiting_decision", !.pending = n]
    BY <1>1 DEF Record
  <2>3. FrontSaves(r, [old EXCEPT !.status = "awaiting_decision", !.pending = @ + 1])
    BY <1>3 DEF requestDecision
  <2> HIDE DEF old, m
  <2> QED BY <1>2, <2>1, <2>2, <2>3
<1>4. CASE resolveDecisionFromOperator(r)
  <2> DEFINE n == old.pending - 1
  <2>1. n \in 0..m
    BY <1>1, <1>4 DEF resolveDecisionFromOperator
  <2>2. PICK status \in {"queued", "paused"} :
          FrontSaves(r, [old EXCEPT !.status = status, !.pending = @ - 1])
    BY <1>4 DEF resolveDecisionFromOperator
  <2>3. [old EXCEPT !.status = status, !.pending = @ - 1]
          = [old EXCEPT !.status = status, !.pending = n]
    BY <1>1 DEF Record
  <2> HIDE DEF old, m
  <2> QED BY <1>2, <2>1, <2>2, <2>3
<1> QED BY <1>3, <1>4

LEMMA DiesEffect == ASSUME frame \in [Call -> Frame], Dies PROVE Effect
<1>1. disk' = disk /\ \A c \in Call : frame'[c] \in {frame[c], Idle}
  BY DEF Dies, Call
<1>2. frame' = [c \in Call |-> frame'[c]]
  BY DEF Dies, Call
<1> QED BY <1>1, <1>2 DEF Effect, CallsEnd

\* Any step of the system is one of these.
LEMMA NextEffect ==
  ASSUME FramesInv, Remembers, DiskInv, SpecsInv, PendingInv, RetryInv, frame \in [Call -> Frame], Next
  PROVE  Effect /\ authorised' \in Nat /\ authorised <= authorised'
<1>1. authorised \in Nat /\ turns \in Nat
  BY CountAssumption DEF SpecsInv, PendingInv
<1>2. ASSUME NEW c \in Call, Step(c)
      PROVE  Effect /\ authorised' \in Nat /\ authorised <= authorised'
  <2>1. CASE GateReturns(c) \/ GateCancels(c) \/ GateBudget(c) \/ GateSeries(c)
    <3>1. Effect
      BY <1>1, <2>1, GateReturnsEffect, GateCancelsEffect, GateBudgetEffect, GateSeriesEffect
    <3>2. authorised' = authorised
      BY <2>1 DEF GateReturns, GateCancels, GateBudget, GateSeries, count
    <3> QED BY <1>1, <3>1, <3>2
  <2>2. CASE GatePublished(c) \/ GateUntil(c) \/ Stop(c) \/ Limited(c)
    <3>1. Effect
      BY <1>1, <2>2, GatePublishedEffect, GateUntilEffect, StopEffect
    <3>2. authorised' = authorised
      BY <2>2 DEF GatePublished, GateUntil, Stop, Limited, count
    <3> QED BY <1>1, <3>1, <3>2
  <2>3. CASE Launch(c)
    <3>1. Effect
      BY <1>1, <2>3, LaunchEffect
    <3>2. authorised' = authorised
      BY <2>3 DEF Launch
    <3> QED BY <1>1, <3>1, <3>2
  <2>4. CASE Executed(c) \/ Persist(c) \/ CaughtPersists(c) \/ Settle(c) \/ Declined(c)
    <3>1. Effect
      BY <1>1, <2>4, ExecutedEffect, PersistEffect, SettleEffect, DecliningEffect
    <3>2. authorised' = authorised
      BY <2>4 DEF Executed, Persist, CaughtPersists, Settle, Declined, count
    <3> QED BY <1>1, <3>1, <3>2
  <2>5. CASE Accepted(c)
    BY <2>5, AcceptedEffect
  <2>6. CASE LimitReached(c) \/ Failed(c)
    <3>1. Effect
      BY <1>1, <2>6, LimitReachedEffect, FailedEffect
    <3>2. authorised' = authorised
      BY <2>6 DEF LimitReached, Failed, count
    <3> QED BY <1>1, <3>1, <3>2
  <2>7. CASE NextChild(c) \/ IndexChild(c) \/ ChildReturned(c) \/ SeriesDone(c)
    <3>1. Effect
      BY <1>1, <2>7, NextChildEffect, IndexChildEffect, ChildReturnedEffect, SeriesDoneEffect
    <3>2. authorised' = authorised
      BY <2>7 DEF NextChild, IndexChild, ChildReturned, SeriesDone, count
    <3> QED BY <1>1, <3>1, <3>2
  <2>8. CASE Answered(c) \/ Published(c)
    <3>1. Effect
      BY <1>1, <2>8, AnsweredEffect, PublishedEffect
    <3>2. authorised' = authorised
      BY <2>8 DEF Answered, Published, count
    <3> QED BY <1>1, <3>1, <3>2
  <2> QED BY <1>2, <2>1, <2>2, <2>3, <2>4, <2>5, <2>6, <2>7, <2>8 DEF Step
<1>3. ASSUME NEW c \in Caller, NEW r \in Run,
             \/ Ask(c, r) \/ publish(c, r)
             \/ \E until \in {"none", "stop", "publication"} : Resume(c, r, until)
      PROVE  Effect /\ authorised' = authorised
  BY <1>3, StartEffect DEF Call
<1>4. CASE FrontActs
  <2>1. CASE recordBudgetDecision
    <3>1. Effect
      BY <2>1, BudgetEffect
    <3>2. authorised' = authorised
      BY <2>1 DEF recordBudgetDecision, FrontSaves, Act
    <3> QED BY <1>1, <3>1, <3>2
  <2>2. ASSUME NEW r \in Run, cancel(r) PROVE Effect /\ authorised' = authorised
    BY <2>2, CancelEffect DEF cancel, FrontSaves, Act
  <2>3. ASSUME NEW r \in Run, requestDecision(r) \/ resolveDecisionFromOperator(r)
        PROVE  Effect /\ authorised' = authorised
    BY <2>3, DecisionEffect DEF requestDecision, resolveDecisionFromOperator, FrontSaves, Act
  <2> QED BY <1>1, <1>4, <2>1, <2>2, <2>3 DEF FrontActs
<1>5. CASE Dies
  BY <1>1, <1>5, DiesEffect DEF Dies
<1>6. ASSUME NEW r \in Run, Due(r) PROVE Effect /\ authorised' = authorised
  BY <1>6 DEF Due, Effect, CallsEnd, count
<1>7. ASSUME NEW h \in Admission, Admit(h) PROVE Effect /\ authorised' = authorised
  BY <1>7, AdmitEffect
<1> QED BY <1>1, <1>2, <1>3, <1>4, <1>5, <1>6, <1>7 DEF Next

-----------------------------------------------------------------------------
(* The history, the bounds, and the decisions that wait.                    *)

\* A step remembers what was misreported, and adds the run of the call that goes on.
LEMMA NextRemembers ==
  ASSUME FramesInv, Next
  PROVE  Remembers /\ misreported' \subseteq misreported \cup Run
<1>1. UNCHANGED misreported => Remembers /\ misreported' \subseteq misreported \cup Run
  BY DEF Remembers
<1>2. ASSUME NEW c \in Call, Step(c)
      PROVE  \/ UNCHANGED misreported
             \/ misreported' = misreported \cup {frame[c].run}
  <2>1. CASE GateReturns(c) \/ GateCancels(c) \/ GateBudget(c) \/ GateSeries(c)
    BY <2>1 DEF GateReturns, GateCancels, GateBudget, GateSeries, count
  <2>2. CASE GatePublished(c) \/ GateUntil(c) \/ Stop(c) \/ Limited(c) \/ Launch(c)
    BY <2>2 DEF GatePublished, GateUntil, Stop, Limited, Launch, count
  <2>3. CASE Executed(c) \/ Persist(c) \/ CaughtPersists(c) \/ LimitReached(c) \/ Failed(c)
    BY <2>3 DEF Executed, Persist, CaughtPersists, LimitReached, Failed, count
  <2>4. ASSUME NEW record, NEW f, SaveOrCatch(c, record, f)
        PROVE  \/ UNCHANGED misreported
               \/ misreported' = misreported \cup {frame[c].run}
    BY <2>4 DEF SaveOrCatch, CaughtSave
  <2>5. CASE Settle(c) \/ Accepted(c) \/ Declined(c)
    <3>1. \E record, f : SaveOrCatch(c, record, f)
      BY <2>5 DEF Settle, Accepted, Declined
    <3> QED BY <2>4, <3>1
  <2>6. CASE NextChild(c) \/ IndexChild(c) \/ ChildReturned(c) \/ SeriesDone(c)
    BY <2>6 DEF NextChild, IndexChild, ChildReturned, SeriesDone, count
  <2>7. CASE Answered(c) \/ Published(c)
    BY <2>7 DEF Answered, Published, count
  <2> QED BY <1>2, <2>1, <2>2, <2>3, <2>5, <2>6, <2>7 DEF Step
<1>3. ASSUME NEW c \in Caller, NEW r \in Run,
             \/ Ask(c, r) \/ publish(c, r)
             \/ \E until \in {"none", "stop", "publication"} : Resume(c, r, until)
      PROVE  UNCHANGED misreported
  BY <1>3 DEF Ask, publish, Resume, Act
<1>4. FrontActs => UNCHANGED misreported
  BY DEF FrontActs, recordBudgetDecision, cancel, requestDecision, resolveDecisionFromOperator,
         FrontSaves, Act
<1>5. Dies => UNCHANGED misreported
  BY DEF Dies
<1>6. \A r \in Run : Due(r) => UNCHANGED misreported
  BY DEF Due, count
<1>7. \A h \in Admission : Admit(h) => UNCHANGED misreported
  BY DEF Admit, count
<1>8. \A c \in Call : frame[c].run \in Run
  BY DEF FramesInv, FrameOK, Frame
<1>9. ASSUME NEW c \in Call, Step(c) PROVE Remembers /\ misreported' \subseteq misreported \cup Run
  BY <1>2, <1>8, <1>9 DEF Remembers
<1> QED BY <1>1, <1>3, <1>4, <1>5, <1>6, <1>7, <1>9 DEF Next

LEMMA NextCounts ==
  ASSUME Next
  PROVE  \/ acts' = acts /\ turns' = turns /\ crashes' = crashes
         \/ acts < MaxActs /\ acts' = acts + 1 /\ turns' = turns /\ crashes' = crashes
         \/ turns < MaxTurns /\ turns' \in {turns, turns + 1} /\ acts' = acts /\ crashes' = crashes
         \/ crashes < MaxCrashes /\ crashes' = crashes + 1 /\ acts' = acts /\ turns' = turns
<1>1. ASSUME NEW c \in Call, Step(c)
      PROVE  \/ acts' = acts /\ turns' = turns /\ crashes' = crashes
             \/ turns < MaxTurns /\ turns' \in {turns, turns + 1} /\ acts' = acts /\ crashes' = crashes
  <2>1. CASE GateReturns(c) \/ GateCancels(c) \/ GateBudget(c) \/ GateSeries(c)
    BY <2>1 DEF GateReturns, GateCancels, GateBudget, GateSeries, count
  <2>2. CASE GatePublished(c) \/ GateUntil(c) \/ Stop(c) \/ Limited(c)
    BY <2>2 DEF GatePublished, GateUntil, Stop, Limited, count
  <2>3. CASE Launch(c)
    BY <2>3 DEF Launch
  <2>4. CASE Executed(c) \/ Persist(c) \/ CaughtPersists(c) \/ Settle(c) \/ Declined(c)
    BY <2>4 DEF Executed, Persist, CaughtPersists, Settle, Declined, count
  <2>5. CASE Accepted(c)
    BY <2>5 DEF Accepted
  <2>6. CASE LimitReached(c) \/ Failed(c)
    BY <2>6 DEF LimitReached, Failed, count
  <2>7. CASE NextChild(c) \/ IndexChild(c) \/ ChildReturned(c) \/ SeriesDone(c)
    BY <2>7 DEF NextChild, IndexChild, ChildReturned, SeriesDone, count
  <2>8. CASE Answered(c) \/ Published(c)
    BY <2>8 DEF Answered, Published, count
  <2> QED BY <1>1, <2>1, <2>2, <2>3, <2>4, <2>5, <2>6, <2>7, <2>8 DEF Step
<1>2. ASSUME NEW c \in Caller, NEW r \in Run,
             \/ Ask(c, r) \/ publish(c, r)
             \/ \E until \in {"none", "stop", "publication"} : Resume(c, r, until)
      PROVE  Act
  BY <1>2 DEF Ask, publish, Resume
<1>3. FrontActs => Act
  BY DEF FrontActs, recordBudgetDecision, cancel, requestDecision, resolveDecisionFromOperator,
         FrontSaves
<1>4. Act => acts < MaxActs /\ acts' = acts + 1 /\ turns' = turns /\ crashes' = crashes
  BY DEF Act
<1>5. Dies => crashes < MaxCrashes /\ crashes' = crashes + 1 /\ acts' = acts /\ turns' = turns
  BY DEF Dies
<1>6. \A r \in Run : Due(r) => acts' = acts /\ turns' = turns /\ crashes' = crashes
  BY DEF Due, count
<1>7. \A h \in Admission : Admit(h) => acts' = acts /\ turns' = turns /\ crashes' = crashes
  BY DEF Admit, count
<1> QED BY <1>1, <1>2, <1>3, <1>4, <1>5, <1>6, <1>7 DEF Next

\* Counted alike by the step that launches a turn, asks for a decision or ends a turn.
LEMMA EffectKeepsPending ==
  ASSUME DiskInv, PendingInv, Effect,
         acts' \in 0..MaxActs, turns' \in 0..MaxTurns, crashes' \in 0..MaxCrashes,
         acts' >= acts, turns' >= turns
  PROVE  PendingInv'
<1>1. /\ acts \in Nat /\ turns \in Nat /\ acts' \in Nat /\ turns' \in Nat
      /\ \A r \in Run : /\ disk[r].pending \in Nat /\ disk[r].pending <= acts + turns
                        /\ disk[r].lease # None => disk[r].pending < acts + turns
  BY CountAssumption DEF PendingInv, DiskInv, Record
<1>2. ASSUME NEW c, NEW r \in Run, NEW rec \in Record, RecordOK(c, r, rec),
             disk' = [disk EXCEPT ![r] = rec]
      PROVE  PendingInv'
  <2>1. disk'[r] = rec /\ (\A q \in Run : q # r => disk'[q] = disk[q]) /\ rec.pending \in Nat
    BY <1>2, CountAssumption DEF DiskInv, Record
  <2>2. Pends(r, rec) /\ (rec.lease # None => disk[r].lease # None \/ turns' > turns)
    BY <1>2 DEF RecordOK, Leases
  <2>3. /\ disk[r].pending \in Nat /\ disk[r].pending <= acts + turns
        /\ disk[r].lease # None => disk[r].pending < acts + turns
    BY <1>1
  <2>4. rec.pending <= acts' + turns' /\ (rec.lease # None => rec.pending < acts' + turns')
    <3>1. CASE rec.pending \in {disk[r].pending, disk[r].pending - 1}
      BY <1>1, <2>1, <2>2, <2>3, <3>1
    <3>2. CASE acts' > acts /\ turns' = turns /\ rec.pending = disk[r].pending + 1
      BY <1>1, <2>2, <2>3, <3>2
    <3>3. CASE disk[r].lease # None /\ rec.lease = None /\ rec.pending = disk[r].pending + 1
      BY <1>1, <2>3, <3>3
    <3> QED BY <2>2, <3>1, <3>2, <3>3 DEF Pends
  <2>5. ASSUME NEW q \in Run
        PROVE  disk'[q].pending <= acts' + turns'
               /\ (disk'[q].lease # None => disk'[q].pending < acts' + turns')
    <3>1. CASE q = r
      BY <2>1, <2>4, <3>1
    <3>2. CASE q # r
      <4>1. /\ disk[q].pending \in Nat /\ disk[q].pending <= acts + turns
            /\ disk[q].lease # None => disk[q].pending < acts + turns
        BY <1>1
      <4>2. disk'[q] = disk[q]
        BY <2>1, <3>2
      <4> QED BY <1>1, <4>1, <4>2
    <3> QED BY <3>1, <3>2
  <2> QED BY <2>5 DEF PendingInv
<1>3. CASE disk' = disk
  <2>1. ASSUME NEW q \in Run
        PROVE  disk[q].pending <= acts' + turns'
               /\ (disk[q].lease # None => disk[q].pending < acts' + turns')
    <3>1. /\ disk[q].pending \in Nat /\ disk[q].pending <= acts + turns
          /\ disk[q].lease # None => disk[q].pending < acts + turns
      BY <1>1
    <3> QED BY <1>1, <3>1
  <2> QED BY <1>3, <2>1 DEF PendingInv
<1> QED BY <1>2, <1>3 DEF Effect, Goes, Continue, Saves, Write, FrontWrites, CallsEnd

-----------------------------------------------------------------------------
(* The runs that wait for a retry.                                          *)

Once(q) == \A i, j \in 1..Len(q) : q[i] = q[j] => i = j

LEMMA RemoveAtFacts ==
  ASSUME NEW E, NEW q \in Seq(E), NEW i \in 1..Len(q)
  PROVE  /\ RemoveAt(q, i) \in Seq(E)
         /\ Len(RemoveAt(q, i)) = Len(q) - 1
         /\ \A k \in 1..Len(q) - 1 : RemoveAt(q, i)[k] = IF k < i THEN q[k] ELSE q[k+1]
<1> DEFINE a == SubSeq(q, 1, i-1)
           b == SubSeq(q, i+1, Len(q))
<1>1. a \in Seq(E) /\ Len(a) = i - 1 /\ \A k \in 1..i-1 : a[k] = q[k]
  OBVIOUS
<1>2. b \in Seq(E) /\ Len(b) = Len(q) - i /\ \A k \in 1..Len(q) - i : b[k] = q[k+i]
  OBVIOUS
<1>3. RemoveAt(q, i) = a \o b
  BY DEF RemoveAt
<1> HIDE DEF a, b
<1>4. /\ a \o b \in Seq(E) /\ Len(a \o b) = Len(q) - 1
      /\ \A k \in 1..Len(q) - 1 : (a \o b)[k] = IF k < i THEN a[k] ELSE b[k - (i-1)]
  <2>1. /\ a \o b \in Seq(E) /\ Len(a \o b) = Len(a) + Len(b)
        /\ \A k \in 1..Len(a) + Len(b) : (a \o b)[k] = IF k <= Len(a) THEN a[k] ELSE b[k - Len(a)]
    <3>1. a \in Seq(E) /\ b \in Seq(E)
      BY <1>1, <1>2
    <3> QED BY <3>1
  <2>2. Len(a) = i - 1 /\ Len(b) = Len(q) - i /\ Len(q) \in Nat /\ Len(a) + Len(b) = Len(q) - 1
    BY <1>1, <1>2
  <2>3. \A k \in 1..Len(q) - 1 : k <= Len(a) <=> k < i
    BY <2>2
  <2> QED BY <2>1, <2>2, <2>3
<1>5. ASSUME NEW k \in 1..Len(q) - 1 PROVE (a \o b)[k] = IF k < i THEN q[k] ELSE q[k+1]
  <2>1. CASE k < i
    BY <1>1, <1>4, <2>1
  <2>2. CASE ~(k < i)
    <3>1. k - (i-1) \in 1..Len(q) - i /\ (k - (i-1)) + i = k + 1
      BY <1>5, <2>2
    <3> QED BY <1>2, <1>4, <2>2, <3>1
  <2> QED BY <2>1, <2>2
<1> QED BY <1>3, <1>4, <1>5

\* Taking a run out of a queue it is in at most once leaves the others, each once.
LEMMA RemoveFirstFacts ==
  ASSUME NEW E, NEW q \in Seq(E), NEW e, Once(q)
  PROVE  LET p == RemoveFirst(q, e)
         IN  /\ p \in Seq(E) /\ Len(p) <= Len(q) /\ Once(p)
             /\ \A k \in 1..Len(p) : p[k] # e /\ \E j \in 1..Len(q) : p[k] = q[j]
<1> DEFINE p == RemoveFirst(q, e)
<1>1. CASE ~ \E i \in 1..Len(q) : q[i] = e
  BY <1>1 DEF RemoveFirst
<1>2. CASE \E i \in 1..Len(q) : q[i] = e
  <2>1. PICK i \in 1..Len(q) : q[i] = e
    BY <1>2
  <2>2. {j \in 1..Len(q) : q[j] = e} = {i}
    BY <2>1 DEF Once
  <2>3. Min({i}) = i
    BY DEF Min
  <2>4. p = RemoveAt(q, i)
    BY <1>2, <2>2, <2>3 DEF RemoveFirst, SelectInSeq
  <2> HIDE DEF p
  <2>5. /\ p \in Seq(E) /\ Len(p) = Len(q) - 1
        /\ \A k \in 1..Len(q) - 1 : p[k] = IF k < i THEN q[k] ELSE q[k+1]
    BY <2>4, RemoveAtFacts
  <2>6. ASSUME NEW k \in 1..Len(p)
        PROVE  p[k] # e /\ \E j \in 1..Len(q) : p[k] = q[j]
    BY <2>1, <2>5, <2>6 DEF Once
  <2>7. Once(p)
    BY <2>5 DEF Once
  <2> QED BY <2>5, <2>6, <2>7 DEF p
<1> QED BY <1>1, <1>2

\* Records lose no retry that they count.
DiskGrows ==
  \A r \in Run : /\ disk[r].status # "absent" => disk'[r].status # "absent"
                 /\ disk[r].attempts <= disk'[r].attempts

LEMMA RetryTypes ==
  ASSUME DiskInv, DiskInv', RetryInv
  PROVE  /\ \A r \in Run : disk[r].attempts \in Nat /\ disk'[r].attempts \in Nat /\ admitted[r] \in Nat
         /\ Once(ready) /\ ready \in Seq(Run)
         /\ \A i \in 1..Len(ready) : ready[i] \in Run
<1>1. ASSUME NEW r \in Run PROVE disk[r].attempts \in Nat /\ disk'[r].attempts \in Nat
  <2>1. disk[r] \in Record /\ disk'[r] \in Record
    BY DEF DiskInv
  <2> QED BY <2>1 DEF Record
<1>2. /\ \A r \in Run : admitted[r] \in Nat
      /\ Once(ready) /\ ready \in Seq(Run)
      /\ \A i \in 1..Len(ready) : ready[i] \in Run
  BY DEF RetryInv, Once
<1> QED BY <1>1, <1>2

\* What waits is what waited, or less.
LEMMA RetryShrinks ==
  ASSUME DiskInv, DiskInv', RetryInv, DiskGrows, admitted' = admitted, timers' \subseteq timers,
         ready' = ready \/ ready' = <<>> \/ \E r : ready' = RemoveFirst(ready, r)
  PROVE  RetryInv'
<1>1. /\ ready' \in Seq(Run) /\ Len(ready') <= Len(ready) /\ Once(ready')
      /\ \A k \in 1..Len(ready') : \E j \in 1..Len(ready) : ready'[k] = ready[j]
  <2>1. CASE ready' = ready
    BY <2>1, RetryTypes
  <2>2. CASE ready' = <<>>
    BY <2>2, RetryTypes DEF Once
  <2>3. CASE \E r : ready' = RemoveFirst(ready, r)
    BY <2>3, RetryTypes, RemoveFirstFacts
  <2> QED BY <2>1, <2>2, <2>3
<1>2. \A r \in Run : admitted[r] < disk[r].attempts => admitted'[r] < disk'[r].attempts
  BY RetryTypes DEF DiskGrows
<1>3. \A r \in Run : admitted'[r] <= disk'[r].attempts
  BY RetryTypes DEF DiskGrows, RetryInv
<1>4. Len(ready') <= MaxQueued
  BY <1>1, CountAssumption DEF RetryInv
<1>5. ASSUME NEW r \in timers'
      PROVE  disk'[r].status # "absent" /\ admitted'[r] < disk'[r].attempts
  BY <1>2 DEF RetryInv, DiskGrows
<1>6. ASSUME NEW i \in 1..Len(ready')
      PROVE  /\ disk'[ready'[i]].status # "absent" /\ admitted'[ready'[i]] < disk'[ready'[i]].attempts
             /\ ready'[i] \notin timers'
             /\ \A j \in 1..Len(ready') : ready'[i] = ready'[j] => i = j
  <2>1. PICK k \in 1..Len(ready) : ready'[i] = ready[k]
    BY <1>1
  <2>2. ready[k] \in Run
    BY RetryTypes
  <2> QED BY <1>1, <1>2, <2>1, <2>2 DEF RetryInv, DiskGrows, Once
<1> QED BY <1>1, <1>3, <1>4, <1>5, <1>6 DEF RetryInv

\* A run that is scheduled leaves the queue for the timers.
LEMMA RetryScheduled ==
  ASSUME DiskInv, DiskInv', RetryInv, DiskGrows, admitted' = admitted, NEW r \in Run,
         disk[r].status # "absent", disk'[r].attempts = disk[r].attempts + 1,
         timers' = timers \cup {r}, ready' = RemoveFirst(ready, r)
  PROVE  RetryInv'
<1>1. /\ ready' \in Seq(Run) /\ Len(ready') <= Len(ready) /\ Once(ready')
      /\ \A k \in 1..Len(ready') : ready'[k] # r /\ \E j \in 1..Len(ready) : ready'[k] = ready[j]
  BY RetryTypes, RemoveFirstFacts
<1>2. \A q \in Run : admitted[q] < disk[q].attempts => admitted'[q] < disk'[q].attempts
  BY RetryTypes DEF DiskGrows
<1>3. admitted'[r] < disk'[r].attempts /\ \A q \in Run : admitted'[q] <= disk'[q].attempts
  <2>1. /\ \A q \in Run : admitted[q] <= disk[q].attempts /\ disk[q].attempts <= disk'[q].attempts
        /\ \A q \in Run : disk[q].attempts \in Nat /\ disk'[q].attempts \in Nat /\ admitted[q] \in Nat
    BY RetryTypes DEF DiskGrows, RetryInv
  <2>2. admitted[r] < disk'[r].attempts
    BY <2>1
  <2> QED BY <2>1, <2>2
<1>4. Len(ready') <= MaxQueued /\ timers' \subseteq Run
  BY <1>1, CountAssumption DEF RetryInv
<1>5. ASSUME NEW q \in timers'
      PROVE  disk'[q].status # "absent" /\ admitted'[q] < disk'[q].attempts
  BY <1>2, <1>3 DEF RetryInv, DiskGrows
<1>6. ASSUME NEW i \in 1..Len(ready')
      PROVE  /\ disk'[ready'[i]].status # "absent" /\ admitted'[ready'[i]] < disk'[ready'[i]].attempts
             /\ ready'[i] \notin timers'
             /\ \A j \in 1..Len(ready') : ready'[i] = ready'[j] => i = j
  <2>1. PICK k \in 1..Len(ready) : ready'[i] = ready[k]
    BY <1>1
  <2>2. ready[k] \in Run
    BY RetryTypes
  <2> QED BY <1>1, <1>2, <2>1, <2>2 DEF RetryInv, DiskGrows, Once
<1> QED BY <1>1, <1>3, <1>4, <1>5, <1>6 DEF RetryInv

\* A due run goes from the timers to the end of the queue, or is dropped.
LEMMA RetryDue ==
  ASSUME DiskInv, RetryInv, NEW r \in Run, Due(r) PROVE RetryInv'
<1>1. /\ r \in timers /\ timers' = timers \ {r} /\ admitted' = admitted /\ disk' = disk
      /\ ready' = IF Len(ready) >= MaxQueued THEN ready ELSE Append(ready, r)
  BY DEF Due
<1>2. DiskInv' /\ DiskGrows
  <2>1. \A q \in Run : disk[q].attempts \in Nat
    BY CountAssumption DEF DiskInv, Record
  <2> QED BY <1>1, <2>1 DEF DiskInv, DiskGrows
<1>3. CASE ready' = ready
  BY <1>1, <1>2, <1>3, RetryShrinks
<1>4. CASE ready' = Append(ready, r) /\ ~(Len(ready) >= MaxQueued)
  <2>1. Len(ready) \in Nat /\ MaxQueued \in Nat /\ ready \in Seq(Run)
    BY CountAssumption DEF RetryInv
  <2>2. /\ ready' \in Seq(Run) /\ Len(ready') = Len(ready) + 1 /\ ready'[Len(ready) + 1] = r
        /\ \A i \in 1..Len(ready) : ready'[i] = ready[i]
    BY <1>4, <2>1
  <2>3. Len(ready') <= MaxQueued
    BY <1>4, <2>1, <2>2
  <2>4. \A i \in 1..Len(ready) : ready[i] # r
    BY <1>1 DEF RetryInv
  <2>5. ASSUME NEW i \in 1..Len(ready')
        PROVE  /\ disk[ready'[i]].status # "absent" /\ admitted[ready'[i]] < disk[ready'[i]].attempts
               /\ ready'[i] \notin timers'
               /\ \A j \in 1..Len(ready') : ready'[i] = ready'[j] => i = j
    <3>1. i \in 1..Len(ready) \/ i = Len(ready) + 1
      BY <2>1, <2>2
    <3>2. \A j \in 1..Len(ready') : j \in 1..Len(ready) \/ j = Len(ready) + 1
      BY <2>1, <2>2
    <3>3. CASE i \in 1..Len(ready)
      BY <1>1, <2>2, <2>4, <3>2, <3>3 DEF RetryInv
    <3>4. CASE i = Len(ready) + 1
      BY <1>1, <2>2, <2>4, <3>2, <3>4 DEF RetryInv
    <3> QED BY <3>1, <3>3, <3>4
  <2> QED BY <1>1, <2>2, <2>3, <2>5 DEF RetryInv
<1> QED BY <1>1, <1>3, <1>4

\* The run at the head is admitted: the retry that its record counted takes place.
LEMMA RetryAdmit ==
  ASSUME DiskInv, RetryInv, NEW h \in Admission, Admit(h) PROVE RetryInv'
<1> DEFINE r == Head(ready)
           t == Tail(ready)
<1>1. /\ ready # <<>> /\ timers' = timers \ {r} /\ ready' = RemoveFirst(t, r)
      /\ admitted' = [admitted EXCEPT ![r] = @ + 1] /\ disk' = disk
  BY DEF Admit, Continue
<1>2. DiskInv'
  BY <1>1 DEF DiskInv
<1>3. /\ r = ready[1] /\ 1 \in 1..Len(ready) /\ t \in Seq(Run) /\ Len(t) = Len(ready) - 1
      /\ \A k \in 1..Len(t) : k + 1 \in 1..Len(ready) /\ t[k] = ready[k+1]
  BY <1>1 DEF RetryInv
<1> HIDE DEF r, t
<1>4. r \in Run /\ admitted[r] < disk[r].attempts
  BY <1>2, <1>3, RetryTypes DEF RetryInv
<1>5. Once(t) /\ \A k \in 1..Len(t) : t[k] # r
  <2>1. Len(t) \in Nat /\ \A k \in 1..Len(t) : k + 1 # 1
    BY <1>3
  <2>2. Once(ready)
    BY <1>2, RetryTypes
  <2>3. Once(t)
    BY <1>3, <2>2 DEF Once
  <2>4. ASSUME NEW k \in 1..Len(t), t[k] = r PROVE FALSE
    <3>1. k + 1 \in 1..Len(ready) /\ ready[k+1] = ready[1] /\ 1 \in 1..Len(ready)
      BY <1>3, <2>4
    <3>2. k + 1 = 1
      BY <2>2, <3>1 DEF Once
    <3> QED BY <3>2, <2>1
  <2> QED BY <2>3, <2>4
<1>6. /\ ready' \in Seq(Run) /\ Len(ready') <= Len(t) /\ Once(ready')
      /\ \A k \in 1..Len(ready') : ready'[k] # r /\ \E j \in 1..Len(t) : ready'[k] = t[j]
  BY <1>1, <1>3, <1>5, RemoveFirstFacts
<1>7. /\ admitted' \in [Run -> Nat] /\ admitted'[r] = admitted[r] + 1
      /\ \A q \in Run : q # r => admitted'[q] = admitted[q]
  BY <1>1, <1>4 DEF RetryInv
<1>8. \A q \in Run : admitted'[q] <= disk[q].attempts
  <2>1. /\ \A q \in Run : admitted[q] <= disk[q].attempts
        /\ \A q \in Run : disk[q].attempts \in Nat /\ admitted[q] \in Nat
    BY <1>2, RetryTypes DEF RetryInv
  <2>2. admitted[r] + 1 <= disk[r].attempts
    BY <1>4, <2>1
  <2> QED BY <1>7, <2>1, <2>2
<1>9. Len(ready') <= MaxQueued /\ timers' \subseteq Run
  <2>1. Len(ready) \in Nat /\ Len(ready') \in Nat /\ Len(ready) <= MaxQueued /\ MaxQueued \in Nat
    BY <1>6, CountAssumption DEF RetryInv
  <2> QED BY <1>1, <1>3, <1>6, <2>1 DEF RetryInv
<1>10. ASSUME NEW q \in timers'
       PROVE  disk[q].status # "absent" /\ admitted'[q] < disk[q].attempts
  BY <1>1, <1>7 DEF RetryInv
<1>11. ASSUME NEW i \in 1..Len(ready')
       PROVE  /\ disk[ready'[i]].status # "absent" /\ admitted'[ready'[i]] < disk[ready'[i]].attempts
              /\ ready'[i] \notin timers'
              /\ \A j \in 1..Len(ready') : ready'[i] = ready'[j] => i = j
  <2>1. PICK k \in 1..Len(ready) : ready'[i] = ready[k]
    BY <1>3, <1>6
  <2>2. ready[k] \in Run
    BY <1>2, RetryTypes
  <2> QED BY <1>1, <1>6, <1>7, <2>1, <2>2 DEF RetryInv, Once
<1> QED BY <1>1, <1>6, <1>7, <1>8, <1>9, <1>10, <1>11 DEF RetryInv

LEMMA NextKeepsRetry ==
  ASSUME FramesInv, Remembers, DiskInv, SpecsInv, DiskInv', RetryInv, DiskGrows, Next
  PROVE  RetryInv'
<1>1. ASSUME NEW c \in Call, Step(c) PROVE RetryInv'
  <2>1. CASE LimitReached(c)
    <3>1. admitted' = admitted
      BY <2>1 DEF LimitReached
    <3>2. CASE /\ timers' = timers \cup {frame[c].run} /\ ready' = RemoveFirst(ready, frame[c].run)
               /\ disk'[frame[c].run].attempts = disk[frame[c].run].attempts + 1
      <4>2. frame[c].run \in Run /\ disk[frame[c].run].status # "absent"
        BY <2>1, Acting DEF LimitReached, At, FrameOK, CopiesAreCurrent, ViewPoints
      <4> QED BY <3>1, <3>2, <4>2, RetryScheduled
    <3>3. CASE UNCHANGED <<timers, ready>>
      BY <3>1, <3>3, RetryShrinks
    <3> QED BY <2>1, <3>2, <3>3, LimitReachedEffect
  <2>2. CASE IndexChild(c)
    <3>1. admitted' = admitted /\ timers' \subseteq timers
          /\ (ready' = ready \/ \E r : ready' = RemoveFirst(ready, r))
      BY <2>2 DEF IndexChild, Forget
    <3> QED BY <3>1, RetryShrinks
  <2>3. ASSUME UNCHANGED retry PROVE RetryInv'
    BY <2>3, RetryShrinks DEF retry
  <2>4. CASE GateReturns(c) \/ GateCancels(c) \/ GateBudget(c) \/ GateSeries(c)
    BY <2>3, <2>4 DEF GateReturns, GateCancels, GateBudget, GateSeries
  <2>5. CASE GatePublished(c) \/ GateUntil(c) \/ Stop(c) \/ Limited(c) \/ Launch(c)
    BY <2>3, <2>5 DEF GatePublished, GateUntil, Stop, Limited, Launch
  <2>6. CASE Executed(c) \/ Persist(c) \/ CaughtPersists(c) \/ Settle(c) \/ Declined(c)
    BY <2>3, <2>6 DEF Executed, Persist, CaughtPersists, Settle, Declined
  <2>7. CASE Accepted(c) \/ Failed(c) \/ NextChild(c) \/ ChildReturned(c) \/ SeriesDone(c)
    BY <2>3, <2>7 DEF Accepted, Failed, NextChild, ChildReturned, SeriesDone
  <2>8. CASE Answered(c) \/ Published(c)
    BY <2>3, <2>8 DEF Answered, Published
  <2> QED BY <1>1, <2>1, <2>2, <2>4, <2>5, <2>6, <2>7, <2>8 DEF Step
<1>2. ASSUME admitted' = admitted, timers' \subseteq timers,
             ready' = ready \/ ready' = <<>> \/ \E r : ready' = RemoveFirst(ready, r)
      PROVE  RetryInv'
  BY <1>2, RetryShrinks
<1>3. ASSUME NEW c \in Caller, NEW r \in Run,
             \/ Ask(c, r) \/ publish(c, r)
             \/ \E until \in {"none", "stop", "publication"} : Resume(c, r, until)
      PROVE  RetryInv'
  <2>1. admitted' = admitted /\ timers' \subseteq timers
        /\ (ready' = ready \/ ready' = <<>> \/ \E q : ready' = RemoveFirst(ready, q))
    BY <1>3 DEF Ask, publish, Resume, Forget, retry
  <2> QED BY <1>2, <2>1
<1>4. CASE FrontActs
  <2>1. admitted' = admitted /\ timers' \subseteq timers
        /\ (ready' = ready \/ ready' = <<>> \/ \E q : ready' = RemoveFirst(ready, q))
    BY <1>4 DEF FrontActs, recordBudgetDecision, cancel, requestDecision,
                resolveDecisionFromOperator, Forget, retry
  <2> QED BY <1>2, <2>1
<1>5. CASE Dies
  <2>1. admitted' = admitted /\ timers' \subseteq timers /\ (ready' = ready \/ ready' = <<>>)
    BY <1>5 DEF Dies
  <2> QED BY <1>2, <2>1
<1> QED BY <1>1, <1>3, <1>4, <1>5, RetryDue, RetryAdmit DEF Next

-----------------------------------------------------------------------------
(* The invariant, and what follows from it.                                 *)

LEMMA NextKeepsIInv == ASSUME IInv, Next PROVE IInv' /\ Effect
<1>0. Remembers /\ misreported' \subseteq Run
  BY NextRemembers DEF IInv
<1>1. Effect /\ authorised' \in Nat /\ authorised <= authorised'
  BY <1>0, NextEffect DEF IInv
<1>2. FramesInv' /\ frame' \in [Call -> Frame]
  BY <1>0, <1>1, EffectKeepsFrames DEF IInv
<1>3. DiskInv' /\ DiskGrows
  BY <1>1, EffectKeepsDisk DEF IInv, DiskGrows
<1>4. SpecsInv'
  BY <1>1, EffectKeepsSpecs DEF IInv
<1>5. RetryInv'
  BY <1>0, <1>3, NextKeepsRetry DEF IInv
<1>6. PendingInv'
  <2>1. acts \in 0..MaxActs /\ turns \in 0..MaxTurns /\ crashes \in 0..MaxCrashes
    BY DEF IInv, PendingInv
  <2>2. /\ acts' \in 0..MaxActs /\ turns' \in 0..MaxTurns /\ crashes' \in 0..MaxCrashes
        /\ acts' >= acts /\ turns' >= turns
    BY <2>1, NextCounts, CountAssumption
  <2> QED BY <1>1, <2>2, EffectKeepsPending DEF IInv
<1>7. GivenInv'
  BY DEF IInv, GivenInv, Next, given
<1> QED BY <1>0, <1>1, <1>2, <1>3, <1>4, <1>5, <1>6, <1>7 DEF IInv

LEMMA InitIInv == Init => IInv
<1> SUFFICES ASSUME Init PROVE IInv
  OBVIOUS
<1>1. frame \in [Call -> Frame] /\ FramesInv
  <2>1. \A c \in Call : frame[c] = Idle
    BY DEF Init
  <2> QED BY <2>1, AbsentType, IdleOK DEF Init, FramesInv
<1>2. PICK b \in {"none", "blocked"} :
        disk = [r \in Run |-> IF r = Root THEN [Queued EXCEPT !.budget = b] ELSE Absent]
  BY DEF Init
<1>3. Root \in Run /\ Root \notin Child /\ Child \subseteq Run
  BY CallAssumption DEF Run
<1> DEFINE root == [Queued EXCEPT !.budget = b]
<1>4. /\ root \in Record /\ root.status = "queued" /\ ~root.cancelRequested
      /\ root.children = {} /\ root.remaining = 0 /\ root.pending = 0 /\ root.attempts = 0
      /\ root.lease = None
  <2>1. root \in Record
    BY AbsentType DEF Record
  <2> QED BY <2>1 DEF Queued, Absent
<1>5. disk[Root] = root /\ disk \in [Run -> Record] /\ \A r \in Run : r # Root => disk[r] = Absent
  BY <1>2, <1>3, <1>4, AbsentType
<1> HIDE DEF root
<1>6. DiskInv
  BY <1>3, <1>4, <1>5, CountAssumption DEF DiskInv, Absent
<1>7. SpecsInv
  <2>1. disk[Root].children = {} /\ disk[Root].remaining = 0 /\ authorised = 0
    BY <1>4, <1>5 DEF Init
  <2>2. IsFiniteSet({}) /\ Cardinality({}) = 0
    BY FS_EmptySet
  <2> QED BY <2>1, <2>2 DEF SpecsInv
<1>8. \A r \in Run : disk[r].attempts = 0 /\ disk[r].pending = 0 /\ disk[r].lease = None
  BY <1>4, <1>5 DEF Absent
<1>9. RetryInv
  BY <1>8, CountAssumption DEF Init, RetryInv
<1>10. PendingInv
  BY <1>8, CountAssumption DEF Init, PendingInv
<1>11. GivenInv
  BY DEF Init, GivenInv
<1> QED BY <1>1, <1>6, <1>7, <1>9, <1>10, <1>11 DEF Init, IInv

LEMMA StutterKeepsIInv == ASSUME IInv, UNCHANGED vars PROVE IInv'
BY DEF vars, given, retry, count, IInv, FramesInv, FrameOK, CopiesAreCurrent, SeriesOfTheRoot,
       TurnIsHeld, DiskInv, SpecsInv, RetryInv, PendingInv, GivenInv

\* The inductive invariant of the control plane, whichever saves throw and whether or not
\* they land: copies nobody has saved over are the record, who executes has the lease unless
\* a settlement of the run was misreported, and retries, specs and decisions are counted.
THEOREM Invariant == Spec => []IInv
<1>1. IInv /\ [Next]_vars => IInv'
  BY NextKeepsIInv, StutterKeepsIInv
<1> QED BY InitIInv, <1>1, PTL DEF Spec

\* Every variable of the control plane keeps its type: in particular no record has more
\* decisions that wait than were asked for.
THEOREM TypeCorrect == Spec => []TypeOK
<1>1. IInv => TypeOK
  BY DEF IInv, FramesInv, Remembers, DiskInv, SpecsInv, RetryInv, PendingInv, GivenInv, TypeOK
<1> QED BY Invariant, <1>1, PTL

\* From the launch to the settlement a run belongs to one call, until a settlement of it lands
\* and throws: no second resume, front, timer or death, and no other save that throws, takes
\* the lease or providerTurnInFlight away from it.
THEOREM ExecutionsAreExclusive == Spec => []OneExecutionPerRun
<1>1. IInv => OneExecutionPerRun
  BY DEF IInv, FramesInv, FrameOK, TurnIsHeld, OneExecutionPerRun, Executing, ExecPoints
<1> QED BY Invariant, <1>1, PTL

\* The timers of a coordinator never resume a run more often than its record says, and
\* the record never says more than the ceiling, unless that is zero, which bounds nothing.
THEOREM RetriesStayCounted == Spec => []RetriesAreCounted
<1>1. IInv => RetriesAreCounted
  BY DEF IInv, DiskInv, RetryInv, RetriesAreCounted
<1> QED BY Invariant, <1>1, PTL

\* A recorded cancellation is kept and its run never completes, whichever save of
\* resume, of a settlement or of a series comes after it.
THEOREM CancellationIsKept == Spec => CancelledNeverCompletes
<1>1. IInv /\ [Next]_vars =>
        [\A r \in Run : disk[r].cancelRequested =>
            disk'[r].cancelRequested /\ disk'[r].status # "complete"]_vars
  <2>1. ASSUME IInv, Next, NEW r \in Run, disk[r].cancelRequested
        PROVE  disk'[r].cancelRequested /\ disk'[r].status # "complete"
    <3>1. IInv' /\ Effect
      BY <2>1, NextKeepsIInv
    <3>2. disk'[r].cancelRequested
      BY <2>1, <3>1, EffectKeepsDisk DEF IInv
    <3> QED BY <3>1, <3>2 DEF IInv, DiskInv
  <2> QED BY <2>1
<1> QED BY Invariant, <1>1, PTL DEF Spec, CancelledNeverCompletes

\* However many calls work through the series at once, the root never forgets a child and
\* children and specs left never outnumber the specs that were accepted.
THEOREM SpecsAreSpentOnce == Spec => SpecsBecomeChildren
<1>1. IInv /\ [Next]_vars =>
        [/\ disk[Root].children \subseteq disk'[Root].children
         /\ Cardinality(disk'[Root].children) + disk'[Root].remaining <= authorised']_vars
  <2>1. ASSUME IInv, Next
        PROVE  /\ disk[Root].children \subseteq disk'[Root].children
               /\ Cardinality(disk'[Root].children) + disk'[Root].remaining <= authorised'
    <3>1. Effect /\ authorised' \in Nat /\ authorised <= authorised'
      BY <2>1, NextEffect, NextRemembers DEF IInv
    <3>2. SpecsInv' /\ disk[Root].children \subseteq disk'[Root].children
      BY <2>1, <3>1, EffectKeepsSpecs DEF IInv
    <3> QED BY <3>2 DEF SpecsInv
  <2> QED BY <2>1
<1> QED BY Invariant, <1>1, PTL DEF Spec, SpecsBecomeChildren
=============================================================================
