------------------------ MODULE BackgroundRunsProofs ------------------------
(* The theorems about BackgroundRuns, and their proofs.                     *)
(*                                                                         *)
(* What a step does to the copies and to the record on disk is summed up     *)
(* once, for a write and for a commit; the parts of the invariant are then   *)
(* proved action by action from those summaries.                            *)
EXTENDS BackgroundRuns, Integers, WellFoundedInduction, TLAPS

-----------------------------------------------------------------------------
(* The inductive invariant.                                                 *)

Upto(windows, n) == \A w \in windows : w.first <= n /\ w.last <= n

Dated(windows) == Upto(windows, Len(notices))

\* No window is of a notice that was not recorded yet.
Past == Dated(disk.wakes) /\ \A m \in Manager : Dated(mem[m].wakes)

\* Every copy of the record parses, as the record on disk does.
Readable ==
  /\ isTerminal(disk) = disk.outcome
  /\ \A m \in Manager : isTerminal(mem[m]) = mem[m].outcome

\* A worker that has claimed the run is at one of its own steps; its copy has the lease, and
\* until it begins the run is still requested and nothing has cancelled it.
Working ==
  \A m \in Manager :
    /\ active[m] => /\ m \in Other /\ at[m] \in {"launching", "idle", "settling"}
                    /\ mem[m].lease = m /\ mem[m].life # "absent" /\ launch = "spawned"
                    /\ ~running[m] => mem[m].life = "requested"
                    /\ mem[m].life = "requested" => ~running[m] /\ ~cancelled[m]
    /\ (at[m] \in {"launching", "settling"} \/ running[m]) => active[m]
    /\ at[m] = "settling" => running[m]
    /\ at[m] = "reaping" => late
    /\ m \in Other /\ at[m] # "down" => launch = "spawned"

\* The lease of a request that is claimed is its worker's.
Leased == \A m \in Manager : active[m] /\ disk.life = "requested" => disk.lease = m

Claimable == disk.life = "requested" /\ disk.lease = None

\* A request is claimed once: every copy names the process that claimed it, or none.
Recorded ==
  /\ \A m \in Manager : mem[m].process \in {None, disk.process} /\ (active[m] => disk.process = m)
  /\ Claimable => disk.process = None /\ \A m \in Manager : ~cancelled[m]

\* A run that was reconciled is never requested again.
Reaped == reaped => launch # "none" /\ disk.life # "requested" /\ \A m \in Manager : ~active[m]

Requested ==
  /\ launch = "none" =>
       /\ disk.life = "absent" /\ disk.process = None
       /\ \A m \in Manager : /\ mem[m].life = "absent" /\ mem[m].process = None
                            /\ ~cancelled[m] /\ at[m] \in {"down", "idle"}
  /\ launch # "none" => disk.life # "absent"

\* What the theorems need beside the types.
Core == Readable /\ Working /\ Leased /\ Recorded /\ Reaped /\ Requested

IInv == TypeOK /\ Past /\ Core

-----------------------------------------------------------------------------
(* Windows.                                                                 *)

\* A bounded set of times has a latest one: the complements have a smallest one.
LEMMA LatestIs ==
  ASSUME NEW S \in SUBSET Nat, S # {}, NEW n \in Nat, \A s \in S : s <= n
  PROVE  Latest(S) \in S /\ \A s \in S : s <= Latest(S)
<1> DEFINE T == {n - s : s \in S}
<1>1. T \subseteq Nat
  <2> SUFFICES ASSUME NEW s \in S PROVE n - s \in Nat
    OBVIOUS
  <2>1. s \in Nat /\ s <= n
    OBVIOUS
  <2> QED BY <2>1
<1>2. T # {}
  OBVIOUS
<1>3. PICK x \in T : \A y \in T : ~ (<<y, x>> \in OpToRel(<, Nat))
  <2> HIDE DEF T
  <2> QED BY <1>1, <1>2, WFMin, NatLessThanWellFounded
<1>4. \A y \in T : ~ (y < x)
  <2> HIDE DEF T
  <2> QED BY <1>1, <1>3 DEF OpToRel
<1>5. PICK k \in S : x = n - k
  OBVIOUS
<1>6. \A s \in S : s <= k
  <2> TAKE s \in S
  <2>1. ~ (n - s < n - k)
    BY <1>4, <1>5
  <2> QED BY <2>1
<1> QED BY <1>6 DEF Latest

\* What mergeWake makes of windows are windows, no later than those it merges.
LEMMA MergeIs ==
  ASSUME NEW a \in SUBSET Window, NEW b \in SUBSET Window, NEW n \in Nat, Upto(a, n), Upto(b, n)
  PROVE  mergeWake(a, b) \in SUBSET Window /\ Upto(mergeWake(a, b), n)
<1> DEFINE same(w) == {v \in a \cup b : v.kind = w.kind /\ v.first = w.first}
           lasts(w) == {v.last : v \in same(w)}
           merged(w) == [kind |-> w.kind, first |-> w.first, last |-> Latest(lasts(w)),
                         handled |-> \E v \in same(w) : v.handled]
<1>1. \A w \in a \cup b : w \in Window /\ w.first <= n /\ w.last <= n
  BY DEF Upto
<1>2. ASSUME NEW w \in a \cup b
      PROVE  merged(w) \in Window /\ merged(w).first <= n /\ merged(w).last <= n
  <2>1. lasts(w) \subseteq Nat /\ lasts(w) # {} /\ \A l \in lasts(w) : l <= n
    BY <1>1 DEF Window
  <2>2. Latest(lasts(w)) \in Nat /\ Latest(lasts(w)) <= n
    <3> HIDE DEF lasts
    <3>1. Latest(lasts(w)) \in lasts(w)
      BY <2>1, LatestIs
    <3> QED BY <2>1, <3>1
  <2>3. (\E v \in same(w) : v.handled) \in BOOLEAN
    OBVIOUS
  <2>4. w.kind \in Wakeful /\ w.first \in Nat /\ w.first <= n
    BY <1>1 DEF Window
  <2> DEFINE l == Latest(lasts(w))
             h == \E v \in same(w) : v.handled
  <2>5. merged(w) = [kind |-> w.kind, first |-> w.first, last |-> l, handled |-> h]
    OBVIOUS
  <2>6. l \in Nat /\ l <= n /\ h \in BOOLEAN
    BY <2>2, <2>3
  <2> HIDE DEF merged, l, h
  <2> QED BY <2>4, <2>5, <2>6 DEF Window
<1>3. mergeWake(a, b) = {merged(w) : w \in a \cup b}
  BY DEF mergeWake
<1> HIDE DEF merged
<1> QED BY <1>2, <1>3 DEF Upto

\* A notice of this moment makes windows of windows.
LEMMA CoalesceIs ==
  ASSUME NEW W \in SUBSET Window, NEW kind, notices \in Seq(Wakeful), Dated(W)
  PROVE  LET n == IF kind \in Wakeful THEN now ELSE Len(notices)
         IN coalesceWake(W, kind) \in SUBSET Window /\ Upto(coalesceWake(W, kind), n)
<1> DEFINE open == {w \in Unhandled(W) : w.kind = kind}
           firsts == {v.first : v \in open}
           new == [kind |-> kind, first |-> now, last |-> now, handled |-> FALSE]
<1>1. Len(notices) \in Nat /\ now = Len(notices) + 1 /\ now \in Nat
  BY DEF now
<1>2. \A w \in W : w \in Window /\ w.first <= Len(notices) /\ w.last <= Len(notices)
  BY DEF Dated, Upto
<1>3. CASE kind \notin Wakeful
  BY <1>3 DEF coalesceWake, Dated
<1>4. CASE kind \in Wakeful /\ open = {}
  <2>1. coalesceWake(W, kind) = W \cup {new}
    BY <1>4 DEF coalesceWake
  <2>2. new \in Window /\ new.first <= now /\ new.last <= now
    BY <1>1, <1>4 DEF Window
  <2> HIDE DEF new
  <2>3. W \cup {new} \in SUBSET Window
    BY <2>2
  <2>4. \A w \in W \cup {new} : w.first <= now /\ w.last <= now
    BY <1>1, <1>2, <2>2 DEF Window
  <2> QED BY <1>4, <2>1, <2>3, <2>4 DEF Upto
<1>5. CASE kind \in Wakeful /\ open # {}
  <2> DEFINE w0 == CHOOSE w \in open : w.first = Latest(firsts)
             longer == [w0 EXCEPT !.last = now]
  <2>1. firsts \in SUBSET Nat /\ firsts # {} /\ \A s \in firsts : s <= Len(notices)
    BY <1>2, <1>5 DEF Unhandled, Window
  <2>2. Latest(firsts) \in firsts
    <3> HIDE DEF firsts
    <3> QED BY <1>1, <2>1, LatestIs
  <2>3. \E w \in open : w.first = Latest(firsts)
    BY <2>2
  <2>4. w0 \in open
    <3> HIDE DEF firsts, open
    <3> QED BY <2>3
  <2>5. w0 \in Window /\ w0.first <= Len(notices)
    <3> HIDE DEF w0
    <3> QED BY <1>2, <2>4 DEF Unhandled
  <2>6. coalesceWake(W, kind) = (W \ {w0}) \cup {longer}
    BY <1>5 DEF coalesceWake
  <2> HIDE DEF w0
  <2>7. longer \in Window /\ longer.first <= now /\ longer.last <= now
    BY <1>1, <2>5 DEF Window
  <2> HIDE DEF longer
  <2> QED BY <1>1, <1>2, <1>5, <2>6, <2>7 DEF Upto, Window
<1> HIDE DEF open
<1> QED BY <1>3, <1>4, <1>5

-----------------------------------------------------------------------------
(* What the writes do.                                                      *)

\* The fields of a persisted record: those of the writer's copy, but the windows and a
\* process that the copy has not.
LEMMA PersistedIs ==
  ASSUME disk \in Record, NEW r \in Record, NEW n \in Nat, Upto(disk.wakes, n), Upto(r.wakes, n)
  PROVE  /\ Persisted(r) \in Record /\ Upto(Persisted(r).wakes, n)
         /\ Persisted(r).life = r.life /\ Persisted(r).lease = r.lease
         /\ Persisted(r).outcome = r.outcome
         /\ Persisted(r).process = IF r.process = None THEN disk.process ELSE r.process
<1> DEFINE w == mergeWake(disk.wakes, r.wakes)
<1>1. disk.wakes \in SUBSET Window /\ r.wakes \in SUBSET Window
  BY DEF Record
<1>2. w \in SUBSET Window /\ Upto(w, n)
  BY <1>1, MergeIs
<1>3. Persisted(r) = [r EXCEPT !.wakes = w, !.process = IF @ = None THEN disk.process ELSE @]
  BY DEF Persisted
<1> HIDE DEF w
<1> QED BY <1>2, <1>3 DEF Record

\* The fields of a record with one more event.
LEMMA AppendIs ==
  ASSUME notices \in Seq(Wakeful), NEW r \in Record, Dated(r.wakes), NEW event
  PROVE  /\ append(r, event) \in Record
         /\ Upto(append(r, event).wakes, IF event \in Wakeful THEN now ELSE Len(notices))
         /\ append(r, event).life = r.life /\ append(r, event).lease = r.lease
         /\ append(r, event).outcome = r.outcome /\ append(r, event).process = r.process
<1> DEFINE w == coalesceWake(r.wakes, event)
           k == IF event \in Wakeful THEN now ELSE Len(notices)
           q == r.seq + 1
<1>1. r.wakes \in SUBSET Window
  BY DEF Record
<1>2. w \in SUBSET Window /\ Upto(w, k)
  BY <1>1, CoalesceIs
<1>3. append(r, event) = [r EXCEPT !.seq = q, !.wakes = w] /\ q \in Nat
  BY DEF append, Record
<1> HIDE DEF w, k, q
<1>4. append(r, event) \in Record /\ append(r, event).wakes = w
  BY <1>2, <1>3 DEF Record
<1>5. Upto(append(r, event).wakes, k)
  BY <1>2, <1>4
<1>6. /\ append(r, event).life = r.life /\ append(r, event).lease = r.lease
      /\ append(r, event).outcome = r.outcome /\ append(r, event).process = r.process
  BY <1>3 DEF Record
<1> QED BY <1>4, <1>5, <1>6 DEF k

\* The notices of a step are those before it and at most one more.
LEMMA NoticeIs ==
  ASSUME TypeOK, NEW event, Notice(event)
  PROVE  /\ notices' \in Seq(Wakeful) /\ Len(notices') <= MaxNotices
         /\ Len(notices) <= Len(notices') /\ told \subseteq DOMAIN notices'
         /\ Len(notices') = IF event \in Wakeful THEN now ELSE Len(notices)
<1>1. CASE event \in Wakeful
  <2>1. notices' = Append(notices, event) /\ Len(notices) < MaxNotices
    BY <1>1 DEF Notice
  <2> QED BY <1>1, <2>1, BoundAssumption DEF TypeOK, now
<1>2. CASE event \notin Wakeful
  BY <1>2, BoundAssumption DEF Notice, TypeOK
<1> QED BY <1>1, <1>2

\* A drain is scheduled or not.
LEMMA NudgeIs ==
  ASSUME TypeOK, NEW m, Nudge(m)
  PROVE  /\ pump' \in [Console -> {"idle", "scheduled", "turn"}]
         /\ stalled' \in [Console -> BOOLEAN]
BY DEF TypeOK, Nudge

\* Windows that are not later than some moment are not later than one after it.
LEMMA UptoGrows ==
  ASSUME NEW W \in SUBSET Window, NEW n \in Nat, NEW k \in Nat, n <= k, Upto(W, n)
  PROVE  Upto(W, k)
BY DEF Upto, Window

\* A write of a copy that parses.
LEMMA StoreIs ==
  ASSUME TypeOK, Past, NEW m \in Manager, NEW r \in Record, Dated(r.wakes), Store(m, r)
  PROVE  /\ disk' \in Record /\ Dated(disk'.wakes) /\ crossed' \in BOOLEAN
         /\ disk'.life = r.life /\ disk'.lease = r.lease /\ disk'.outcome = r.outcome
         /\ disk'.process = IF r.process = None THEN disk.process ELSE r.process
<1>1. Len(notices) \in Nat /\ disk \in Record /\ crossed \in BOOLEAN
  BY DEF TypeOK
<1>2. disk' = Persisted(r)
  BY DEF Store
<1>3. crossed' \in BOOLEAN
  BY <1>1 DEF Store
<1> QED BY <1>1, <1>2, <1>3, PersistedIs DEF Past, Dated

\* A commit: m's copy and the record on disk are the given one but for windows and process.
Committed(m, r) ==
  /\ disk' \in Record /\ mem' \in [Manager -> Record] /\ crossed' \in BOOLEAN
  /\ Past'
  /\ disk'.life = r.life /\ disk'.lease = r.lease /\ disk'.outcome = r.outcome
  /\ disk'.process = IF r.process = None THEN disk.process ELSE r.process
  /\ mem'[m].life = r.life /\ mem'[m].lease = r.lease /\ mem'[m].outcome = r.outcome
  /\ mem'[m].process = r.process
  /\ \A n \in Manager : n # m => mem'[n] = mem[n]
  /\ notices' \in Seq(Wakeful) /\ Len(notices') <= MaxNotices /\ told \subseteq DOMAIN notices'
  /\ pump' \in [Console -> {"idle", "scheduled", "turn"}] /\ stalled' \in [Console -> BOOLEAN]
  /\ UNCHANGED <<batch, busy, front, blocked>>

LEMMA CommitIs ==
  ASSUME TypeOK, Past, NEW m \in Manager, NEW r \in Record, Dated(r.wakes), NEW event,
         Commit(m, r, event)
  PROVE  Committed(m, r)
<1> DEFINE n == Len(notices')
<1>1. /\ notices' \in Seq(Wakeful) /\ Len(notices') <= MaxNotices
      /\ Len(notices) <= Len(notices') /\ told \subseteq DOMAIN notices'
      /\ Len(notices') = IF event \in Wakeful THEN now ELSE Len(notices)
  BY NoticeIs DEF Commit
<1>2. n \in Nat /\ Len(notices) \in Nat /\ notices \in Seq(Wakeful)
  BY <1>1 DEF TypeOK
<1> DEFINE next == append(r, event)
<1>3. /\ next \in Record /\ Upto(next.wakes, n)
      /\ next.life = r.life /\ next.lease = r.lease
      /\ next.outcome = r.outcome /\ next.process = r.process
  BY <1>1, <1>2, AppendIs
<1>4. disk \in Record /\ disk.wakes \in SUBSET Window /\ Upto(disk.wakes, n)
  <2>1. disk \in Record /\ disk.wakes \in SUBSET Window
    BY DEF TypeOK, Record
  <2> QED BY <1>1, <1>2, <2>1, UptoGrows DEF Past, Dated
<1>5. ASSUME NEW k \in Manager PROVE Upto(mem[k].wakes, n)
  <2>1. mem[k].wakes \in SUBSET Window
    BY DEF TypeOK, Record
  <2> QED BY <1>1, <1>2, <2>1, UptoGrows DEF Past, Dated
<1>6. mem' = [mem EXCEPT ![m] = next] /\ disk' = Persisted(next) /\ crossed' \in BOOLEAN
  BY DEF Commit, Store, TypeOK
<1> HIDE DEF next, n
<1>7. /\ disk' \in Record /\ Upto(disk'.wakes, n)
      /\ disk'.life = r.life /\ disk'.lease = r.lease /\ disk'.outcome = r.outcome
      /\ disk'.process = IF r.process = None THEN disk.process ELSE r.process
  BY <1>2, <1>3, <1>4, <1>6, PersistedIs
<1>8. /\ mem' \in [Manager -> Record] /\ mem'[m] = next
      /\ \A k \in Manager : k # m => mem'[k] = mem[k]
  BY <1>3, <1>6 DEF TypeOK
<1>9. Past'
  <2>1. \A k \in Manager : Upto(mem'[k].wakes, n)
    BY <1>3, <1>5, <1>8
  <2> QED BY <1>7, <2>1 DEF Past, Dated, n
<1>10. pump' \in [Console -> {"idle", "scheduled", "turn"}] /\ stalled' \in [Console -> BOOLEAN]
  BY NudgeIs DEF Commit
<1>11. UNCHANGED <<batch, busy, front, blocked>>
  BY DEF Commit
<1> QED BY <1>1, <1>3, <1>6, <1>7, <1>8, <1>9, <1>10, <1>11 DEF Committed

-----------------------------------------------------------------------------
(* What each writing action does.                                           *)

\* m committed its copy with this life and this outcome.
Wrote(m, life, outcome) ==
  /\ disk' \in Record /\ mem' \in [Manager -> Record] /\ crossed' \in BOOLEAN /\ Past'
  /\ disk'.life = life /\ disk'.outcome = outcome /\ disk'.lease = mem[m].lease
  /\ disk'.process = IF mem[m].process = None THEN disk.process ELSE mem[m].process
  /\ mem'[m].life = life /\ mem'[m].outcome = outcome /\ mem'[m].lease = mem[m].lease
  /\ mem'[m].process = mem[m].process
  /\ \A n \in Manager : n # m => mem'[n] = mem[n]
  /\ notices' \in Seq(Wakeful) /\ Len(notices') <= MaxNotices /\ told \subseteq DOMAIN notices'
  /\ pump' \in [Console -> {"idle", "scheduled", "turn"}] /\ stalled' \in [Console -> BOOLEAN]
  /\ UNCHANGED <<batch, busy, front, blocked>>

LEMMA WroteIs ==
  ASSUME TypeOK, Past, NEW m \in Manager, NEW life \in Life, NEW outcome \in BOOLEAN, NEW event,
         NEW r, r = [mem[m] EXCEPT !.life = life, !.outcome = outcome], Commit(m, r, event)
  PROVE  Wrote(m, life, outcome)
<1>1. mem[m] \in Record /\ Dated(mem[m].wakes)
  BY DEF TypeOK, Past
<1>2. /\ r \in Record /\ r.wakes = mem[m].wakes /\ r.lease = mem[m].lease
      /\ r.process = mem[m].process /\ r.life = life /\ r.outcome = outcome
  BY <1>1 DEF Record
<1>3. Committed(m, r)
  BY <1>1, <1>2, CommitIs
<1> QED BY <1>2, <1>3 DEF Committed, Wrote

\* The lives that are used below are lives.
LEMMA Lives ==
  /\ Terminal \subseteq Life
  /\ {"absent", "requested", "started", "paused", "operator_attention", "failed", "cancelled",
      "timed_out", "completed"} = Life
BY DEF Life, Terminal

LEMMA AbandonIs ==
  ASSUME TypeOK, Past, NEW m \in Manager, Abandon(m) PROVE Wrote(m, "failed", TRUE)
BY WroteIs, Lives DEF Abandon

LEMMA FailLaunchIs ==
  ASSUME TypeOK, Past, NEW c \in Console, FailLaunch(c) PROVE Wrote(c, "failed", TRUE)
BY WroteIs, Lives DEF FailLaunch, Manager

LEMMA WriteCancelledIs ==
  ASSUME TypeOK, Past, NEW m \in Manager, WriteCancelled(m) PROVE Wrote(m, "cancelled", TRUE)
BY WroteIs, Lives DEF WriteCancelled

LEMMA TimeoutIs ==
  ASSUME TypeOK, Past, NEW w \in Manager, Timeout(w) PROVE Wrote(w, "timed_out", TRUE)
BY WroteIs, Lives DEF Timeout

LEMMA StartDetachedIs ==
  ASSUME IInv, NEW c \in Console, StartDetached(c)
  PROVE  Committed(c, [Absent EXCEPT !.life = "requested"])
<1> DEFINE r == [Absent EXCEPT !.life = "requested"]
<1>1. Absent \in Record /\ Absent.wakes = {}
  BY Lives DEF Absent, Record
<1>2. r \in Record /\ r.wakes = {}
  BY <1>1, Lives DEF Record
<1>3. Commit(c, r, "requested") /\ Dated(r.wakes)
  BY <1>2 DEF StartDetached, Dated, Upto
<1> HIDE DEF r
<1>4. c \in Manager /\ TypeOK /\ Past
  BY DEF Manager, IInv
<1>5. Committed(c, r)
  BY <1>2, <1>3, <1>4, CommitIs
<1> QED BY <1>5 DEF r

LEMMA BeginIs ==
  ASSUME TypeOK, Past, NEW w \in Manager, Begin(w), ~cancelled[w]
  PROVE  Wrote(w, "started", mem[w].outcome)
<1>1. mem[w] \in Record
  BY DEF TypeOK
<1>2. [mem[w] EXCEPT !.life = "started"]
        = [mem[w] EXCEPT !.life = "started", !.outcome = mem[w].outcome]
  BY <1>1 DEF Record
<1>3. mem[w].outcome \in BOOLEAN
  BY <1>1 DEF Record
<1>4. Commit(w, [mem[w] EXCEPT !.life = "started"], "started")
  BY DEF Begin
<1> QED BY <1>2, <1>3, <1>4, WroteIs, Lives

LEMMA StageChangedIs ==
  ASSUME TypeOK, Past, NEW w \in Manager, StageChanged(w)
  PROVE  Wrote(w, mem[w].life, mem[w].outcome)
<1>1. mem[w] \in Record
  BY DEF TypeOK
<1>2. mem[w] = [mem[w] EXCEPT !.life = mem[w].life, !.outcome = mem[w].outcome]
  BY <1>1 DEF Record
<1>3. mem[w].life \in Life /\ mem[w].outcome \in BOOLEAN
  BY <1>1 DEF Record
<1>4. Commit(w, mem[w], "stage_changed")
  BY DEF StageChanged
<1> QED BY <1>2, <1>3, <1>4, WroteIs

LEMMA FinishIs ==
  ASSUME TypeOK, Past, NEW w \in Manager, Finish(w), ~cancelled[w]
  PROVE  \E life \in {"completed", "failed", "paused", "operator_attention"} :
           Wrote(w, life, life \in Terminal)
<1>1. PICK life \in {"completed", "failed", "paused", "operator_attention"} :
        Commit(w, [mem[w] EXCEPT !.life = life, !.outcome = life \in Terminal], life)
  BY DEF Finish
<1>2. life \in Life /\ (life \in Terminal) \in BOOLEAN
  BY Lives
<1>3. Wrote(w, life, life \in Terminal)
  BY <1>1, <1>2, WroteIs
<1> QED BY <1>3

LEMMA ProjectIs ==
  ASSUME TypeOK, Past, NEW c \in Console, Project(c)
  PROVE  \E life \in {"paused", "completed"} : Wrote(c, life, life = "completed")
<1> DEFINE a == append(mem[c], "started")
           r(life) == [a EXCEPT !.life = life, !.outcome = life = "completed"]
<1>1. PICK life \in {"paused", "completed"} : Commit(c, r(life), life)
  BY DEF Project
<1>2. c \in Manager /\ mem[c] \in Record /\ Dated(mem[c].wakes) /\ notices \in Seq(Wakeful)
  BY DEF TypeOK, Past, Manager
<1>3. "started" \notin Wakeful
  BY DEF Wakeful
<1>4. /\ a \in Record /\ Upto(a.wakes, Len(notices))
      /\ a.lease = mem[c].lease /\ a.process = mem[c].process
  BY <1>2, <1>3, AppendIs
<1> HIDE DEF a
<1>5. /\ r(life) \in Record /\ r(life).wakes = a.wakes /\ r(life).lease = mem[c].lease
      /\ r(life).process = mem[c].process /\ r(life).life = life
      /\ r(life).outcome = (life = "completed")
  BY <1>1, <1>4, Lives DEF Record
<1>6. Dated(r(life).wakes)
  BY <1>4, <1>5 DEF Dated
<1> HIDE DEF r
<1>7. Committed(c, r(life))
  BY <1>1, <1>2, <1>5, <1>6, CommitIs
<1>8. Wrote(c, life, life = "completed")
  BY <1>5, <1>7 DEF Committed, Wrote
<1> QED BY <1>8

\* m stored its copy, with this lease, and recorded no notice.
Stored(m, lease) ==
  /\ disk' \in Record /\ mem' \in [Manager -> Record] /\ crossed' \in BOOLEAN /\ Past'
  /\ disk'.life = mem[m].life /\ disk'.outcome = mem[m].outcome /\ disk'.lease = lease
  /\ disk'.process = IF mem[m].process = None THEN disk.process ELSE mem[m].process
  /\ mem'[m].life = mem[m].life /\ mem'[m].outcome = mem[m].outcome /\ mem'[m].lease = lease
  /\ mem'[m].process = mem[m].process
  /\ \A n \in Manager : n # m => mem'[n] = mem[n]

LEMMA PersistIs ==
  ASSUME TypeOK, Past, NEW w \in Manager, Persist(w), UNCHANGED <<mem, notices>>
  PROVE  Stored(w, mem[w].lease)
<1>1. mem[w] \in Record /\ Dated(mem[w].wakes)
  BY DEF TypeOK, Past
<1>2. Store(w, mem[w])
  BY DEF Persist
<1>3. /\ disk' \in Record /\ Dated(disk'.wakes) /\ crossed' \in BOOLEAN
      /\ disk'.life = mem[w].life /\ disk'.lease = mem[w].lease
      /\ disk'.outcome = mem[w].outcome
      /\ disk'.process = IF mem[w].process = None THEN disk.process ELSE mem[w].process
  BY <1>1, <1>2, StoreIs
<1>4. Past'
  BY <1>3 DEF Past, Dated
<1> QED BY <1>3, <1>4 DEF Stored, TypeOK

LEMMA SettleIs ==
  ASSUME TypeOK, Past, NEW w \in Manager, Settle(w)
  PROVE  Stored(w, None)
<1> DEFINE r == [mem[w] EXCEPT !.lease = None]
<1>1. mem[w] \in Record /\ Dated(mem[w].wakes)
  BY DEF TypeOK, Past
<1>2. /\ r \in Record /\ r.wakes = mem[w].wakes /\ r.lease = None /\ r.life = mem[w].life
      /\ r.outcome = mem[w].outcome /\ r.process = mem[w].process
  BY <1>1 DEF Record
<1>3. Store(w, r) /\ mem' = [mem EXCEPT ![w] = r] /\ notices' = notices
  BY <1>1 DEF Settle, TypeOK
<1> HIDE DEF r
<1>4. /\ disk' \in Record /\ Dated(disk'.wakes) /\ crossed' \in BOOLEAN
      /\ disk'.life = r.life /\ disk'.lease = r.lease /\ disk'.outcome = r.outcome
      /\ disk'.process = IF r.process = None THEN disk.process ELSE r.process
  BY <1>1, <1>2, <1>3, StoreIs
<1>5. /\ mem' \in [Manager -> Record] /\ mem'[w] = r
      /\ \A n \in Manager : n # w => mem'[n] = mem[n]
  BY <1>2, <1>3 DEF TypeOK
<1>6. Past'
  <2>1. \A n \in Manager : Dated(mem'[n].wakes)
    BY <1>1, <1>2, <1>5 DEF Past
  <2> QED BY <1>3, <1>4, <2>1 DEF Past, Dated
<1> QED BY <1>2, <1>4, <1>5, <1>6 DEF Stored

\* A reconciliation: the record on disk, failed, and the reader's copy with it.
Reconciled(m) ==
  /\ disk' \in Record /\ mem' = [mem EXCEPT ![m] = disk'] /\ Past'
  /\ disk'.life = "failed" /\ disk'.outcome = TRUE /\ disk'.lease = None
  /\ disk'.process = disk.process
  /\ notices' \in Seq(Wakeful) /\ Len(notices') <= MaxNotices /\ told \subseteq DOMAIN notices'
  /\ pump' \in [Console -> {"idle", "scheduled", "turn"}] /\ stalled' \in [Console -> BOOLEAN]

LEMMA ReapIs ==
  ASSUME TypeOK, Past, NEW m \in Manager, Reap(m), ReapDue(disk)
  PROVE  Reconciled(m)
<1> DEFINE n == Len(notices')
           new == [kind |-> "failed", first |-> now, last |-> now, handled |-> FALSE]
           w == disk.wakes \cup {new}
           q == disk.seq + 1
<1>1. Notice("failed") /\ Nudge(m) /\ disk' = ReapedRecord(disk) /\ mem' = [mem EXCEPT ![m] = disk']
  BY DEF Reap
<1>2. "failed" \in Wakeful /\ "failed" \in Life
  BY Lives DEF Wakeful
<1>3. /\ notices' \in Seq(Wakeful) /\ Len(notices') <= MaxNotices
      /\ Len(notices) <= n /\ told \subseteq DOMAIN notices' /\ n = now
  BY <1>1, <1>2, NoticeIs
<1>4. n \in Nat /\ Len(notices) \in Nat
  BY <1>3 DEF TypeOK
<1>5. disk \in Record /\ disk.wakes \in SUBSET Window /\ Upto(disk.wakes, n)
  <2>1. disk \in Record /\ disk.wakes \in SUBSET Window
    BY DEF TypeOK, Record
  <2> QED BY <1>3, <1>4, <2>1, UptoGrows DEF Past, Dated
<1>6. ASSUME NEW k \in Manager PROVE Upto(mem[k].wakes, n)
  <2>1. mem[k].wakes \in SUBSET Window
    BY DEF TypeOK, Record
  <2> QED BY <1>3, <1>4, <2>1, UptoGrows DEF Past, Dated
<1>7. new \in Window /\ new.first <= n /\ new.last <= n
  BY <1>2, <1>3, <1>4 DEF Window
<1> HIDE DEF new
<1>8. w \in SUBSET Window /\ Upto(w, n)
  BY <1>5, <1>7 DEF Upto
<1>9. q \in Nat
  BY <1>5 DEF Record
<1>10. disk' = [disk EXCEPT !.life = "failed", !.lease = None, !.outcome = TRUE, !.seq = q, !.wakes = w]
  BY <1>1 DEF ReapedRecord, new
<1> HIDE DEF w, q
<1>11. /\ disk' \in Record /\ disk'.wakes = w /\ disk'.life = "failed" /\ disk'.outcome = TRUE
       /\ disk'.lease = None /\ disk'.process = disk.process
  BY <1>2, <1>5, <1>8, <1>9, <1>10 DEF Record
<1>12. \A k \in Manager : Upto(mem'[k].wakes, n)
  BY <1>1, <1>6, <1>8, <1>11 DEF TypeOK
<1>13. Past'
  BY <1>8, <1>11, <1>12 DEF Past, Dated
<1>14. pump' \in [Console -> {"idle", "scheduled", "turn"}] /\ stalled' \in [Console -> BOOLEAN]
  BY <1>1, NudgeIs
<1> QED BY <1>1, <1>3, <1>11, <1>13, <1>14 DEF Reconciled

\* A settled turn leaves the record as it was, but for what is handled.
LEMMA TurnSettlesIs ==
  ASSUME TypeOK, Past, NEW c \in Console, TurnSettles(c)
  PROVE  /\ disk' \in Record /\ mem' = [mem EXCEPT ![c] = disk'] /\ Past'
         /\ disk'.life = disk.life /\ disk'.outcome = disk.outcome /\ disk'.lease = disk.lease
         /\ disk'.process = disk.process
<1> DEFINE w == Handled(disk.wakes, batch[c])
<1>1. c \in Manager /\ disk \in Record /\ disk.wakes \in SUBSET Window /\ Dated(disk.wakes)
  BY DEF TypeOK, Past, Record, Manager
<1>2. w \in SUBSET Window /\ Dated(w)
  BY <1>1 DEF Handled, Dated, Upto, Window
<1>3. disk' = [disk EXCEPT !.wakes = w] /\ mem' = [mem EXCEPT ![c] = disk'] /\ notices' = notices
  BY DEF TurnSettles
<1> HIDE DEF w
<1>4. /\ disk' \in Record /\ disk'.wakes = w /\ disk'.life = disk.life
      /\ disk'.outcome = disk.outcome /\ disk'.lease = disk.lease /\ disk'.process = disk.process
  BY <1>1, <1>2, <1>3 DEF Record
<1>5. Past'
  BY <1>2, <1>3, <1>4 DEF Past, Dated, TypeOK
<1> QED BY <1>3, <1>4, <1>5

-----------------------------------------------------------------------------
(* The kinds of step, as the invariant tells them apart.                    *)

SameFields(r, s) ==
  /\ r.life = s.life /\ r.outcome = s.outcome /\ r.lease = s.lease /\ r.process = s.process

\* Only m's own state changes.
Others(m) ==
  \A n \in Manager :
    n # m => /\ mem'[n] = mem[n] /\ at'[n] = at[n] /\ active'[n] = active[n]
             /\ cancelled'[n] = cancelled[n] /\ running'[n] = running[n]

\* m reads, is stopped or does something else: the record on disk keeps its fields, and m
\* does not execute the run.
Reads(m) ==
  /\ Others(m) /\ UNCHANGED <<launch, late, reaped>> /\ SameFields(disk', disk)
  /\ \/ SameFields(mem'[m], mem[m])
     \/ SameFields(mem'[m], disk)
     \/ (mem'[m].life = "absent" /\ mem'[m].outcome = FALSE /\ mem'[m].process = None)
  /\ at'[m] \notin {"launching", "settling"} /\ ~active'[m] /\ ~running'[m]
  /\ at'[m] = "reaping" => late
  /\ at'[m] \in {"down", "idle"} \/ launch # "none"
  /\ m \in Other /\ at'[m] # "down" => launch = "spawned"
  /\ cancelled'[m] => cancelled[m] \/ (launch # "none" /\ ~Claimable)

\* m stores a life that is not a request, and does not execute the run.
WritesBack(m) ==
  /\ Others(m) /\ late' = late /\ launch # "none"
  /\ launch' = launch \/ (launch = "pending" /\ launch' = "refused")
  /\ disk'.life \notin {"absent", "requested"} /\ isTerminal(disk)' = disk'.outcome
  /\ disk'.process = disk.process
  /\ mem'[m].life = disk'.life /\ mem'[m].outcome = disk'.outcome
  /\ mem'[m].process \in {None, disk.process}
  /\ at[m] # "down" /\ at'[m] = "idle" /\ ~active'[m] /\ ~running'[m]
  /\ reaped' => (reaped \/ \A n \in Manager : ~active[n])

\* The worker goes on, and stores its copy or leaves the record alone.
Works(w) ==
  /\ active[w] /\ Others(w) /\ UNCHANGED <<launch, late, reaped>>
  /\ active'[w] /\ at'[w] \in {"idle", "settling"} /\ (at'[w] = "settling" => running'[w])
  /\ \/ (SameFields(disk', disk) /\ SameFields(mem'[w], mem[w]))
     \/ /\ SameFields(disk', [mem'[w] EXCEPT !.process = disk.process])
        /\ mem'[w].lease = w /\ mem'[w].process \in {None, disk.process}
        /\ mem'[w].life # "absent" /\ isTerminal(mem'[w]) = mem'[w].outcome
  /\ ~running'[w] => mem'[w].life = "requested"
  /\ mem'[w].life = "requested" => ~running'[w] /\ ~cancelled'[w]

LEMMA ReadsKeeps ==
  ASSUME Core, NEW m \in Manager, Reads(m) PROVE Core'
<1> USE DEF Core, Reads, Others, SameFields
<1>1. Readable'
  <2>1. isTerminal(disk)' = disk'.outcome
    BY DEF Readable, isTerminal
  <2>2. \A n \in Manager : n # m => isTerminal(mem[n])' = mem'[n].outcome
    BY DEF Readable, isTerminal
  <2>3. isTerminal(mem[m])' = mem'[m].outcome
    <3>1. "absent" \notin Terminal
      BY DEF Terminal
    <3>2. CASE mem'[m].life = "absent" /\ mem'[m].outcome = FALSE
      <4>1. ~ (mem'[m].life \in Terminal)
        BY <3>1, <3>2
      <4>2. isTerminal(mem[m])' = FALSE
        BY <4>1 DEF isTerminal
      <4> QED BY <3>2, <4>2
    <3>3. CASE SameFields(mem'[m], mem[m]) \/ SameFields(mem'[m], disk)
      BY <3>3 DEF Readable, isTerminal
    <3> QED BY <3>2, <3>3
  <2> QED BY <2>1, <2>2, <2>3 DEF Readable
<1>2. Working'
  BY DEF Working
<1>3. Leased'
  BY DEF Leased
<1>4. Recorded'
  BY DEF Recorded, Claimable
<1>5. Reaped'
  BY DEF Reaped
<1>6. Requested'
  BY DEF Requested
<1> QED BY <1>1, <1>2, <1>3, <1>4, <1>5, <1>6

LEMMA WritesBackKeeps ==
  ASSUME Core, NEW m \in Manager, WritesBack(m) PROVE Core'
<1> USE DEF Core, WritesBack, Others
<1>1. Readable'
  BY DEF Readable, isTerminal, Terminal
<1>2. Working'
  BY DEF Working
<1>3. Leased'
  BY DEF Leased
<1>4. Recorded'
  BY DEF Recorded, Claimable
<1>5. Reaped'
  BY DEF Reaped
<1>6. Requested'
  BY DEF Requested
<1> QED BY <1>1, <1>2, <1>3, <1>4, <1>5, <1>6

LEMMA WorksKeeps ==
  ASSUME Core, NEW w \in Manager, Works(w) PROVE Core'
<1> USE DEF Core, Works, Others, SameFields
<1>1. Readable'
  BY DEF Readable, isTerminal, Terminal
<1>2. Working'
  BY DEF Working
<1>3. Leased'
  BY DEF Leased, Recorded
<1>4. Recorded'
  BY ManagerAssumption DEF Recorded, Claimable, Working, Manager
<1>5. Reaped'
  BY DEF Reaped
<1>6. Requested'
  BY DEF Requested, Working
<1> QED BY <1>1, <1>2, <1>3, <1>4, <1>5, <1>6

-----------------------------------------------------------------------------
(* The kind of each action.                                                 *)

\* An idle process that does not execute the run.
LEMMA IdleIs ==
  ASSUME IInv, NEW m \in Manager, at[m] = "idle", ~active[m]
  PROVE  ~running[m] /\ (m \in Other => launch = "spawned")
BY DEF IInv, Core, Working

\* A console never executes the run.
LEMMA ConsoleIs ==
  ASSUME IInv, NEW c \in Console
  PROVE  c \in Manager /\ c \notin Other /\ ~active[c] /\ ~running[c]
BY ManagerAssumption DEF IInv, Core, Working, Manager

LEMMA RefreshKind ==
  ASSUME IInv, NEW m \in Manager, Refresh(m) PROVE Reads(m)
<1>1. ~active[m] /\ ~running[m] /\ (m \in Other => launch = "spawned")
  BY IdleIs DEF Refresh
<1>2. launch # "none"
  BY DEF IInv, Core, Requested, Refresh, ReapDue
<1>3. Others(m)
  BY DEF IInv, TypeOK, Refresh, Goto, Others
<1>4. SameFields(mem'[m], mem[m]) \/ SameFields(mem'[m], disk)
  BY DEF IInv, TypeOK, Refresh, SameFields
<1>5. /\ at'[m] \in {"idle", "reaping", "cancelling"} /\ ~active'[m] /\ ~running'[m]
      /\ (at'[m] = "reaping" => late) /\ (cancelled'[m] => cancelled[m])
  BY <1>1 DEF IInv, TypeOK, Refresh, Goto, ReapDue
<1> QED BY <1>1, <1>2, <1>3, <1>4, <1>5 DEF Refresh, Reads, SameFields, file, hist

LEMMA ReapOnReadKind ==
  ASSUME IInv, NEW m \in Manager, ReapOnRead(m) PROVE Reads(m)
<1>1. ~active[m] /\ ~running[m] /\ (m \in Other => launch = "spawned")
  BY IdleIs DEF ReapOnRead
<1>2. launch # "none"
  BY DEF IInv, Core, Requested, ReapOnRead, ReapDue
<1>3. Others(m)
  BY DEF IInv, TypeOK, ReapOnRead, Goto, Others
<1>4. SameFields(mem'[m], mem[m]) \/ SameFields(mem'[m], disk)
  BY DEF IInv, TypeOK, ReapOnRead, SameFields
<1>5. /\ at'[m] \in {"idle", "reaping", "cancelling"} /\ ~active'[m] /\ ~running'[m]
      /\ (at'[m] = "reaping" => late) /\ (cancelled'[m] => cancelled[m])
  BY <1>1 DEF IInv, TypeOK, ReapOnRead, Goto, ReapDue
<1> QED BY <1>1, <1>2, <1>3, <1>4, <1>5 DEF ReapOnRead, Reads, SameFields, file, hist

LEMMA LoadKind ==
  ASSUME IInv, NEW m \in Manager, Load(m) PROVE Reads(m)
BY DEF IInv, Core, TypeOK, Working, Requested, Load, Goto, ReapDue, Reads, Others, SameFields, file, hist

LEMMA CancelKind ==
  ASSUME IInv, NEW m \in Manager, Cancel(m) PROVE Reads(m)
<1>1. ~active[m] /\ ~running[m] /\ (m \in Other => launch = "spawned")
  BY IdleIs DEF Cancel
<1>2. launch # "none"
  BY DEF IInv, Core, Requested, Cancel, ReapDue
<1>3. Others(m)
  BY DEF IInv, TypeOK, Cancel, Goto, Others
<1>4. SameFields(mem'[m], mem[m]) \/ SameFields(mem'[m], disk)
  BY DEF IInv, TypeOK, Cancel, SameFields
<1>5. /\ at'[m] \in {"idle", "reaping", "cancelling"} /\ ~active'[m] /\ ~running'[m]
      /\ (at'[m] = "reaping" => late) /\ (cancelled'[m] => cancelled[m])
  BY <1>1 DEF IInv, TypeOK, Cancel, Goto, ReapDue
<1> QED BY <1>1, <1>2, <1>3, <1>4, <1>5 DEF Cancel, Reads, SameFields, file, hist

LEMMA ResumeHereKind ==
  ASSUME IInv, NEW c \in Console, ResumeHere(c) PROVE Reads(c)
<1>1. c \in Manager /\ c \notin Other /\ ~active[c] /\ ~running[c]
  BY ConsoleIs
<1>2. at[c] = "idle" /\ (at'[c] = "idle" \/ launch # "none")
  BY DEF IInv, Core, TypeOK, Requested, ResumeHere, Goto
<1>3. Others(c)
  BY <1>1 DEF IInv, TypeOK, ResumeHere, Goto, Others
<1>4. SameFields(mem'[c], mem[c]) \/ SameFields(mem'[c], disk)
  BY <1>1 DEF IInv, TypeOK, ResumeHere, SameFields
<1>5. SameFields(disk', disk)
  BY <1>1 DEF IInv, ResumeHere, SameFields, file
<1>6. /\ at'[c] \in {"idle", "projecting"} /\ ~active'[c] /\ ~running'[c]
      /\ (cancelled'[c] => cancelled[c])
  BY <1>1, <1>2 DEF IInv, TypeOK, ResumeHere, Goto
<1> QED BY <1>1, <1>2, <1>3, <1>4, <1>5, <1>6 DEF ResumeHere, Reads, hist

LEMMA DrainKind ==
  ASSUME IInv, NEW c \in Console, Drain(c) PROVE Reads(c)
<1>1. c \in Manager /\ c \notin Other /\ ~active[c] /\ ~running[c]
  BY ConsoleIs
<1>2. at[c] = "idle" /\ (at'[c] = "idle" \/ launch # "none")
  BY DEF IInv, Core, TypeOK, Requested, Drain, Goto
<1>3. Others(c)
  BY <1>1 DEF IInv, TypeOK, Drain, Goto, Others
<1>4. SameFields(mem'[c], mem[c]) \/ SameFields(mem'[c], disk)
  BY <1>1 DEF IInv, TypeOK, Drain, SameFields
<1>5. SameFields(disk', disk)
  BY <1>1 DEF IInv, Drain, SameFields, file
<1>6. /\ at'[c] \in {"idle", "projecting"} /\ ~active'[c] /\ ~running'[c]
      /\ (cancelled'[c] => cancelled[c])
  BY <1>1, <1>2 DEF IInv, TypeOK, Drain, Goto
<1> QED BY <1>1, <1>2, <1>3, <1>4, <1>5, <1>6 DEF Drain, Reads, hist

LEMMA TurnSettlesKind ==
  ASSUME IInv, NEW c \in Console, TurnSettles(c) PROVE Reads(c)
<1>1. c \in Manager /\ c \notin Other /\ ~active[c] /\ ~running[c]
  BY ConsoleIs
<1>2. at[c] = "idle" /\ (at'[c] = "idle" \/ launch # "none")
  BY DEF IInv, Core, TypeOK, Requested, TurnSettles, Goto
<1>3. Others(c)
  BY <1>1, TurnSettlesIs DEF IInv, TypeOK, TurnSettles, Goto, Others
<1>4. SameFields(mem'[c], mem[c]) \/ SameFields(mem'[c], disk)
  BY <1>1, TurnSettlesIs DEF IInv, TypeOK, TurnSettles, SameFields
<1>5. SameFields(disk', disk)
  BY <1>1, TurnSettlesIs DEF IInv, TurnSettles, SameFields, file
<1>6. /\ at'[c] \in {"idle", "projecting"} /\ ~active'[c] /\ ~running'[c]
      /\ (cancelled'[c] => cancelled[c])
  BY <1>1, <1>2 DEF IInv, TypeOK, TurnSettles, Goto
<1> QED BY <1>1, <1>2, <1>3, <1>4, <1>5, <1>6 DEF TurnSettles, Reads, hist

\* The steps of a console's lane leave the run and its processes alone.
LEMMA LaneKind ==
  ASSUME IInv, NEW c \in Console,
         Defer(c) \/ TurnFails(c) \/ FrontBegins(c) \/ FrontSettles(c) \/ FrontRefused(c)
  PROVE  Reads(c)
<1>1. c \in Manager /\ c \notin Other /\ ~active[c] /\ ~running[c]
  BY ConsoleIs
<1>2. UNCHANGED <<file, launch, late, proc, hist>> /\ at[c] = "idle"
  BY DEF Defer, TurnFails, FrontBegins, FrontSettles, FrontRefused
<1> QED BY <1>1, <1>2 DEF Reads, Others, SameFields, file, proc, hist

LEMMA DiesKind ==
  ASSUME IInv, NEW m \in Manager, Dies(m) PROVE Reads(m)
BY DEF IInv, Core, TypeOK, Dies, Goto, Absent, Reads, Others, SameFields, file, hist

\* A reconciliation that is not due any more, because the run was claimed.
LEMMA NotReapedKind ==
  ASSUME IInv, NEW m \in Manager, Reap(m), ~ReapDue(disk) PROVE Reads(m)
<1>1. late /\ launch # "none" /\ ~active[m] /\ ~running[m]
  BY DEF IInv, Core, Working, Requested, Reap
<1>2. ~Claimable
  BY <1>1 DEF ReapDue, hasFreshLease, Claimable
<1> QED BY <1>1, <1>2 DEF IInv, Core, TypeOK, Working, Reap, Goto, Reads, Others, SameFields, file, hist

LEMMA ReapKind ==
  ASSUME IInv, NEW m \in Manager, Reap(m), ReapDue(disk) PROVE WritesBack(m)
<1>1. TypeOK /\ Past /\ Reconciled(m)
  BY ReapIs DEF IInv
<1>2. \A n \in Manager : ~active[n]
  <2>1. disk.life = "requested" /\ ~hasFreshLease(disk)
    BY DEF ReapDue
  <2>2. ASSUME NEW n \in Manager, active[n] PROVE FALSE
    <3>1. disk.lease = n /\ n # None
      BY <2>1, <2>2, ManagerAssumption DEF IInv, Core, Leased, Manager
    <3> QED BY <2>1, <2>2, <3>1 DEF hasFreshLease
  <2> QED BY <2>2
<1>3. "failed" \in Terminal
  BY DEF Terminal
<1>4. late /\ launch # "none" /\ ~active[m] /\ ~running[m]
  BY DEF IInv, Core, Working, Requested, Reap
<1>5. mem'[m] = disk' /\ \A n \in Manager : n # m => mem'[n] = mem[n]
  BY <1>1 DEF Reconciled, TypeOK
<1>6. isTerminal(disk)' = disk'.outcome /\ disk'.life \notin {"absent", "requested"}
  BY <1>1, <1>3 DEF Reconciled, isTerminal
<1>7. Others(m) /\ at'[m] = "idle" /\ at[m] # "down" /\ ~active'[m] /\ ~running'[m]
  BY <1>1, <1>4, <1>5 DEF TypeOK, Reap, Goto, Others
<1>8. disk'.process = disk.process /\ mem'[m].process \in {None, disk.process}
  BY <1>1, <1>5 DEF Reconciled
<1> QED BY <1>2, <1>4, <1>5, <1>6, <1>7, <1>8 DEF Reap, WritesBack

\* A commit of a life that is not a request, by a process that is not at work.
LEMMA WroteBack ==
  ASSUME IInv, NEW m \in Manager, NEW life \in Life \ {"absent", "requested"},
         Wrote(m, life, life \in Terminal),
         at[m] \notin {"down", "idle"} \/ launch # "none", at[m] # "down", ~active[m], Goto(m, "idle"),
         \A n \in Manager : active'[n] = active[n] /\ running'[n] = running[n],
         \A n \in Manager : n # m => cancelled'[n] = cancelled[n],
         launch' = launch \/ (launch = "pending" /\ launch' = "refused"),
         UNCHANGED <<late, reaped>>
  PROVE  WritesBack(m)
<1>1. launch # "none" /\ ~running[m]
  BY DEF IInv, Core, Requested, Working
<1>2. mem[m].process \in {None, disk.process}
  BY DEF IInv, Core, Recorded
<1>3. isTerminal(disk)' = disk'.outcome
  BY DEF Wrote, isTerminal
<1> QED BY <1>1, <1>2, <1>3 DEF IInv, TypeOK, Wrote, Goto, WritesBack, Others

LEMMA AbandonKind ==
  ASSUME IInv, NEW m \in Manager, Abandon(m) PROVE WritesBack(m)
<1>1. Wrote(m, "failed", TRUE) /\ "failed" \in Life \ {"absent", "requested"} /\ ("failed" \in Terminal) = TRUE
  BY AbandonIs, Lives DEF IInv, Terminal
<1>2. at[m] \notin {"down", "idle"} /\ ~active[m] /\ Goto(m, "idle")
  BY DEF IInv, Core, Working, Abandon
<1>3. /\ \A n \in Manager : active'[n] = active[n] /\ running'[n] = running[n]
      /\ \A n \in Manager : n # m => cancelled'[n] = cancelled[n]
      /\ UNCHANGED <<launch, late, reaped>>
  BY DEF IInv, TypeOK, Abandon, hist
<1> QED BY <1>1, <1>2, <1>3, WroteBack

LEMMA WriteCancelledKind ==
  ASSUME IInv, NEW m \in Manager, WriteCancelled(m) PROVE WritesBack(m)
<1>1. Wrote(m, "cancelled", TRUE) /\ "cancelled" \in Life \ {"absent", "requested"} /\ ("cancelled" \in Terminal) = TRUE
  BY WriteCancelledIs, Lives DEF IInv, Terminal
<1>2. at[m] \notin {"down", "idle"} /\ ~active[m] /\ Goto(m, "idle")
  BY DEF IInv, Core, Working, WriteCancelled
<1>3. /\ \A n \in Manager : active'[n] = active[n] /\ running'[n] = running[n]
      /\ \A n \in Manager : n # m => cancelled'[n] = cancelled[n]
      /\ UNCHANGED <<launch, late, reaped>>
  BY DEF IInv, TypeOK, WriteCancelled, hist
<1> QED BY <1>1, <1>2, <1>3, WroteBack

LEMMA FailLaunchKind ==
  ASSUME IInv, NEW c \in Console, FailLaunch(c) PROVE WritesBack(c)
<1>1. Wrote(c, "failed", TRUE) /\ "failed" \in Life \ {"absent", "requested"} /\ ("failed" \in Terminal) = TRUE
  BY FailLaunchIs, Lives DEF IInv, Terminal
<1>2. c \in Manager /\ ~active[c] /\ Goto(c, "idle")
  BY ManagerAssumption DEF IInv, Core, TypeOK, Working, FailLaunch, Goto, Manager
<1> QED BY <1>1, <1>2, WroteBack DEF FailLaunch, hist

LEMMA ProjectKind ==
  ASSUME IInv, NEW c \in Console, Project(c) PROVE WritesBack(c)
<1>1. PICK life \in {"paused", "completed"} : Wrote(c, life, life = "completed")
  BY ProjectIs DEF IInv
<1>2. life \in Life \ {"absent", "requested"} /\ (life \in Terminal) = (life = "completed")
  BY Lives DEF Terminal
<1>3. c \in Manager /\ ~active[c]
  BY ManagerAssumption DEF IInv, Core, Working, Manager
<1>4. Wrote(c, life, life \in Terminal)
  BY <1>1, <1>2
<1>5. at[c] \notin {"down", "idle"} /\ Goto(c, "idle") /\ UNCHANGED <<launch, late, active, cancelled, running, reaped>>
  BY DEF Project, hist
<1> QED BY <1>2, <1>3, <1>4, <1>5, WroteBack

LEMMA SettleKind ==
  ASSUME IInv, NEW w \in Manager, Settle(w) PROVE WritesBack(w)
<1>1. Stored(w, None)
  BY SettleIs DEF IInv
<1>2. active[w] /\ running[w] /\ launch = "spawned" /\ mem[w].life \notin {"absent", "requested"}
  BY DEF IInv, Core, Working, Settle
<1>3. mem[w].process \in {None, disk.process}
  BY DEF IInv, Core, Recorded
<1>4. isTerminal(disk)' = disk'.outcome
  BY <1>1 DEF IInv, Core, Readable, Stored, isTerminal
<1>5. Others(w) /\ at'[w] = "idle" /\ at[w] # "down" /\ ~active'[w] /\ ~running'[w]
  BY <1>1 DEF IInv, TypeOK, Settle, Stored, Goto, Others
<1>6. disk'.process = disk.process /\ mem'[w].process \in {None, disk.process}
  BY <1>1, <1>3 DEF Stored
<1> QED BY <1>1, <1>2, <1>4, <1>5, <1>6 DEF Settle, Stored, WritesBack, hist

\* A commit of a worker.
LEMMA WroteWorks ==
  ASSUME IInv, NEW w \in Manager, active[w], NEW life \in Life \ {"absent", "requested"},
         NEW outcome, outcome = (life \in Terminal), Wrote(w, life, outcome),
         active' = active, running'[w], at'[w] \in {"idle", "settling"},
         \A n \in Manager : n # w => /\ at'[n] = at[n] /\ running'[n] = running[n]
                                     /\ cancelled'[n] = cancelled[n],
         UNCHANGED <<launch, late, reaped>>
  PROVE  Works(w)
<1>1. mem[w].lease = w /\ mem[w].process \in {None, disk.process} /\ disk.process = w
  BY DEF IInv, Core, Working, Recorded
<1>2. isTerminal(mem'[w]) = mem'[w].outcome
  BY DEF Wrote, isTerminal
<1>3. disk'.process = disk.process
  BY <1>1 DEF Wrote
<1>4. SameFields(disk', [mem'[w] EXCEPT !.process = disk.process])
  BY <1>1, <1>3 DEF Wrote, SameFields, Record
<1> QED BY <1>1, <1>2, <1>4 DEF Wrote, Works, Others

LEMMA BeginKind ==
  ASSUME IInv, NEW w \in Manager, Begin(w) PROVE Works(w)
<1>1. active[w] /\ ~running[w] /\ at[w] = "idle"
  BY DEF Begin
<1>2. ~cancelled[w] /\ mem[w].life = "requested"
  BY <1>1 DEF IInv, Core, Working
<1>3. Wrote(w, "started", mem[w].outcome)
  BY <1>2, BeginIs DEF IInv
<1>4. "started" \in Life \ {"absent", "requested"} /\ mem[w].outcome = ("started" \in Terminal)
  BY <1>2, Lives DEF IInv, Core, Readable, isTerminal, Terminal
<1>5. /\ active' = active /\ running'[w] /\ at'[w] = "idle"
      /\ \A n \in Manager : n # w => /\ at'[n] = at[n] /\ running'[n] = running[n]
                                     /\ cancelled'[n] = cancelled[n]
      /\ UNCHANGED <<launch, late, reaped>>
  BY <1>1, <1>2 DEF IInv, TypeOK, Begin, hist
<1> QED BY <1>1, <1>3, <1>4, <1>5, WroteWorks

LEMMA StageChangedKind ==
  ASSUME IInv, NEW w \in Manager, StageChanged(w) PROVE Works(w)
<1>1. Wrote(w, mem[w].life, mem[w].outcome)
  BY StageChangedIs DEF IInv
<1>2. active[w] /\ running[w] /\ at[w] = "idle"
  BY DEF StageChanged, Executing
<1>3. mem[w].life \in Life \ {"absent", "requested"} /\ mem[w].outcome = (mem[w].life \in Terminal)
  BY <1>2 DEF IInv, Core, TypeOK, Record, Working, Readable, isTerminal
<1>4. UNCHANGED <<active, running, at, cancelled, launch, late, reaped>>
  BY DEF StageChanged, hist
<1> QED BY <1>1, <1>2, <1>3, <1>4, WroteWorks

LEMMA TimeoutKind ==
  ASSUME IInv, NEW w \in Manager, Timeout(w) PROVE Works(w)
<1>1. Wrote(w, "timed_out", TRUE)
  BY TimeoutIs DEF IInv
<1>2. active[w] /\ running[w] /\ at[w] = "idle"
  BY DEF Timeout, Executing
<1>3. "timed_out" \in Life \ {"absent", "requested"} /\ TRUE = ("timed_out" \in Terminal)
  BY Lives DEF Terminal
<1>4. /\ UNCHANGED <<active, running, at, launch, late, reaped>>
      /\ \A n \in Manager : n # w => cancelled'[n] = cancelled[n]
  BY DEF IInv, TypeOK, Timeout, hist
<1> QED BY <1>1, <1>2, <1>3, <1>4, WroteWorks

LEMMA FinishKind ==
  ASSUME IInv, NEW w \in Manager, Finish(w) PROVE Works(w)
<1>1. active[w] /\ running[w] /\ at[w] = "idle" /\ mem[w].life # "requested"
  BY DEF IInv, Core, Working, Finish, Executing
<1>2. /\ UNCHANGED <<active, running, cancelled, launch, late, reaped>> /\ at'[w] = "settling"
      /\ \A n \in Manager : n # w => at'[n] = at[n]
  BY DEF IInv, TypeOK, Finish, Goto, hist
<1>3. CASE cancelled[w]
  <2>1. UNCHANGED <<disk, mem>>
    BY <1>3 DEF Finish, file
  <2> QED BY <1>1, <1>2, <2>1 DEF Works, Others, SameFields
<1>4. CASE ~cancelled[w]
  <2>1. PICK life \in {"completed", "failed", "paused", "operator_attention"} :
          Wrote(w, life, life \in Terminal)
    BY <1>4, FinishIs DEF IInv
  <2>2. life \in Life \ {"absent", "requested"}
    BY Lives
  <2> QED BY <1>1, <1>2, <2>1, <2>2, WroteWorks
<1> QED BY <1>3, <1>4

\* A worker that stores its copy as it is.
LEMMA PersistKind ==
  ASSUME IInv, NEW w \in Manager, Launch(w) \/ Heartbeat(w) PROVE Works(w)
<1>1. /\ Persist(w) /\ at'[w] = "idle" /\ active[w]
      /\ UNCHANGED <<mem, notices, active, running, cancelled, launch, late, reaped>>
      /\ \A n \in Manager : n # w => at'[n] = at[n]
  BY DEF IInv, Core, TypeOK, Working, Launch, Heartbeat, Goto, hist
<1>2. Stored(w, mem[w].lease)
  BY <1>1, PersistIs DEF IInv
<1>3. /\ mem[w].lease = w /\ mem[w].process \in {None, disk.process} /\ disk.process = w
      /\ mem[w].life # "absent" /\ isTerminal(mem[w]) = mem[w].outcome
      /\ (~running[w] => mem[w].life = "requested")
      /\ (mem[w].life = "requested" => ~running[w] /\ ~cancelled[w])
  BY <1>1 DEF IInv, Core, Working, Recorded, Readable
<1>4. disk'.process = disk.process
  BY <1>2, <1>3 DEF Stored
<1>5. SameFields(disk', [mem'[w] EXCEPT !.process = disk.process])
  BY <1>1, <1>2, <1>3, <1>4 DEF Stored, SameFields, Record
<1> QED BY <1>1, <1>3, <1>5 DEF Works, Others

-----------------------------------------------------------------------------
(* The steps that are a kind of their own.                                  *)

\* The request is durable before anything else happens.
LEMMA StartDetachedKeeps ==
  ASSUME IInv, NEW c \in Console, StartDetached(c) PROVE Core'
<1> DEFINE r == [Absent EXCEPT !.life = "requested"]
<1>1. Committed(c, r)
  BY StartDetachedIs
<1>2. r.life = "requested" /\ r.lease = None /\ r.outcome = FALSE /\ r.process = None
  BY DEF Absent
<1> HIDE DEF r
<1>3. /\ c \in Manager /\ launch = "none" /\ launch' = "pending" /\ disk.process = None
      /\ UNCHANGED <<late, at, active, cancelled, running, reaped>>
      /\ \A m \in Manager : /\ mem[m].life = "absent" /\ mem[m].process = None /\ ~cancelled[m]
                            /\ at[m] \in {"down", "idle"} /\ ~active[m] /\ ~running[m]
  BY DEF IInv, Core, Requested, Working, StartDetached, Manager, hist
<1>4. /\ disk'.life = "requested" /\ disk'.lease = None /\ disk'.outcome = FALSE
      /\ disk'.process = None /\ mem'[c].life = "requested" /\ mem'[c].outcome = FALSE
      /\ mem'[c].process = None /\ \A n \in Manager : n # c => mem'[n] = mem[n]
  BY <1>1, <1>2, <1>3 DEF Committed
<1>5. ~ ("requested" \in Terminal)
  BY DEF Terminal
<1>6. Readable'
  <2>1. isTerminal(disk)' = FALSE /\ isTerminal(mem[c])' = FALSE
    BY <1>4, <1>5 DEF isTerminal
  <2>2. \A n \in Manager : n # c => isTerminal(mem[n])' = mem'[n].outcome
    BY <1>4 DEF IInv, Core, Readable, isTerminal
  <2> QED BY <1>4, <2>1, <2>2 DEF Readable
<1>7. Working' /\ Leased'
  BY <1>3 DEF IInv, Core, Working, Leased
<1>8. Recorded'
  BY <1>3, <1>4 DEF Recorded
<1>9. Reaped' /\ Requested'
  BY <1>3, <1>4 DEF IInv, Core, Reaped, Requested
<1> QED BY <1>6, <1>7, <1>8, <1>9 DEF Core

\* The claim is decided under the lock: nobody had claimed, reconciled or cancelled the run.
LEMMA ClaimKeeps ==
  ASSUME IInv, NEW w \in Manager, Claim(w) PROVE Core'
<1>1. /\ at[w] = "idle" /\ ~active[w] /\ w \in Other /\ mem[w].life = "requested" /\ Claimable
      /\ UNCHANGED <<launch, late, cancelled, running, reaped>>
  BY DEF Claim, Claimable, hist
<1>2. /\ disk.process = None /\ w # None /\ launch = "spawned" /\ ~running[w] /\ ~reaped
      /\ \A m \in Manager : ~active[m] /\ ~cancelled[m] /\ ~running[m] /\ mem[m].process = None
  BY <1>1, ManagerAssumption DEF IInv, Core, Working, Leased, Recorded, Reaped, Claimable, Manager
<1>3. /\ disk'.life = "requested" /\ disk'.outcome = disk.outcome /\ disk'.lease = w
      /\ disk'.process = w
  BY <1>1 DEF IInv, TypeOK, Record, Claim, Claimable
<1>4. /\ mem'[w].life = "requested" /\ mem'[w].outcome = mem[w].outcome
      /\ mem'[w].lease = w /\ mem'[w].process = w
  BY <1>1 DEF IInv, TypeOK, Record, Claim
<1>5. /\ at'[w] = "launching" /\ active'[w]
      /\ \A n \in Manager : n # w => mem'[n] = mem[n] /\ at'[n] = at[n] /\ active'[n] = active[n]
  BY DEF IInv, TypeOK, Claim, Goto
<1>6. Readable'
  BY <1>1, <1>3, <1>4, <1>5 DEF IInv, Core, Readable, isTerminal, Claimable
<1>7. Working'
  BY <1>1, <1>2, <1>4, <1>5 DEF IInv, Core, Working
<1>8. Leased'
  BY <1>2, <1>3, <1>5 DEF Leased
<1>9. Recorded'
  BY <1>2, <1>3, <1>4, <1>5 DEF Recorded, Claimable
<1>10. Reaped' /\ Requested'
  BY <1>1, <1>2, <1>3 DEF Reaped, Requested
<1> QED BY <1>6, <1>7, <1>8, <1>9, <1>10 DEF Core

LEMMA SpawnKeeps ==
  ASSUME IInv, Spawn PROVE Core'
<1>1. launch = "pending" /\ launch' = "spawned" /\ UNCHANGED <<disk, late, mem, at, active, cancelled, running, reaped>>
  BY DEF Spawn, file, proc, hist
<1> QED BY <1>1 DEF IInv, Core, Readable, isTerminal, Working, Leased, Recorded, Claimable, Reaped, Requested

LEMMA TimePassesKeeps ==
  ASSUME IInv, TimePasses PROVE Core'
<1>1. late' /\ UNCHANGED <<disk, launch, mem, at, active, cancelled, running, reaped>>
  BY DEF TimePasses, file, proc, hist
<1> QED BY <1>1 DEF IInv, Core, Readable, isTerminal, Working, Leased, Recorded, Claimable, Reaped, Requested

LEMMA CoreNext ==
  ASSUME IInv, Next PROVE Core'
<1>1. Core
  BY DEF IInv
<1>2. ASSUME NEW m \in Manager, Manage(m) PROVE Core'
  <2>1. CASE Refresh(m) \/ ReapOnRead(m) \/ Load(m) \/ Cancel(m)
    BY <1>1, <2>1, RefreshKind, ReapOnReadKind, LoadKind, CancelKind, ReadsKeeps
  <2>2. CASE Reap(m)
    BY <1>1, <2>2, ReapKind, NotReapedKind, ReadsKeeps, WritesBackKeeps
  <2>3. CASE Abandon(m) \/ WriteCancelled(m)
    BY <1>1, <2>3, AbandonKind, WriteCancelledKind, WritesBackKeeps
  <2> QED BY <1>2, <2>1, <2>2, <2>3 DEF Manage
<1>3. ASSUME NEW w \in Manager, Work(w) PROVE Core'
  <2>1. CASE Claim(w)
    BY <2>1, ClaimKeeps
  <2>2. CASE Launch(w) \/ Heartbeat(w) \/ Begin(w) \/ StageChanged(w) \/ Timeout(w) \/ Finish(w)
    BY <1>1, <2>2, PersistKind, BeginKind, StageChangedKind, TimeoutKind, FinishKind, WorksKeeps
  <2>3. CASE Settle(w)
    BY <1>1, <2>3, SettleKind, WritesBackKeeps
  <2> QED BY <1>3, <2>1, <2>2, <2>3 DEF Work
<1>4. ASSUME NEW m \in Manager, Dies(m) PROVE Core'
  BY <1>1, <1>4, DiesKind, ReadsKeeps
<1>5. ASSUME NEW c \in Console, Converse(c) PROVE Core'
  <2>1. c \in Manager
    BY DEF Manager
  <2>2. CASE StartDetached(c)
    BY <2>2, StartDetachedKeeps
  <2>3. CASE FailLaunch(c) \/ Project(c)
    BY <1>1, <2>1, <2>3, FailLaunchKind, ProjectKind, WritesBackKeeps
  <2>4. CASE ResumeHere(c) \/ Drain(c) \/ TurnSettles(c)
    BY <1>1, <2>1, <2>4, ResumeHereKind, DrainKind, TurnSettlesKind, ReadsKeeps
  <2>5. CASE Defer(c) \/ TurnFails(c) \/ FrontBegins(c) \/ FrontSettles(c) \/ FrontRefused(c)
    BY <1>1, <2>1, <2>5, LaneKind, ReadsKeeps
  <2> QED BY <1>5, <2>2, <2>3, <2>4, <2>5 DEF Converse
<1> QED BY <1>2, <1>3, <1>4, <1>5, SpawnKeeps, TimePassesKeeps DEF Next

-----------------------------------------------------------------------------
(* Types, and the times of the windows.                                     *)

\* A step that writes nothing, and where a copy becomes what was read.
LEMMA PastKept ==
  ASSUME TypeOK, Past, UNCHANGED <<disk, notices>>,
         \A m \in Manager : mem'[m] \in {mem[m], disk, Absent}
  PROVE  Past'
<1>1. Dated(disk'.wakes)
  BY DEF Past, Dated
<1>2. Dated(Absent.wakes)
  BY DEF Absent, Dated, Upto
<1>3. \A m \in Manager : Upto(mem'[m].wakes, Len(notices))
  BY <1>2 DEF Past, Dated
<1> QED BY <1>1, <1>3 DEF Past, Dated

\* No step dates a window after its notices.
LEMMA PastNext ==
  ASSUME IInv, Next PROVE Past'
<1>1. ASSUME NEW m \in Manager, Refresh(m) PROVE Past'
  BY <1>1, PastKept DEF IInv, TypeOK, Refresh, Manager, file, proc
<1>2. ASSUME NEW m \in Manager, Reap(m) PROVE Past'
  <2>1. CASE ReapDue(disk)
    BY <1>2, <2>1, ReapIs DEF IInv, Reconciled
  <2>2. CASE ~ReapDue(disk)
    BY <1>2, <2>2, PastKept DEF IInv, Reap, file
  <2> QED BY <2>1, <2>2
<1>3. ASSUME NEW m \in Manager, ReapOnRead(m) PROVE Past'
  BY <1>3, PastKept DEF IInv, TypeOK, ReapOnRead, Manager, file, proc
<1>4. ASSUME NEW m \in Manager, Load(m) PROVE Past'
  BY <1>4, PastKept DEF IInv, TypeOK, Load, Manager, file, proc
<1>5. ASSUME NEW m \in Manager, Abandon(m) PROVE Past'
  BY <1>5, AbandonIs DEF IInv, Wrote, Manager
<1>6. ASSUME NEW m \in Manager, Cancel(m) PROVE Past'
  BY <1>6, PastKept DEF IInv, TypeOK, Cancel, Manager, file, proc
<1>7. ASSUME NEW m \in Manager, WriteCancelled(m) PROVE Past'
  BY <1>7, WriteCancelledIs DEF IInv, Wrote, Manager
<1>8. ASSUME NEW w \in Manager, Claim(w) PROVE Past'
  <2>1. disk'.wakes = disk.wakes /\ mem'[w].wakes = mem[w].wakes /\ notices' = notices
    BY <1>8 DEF IInv, TypeOK, Record, Claim
  <2>2. \A n \in Manager : n # w => mem'[n] = mem[n]
    BY <1>8 DEF IInv, TypeOK, Claim
  <2> QED BY <2>1, <2>2 DEF IInv, Past, Dated
<1>9. ASSUME NEW w \in Manager, Launch(w) PROVE Past'
  BY <1>9, PersistIs DEF IInv, Launch, Stored
<1>10. ASSUME NEW w \in Manager, Begin(w) PROVE Past'
  <2>1. CASE cancelled[w]
    BY <1>10, <2>1, PastKept DEF IInv, Begin, file
  <2>2. CASE ~cancelled[w]
    BY <1>10, <2>2, BeginIs DEF IInv, Wrote
  <2> QED BY <2>1, <2>2
<1>11. ASSUME NEW w \in Manager, StageChanged(w) PROVE Past'
  BY <1>11, StageChangedIs DEF IInv, Wrote, Manager
<1>12. ASSUME NEW w \in Manager, Heartbeat(w) PROVE Past'
  BY <1>12, PersistIs DEF IInv, Heartbeat, Stored
<1>13. ASSUME NEW w \in Manager, Timeout(w) PROVE Past'
  BY <1>13, TimeoutIs DEF IInv, Wrote, Manager
<1>14. ASSUME NEW w \in Manager, Finish(w) PROVE Past'
  <2>1. CASE cancelled[w]
    BY <1>14, <2>1, PastKept DEF IInv, Finish, file
  <2>2. CASE ~cancelled[w]
    BY <1>14, <2>2, FinishIs DEF IInv, Wrote
  <2> QED BY <2>1, <2>2
<1>15. ASSUME NEW w \in Manager, Settle(w) PROVE Past'
  BY <1>15, SettleIs DEF IInv, Stored
<1>16. ASSUME NEW w \in Manager, Dies(w) PROVE Past'
  BY <1>16, PastKept DEF IInv, TypeOK, Dies, Manager, file, proc
<1>17. ASSUME NEW c \in Console, StartDetached(c) PROVE Past'
  BY <1>17, StartDetachedIs DEF Committed
<1>18. ASSUME NEW c \in Console, FailLaunch(c) PROVE Past'
  BY <1>18, FailLaunchIs DEF IInv, Wrote, Manager
<1>19. ASSUME NEW c \in Console, ResumeHere(c) PROVE Past'
  BY <1>19, PastKept DEF IInv, TypeOK, ResumeHere, Manager, file, proc
<1>20. ASSUME NEW c \in Console, Project(c) PROVE Past'
  BY <1>20, ProjectIs DEF IInv, Wrote
<1>21. ASSUME NEW c \in Console, Defer(c) PROVE Past'
  BY <1>21, PastKept DEF IInv, TypeOK, Defer, Manager, file, proc
<1>22. ASSUME NEW c \in Console, Drain(c) PROVE Past'
  BY <1>22, PastKept DEF IInv, TypeOK, Drain, Manager, file, proc
<1>23. ASSUME NEW c \in Console, TurnSettles(c) PROVE Past'
  BY <1>23, TurnSettlesIs DEF IInv
<1>24. ASSUME NEW c \in Console, TurnFails(c) PROVE Past'
  BY <1>24, PastKept DEF IInv, TypeOK, TurnFails, Manager, file, proc
<1>25. ASSUME NEW c \in Console, FrontBegins(c) PROVE Past'
  BY <1>25, PastKept DEF IInv, TypeOK, FrontBegins, Manager, file, proc
<1>26. ASSUME NEW c \in Console, FrontSettles(c) PROVE Past'
  BY <1>26, PastKept DEF IInv, TypeOK, FrontSettles, Manager, file, proc
<1>27. ASSUME NEW c \in Console, FrontRefused(c) PROVE Past'
  BY <1>27, PastKept DEF IInv, TypeOK, FrontRefused, Manager, file, proc
<1>28. ASSUME Spawn PROVE Past'
  BY <1>28, PastKept DEF IInv, Spawn, file, proc
<1>29. ASSUME TimePasses PROVE Past'
  BY <1>29, PastKept DEF IInv, TimePasses, file, proc
<1> QED BY <1>1, <1>2, <1>3, <1>4, <1>5, <1>6, <1>7, <1>8, <1>9, <1>10, <1>11, <1>12, <1>13,
     <1>14, <1>15, <1>16, <1>17, <1>18, <1>19, <1>20, <1>21, <1>22, <1>23, <1>24, <1>25, <1>26,
     <1>27, <1>28, <1>29 DEF Next, Manage, Work, Converse

\* The types are kept.
LEMMA TypeNext ==
  ASSUME IInv, Next PROVE TypeOK'
<1>1. ASSUME NEW m \in Manager, Refresh(m) PROVE TypeOK'
  BY <1>1, Lives DEF IInv, Refresh, Goto, Manager, TypeOK, Steps, Nudge, file, proc, lane, hist
<1>2. ASSUME NEW m \in Manager, Reap(m) PROVE TypeOK'
  BY <1>2, Lives, ReapIs DEF IInv, Reap, Goto, Manager, Reconciled, TypeOK, Steps, Nudge, file,
       proc, lane, hist
<1>3. ASSUME NEW m \in Manager, ReapOnRead(m) PROVE TypeOK'
  BY <1>3, Lives DEF IInv, ReapOnRead, Goto, Manager, TypeOK, Steps, Nudge, file, proc, lane,
       hist
<1>4. ASSUME NEW m \in Manager, Load(m) PROVE TypeOK'
  BY <1>4, Lives DEF IInv, Load, Goto, Manager, TypeOK, Steps, Nudge, file, proc, lane, hist
<1>5. ASSUME NEW m \in Manager, Abandon(m) PROVE TypeOK'
  BY <1>5, Lives, AbandonIs DEF IInv, Abandon, Goto, Manager, Wrote, TypeOK, Steps, Nudge, file,
       proc, lane, hist
<1>6. ASSUME NEW m \in Manager, Cancel(m) PROVE TypeOK'
  <2>1. /\ cancels' \in 0..MaxCancels /\ at' \in [Manager -> Steps] /\ mem' \in [Manager -> Record]
    BY <1>6, BoundAssumption DEF IInv, TypeOK, Steps, Cancel, Goto
  <2>2. pump' \in [Console -> {"idle", "scheduled", "turn"}] /\ stalled' \in [Console -> BOOLEAN]
    BY <1>6, NudgeIs DEF IInv, TypeOK, Cancel
  <2> QED BY <1>6, <2>1, <2>2 DEF IInv, TypeOK, Cancel, file
<1>7. ASSUME NEW m \in Manager, WriteCancelled(m) PROVE TypeOK'
  BY <1>7, Lives, WriteCancelledIs DEF IInv, WriteCancelled, Goto, Manager, Wrote, TypeOK,
       Steps, Nudge, file, proc, lane, hist
<1>8. ASSUME NEW w \in Manager, Claim(w) PROVE TypeOK'
  <2>1. disk' \in Record
    BY <1>8 DEF IInv, TypeOK, Record, Claim
  <2>2. [mem[w] EXCEPT !.lease = w, !.process = w] \in Record
    BY DEF IInv, TypeOK, Record
  <2>3. mem' \in [Manager -> Record]
    BY <1>8, <2>2 DEF IInv, TypeOK, Claim
  <2>4. at' \in [Manager -> Steps] /\ active' \in [Manager -> BOOLEAN]
    BY <1>8 DEF IInv, TypeOK, Steps, Claim, Goto
  <2> QED BY <1>8, <2>1, <2>3, <2>4 DEF IInv, TypeOK, Claim, lane, hist
<1>9. ASSUME NEW w \in Manager, Launch(w) PROVE TypeOK'
  BY <1>9, Lives, PersistIs DEF IInv, Launch, Goto, Manager, Stored, TypeOK, Steps, Nudge, file,
       proc, lane, hist
<1>10. ASSUME NEW w \in Manager, Begin(w) PROVE TypeOK'
  BY <1>10, Lives, BeginIs DEF IInv, Begin, Goto, Manager, Wrote, TypeOK, Steps, Nudge, file,
       proc, lane, hist
<1>11. ASSUME NEW w \in Manager, StageChanged(w) PROVE TypeOK'
  BY <1>11, Lives, StageChangedIs DEF IInv, StageChanged, Goto, Manager, Wrote, TypeOK, Steps,
       Nudge, file, proc, lane, hist
<1>12. ASSUME NEW w \in Manager, Heartbeat(w) PROVE TypeOK'
  BY <1>12, Lives, PersistIs DEF IInv, Heartbeat, Goto, Manager, Stored, TypeOK, Steps, Nudge,
       file, proc, lane, hist
<1>13. ASSUME NEW w \in Manager, Timeout(w) PROVE TypeOK'
  BY <1>13, Lives, TimeoutIs DEF IInv, Timeout, Goto, Manager, Wrote, TypeOK, Steps, Nudge,
       file, proc, lane, hist
<1>14. ASSUME NEW w \in Manager, Finish(w) PROVE TypeOK'
  BY <1>14, Lives, FinishIs DEF IInv, Finish, Goto, Manager, Wrote, TypeOK, Steps, Nudge, file,
       proc, lane, hist
<1>15. ASSUME NEW w \in Manager, Settle(w) PROVE TypeOK'
  BY <1>15, Lives, SettleIs DEF IInv, Settle, Goto, Manager, Stored, TypeOK, Steps, Nudge, file,
       proc, lane, hist
<1>16. ASSUME NEW w \in Manager, Dies(w) PROVE TypeOK'
  <2>1. Absent \in Record
    BY Lives DEF Absent, Record
  <2>2. /\ mem' \in [Manager -> Record] /\ at' \in [Manager -> Steps]
        /\ active' \in [Manager -> BOOLEAN] /\ running' \in [Manager -> BOOLEAN]
        /\ cancelled' \in [Manager -> BOOLEAN]
    BY <1>16, <2>1 DEF IInv, TypeOK, Steps, Dies, Goto
  <2>3. /\ pump' \in [Console -> {"idle", "scheduled", "turn"}] /\ batch' \in [Console -> SUBSET Window]
        /\ busy' \in [Console -> BOOLEAN] /\ front' \in [Console -> BOOLEAN]
        /\ blocked' \in [Console -> BOOLEAN] /\ stalled' \in [Console -> BOOLEAN]
    BY <1>16 DEF IInv, TypeOK, Dies, lane
  <2> QED BY <1>16, <2>2, <2>3 DEF IInv, TypeOK, Dies, file, hist
<1>17. ASSUME NEW c \in Console, StartDetached(c) PROVE TypeOK'
  <2>1. Committed(c, [Absent EXCEPT !.life = "requested"]) /\ c \in Manager
    BY <1>17, StartDetachedIs DEF Manager
  <2> QED BY <1>17, <2>1 DEF IInv, TypeOK, StartDetached, Committed, hist
<1>18. ASSUME NEW c \in Console, FailLaunch(c) PROVE TypeOK'
  BY <1>18, Lives, FailLaunchIs DEF IInv, FailLaunch, Goto, Manager, Wrote, TypeOK, Steps,
       Nudge, file, proc, lane, hist
<1>19. ASSUME NEW c \in Console, ResumeHere(c) PROVE TypeOK'
  <2>1. /\ resumes' \in 0..MaxResumes /\ at' \in [Manager -> Steps] /\ mem' \in [Manager -> Record]
    BY <1>19, BoundAssumption DEF IInv, TypeOK, Steps, ResumeHere, Goto, Manager
  <2>2. pump' \in [Console -> {"idle", "scheduled", "turn"}] /\ stalled' \in [Console -> BOOLEAN]
    BY <1>19, NudgeIs DEF IInv, TypeOK, ResumeHere
  <2> QED BY <1>19, <2>1, <2>2 DEF IInv, TypeOK, ResumeHere, file
<1>20. ASSUME NEW c \in Console, Project(c) PROVE TypeOK'
  BY <1>20, Lives, ProjectIs DEF IInv, Project, Goto, Manager, Wrote, TypeOK, Steps, Nudge,
       file, proc, lane, hist
<1>21. ASSUME NEW c \in Console, Defer(c) PROVE TypeOK'
  BY <1>21, Lives DEF IInv, Defer, Goto, Manager, TypeOK, Steps, Nudge, file, proc, lane, hist
<1>22. ASSUME NEW c \in Console, Drain(c) PROVE TypeOK'
  <2> DEFINE read == IF mem[c].life = "absent" THEN mem[c] ELSE disk
             all == Unhandled(read.wakes)
             turn == all # {} /\ ~front[c]
  <2>1. c \in Manager /\ read \in Record
    BY DEF IInv, TypeOK, Manager
  <2>2. all \in SUBSET Window
    BY <2>1 DEF Unhandled, Record
  <2>3. turn \in BOOLEAN /\ (all # {} /\ ~turn) \in BOOLEAN
    OBVIOUS
  <2>4. /\ mem' = [mem EXCEPT ![c] = read]
        /\ batch' = [batch EXCEPT ![c] = IF turn THEN all ELSE {}]
        /\ pump' = [pump EXCEPT ![c] = IF turn THEN "turn" ELSE "idle"]
        /\ busy' = [busy EXCEPT ![c] = turn]
        /\ stalled' = [stalled EXCEPT ![c] = all # {} /\ ~turn]
    BY <1>22 DEF Drain
  <2> HIDE DEF read, all, turn
  <2>5. mem' \in [Manager -> Record] /\ batch' \in [Console -> SUBSET Window]
    BY <2>1, <2>2, <2>4 DEF IInv, TypeOK
  <2>6. /\ pump' \in [Console -> {"idle", "scheduled", "turn"}] /\ busy' \in [Console -> BOOLEAN]
        /\ stalled' \in [Console -> BOOLEAN]
    BY <2>3, <2>4 DEF IInv, TypeOK
  <2> QED BY <1>22, <2>5, <2>6 DEF IInv, TypeOK, Drain, file, hist
<1>23. ASSUME NEW c \in Console, TurnSettles(c) PROVE TypeOK'
  BY <1>23, Lives, TurnSettlesIs DEF IInv, TurnSettles, Goto, Manager, TypeOK, Steps, Nudge,
       file, proc, lane, hist
<1>24. ASSUME NEW c \in Console, TurnFails(c) PROVE TypeOK'
  BY <1>24, Lives DEF IInv, TurnFails, Goto, Manager, TypeOK, Steps, Nudge, file, proc, lane,
       hist
<1>25. ASSUME NEW c \in Console, FrontBegins(c) PROVE TypeOK'
  BY <1>25, Lives DEF IInv, FrontBegins, Goto, Manager, TypeOK, Steps, Nudge, file, proc, lane,
       hist
<1>26. ASSUME NEW c \in Console, FrontSettles(c) PROVE TypeOK'
  BY <1>26, Lives DEF IInv, FrontSettles, Goto, Manager, TypeOK, Steps, Nudge, file, proc, lane,
       hist
<1>27. ASSUME NEW c \in Console, FrontRefused(c) PROVE TypeOK'
  BY <1>27, Lives DEF IInv, FrontRefused, Goto, Manager, TypeOK, Steps, Nudge, file, proc, lane,
       hist
<1>28. ASSUME Spawn PROVE TypeOK'
  BY <1>28, Lives DEF IInv, Spawn, Goto, Manager, TypeOK, Steps, Nudge, file, proc, lane, hist
<1>29. ASSUME TimePasses PROVE TypeOK'
  BY <1>29, Lives DEF IInv, TimePasses, TypeOK, Steps, Nudge, file, proc, lane, hist
<1> QED BY <1>1, <1>2, <1>3, <1>4, <1>5, <1>6, <1>7, <1>8, <1>9, <1>10, <1>11, <1>12, <1>13,
     <1>14, <1>15, <1>16, <1>17, <1>18, <1>19, <1>20, <1>21, <1>22, <1>23, <1>24, <1>25, <1>26,
     <1>27, <1>28, <1>29 DEF Next, Manage, Work, Converse

-----------------------------------------------------------------------------
(* The theorems.                                                            *)

\* The invariant holds of every state of every behaviour.
THEOREM Invariant == Spec => []IInv
<1>1. Init => IInv
  <2> SUFFICES ASSUME Init PROVE IInv
    OBVIOUS
  <2>1. Absent \in Record
    BY Lives DEF Absent, Record
  <2>2. TypeOK
    <3>1. disk \in Record /\ mem \in [Manager -> Record]
      BY <2>1 DEF Init
    <3>2. notices \in Seq(Wakeful) /\ Len(notices) <= MaxNotices /\ told \subseteq DOMAIN notices
      BY BoundAssumption DEF Init
    <3>3. at \in [Manager -> Steps]
      BY DEF Init, Steps
    <3>4. cancels \in 0..MaxCancels /\ resumes \in 0..MaxResumes
      BY BoundAssumption DEF Init
    <3> QED BY <3>1, <3>2, <3>3, <3>4 DEF Init, TypeOK
  <2>3. /\ disk = Absent /\ launch = "none" /\ ~reaped
        /\ \A m \in Manager : /\ mem[m] = Absent /\ at[m] \in {"down", "idle"} /\ ~active[m]
                              /\ ~running[m] /\ ~cancelled[m] /\ (m \in Other => at[m] = "down")
    BY ManagerAssumption DEF Init, Manager
  <2>4. /\ Absent.life = "absent" /\ Absent.outcome = FALSE /\ Absent.process = None
        /\ Absent.wakes = {}
    BY DEF Absent
  <2>5. Past
    BY <2>3, <2>4 DEF Past, Dated, Upto
  <2>6. isTerminal(Absent) = FALSE
    BY <2>4 DEF isTerminal, Terminal
  <2>7. Readable
    BY <2>3, <2>4, <2>6 DEF Readable
  <2>8. Working /\ Leased /\ Recorded /\ Reaped /\ Requested
    BY <2>3, <2>4 DEF Working, Leased, Recorded, Claimable, Reaped, Requested
  <2> QED BY <2>2, <2>5, <2>7, <2>8 DEF IInv, Core
<1>2. IInv /\ [Next]_vars => IInv'
  <2> SUFFICES ASSUME IInv, [Next]_vars PROVE IInv'
    OBVIOUS
  <2>1. CASE Next
    BY <2>1, TypeNext, PastNext, CoreNext DEF IInv
  <2>2. CASE UNCHANGED vars
    BY <2>2 DEF vars, file, proc, lane, hist, IInv, TypeOK, Past, Dated, Core, Readable, isTerminal,
       Working, Leased, Recorded, Claimable, Reaped, Requested
  <2> QED BY <2>1, <2>2
<1> QED BY <1>1, <1>2, PTL DEF Spec

\* Every variable holds what it should: what the merge of two lists of windows makes, too.
THEOREM TypeCorrect == Spec => []TypeOK
<1>1. IInv => TypeOK
  BY DEF IInv
<1> QED BY <1>1, Invariant, PTL

\* Whoever wrote last, from whatever copy, the record on disk parses.
THEOREM RecordParses == Spec => []RecordIsReadable
<1>1. IInv => RecordIsReadable
  BY DEF IInv, Core, Readable, RecordIsReadable
<1> QED BY <1>1, Invariant, PTL

\* No write from a stale copy erases the link from the run to the process that executes it.
THEOREM WorkerIsNamed == Spec => []WorkerIsRecorded
<1>1. IInv => WorkerIsRecorded
  BY DEF IInv, Core, Recorded, WorkerIsRecorded
<1> QED BY <1>1, Invariant, PTL

\* A worker that comes late does not execute a run that was reconciled, nor is a run that is
\* executed reconciled.
THEOREM NoLateClaim == Spec => []ReapedIsNotExecuted
<1>1. IInv => ReapedIsNotExecuted
  BY DEF IInv, Core, Reaped, ReapedIsNotExecuted
<1> QED BY <1>1, Invariant, PTL

\* One process at most executes the run.
THEOREM OneWorker == Spec => [](\A m, n \in Manager : active[m] /\ active[n] => m = n)
<1>1. IInv => \A m, n \in Manager : active[m] /\ active[n] => m = n
  BY DEF IInv, Core, Recorded
<1> QED BY <1>1, Invariant, PTL

-----------------------------------------------------------------------------
(* What becomes of a notice.                                                *)

\* A window is known by its kind and the notice that opened it.
Same(v, w) == v.kind = w.kind /\ v.first = w.first

\* The merge of two lists has every window of either, as long as its longest copy, and
\* handled if a copy is.
LEMMA MergeKeeps ==
  ASSUME NEW a \in SUBSET Window, NEW b \in SUBSET Window, NEW n \in Nat, Upto(a, n), Upto(b, n)
  PROVE  LET M == mergeWake(a, b)
         IN /\ \A x \in M : /\ \E w \in a \cup b : Same(x, w)
                            /\ x.handled <=> \E v \in a \cup b : Same(v, x) /\ v.handled
            /\ \A w \in a \cup b : \E x \in M : Same(x, w) /\ w.last <= x.last
            /\ \A x, y \in M : Same(x, y) => x = y
<1> DEFINE same(w) == {v \in a \cup b : v.kind = w.kind /\ v.first = w.first}
           lasts(w) == {v.last : v \in same(w)}
           merged(w) == [kind |-> w.kind, first |-> w.first, last |-> Latest(lasts(w)),
                         handled |-> \E v \in same(w) : v.handled]
           M == mergeWake(a, b)
<1>1. M = {merged(w) : w \in a \cup b}
  BY DEF mergeWake
<1>2. ASSUME NEW w
      PROVE  /\ Same(merged(w), w) /\ merged(w).last = Latest(lasts(w))
             /\ merged(w).handled <=> \E v \in a \cup b : Same(v, w) /\ v.handled
  BY DEF Same
<1>3. ASSUME NEW w \in a \cup b PROVE w.last <= Latest(lasts(w))
  <2>1. lasts(w) \in SUBSET Nat /\ \A l \in lasts(w) : l <= n
    BY DEF Upto, Window
  <2>2. w.last \in lasts(w)
    OBVIOUS
  <2> HIDE DEF lasts
  <2> QED BY <2>1, <2>2, LatestIs
<1>4. ASSUME NEW w, NEW v, Same(v, w) PROVE merged(v) = merged(w)
  <2>1. same(v) = same(w)
    BY <1>4 DEF Same
  <2> HIDE DEF same
  <2> QED BY <1>4, <2>1 DEF Same
<1> HIDE DEF merged, lasts, M
<1>5. ASSUME NEW x \in M
      PROVE  /\ \E w \in a \cup b : Same(x, w) /\ x = merged(w)
             /\ x.handled <=> \E v \in a \cup b : Same(v, x) /\ v.handled
  <2>1. PICK w \in a \cup b : x = merged(w)
    BY <1>1
  <2> QED BY <1>2, <2>1 DEF Same
<1>6. \A w \in a \cup b : \E x \in M : Same(x, w) /\ w.last <= x.last
  BY <1>1, <1>2, <1>3
<1>7. ASSUME NEW x \in M, NEW y \in M, Same(x, y) PROVE x = y
  <2>1. PICK v \in a \cup b : Same(x, v) /\ x = merged(v)
    BY <1>5
  <2>2. PICK w \in a \cup b : Same(y, w) /\ y = merged(w)
    BY <1>5
  <2> QED BY <1>4, <1>7, <2>1, <2>2 DEF Same
<1> QED BY <1>5, <1>6, <1>7 DEF M

\* A notice of this moment extends an open window or opens one, and leaves the others.
LEMMA CoalesceKeeps ==
  ASSUME NEW W \in SUBSET Window, NEW kind, notices \in Seq(Wakeful), Dated(W)
  PROVE  LET C == coalesceWake(W, kind)
         IN /\ \A x \in C :
                 \/ \E w \in W : Same(x, w) /\ x.handled = w.handled
                 \/ kind \in Wakeful /\ x.kind = kind /\ x.first = now /\ ~x.handled
            /\ kind \in Wakeful =>
                 \E x \in C : /\ x.kind = kind /\ x.first <= now /\ x.last = now /\ ~x.handled
                              /\ \/ x.first = now
                                 \/ \E w \in W : Same(x, w) /\ ~w.handled
<1> DEFINE open == {w \in Unhandled(W) : w.kind = kind}
           firsts == {v.first : v \in open}
           new == [kind |-> kind, first |-> now, last |-> now, handled |-> FALSE]
           C == coalesceWake(W, kind)
<1>1. Len(notices) \in Nat /\ now = Len(notices) + 1 /\ now \in Nat
  BY DEF now
<1>2. \A w \in W : w \in Window /\ w.first <= Len(notices) /\ w.last <= Len(notices)
  BY DEF Dated, Upto
<1>3. CASE kind \notin Wakeful
  BY <1>3 DEF coalesceWake, Same
<1>4. CASE kind \in Wakeful /\ open = {}
  <2>1. C = W \cup {new}
    BY <1>4 DEF coalesceWake
  <2>2. new.kind = kind /\ new.first = now /\ new.last = now /\ ~new.handled
    OBVIOUS
  <2> HIDE DEF new, C
  <2>3. new.first <= now
    BY <1>1, <2>2
  <2> QED BY <1>4, <2>1, <2>2, <2>3 DEF Same, C
<1>5. CASE kind \in Wakeful /\ open # {}
  <2> DEFINE w0 == CHOOSE w \in open : w.first = Latest(firsts)
             longer == [w0 EXCEPT !.last = now]
  <2>1. firsts \in SUBSET Nat /\ firsts # {} /\ \A s \in firsts : s <= Len(notices)
    BY <1>2, <1>5 DEF Unhandled, Window
  <2>2. Latest(firsts) \in firsts
    <3> HIDE DEF firsts
    <3> QED BY <1>1, <2>1, LatestIs
  <2>3. \E w \in open : w.first = Latest(firsts)
    BY <2>2
  <2>4. w0 \in open
    <3> HIDE DEF firsts, open
    <3> QED BY <2>3
  <2>5. w0 \in W /\ w0 \in Window /\ ~w0.handled /\ w0.kind = kind /\ w0.first <= Len(notices)
    <3> HIDE DEF w0
    <3> QED BY <1>2, <2>4 DEF Unhandled
  <2>6. C = (W \ {w0}) \cup {longer}
    BY <1>5 DEF coalesceWake
  <2> HIDE DEF w0
  <2>7. /\ longer.kind = kind /\ longer.first = w0.first /\ longer.last = now
        /\ longer.handled = w0.handled /\ longer.first <= now
    BY <1>1, <2>5 DEF Window
  <2> HIDE DEF longer, C
  <2>8. Same(longer, w0) /\ ~longer.handled
    BY <2>5, <2>7 DEF Same
  <2>9. ASSUME NEW x \in C PROVE \E w \in W : Same(x, w) /\ x.handled = w.handled
    <3>1. CASE x = longer
      BY <2>5, <2>7, <2>8, <3>1
    <3>2. CASE x \in W
      BY <3>2 DEF Same
    <3> QED BY <2>6, <3>1, <3>2
  <2>10. longer \in C
    BY <2>6
  <2> QED BY <2>5, <2>7, <2>8, <2>9, <2>10 DEF C
<1> HIDE DEF open
<1> QED BY <1>3, <1>4, <1>5

\* The record on disk has one window for a kind and an opening notice.
Distinct == \A v, w \in disk.wakes : Same(v, w) => v = w

\* What a process copied or opened is on disk, and handled there if the process knows it
\* to be.
Held ==
  \A m \in Manager : \A u \in mem[m].wakes :
    \E v \in disk.wakes : Same(u, v) /\ (u.handled => v.handled)

\* A console knows what was handled of its windows: nobody else settles a turn.
Sees ==
  \A c \in Console : \A u \in mem[c].wakes : \A v \in disk.wakes :
    Same(u, v) /\ v.handled => u.handled

Windows == Distinct /\ Held /\ Sees /\ OutcomesReachATurn

\* m opens or extends a window for an event, which needs not be one that wakes, and stores
\* its windows.
Extends(m, event) ==
  /\ mem'[m].wakes = coalesceWake(mem[m].wakes, event)
  /\ \A n \in Manager : n # m => mem'[n].wakes = mem[n].wakes
  /\ disk'.wakes = mergeWake(disk.wakes, mem'[m].wakes)
  /\ notices' = IF event \in Wakeful THEN Append(notices, event) ELSE notices
  /\ told' = told

\* The window that m would extend was not handled on disk in the meantime.
Clear(m, event) ==
  event # "stage_changed" =>
    \A u \in mem[m].wakes : \A v \in disk.wakes :
      u.kind = event /\ Same(u, v) /\ v.handled => u.handled

LEMMA ExtendsKeeps ==
  ASSUME TypeOK, Past, Windows, NEW m \in Manager, NEW event, Extends(m, event), Clear(m, event)
  PROVE  Windows'
<1> DEFINE D == disk.wakes
           C == mem'[m].wakes
           M == disk'.wakes
           l == IF event \in Wakeful THEN now ELSE Len(notices)
<1>1. /\ Len(notices) \in Nat /\ now = Len(notices) + 1 /\ l \in Nat /\ Len(notices) <= l
      /\ notices \in Seq(Wakeful) /\ D \in SUBSET Window /\ mem[m].wakes \in SUBSET Window
  BY DEF TypeOK, Record, now
<1>2. Upto(D, Len(notices)) /\ Upto(D, l) /\ Dated(mem[m].wakes)
  BY <1>1, UptoGrows DEF Past, Dated
<1>3. C \in SUBSET Window /\ Upto(C, l)
  BY <1>1, <1>2, CoalesceIs DEF Extends
<1>4. /\ \A x \in C :
           \/ \E w \in mem[m].wakes : Same(x, w) /\ x.handled = w.handled
           \/ event \in Wakeful /\ x.kind = event /\ x.first = now /\ ~x.handled
      /\ event \in Wakeful =>
           \E x \in C : /\ x.kind = event /\ x.first <= now /\ x.last = now /\ ~x.handled
                        /\ x.first = now \/ \E w \in mem[m].wakes : Same(x, w) /\ ~w.handled
  BY <1>1, <1>2, CoalesceKeeps DEF Extends
<1>5. /\ \A x \in M : /\ \E w \in D \cup C : Same(x, w)
                      /\ x.handled <=> \E v \in D \cup C : Same(v, x) /\ v.handled
      /\ \A w \in D \cup C : \E x \in M : Same(x, w) /\ w.last <= x.last
      /\ \A x, y \in M : Same(x, y) => x = y
      /\ \A x \in M : x.first \in Nat /\ x.last \in Nat
  <2>1. M = mergeWake(D, C)
    BY DEF Extends
  <2> HIDE DEF D, C, M, l
  <2>2. M \in SUBSET Window
    BY <1>1, <1>2, <1>3, <2>1, MergeIs
  <2> QED BY <1>1, <1>2, <1>3, <2>1, <2>2, MergeKeeps DEF Window
<1>6. \A v \in D : v.first <= Len(notices) /\ v.first # now
  BY <1>1, <1>2 DEF Upto, Window
<1>7. /\ D = disk.wakes /\ C = mem'[m].wakes /\ M = disk'.wakes
      /\ \A n \in Manager : n # m => mem'[n].wakes = mem[n].wakes
      /\ notices' = (IF event \in Wakeful THEN Append(notices, event) ELSE notices) /\ told' = told
  BY DEF Extends
<1> HIDE DEF D, C, M, l
<1>8. ASSUME NEW x \in M, x.handled PROVE \E v \in D : Same(v, x) /\ v.handled
  <2>1. PICK v \in D \cup C : Same(v, x) /\ v.handled
    BY <1>5, <1>8
  <2>2. CASE v \in C
    <3>1. PICK w \in mem[m].wakes : Same(v, w) /\ w.handled
      BY <1>4, <2>1, <2>2
    <3>2. PICK d \in D : Same(w, d) /\ d.handled
      BY <1>7, <3>1 DEF Windows, Held
    <3> QED BY <2>1, <3>1, <3>2 DEF Same
  <2> QED BY <2>1, <2>2
<1>9. ASSUME NEW v \in D
      PROVE  \E x \in M : Same(x, v) /\ v.last <= x.last /\ (x.handled <=> v.handled)
  <2>1. PICK x \in M : Same(x, v) /\ v.last <= x.last
    BY <1>5
  <2>2. v.handled => x.handled
    BY <1>5, <2>1 DEF Same
  <2>3. x.handled => v.handled
    BY <1>7, <1>8, <2>1 DEF Windows, Distinct, Same
  <2> QED BY <2>1, <2>2, <2>3
<1>10. Distinct'
  BY <1>5, <1>7 DEF Distinct, Same
<1>11. Held'
  <2> SUFFICES ASSUME NEW n \in Manager, NEW u \in mem'[n].wakes
               PROVE  \E x \in M : Same(u, x) /\ (u.handled => x.handled)
    BY <1>7 DEF Held, Same
  <2>1. CASE n = m
    BY <1>5, <1>7, <2>1 DEF Same
  <2>2. CASE n # m
    <3>1. PICK v \in D : Same(u, v) /\ (u.handled => v.handled)
      BY <1>7, <2>2 DEF Windows, Held
    <3> QED BY <1>9, <3>1 DEF Same
  <2> QED BY <2>1, <2>2
<1>12. Sees'
  <2> SUFFICES ASSUME NEW c \in Console, NEW u \in mem'[c].wakes, NEW x \in M, Same(u, x), x.handled
               PROVE  u.handled
    BY <1>7 DEF Sees, Same
  <2>1. PICK v \in D : Same(v, x) /\ v.handled
    BY <1>8
  <2>2. ASSUME NEW w \in mem[c].wakes, Same(u, w) PROVE w.handled
    BY <1>7, <2>1, <2>2 DEF Windows, Sees, Same
  <2>3. CASE c = m
    BY <1>4, <1>6, <1>7, <2>1, <2>2, <2>3 DEF Same
  <2>4. CASE c # m
    BY <1>7, <2>2, <2>4 DEF Manager, Same
  <2> QED BY <2>3, <2>4
<1>13. OutcomesReachATurn'
  <2> SUFFICES ASSUME NEW n \in DOMAIN notices', notices'[n] # "stage_changed", n \notin told
               PROVE  \E x \in M : /\ ~x.handled /\ x.kind = notices'[n]
                                   /\ x.first <= n /\ n <= x.last /\ n \in Nat
    <3> QED BY <1>5, <1>7 DEF OutcomesReachATurn, Told, Pending, Unhandled, InWindow
  <2>1. CASE n \in DOMAIN notices
    <3>1. notices'[n] = notices[n] /\ n \in Nat
      BY <1>1, <1>7, <2>1
    <3>2. PICK v \in D : ~v.handled /\ v.kind = notices[n] /\ n \in v.first..v.last
      BY <1>7, <2>1, <3>1 DEF Windows, OutcomesReachATurn, Told, Pending, Unhandled, InWindow
    <3>3. PICK x \in M : Same(x, v) /\ v.last <= x.last /\ ~x.handled
      BY <1>9, <3>2
    <3>4. v.first \in Nat /\ v.last \in Nat /\ v.first <= n /\ n <= v.last
      BY <1>1, <3>1, <3>2 DEF Window
    <3>5. x.first <= n /\ n <= x.last
      BY <1>5, <3>1, <3>3, <3>4 DEF Same
    <3> QED BY <3>1, <3>2, <3>3, <3>5 DEF Same
  <2>2. CASE n \notin DOMAIN notices
    <3>1. event \in Wakeful /\ n = now /\ notices'[n] = event
      BY <1>1, <1>7, <2>2
    <3>2. PICK y \in C : /\ y.kind = event /\ y.first <= now /\ y.last = now /\ ~y.handled
                         /\ y.first = now \/ \E w \in mem[m].wakes : Same(y, w) /\ ~w.handled
      BY <1>4, <3>1
    <3>3. PICK x \in M : Same(x, y) /\ y.last <= x.last
      BY <1>5
    <3>4. ~x.handled
      <4>1. SUFFICES ASSUME NEW v \in D, Same(v, x), v.handled PROVE FALSE
        BY <1>8
      <4>2. PICK w \in mem[m].wakes : Same(y, w) /\ ~w.handled
        BY <1>6, <3>2, <3>3, <4>1 DEF Same
      <4>3. w.kind = event /\ Same(w, v)
        BY <3>2, <3>3, <4>1, <4>2 DEF Same
      <4> QED BY <1>7, <3>1, <4>1, <4>2, <4>3 DEF Clear
    <3> QED BY <1>1, <3>1, <3>2, <3>3, <3>4 DEF Same
  <2> QED BY <2>1, <2>2
<1> QED BY <1>10, <1>11, <1>12, <1>13 DEF Windows

\* Nothing is recorded, and whose windows change has those on disk or none.
Copies ==
  /\ disk'.wakes = disk.wakes /\ UNCHANGED <<notices, told>>
  /\ \A m \in Manager : mem'[m].wakes \in {mem[m].wakes, disk.wakes, {}}

LEMMA CopiesKeep == ASSUME Windows, Copies PROVE Windows'
<1>1. Distinct'
  BY DEF Copies, Windows, Distinct, Same
<1>2. Held'
  <2> SUFFICES ASSUME NEW m \in Manager, NEW u \in mem'[m].wakes
               PROVE  \E v \in disk.wakes : Same(u, v) /\ (u.handled => v.handled)
    BY DEF Copies, Held, Same
  <2>1. CASE u \in disk.wakes
    BY <2>1 DEF Same
  <2>2. CASE u \in mem[m].wakes
    BY <2>2 DEF Windows, Held
  <2> QED BY <2>1, <2>2 DEF Copies
<1>3. Sees'
  <2> SUFFICES ASSUME NEW c \in Console, NEW u \in mem'[c].wakes, NEW v \in disk.wakes,
                      Same(u, v), v.handled
               PROVE  u.handled
    BY DEF Copies, Sees, Same
  <2>1. CASE u \in disk.wakes
    BY <2>1 DEF Windows, Distinct
  <2>2. CASE u \in mem[c].wakes
    BY <2>2 DEF Windows, Sees
  <2> QED BY <2>1, <2>2 DEF Copies, Manager
<1>4. OutcomesReachATurn'
  BY DEF Copies, Windows, OutcomesReachATurn, Told, Pending, Unhandled, InWindow
<1> QED BY <1>1, <1>2, <1>3, <1>4 DEF Windows

\* A reconciliation opens a window of its own.
LEMMA ReconciledKeeps ==
  ASSUME TypeOK, Past, Windows, NEW m \in Manager, Reap(m), ReapDue(disk)
  PROVE  Windows'
<1> DEFINE new == [kind |-> "failed", first |-> now, last |-> now, handled |-> FALSE]
           D == disk.wakes
           M == disk'.wakes
<1>1. /\ Len(notices) \in Nat /\ now = Len(notices) + 1 /\ now \in Nat
      /\ notices \in Seq(Wakeful) /\ disk \in Record /\ D \in SUBSET Window
  BY DEF TypeOK, Record, now
<1>2. \A v \in D : v.first # now
  BY <1>1 DEF Past, Dated, Upto, Window
<1>3. /\ M = D \cup {new} /\ mem' = [mem EXCEPT ![m] = disk']
      /\ notices' = Append(notices, "failed") /\ told' = told
  BY <1>1 DEF Reap, Notice, Wakeful, ReapedRecord, Record
<1>4. /\ new.kind = "failed" /\ new.first = now /\ new.last = now /\ ~new.handled /\ new \in M
  BY <1>3
<1>5. mem'[m].wakes = M /\ \A n \in Manager : n # m => mem'[n].wakes = mem[n].wakes
  BY <1>3 DEF TypeOK
<1>6. D = disk.wakes /\ M = disk'.wakes
  OBVIOUS
<1> HIDE DEF new, D, M
<1>7. ASSUME NEW v \in M, NEW w \in M, Same(v, w) PROVE v = w
  BY <1>2, <1>3, <1>4, <1>6, <1>7 DEF Windows, Distinct, Same
<1>8. ASSUME NEW v \in M, v.handled PROVE v \in D
  BY <1>3, <1>4, <1>8
<1>9. Held'
  <2> SUFFICES ASSUME NEW n \in Manager, NEW u \in mem'[n].wakes
               PROVE  \E x \in M : Same(u, x) /\ (u.handled => x.handled)
    BY <1>6 DEF Held, Same
  <2>1. CASE n = m
    BY <1>5, <2>1 DEF Same
  <2>2. CASE n # m
    BY <1>3, <1>5, <1>6, <2>2 DEF Windows, Held
  <2> QED BY <2>1, <2>2
<1>10. Sees'
  <2> SUFFICES ASSUME NEW c \in Console, NEW u \in mem'[c].wakes, NEW x \in M, Same(u, x), x.handled
               PROVE  u.handled
    BY <1>6 DEF Sees, Same
  <2>1. CASE c = m
    BY <1>5, <1>7, <2>1
  <2>2. CASE c # m
    BY <1>5, <1>6, <1>8, <2>2 DEF Manager, Windows, Sees
  <2> QED BY <2>1, <2>2
<1>11. OutcomesReachATurn'
  <2> SUFFICES ASSUME NEW n \in DOMAIN notices', notices'[n] # "stage_changed", n \notin told
               PROVE  \E x \in M : ~x.handled /\ x.kind = notices'[n] /\ n \in x.first..x.last
    BY <1>3, <1>6 DEF OutcomesReachATurn, Told, Pending, Unhandled, InWindow
  <2>1. CASE n \in DOMAIN notices
    <3>1. notices'[n] = notices[n]
      BY <1>1, <1>3, <2>1
    <3> QED BY <1>3, <1>6, <2>1, <3>1 DEF Windows, OutcomesReachATurn, Told, Pending, Unhandled, InWindow
  <2>2. CASE n \notin DOMAIN notices
    <3>1. n = now /\ notices'[n] = "failed"
      BY <1>1, <1>3, <2>2
    <3>2. n \in new.first..new.last
      BY <1>1, <1>4, <3>1
    <3> QED BY <1>4, <3>1, <3>2
  <2> QED BY <2>1, <2>2
<1> QED BY <1>6, <1>7, <1>9, <1>10, <1>11 DEF Windows, Distinct, Same

\* Two consoles can lose the wake of a pause: one settles a turn while the other projects.
OneConsole == \A c, d \in Console : c = d

\* A settled turn handles the windows it was about, and was about their notices.
LEMMA SettledKeeps ==
  ASSUME TypeOK, Windows, OneConsole, NEW c \in Console, TurnSettles(c)
  PROVE  Windows'
<1> DEFINE D == disk.wakes
           M == disk'.wakes
           after(w) == IF w \in batch[c] THEN [w EXCEPT !.handled = TRUE] ELSE w
<1>1. disk \in Record /\ D \in SUBSET Window /\ c \in Manager
  BY DEF TypeOK, Record, Manager
<1>2. /\ M = {after(w) : w \in D} /\ mem' = [mem EXCEPT ![c] = disk'] /\ notices' = notices
      /\ told' = told \cup {n \in DOMAIN notices : \E w \in batch[c] : InWindow(n, w)}
  BY <1>1 DEF TurnSettles, Handled, Record
<1>3. ASSUME NEW w \in D
      PROVE  /\ Same(after(w), w) /\ after(w).last = w.last /\ (w.handled => after(w).handled)
             /\ w \notin batch[c] => after(w) = w
  BY <1>1 DEF Same, Window
<1>4. mem'[c].wakes = M /\ \A n \in Manager : n # c => mem'[n].wakes = mem[n].wakes
  BY <1>1, <1>2 DEF TypeOK
<1>5. D = disk.wakes /\ M = disk'.wakes
  OBVIOUS
<1> HIDE DEF after, D, M
<1>6. ASSUME NEW v \in M, NEW w \in M, Same(v, w) PROVE v = w
  <2>1. PICK x \in D : v = after(x)
    BY <1>2
  <2>2. PICK y \in D : w = after(y)
    BY <1>2
  <2>3. Same(x, y)
    BY <1>3, <1>6, <2>1, <2>2 DEF Same
  <2> QED BY <1>5, <2>1, <2>2, <2>3 DEF Windows, Distinct
<1>7. Held'
  <2> SUFFICES ASSUME NEW n \in Manager, NEW u \in mem'[n].wakes
               PROVE  \E x \in M : Same(u, x) /\ (u.handled => x.handled)
    BY <1>5 DEF Held, Same
  <2>1. CASE n = c
    BY <1>4, <2>1 DEF Same
  <2>2. CASE n # c
    <3>1. PICK v \in D : Same(u, v) /\ (u.handled => v.handled)
      BY <1>4, <1>5, <2>2 DEF Windows, Held
    <3> QED BY <1>2, <1>3, <3>1 DEF Same
  <2> QED BY <2>1, <2>2
<1>8. Sees'
  BY <1>4, <1>5, <1>6 DEF Sees, Same, OneConsole
<1>9. OutcomesReachATurn'
  <2> SUFFICES ASSUME NEW n \in DOMAIN notices, notices[n] # "stage_changed", n \notin told'
               PROVE  \E x \in M : ~x.handled /\ x.kind = notices[n] /\ n \in x.first..x.last
    BY <1>2, <1>5 DEF OutcomesReachATurn, Told, Pending, Unhandled, InWindow
  <2>1. PICK v \in D : ~v.handled /\ InWindow(n, v)
    BY <1>2, <1>5 DEF Windows, OutcomesReachATurn, Told, Pending, Unhandled
  <2>2. v \notin batch[c]
    BY <1>2, <2>1
  <2>3. v \in M
    BY <1>2, <1>3, <2>2
  <2> QED BY <2>1, <2>3 DEF InWindow
<1> QED BY <1>5, <1>6, <1>7, <1>8, <1>9 DEF Windows, Distinct, Same

-----------------------------------------------------------------------------
(* What the actions do to windows.                                          *)

LEMMA CommitExtends ==
  ASSUME TypeOK, NEW m \in Manager, NEW r \in Record, r.wakes = mem[m].wakes, NEW event,
         Commit(m, r, event), told' = told
  PROVE  Extends(m, event)
<1> DEFINE w == coalesceWake(r.wakes, event)
           q == r.seq + 1
           next == append(r, event)
           d == mergeWake(disk.wakes, next.wakes)
<1>1. next = [r EXCEPT !.seq = q, !.wakes = w]
  BY DEF append
<1>2. mem' = [mem EXCEPT ![m] = next] /\ disk' = Persisted(next)
  BY DEF Commit, Store
<1>3. notices' = IF event \in Wakeful THEN Append(notices, event) ELSE notices
  BY DEF Commit, Notice
<1>4. Persisted(next) = [next EXCEPT !.wakes = d,
                                     !.process = IF @ = None THEN disk.process ELSE @]
  BY DEF Persisted
<1>5. w = coalesceWake(mem[m].wakes, event)
  OBVIOUS
<1> HIDE DEF w, q
<1>6. next.wakes = w /\ DOMAIN next = DOMAIN r /\ "wakes" \in DOMAIN next
  <2> HIDE DEF next, d
  <2> QED BY <1>1 DEF Record
<1>7. mem'[m] = next /\ \A n \in Manager : n # m => mem'[n] = mem[n]
  BY <1>2 DEF TypeOK
<1> HIDE DEF next
<1>8. d = mergeWake(disk.wakes, mem'[m].wakes)
  BY <1>7
<1> HIDE DEF d
<1>9. disk'.wakes = d
  BY <1>2, <1>4, <1>6
<1> QED BY <1>3, <1>5, <1>6, <1>7, <1>8, <1>9 DEF Extends

LEMMA StoreExtends ==
  ASSUME TypeOK, NEW m \in Manager, NEW r \in Record, r.wakes = mem[m].wakes, Store(m, r),
         \A n \in Manager : mem'[n].wakes = mem[n].wakes, UNCHANGED <<notices, told>>
  PROVE  Extends(m, "started")
<1> DEFINE d == mergeWake(disk.wakes, r.wakes)
<1>1. disk' = [r EXCEPT !.wakes = d, !.process = IF @ = None THEN disk.process ELSE @]
  BY DEF Store, Persisted
<1>2. d = mergeWake(disk.wakes, mem'[m].wakes)
  OBVIOUS
<1> HIDE DEF d
<1>3. disk'.wakes = d
  BY <1>1 DEF Record
<1>4. "started" \notin Wakeful
  BY DEF Wakeful
<1>5. coalesceWake(mem[m].wakes, "started") = mem[m].wakes
  BY <1>4 DEF coalesceWake
<1> QED BY <1>2, <1>3, <1>4, <1>5 DEF Extends

-----------------------------------------------------------------------------
(* The course of the run, as far as it decides which windows are open.      *)

Marks(windows) == {w.kind : w \in windows}

Going == {"started", "operator_attention"}

\* Nothing wakes anybody before the run is claimed.
Fresh == launch = "none" \/ Claimable => Marks(disk.wakes) = {}

\* Until it ends or pauses, a worker has recorded changes of stage only.
Staged ==
  \A m \in Manager :
    active[m] =>
      /\ mem[m].life \in {"requested", "started"} => Marks(mem[m].wakes) \subseteq {"stage_changed"}
      /\ running[m] /\ at[m] # "settling" =>
           mem[m].life = IF cancelled[m] THEN "timed_out" ELSE "started"

\* A run that goes on has not failed, in no copy and while its worker lives.
Unfailed ==
  /\ disk.life \in Going => "failed" \notin Marks(disk.wakes)
  /\ \A m \in Manager :
       /\ mem[m].life \in Going => "failed" \notin Marks(mem[m].wakes)
       /\ active[m] /\ mem[m].life \in Going \cup {"requested"} => "failed" \notin Marks(disk.wakes)

\* The lease of a run that goes on is its worker's.
Holder == \A m \in Manager : active[m] /\ disk.life \in Going => disk.lease = m

\* Who abandons the run read it as going on, when its worker was gone.
Leaving ==
  \A m \in Manager :
    at[m] = "abandoning" => mem[m].life \in Going /\ ~Claimable /\ \A n \in Manager : ~active[n]

Course == Fresh /\ Staged /\ Unfailed /\ Holder /\ Leaving

LEMMA ExtendsMarks ==
  ASSUME TypeOK, Past, Held, NEW m \in Manager, NEW event, Extends(m, event)
  PROVE  /\ Marks(mem'[m].wakes) \subseteq Marks(mem[m].wakes) \cup ({event} \cap Wakeful)
         /\ Marks(disk'.wakes) \subseteq Marks(disk.wakes) \cup ({event} \cap Wakeful)
<1> DEFINE l == IF event \in Wakeful THEN now ELSE Len(notices)
<1>1. /\ Len(notices) \in Nat /\ now = Len(notices) + 1 /\ l \in Nat /\ Len(notices) <= l
      /\ notices \in Seq(Wakeful) /\ disk.wakes \in SUBSET Window /\ mem[m].wakes \in SUBSET Window
  BY DEF TypeOK, Record, now
<1>2. Upto(disk.wakes, l) /\ Dated(mem[m].wakes)
  BY <1>1, UptoGrows DEF Past, Dated
<1>3. mem'[m].wakes \in SUBSET Window /\ Upto(mem'[m].wakes, l)
  BY <1>1, <1>2, CoalesceIs DEF Extends
<1> HIDE DEF l
<1>4. \A x \in mem'[m].wakes : (\E w \in mem[m].wakes : Same(x, w)) \/ (event \in Wakeful /\ x.kind = event)
  BY <1>1, <1>2, CoalesceKeeps DEF Extends
<1>5. \A x \in disk'.wakes : \E w \in disk.wakes \cup mem'[m].wakes : Same(x, w)
  BY <1>1, <1>2, <1>3, MergeKeeps DEF Extends
<1>6. Marks(mem[m].wakes) \subseteq Marks(disk.wakes)
  BY DEF Held, Marks, Same
<1>7. Marks(mem'[m].wakes) \subseteq Marks(mem[m].wakes) \cup ({event} \cap Wakeful)
  BY <1>4 DEF Marks, Same
<1>8. Marks(disk'.wakes) \subseteq Marks(disk.wakes) \cup Marks(mem'[m].wakes)
  BY <1>5 DEF Marks, Same
<1> QED BY <1>6, <1>7, <1>8

LEMMA ReadsCourse ==
  ASSUME IInv, Course, NEW m \in Manager, Reads(m),
         Marks(disk'.wakes) = Marks(disk.wakes),
         \/ mem'[m].life = mem[m].life /\ Marks(mem'[m].wakes) = Marks(mem[m].wakes)
         \/ mem'[m].life = disk.life /\ Marks(mem'[m].wakes) = Marks(disk.wakes)
         \/ mem'[m].life = "absent",
         at'[m] = "abandoning" =>
           mem'[m].life \in Going /\ ~Claimable /\ \A n \in Manager : ~active[n]
  PROVE  Course'
<1> USE DEF Course, Reads, Others, SameFields, Claimable
<1>1. Fresh'
  BY DEF Fresh
<1>2. Staged'
  BY DEF Staged
<1>3. Unfailed'
  BY DEF Unfailed, Going
<1>4. Holder'
  BY DEF Holder
<1>5. Leaving'
  BY DEF Leaving
<1> QED BY <1>1, <1>2, <1>3, <1>4, <1>5

LEMMA WritesBackCourse ==
  ASSUME IInv, Course, NEW m \in Manager, WritesBack(m), NEW K,
         Marks(disk'.wakes) \subseteq Marks(disk.wakes) \cup K,
         Marks(mem'[m].wakes) \subseteq Marks(disk'.wakes),
         "failed" \in K => disk'.life = "failed" /\ \A n \in Manager : ~active[n],
         disk'.life \in Going => active[m] /\ mem[m].life = disk'.life
  PROVE  Course'
<1> USE DEF Course, WritesBack, Others
<1>1. Fresh'
  BY DEF Fresh, Claimable
<1>2. Staged'
  BY DEF Staged
<1>3. Unfailed'
  BY DEF Unfailed, Going
<1>4. Holder'
  BY DEF Holder, IInv, Core, Recorded
<1>5. Leaving'
  BY DEF Leaving, Claimable
<1> QED BY <1>1, <1>2, <1>3, <1>4, <1>5

LEMMA WorksCourse ==
  ASSUME IInv, Course, NEW w \in Manager, Works(w), NEW K,
         Marks(disk'.wakes) \subseteq Marks(disk.wakes) \cup K,
         Marks(mem'[w].wakes) \subseteq Marks(mem[w].wakes) \cup K,
         "failed" \in K => disk'.life = "failed" /\ mem'[w].life = "failed",
         mem'[w].life \in {"requested", "started"} =>
           mem[w].life \in {"requested", "started"} /\ K \subseteq {"stage_changed"},
         mem'[w].life = "operator_attention" => mem[w].life \in Going,
         running'[w] /\ at'[w] # "settling" =>
           mem'[w].life = IF cancelled'[w] THEN "timed_out" ELSE "started"
  PROVE  Course'
<1> USE DEF Course, Works, Others, SameFields
<1>1. \A n \in Manager : active[n] => n = w
  BY DEF IInv, Core, Recorded
<1>2. \A n \in Manager : active'[n] => n = w
  BY <1>1
<1>3. w # None /\ launch # "none"
  BY ManagerAssumption DEF IInv, Core, Working, Manager
<1>4. Fresh'
  BY <1>3 DEF Fresh, Claimable, IInv, Core, Leased
<1>5. Staged'
  BY <1>2 DEF Staged
<1>6. Unfailed'
  BY <1>2 DEF Unfailed, Staged, Going
<1>7. Holder'
  BY <1>2 DEF Holder
<1>8. Leaving'
  BY DEF Leaving
<1> QED BY <1>4, <1>5, <1>6, <1>7, <1>8

Joint == Windows /\ Course

-----------------------------------------------------------------------------
(* Action by action.                                                        *)

LEMMA ReadsJoint ==
  ASSUME IInv, Joint, NEW m \in Manager, Reads(m), UNCHANGED <<disk, notices, told>>,
         mem'[m] \in {mem[m], disk, Absent},
         at'[m] = "abandoning" =>
           mem'[m].life \in Going /\ ~Claimable /\ \A n \in Manager : ~active[n]
  PROVE  Joint'
<1>1. Absent.life = "absent" /\ Absent.wakes = {}
  BY DEF Absent
<1>2. Copies
  BY <1>1 DEF Reads, Others, Copies
<1>3. Windows'
  BY <1>2, CopiesKeep DEF Joint
<1>4. Course'
  BY <1>1, ReadsCourse DEF Joint
<1> QED BY <1>3, <1>4 DEF Joint

LEMMA ExtendsBack ==
  ASSUME IInv, Joint, NEW m \in Manager, WritesBack(m), NEW event, Extends(m, event),
         Clear(m, event),
         event = "failed" => disk'.life = "failed" /\ \A n \in Manager : ~active[n],
         disk'.life \in Going => active[m] /\ mem[m].life = disk'.life
  PROVE  Joint'
<1>1. Windows'
  BY ExtendsKeeps DEF IInv, Joint
<1>2. Marks(disk'.wakes) \subseteq Marks(disk.wakes) \cup ({event} \cap Wakeful)
  BY ExtendsMarks DEF IInv, Joint, Windows
<1>3. Marks(mem'[m].wakes) \subseteq Marks(disk'.wakes)
  BY <1>1 DEF Windows, Held, Marks, Same
<1>4. Course'
  BY <1>2, <1>3, WritesBackCourse DEF Joint
<1> QED BY <1>1, <1>4 DEF Joint

LEMMA ExtendsWorks ==
  ASSUME IInv, Joint, NEW w \in Manager, Works(w), NEW event, Extends(w, event), Clear(w, event),
         event = "failed" => disk'.life = "failed" /\ mem'[w].life = "failed",
         mem'[w].life \in {"requested", "started"} =>
           mem[w].life \in {"requested", "started"} /\ event \notin Wakeful \ {"stage_changed"},
         mem'[w].life = "operator_attention" => mem[w].life \in Going,
         running'[w] /\ at'[w] # "settling" =>
           mem'[w].life = IF cancelled'[w] THEN "timed_out" ELSE "started"
  PROVE  Joint'
<1>1. Windows'
  BY ExtendsKeeps DEF IInv, Joint
<1>2. /\ Marks(mem'[w].wakes) \subseteq Marks(mem[w].wakes) \cup ({event} \cap Wakeful)
      /\ Marks(disk'.wakes) \subseteq Marks(disk.wakes) \cup ({event} \cap Wakeful)
  BY ExtendsMarks DEF IInv, Joint, Windows
<1>3. Course'
  <2> DEFINE K == {event} \cap Wakeful
  <2>1. "failed" \in K => disk'.life = "failed" /\ mem'[w].life = "failed"
    OBVIOUS
  <2>2. mem'[w].life \in {"requested", "started"} =>
          mem[w].life \in {"requested", "started"} /\ K \subseteq {"stage_changed"}
    OBVIOUS
  <2>3. /\ Marks(mem'[w].wakes) \subseteq Marks(mem[w].wakes) \cup K
        /\ Marks(disk'.wakes) \subseteq Marks(disk.wakes) \cup K
    BY <1>2
  <2> HIDE DEF K
  <2> QED BY <2>1, <2>2, <2>3, WorksCourse DEF Joint
<1> QED BY <1>1, <1>3 DEF Joint

\* Nothing is lost by the one who handles windows, nor by one who has no window of the kind.
LEMMA ConsoleClear ==
  ASSUME Joint, NEW c \in Console, NEW event PROVE Clear(c, event)
BY DEF Joint, Windows, Sees, Clear

LEMMA NoneClear ==
  ASSUME NEW m \in Manager, NEW event, event \notin Marks(mem[m].wakes) PROVE Clear(m, event)
BY DEF Marks, Clear

LEMMA SleepClear ==
  ASSUME TypeOK, NEW m \in Manager, NEW event, event \notin Wakeful PROVE Clear(m, event)
<1>1. event \notin Marks(mem[m].wakes)
  BY DEF TypeOK, Record, Window, Marks
<1> QED BY <1>1, NoneClear

LEMMA WroteExtends ==
  ASSUME TypeOK, NEW m \in Manager, NEW life \in Life, NEW outcome \in BOOLEAN, NEW event,
         NEW r, r = [mem[m] EXCEPT !.life = life, !.outcome = outcome], Commit(m, r, event),
         told' = told
  PROVE  Extends(m, event)
<1>1. mem[m] \in Record
  BY DEF TypeOK
<1>2. r \in Record /\ r.wakes = mem[m].wakes
  BY <1>1 DEF Record
<1> QED BY <1>2, CommitExtends

LEMMA NotGoing == "failed" \notin Going /\ "cancelled" \notin Going /\ "paused" \notin Going /\ "completed" \notin Going
BY DEF Going

LEMMA ReadingActions ==
  ASSUME IInv, Joint, NEW m \in Manager,
         Refresh(m) \/ ReapOnRead(m) \/ Cancel(m) \/ Dies(m) \/ (Reap(m) /\ ~ReapDue(disk))
  PROVE  Joint'
<1>1. Reads(m)
  BY RefreshKind, ReapOnReadKind, CancelKind, DiesKind, NotReapedKind
<1>2. UNCHANGED <<disk, notices, told>> /\ at'[m] # "abandoning"
  BY DEF IInv, TypeOK, Refresh, ReapOnRead, Cancel, Dies, Reap, Goto, file, hist
<1>3. mem'[m] \in {mem[m], disk, Absent}
  BY DEF IInv, TypeOK, Refresh, ReapOnRead, Cancel, Dies, Reap
<1> QED BY <1>1, <1>2, <1>3, ReadsJoint

LEMMA LoadJoint == ASSUME IInv, Joint, NEW m \in Manager, Load(m) PROVE Joint'
<1>1. Reads(m) /\ mem'[m] = disk /\ UNCHANGED <<disk, notices, told>>
  BY LoadKind DEF IInv, TypeOK, Load, file, hist
<1>2. ASSUME at'[m] = "abandoning" PROVE disk.life \in Going /\ ~hasFreshLease(disk)
  BY <1>2 DEF IInv, TypeOK, Load, Goto, Going
<1>3. ASSUME disk.life \in Going, ~hasFreshLease(disk), NEW n \in Manager PROVE ~active[n]
  <2>1. active[n] => disk.lease = n /\ n # None
    BY <1>3, ManagerAssumption DEF Joint, Course, Holder, Manager
  <2> QED BY <1>3, <2>1 DEF hasFreshLease
<1>4. disk.life \in Going => ~Claimable
  BY DEF Going, Claimable
<1> QED BY <1>1, <1>2, <1>3, <1>4, ReadsJoint

LEMMA ConsoleReads ==
  ASSUME IInv, Joint, NEW c \in Console,
         \/ ResumeHere(c) \/ Drain(c) \/ Defer(c) \/ TurnFails(c) \/ FrontBegins(c)
         \/ FrontSettles(c) \/ FrontRefused(c)
  PROVE  Joint'
<1>1. Reads(c) /\ c \in Manager
  BY ResumeHereKind, DrainKind, LaneKind DEF Manager
<1>2. UNCHANGED <<disk, notices, told>> /\ at'[c] # "abandoning"
  BY <1>1 DEF IInv, TypeOK, ResumeHere, Drain, Defer, TurnFails, FrontBegins, FrontSettles,
     FrontRefused, Goto, file, proc, hist
<1>3. mem'[c] \in {mem[c], disk, Absent}
  BY <1>1 DEF IInv, TypeOK, ResumeHere, Drain, Defer, TurnFails, FrontBegins, FrontSettles,
     FrontRefused, proc
<1> QED BY <1>1, <1>2, <1>3, ReadsJoint

LEMMA SettlesJoint ==
  ASSUME IInv, Joint, OneConsole, NEW c \in Console, TurnSettles(c) PROVE Joint'
<1>1. Reads(c) /\ c \in Manager /\ Windows'
  BY TurnSettlesKind, SettledKeeps DEF IInv, Joint, Manager
<1>2. mem'[c] = disk' /\ disk'.life = disk.life /\ at'[c] = "idle"
  BY <1>1 DEF IInv, TypeOK, Record, TurnSettles
<1>3. Marks(disk'.wakes) = Marks(disk.wakes)
  <2>1. disk'.wakes = {IF w \in batch[c] THEN [w EXCEPT !.handled = TRUE] ELSE w : w \in disk.wakes}
    BY DEF IInv, TypeOK, Record, TurnSettles, Handled
  <2>2. disk.wakes \in SUBSET Window
    BY DEF IInv, TypeOK, Record
  <2> DEFINE after(w) == IF w \in batch[c] THEN [w EXCEPT !.handled = TRUE] ELSE w
  <2>3. \A w \in disk.wakes : after(w).kind = w.kind
    BY <2>2 DEF Window
  <2>4. disk'.wakes = {after(w) : w \in disk.wakes}
    BY <2>1
  <2> HIDE DEF after
  <2> QED BY <2>3, <2>4 DEF Marks
<1>4. Course'
  BY <1>1, <1>2, <1>3, ReadsCourse DEF Joint
<1> QED BY <1>1, <1>4 DEF Joint

LEMMA ReapJoint ==
  ASSUME IInv, Joint, NEW m \in Manager, Reap(m), ReapDue(disk) PROVE Joint'
<1>1. WritesBack(m) /\ Windows'
  BY ReapKind, ReconciledKeeps DEF IInv, Joint
<1>2. disk' = ReapedRecord(disk) /\ mem'[m] = disk' /\ disk \in Record
  BY DEF Reap, IInv, TypeOK
<1>3. disk'.life = "failed" /\ Marks(disk'.wakes) \subseteq Marks(disk.wakes) \cup {"failed"}
  BY <1>2 DEF ReapedRecord, Record, Marks
<1>4. \A n \in Manager : ~active[n]
  <2>1. disk.life = "requested" /\ ~hasFreshLease(disk)
    BY DEF ReapDue
  <2>2. ASSUME NEW n \in Manager, active[n] PROVE FALSE
    <3>1. disk.lease = n /\ n # None
      BY <2>1, <2>2, ManagerAssumption DEF IInv, Core, Leased, Manager
    <3> QED BY <2>1, <2>2, <3>1 DEF hasFreshLease
  <2> QED BY <2>2
<1>5. Course'
  BY <1>1, <1>2, <1>3, <1>4, NotGoing, WritesBackCourse DEF Joint
<1> QED BY <1>1, <1>5 DEF Joint

LEMMA AbandonJoint == ASSUME IInv, Joint, NEW m \in Manager, Abandon(m) PROVE Joint'
<1>1. WritesBack(m) /\ Wrote(m, "failed", TRUE)
  BY AbandonKind, AbandonIs DEF IInv
<1>2. Extends(m, "failed")
  BY WroteExtends, Lives DEF IInv, Abandon, hist
<1>3. "failed" \notin Marks(mem[m].wakes) /\ \A n \in Manager : ~active[n]
  BY DEF Joint, Course, Leaving, Unfailed, Abandon
<1> QED BY <1>1, <1>2, <1>3, NoneClear, NotGoing, ExtendsBack DEF Wrote

LEMMA WriteCancelledJoint == ASSUME IInv, Joint, NEW m \in Manager, WriteCancelled(m) PROVE Joint'
<1>1. WritesBack(m) /\ Wrote(m, "cancelled", TRUE)
  BY WriteCancelledKind, WriteCancelledIs DEF IInv
<1>2. Extends(m, "cancelled")
  BY WroteExtends, Lives DEF IInv, WriteCancelled, hist
<1>3. Clear(m, "cancelled")
  BY SleepClear DEF IInv, Wakeful
<1> QED BY <1>1, <1>2, <1>3, NotGoing, ExtendsBack DEF Wrote

LEMMA FailLaunchJoint == ASSUME IInv, Joint, NEW c \in Console, FailLaunch(c) PROVE Joint'
<1>1. WritesBack(c) /\ Wrote(c, "failed", TRUE) /\ c \in Manager
  BY FailLaunchKind, FailLaunchIs DEF IInv, Manager
<1>2. Extends(c, "failed")
  BY <1>1, WroteExtends, Lives DEF IInv, FailLaunch, hist
<1>3. \A n \in Manager : ~active[n]
  BY DEF IInv, Core, Working, FailLaunch
<1> QED BY <1>1, <1>2, <1>3, ConsoleClear, NotGoing, ExtendsBack DEF Wrote

LEMMA ProjectJoint == ASSUME IInv, Joint, NEW c \in Console, Project(c) PROVE Joint'
<1> DEFINE a == append(mem[c], "started")
           r(life) == [a EXCEPT !.life = life, !.outcome = life = "completed"]
<1>1. PICK life \in {"paused", "completed"} : Commit(c, r(life), life)
  BY DEF Project
<1>2. /\ c \in Manager /\ mem[c] \in Record /\ Dated(mem[c].wakes) /\ notices \in Seq(Wakeful)
      /\ told' = told
  BY DEF IInv, TypeOK, Past, Manager, Project, hist
<1>3. "started" \notin Wakeful
  BY DEF Wakeful
<1>4. a \in Record /\ a.wakes = mem[c].wakes
  <2>1. a \in Record
    BY <1>2, AppendIs
  <2>2. a.wakes = coalesceWake(mem[c].wakes, "started")
    BY <1>2 DEF append, Record
  <2> QED BY <1>3, <2>1, <2>2 DEF coalesceWake
<1> HIDE DEF a
<1>5. r(life) \in Record /\ r(life).wakes = mem[c].wakes /\ r(life).life = life
  BY <1>1, <1>4, Lives DEF Record
<1> HIDE DEF r
<1>6. Extends(c, life)
  BY <1>1, <1>2, <1>5, CommitExtends DEF IInv
<1>7. disk'.life = life
  BY <1>1, <1>2, <1>5, CommitIs DEF IInv, Committed
<1>8. WritesBack(c)
  BY ProjectKind
<1> QED BY <1>1, <1>2, <1>6, <1>7, <1>8, ConsoleClear, NotGoing, ExtendsBack

LEMMA SettleJoint == ASSUME IInv, Joint, NEW w \in Manager, Settle(w) PROVE Joint'
<1> DEFINE r == [mem[w] EXCEPT !.lease = None]
<1>1. WritesBack(w) /\ Stored(w, None)
  BY SettleKind, SettleIs DEF IInv
<1>2. /\ r \in Record /\ r.wakes = mem[w].wakes /\ Store(w, r) /\ UNCHANGED <<notices, told>>
      /\ mem' = [mem EXCEPT ![w] = r] /\ active[w]
  <2>1. mem[w] \in Record
    BY DEF IInv, TypeOK
  <2>2. r \in Record /\ r.wakes = mem[w].wakes
    BY <2>1 DEF Record
  <2>3. Store(w, r) /\ UNCHANGED <<notices, told>> /\ mem' = [mem EXCEPT ![w] = r]
    BY <2>1 DEF IInv, TypeOK, Settle, hist
  <2> QED BY <2>2, <2>3 DEF IInv, Core, Working, Settle
<1> HIDE DEF r
<1>3. \A n \in Manager : mem'[n].wakes = mem[n].wakes
  BY <1>2 DEF IInv, TypeOK
<1>4. Extends(w, "started")
  BY <1>2, <1>3, StoreExtends DEF IInv
<1>5. Clear(w, "started")
  BY SleepClear DEF IInv, Wakeful
<1> QED BY <1>1, <1>2, <1>4, <1>5, ExtendsBack DEF Stored

LEMMA PersistJoint ==
  ASSUME IInv, Joint, NEW w \in Manager, Launch(w) \/ Heartbeat(w) PROVE Joint'
<1>1. /\ Works(w) /\ Store(w, mem[w]) /\ UNCHANGED <<mem, notices, told, running, cancelled>>
      /\ active[w] /\ mem[w] \in Record /\ at[w] # "settling"
  BY PersistKind DEF Launch, Heartbeat, Persist, hist, IInv, TypeOK, Core, Working
<1>2. Extends(w, "started")
  BY <1>1, StoreExtends DEF IInv
<1>3. Clear(w, "started") /\ "started" \notin Wakeful
  BY SleepClear DEF IInv, Wakeful
<1>4. running[w] => mem[w].life = IF cancelled[w] THEN "timed_out" ELSE "started"
  BY <1>1 DEF Joint, Course, Staged
<1> QED BY <1>1, <1>2, <1>3, <1>4, ExtendsWorks DEF Going

LEMMA BeginJoint == ASSUME IInv, Joint, NEW w \in Manager, Begin(w) PROVE Joint'
<1>1. /\ active[w] /\ ~cancelled[w] /\ mem[w].life = "requested" /\ told' = told
      /\ cancelled' = cancelled
  BY DEF IInv, Core, Working, Begin, hist
<1>2. Works(w) /\ Wrote(w, "started", mem[w].outcome)
  BY <1>1, BeginKind, BeginIs DEF IInv
<1>3. mem[w] \in Record
  BY DEF IInv, TypeOK
<1>4. /\ [mem[w] EXCEPT !.life = "started"]
            = [mem[w] EXCEPT !.life = "started", !.outcome = mem[w].outcome]
      /\ mem[w].outcome \in BOOLEAN
  BY <1>3 DEF Record
<1>5. Commit(w, [mem[w] EXCEPT !.life = "started"], "started")
  BY <1>1 DEF Begin
<1>6. Extends(w, "started")
  BY <1>1, <1>4, <1>5, WroteExtends, Lives DEF IInv
<1>7. Clear(w, "started") /\ "started" \notin Wakeful
  BY SleepClear DEF IInv, Wakeful
<1> QED BY <1>1, <1>2, <1>6, <1>7, ExtendsWorks DEF Wrote

LEMMA StageChangedJoint == ASSUME IInv, Joint, NEW w \in Manager, StageChanged(w) PROVE Joint'
<1>1. /\ active[w] /\ running[w] /\ ~cancelled[w] /\ at[w] = "idle" /\ mem[w] \in Record
      /\ told' = told /\ UNCHANGED <<cancelled, running>>
  BY DEF IInv, TypeOK, StageChanged, Executing, hist
<1>2. mem[w].life = "started"
  BY <1>1 DEF Joint, Course, Staged
<1>3. Works(w) /\ Wrote(w, mem[w].life, mem[w].outcome)
  BY StageChangedKind, StageChangedIs DEF IInv
<1>4. Extends(w, "stage_changed")
  BY <1>1, CommitExtends DEF IInv, StageChanged
<1> QED BY <1>1, <1>2, <1>3, <1>4, ExtendsWorks DEF Wrote, Clear

LEMMA TimeoutJoint == ASSUME IInv, Joint, NEW w \in Manager, Timeout(w) PROVE Joint'
<1>1. /\ active[w] /\ running[w] /\ at[w] = "idle" /\ ~isTerminal(mem[w]) /\ told' = told
      /\ cancelled'[w]
  BY DEF IInv, TypeOK, Timeout, Executing, hist
<1>2. mem[w].life = "started"
  BY <1>1 DEF Joint, Course, Staged, isTerminal, Terminal
<1>3. "timed_out" \notin Marks(mem[w].wakes)
  BY <1>1, <1>2 DEF Joint, Course, Staged
<1>4. Works(w) /\ Wrote(w, "timed_out", TRUE)
  BY TimeoutKind, TimeoutIs DEF IInv
<1>5. Extends(w, "timed_out")
  BY <1>1, WroteExtends, Lives DEF IInv, Timeout
<1> QED BY <1>1, <1>3, <1>4, <1>5, NoneClear, ExtendsWorks DEF Wrote

LEMMA FinishJoint == ASSUME IInv, Joint, NEW w \in Manager, Finish(w) PROVE Joint'
<1>1. /\ active[w] /\ running[w] /\ at[w] = "idle" /\ told' = told /\ at'[w] = "settling"
      /\ Works(w) /\ active'[w]
  BY FinishKind DEF IInv, TypeOK, Finish, Executing, hist, Goto
<1>2. CASE cancelled[w]
  <2>1. UNCHANGED <<disk, mem, notices>>
    BY <1>2 DEF Finish, file
  <2>2. Copies
    BY <1>1, <2>1 DEF Copies
  <2>3. Windows'
    BY <2>2, CopiesKeep DEF Joint
  <2>4. mem[w].life = "timed_out"
    BY <1>1, <1>2 DEF Joint, Course, Staged
  <2>5. Course'
    <3> DEFINE K == {"timed_out"}
    <3>1. /\ Marks(disk'.wakes) \subseteq Marks(disk.wakes) \cup K
          /\ Marks(mem'[w].wakes) \subseteq Marks(mem[w].wakes) \cup K
          /\ mem'[w].life = "timed_out" /\ "failed" \notin K
      BY <2>1, <2>4
    <3> HIDE DEF K
    <3> QED BY <1>1, <3>1, WorksCourse DEF Joint
  <2> QED BY <2>3, <2>5 DEF Joint
<1>3. CASE ~cancelled[w]
  <2>1. PICK life \in {"completed", "failed", "paused", "operator_attention"} :
          Commit(w, [mem[w] EXCEPT !.life = life, !.outcome = life \in Terminal], life)
    BY <1>3 DEF Finish
  <2>2. life \in Life /\ (life \in Terminal) \in BOOLEAN
    BY Lives
  <2>3. Extends(w, life)
    BY <1>1, <2>1, <2>2, WroteExtends DEF IInv
  <2>4. Wrote(w, life, life \in Terminal)
    BY <2>1, <2>2, WroteIs DEF IInv
  <2>5. mem[w].life = "started"
    BY <1>1, <1>3 DEF Joint, Course, Staged
  <2>6. life \notin Marks(mem[w].wakes)
    BY <1>1, <2>5 DEF Joint, Course, Staged
  <2> QED BY <1>1, <2>3, <2>4, <2>5, <2>6, NoneClear, ExtendsWorks DEF Wrote, Going
<1> QED BY <1>2, <1>3

LEMMA ClaimJoint == ASSUME IInv, Joint, NEW w \in Manager, Claim(w) PROVE Joint'
<1>1. /\ at[w] = "idle" /\ mem[w].life = "requested" /\ Claimable /\ w # None
      /\ UNCHANGED <<launch, notices, told, cancelled, running>> /\ mem[w] \in Record /\ disk \in Record
  BY ManagerAssumption DEF IInv, TypeOK, Claim, Claimable, Manager, hist
<1>2. /\ mem'[w].life = "requested" /\ mem'[w].wakes = mem[w].wakes
      /\ disk'.life = "requested" /\ disk'.lease = w /\ disk'.wakes = disk.wakes
  BY <1>1 DEF IInv, TypeOK, Claim, Record, Claimable
<1>3. \A n \in Manager : n # w => mem'[n] = mem[n] /\ at'[n] = at[n] /\ active'[n] = active[n]
  BY DEF IInv, TypeOK, Claim, Goto
<1>4. at'[w] = "launching" /\ ~running'[w] /\ \A n \in Manager : ~active[n]
  BY <1>1, ManagerAssumption DEF IInv, TypeOK, Core, Working, Leased, Claim, Claimable, Goto, Manager
<1>5. Copies
  BY <1>1, <1>2, <1>3 DEF Copies
<1>6. Windows'
  BY <1>5, CopiesKeep DEF Joint
<1>7. Marks(disk.wakes) = {} /\ Marks(mem[w].wakes) = {}
  BY <1>1 DEF Joint, Course, Fresh, Windows, Held, Marks, Same
<1>8. Fresh' /\ Holder'
  BY <1>1, <1>2, <1>7 DEF Fresh, Claimable, Holder, Going, Marks
<1>9. Staged' /\ Leaving'
  BY <1>1, <1>2, <1>3, <1>4, <1>7 DEF Joint, Course, Staged, Leaving, Marks
<1>10. Unfailed'
  BY <1>1, <1>2, <1>3, <1>4, <1>7 DEF Joint, Course, Unfailed, Going, Marks
<1> QED BY <1>6, <1>8, <1>9, <1>10 DEF Joint, Course

LEMMA StartDetachedJoint == ASSUME IInv, Joint, NEW c \in Console, StartDetached(c) PROVE Joint'
<1> DEFINE r == [Absent EXCEPT !.life = "requested"]
<1>1. Absent \in Record /\ Absent.wakes = {} /\ r \in Record /\ r.wakes = {} /\ r.life = "requested"
  <2>1. Absent \in Record /\ Absent.wakes = {}
    BY Lives DEF Absent, Record
  <2> QED BY <2>1, Lives DEF Record
<1>2. /\ launch = "none" /\ launch' = "pending" /\ c \in Manager /\ told' = told
      /\ UNCHANGED <<at, active>> /\ Commit(c, r, "requested")
  BY DEF StartDetached, Manager, hist
<1>3. Committed(c, r)
  BY StartDetachedIs
<1> HIDE DEF r
<1>4. \A n \in Manager : ~active[n] /\ at[n] \in {"down", "idle"}
  BY <1>2 DEF IInv, Core, Working, Requested
<1>5. Marks(disk.wakes) = {} /\ mem[c].wakes = {}
  BY <1>2 DEF Joint, Course, Fresh, Windows, Held, Marks, Same
<1>6. "requested" \notin Wakeful
  BY DEF Wakeful
<1>7. Extends(c, "requested") /\ Clear(c, "requested")
  BY <1>1, <1>2, <1>5, <1>6, CommitExtends, SleepClear DEF IInv
<1>8. Windows'
  BY <1>2, <1>7, ExtendsKeeps DEF IInv, Joint
<1>9. Marks(disk'.wakes) = {} /\ Marks(mem'[c].wakes) = {}
  BY <1>2, <1>5, <1>6, <1>7, ExtendsMarks DEF IInv, Joint, Windows, Marks
<1>10. /\ disk'.life = "requested" /\ mem'[c].life = "requested"
       /\ \A n \in Manager : n # c => mem'[n] = mem[n]
  BY <1>1, <1>3 DEF Committed
<1>11. Course'
  BY <1>2, <1>4, <1>9, <1>10 DEF Joint, Course, Fresh, Staged, Unfailed, Holder, Leaving, Going
<1> QED BY <1>8, <1>11 DEF Joint

LEMMA WorldJoint == ASSUME IInv, Joint, Spawn \/ TimePasses PROVE Joint'
<1>1. UNCHANGED <<disk, mem, notices, told, at, active, cancelled, running>>
  BY DEF Spawn, TimePasses, file, proc, hist
<1>2. Copies
  BY <1>1 DEF Copies
<1>3. launch' = "none" => launch = "none"
  BY DEF Spawn, TimePasses
<1>4. Course'
  BY <1>1, <1>3 DEF Joint, Course, Fresh, Claimable, Staged, Unfailed, Holder, Leaving
<1> QED BY <1>2, <1>4, CopiesKeep DEF Joint

LEMMA JointNext == ASSUME IInv, Joint, OneConsole, Next PROVE Joint'
<1>1. ASSUME NEW m \in Manager, Manage(m) \/ Dies(m) PROVE Joint'
  BY <1>1, ReadingActions, LoadJoint, ReapJoint, AbandonJoint, WriteCancelledJoint DEF Manage
<1>2. ASSUME NEW w \in Manager, Work(w) PROVE Joint'
  BY <1>2, ClaimJoint, PersistJoint, BeginJoint, StageChangedJoint, TimeoutJoint, FinishJoint,
     SettleJoint DEF Work
<1>3. ASSUME NEW c \in Console, Converse(c) PROVE Joint'
  BY <1>3, StartDetachedJoint, FailLaunchJoint, ProjectJoint, ConsoleReads, SettlesJoint DEF Converse
<1> QED BY <1>1, <1>2, <1>3, WorldJoint DEF Next

\* With one console every pause and outcome has had its turn or waits on disk for one.
THEOREM OutcomesAreTold == ASSUME OneConsole PROVE Spec => []OutcomesReachATurn
<1>1. Init => Joint
  <2> SUFFICES ASSUME Init PROVE Joint
    OBVIOUS
  <2>1. /\ Absent.wakes = {} /\ Absent.life = "absent" /\ disk = Absent
        /\ \A m \in Manager : mem[m] = Absent /\ ~active[m] /\ at[m] \in {"down", "idle"}
        /\ notices = <<>>
    BY DEF Init, Absent
  <2>2. Distinct /\ Held /\ Sees /\ OutcomesReachATurn
    BY <2>1 DEF Distinct, Held, Sees, OutcomesReachATurn, Manager
  <2>3. Course
    BY <2>1 DEF Course, Fresh, Staged, Unfailed, Holder, Leaving, Going, Marks
  <2> QED BY <2>2, <2>3 DEF Joint, Windows
<1>2. IInv /\ Joint /\ [Next]_vars => Joint'
  <2> SUFFICES ASSUME IInv, Joint, [Next]_vars PROVE Joint'
    OBVIOUS
  <2>1. CASE UNCHANGED vars
    <3>1. UNCHANGED <<disk, mem, notices, told, at, active, cancelled, running, launch>>
      BY <2>1 DEF vars, file, proc, hist
    <3> QED BY <3>1 DEF Joint, Windows, Distinct, Held, Sees, OutcomesReachATurn, Told, Pending,
       Unhandled, InWindow, Course, Fresh, Claimable, Staged, Unfailed, Holder, Leaving
  <2> QED BY <2>1, JointNext
<1>3. Joint => OutcomesReachATurn
  BY DEF Joint, Windows
<1> QED BY <1>1, <1>2, <1>3, Invariant, PTL DEF Spec
=============================================================================
