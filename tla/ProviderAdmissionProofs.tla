---------------------- MODULE ProviderAdmissionProofs ----------------------
(* Proofs about ProviderAdmission, for any requests, scopes and limits.      *)
EXTENDS ProviderAdmission, FiniteSetTheorems, WellFoundedInduction, TLAPS

\* What the store holds can be restored: placeholders, within the limits.
SavedOK ==
  /\ saved.concurrent \in [Scope -> 0..MaxConcurrent]
  /\ saved.cooldownUntil \in [Scope -> Nat]
  /\ saved.inFlight \subseteq Scope
  /\ \A s \in Scope :
       /\ Len(saved.queue[s]) <= QueueCapacity
       /\ \A i \in 1..Len(saved.queue[s]) : saved.queue[s][i].token = None
  /\ saved.queue \in [Scope -> Seq(Entry)]

\* An entry stays when the save that should have parked its request throws.
Waiting == {"queued", "failed"}

\* An entry is about one request of its scope, and no other entry is.
Parked ==
  \A s \in Scope : \A i \in 1..Len(queue[s]) :
    LET r == queue[s][i].token
    IN r # None => /\ ScopeOf[r] = s /\ state[r] \in Waiting
                   /\ \A j \in 1..Len(queue[s]) : queue[s][j].token = r => j = i

\* The rest of a method knows the request it is about.
Running ==
  /\ running = "idle" => subject = None
  /\ running = "pump" /\ subject # None => state[subject] = "new"
  /\ running = "enter" => subject # None /\ state[subject] = "new"
  /\ running = "settle" => subject # None /\ state[subject] = "calling"

\* The two halves of PermitsAccounted.
Balanced ==
  \A s \in Scope : /\ Cardinality(Holders(s)) <= concurrent[s]
                   /\ crashes = 0 => concurrent[s] = Cardinality(Holders(s))

HarmCounted == Cardinality(Harmed) <= faults

IInv == TypeOK /\ SavedOK /\ Parked /\ Running /\ Balanced /\ HarmCounted

FiniteRequests == IsFiniteSet(Request)

USE RequestAssumption, ConfigAssumption, BoundAssumption

-----------------------------------------------------------------------------
(* The queue.                                                               *)

LEMMA RemoveAtFacts ==
  ASSUME NEW E, NEW q \in Seq(E), NEW i \in 1..Len(q)
  PROVE  /\ RemoveAt(q, i) \in Seq(E)
         /\ Len(RemoveAt(q, i)) = Len(q) - 1
         /\ \A k \in 1..Len(q) - 1 : RemoveAt(q, i)[k] = IF k < i THEN q[k] ELSE q[k+1]
<1>1. /\ SubSeq(q, 1, i-1) \in Seq(E) /\ Len(SubSeq(q, 1, i-1)) = i - 1
      /\ \A k \in 1..i-1 : SubSeq(q, 1, i-1)[k] = q[k]
  OBVIOUS
<1>2. /\ SubSeq(q, i+1, Len(q)) \in Seq(E) /\ Len(SubSeq(q, i+1, Len(q))) = Len(q) - i
      /\ \A k \in 1..Len(q) - i : SubSeq(q, i+1, Len(q))[k] = q[k+i]
  OBVIOUS
<1> DEFINE a == SubSeq(q, 1, i-1)
           b == SubSeq(q, i+1, Len(q))
<1>3. RemoveAt(q, i) = a \o b
  BY DEF RemoveAt
<1>4. /\ a \o b \in Seq(E) /\ Len(a \o b) = Len(a) + Len(b)
      /\ \A k \in 1..Len(a) + Len(b) : (a \o b)[k] = IF k <= Len(a) THEN a[k] ELSE b[k - Len(a)]
  <2> HIDE DEF a, b
  <2>1. a \in Seq(E) /\ b \in Seq(E)
    BY <1>1, <1>2 DEF a, b
  <2> QED BY <2>1
<1> HIDE DEF a, b
<1>5. ASSUME NEW k \in 1..Len(q) - 1
      PROVE  (a \o b)[k] = IF k < i THEN q[k] ELSE q[k+1]
  <2>1. Len(a) = i - 1 /\ Len(b) = Len(q) - i
    BY <1>1, <1>2 DEF a, b
  <2>2. CASE k < i
    <3>1. k \in 1..i-1 /\ k <= Len(a) /\ k \in 1..Len(a) + Len(b)
      BY <2>1, <2>2
    <3>2. (a \o b)[k] = a[k] /\ a[k] = q[k]
      BY <1>1, <1>4, <3>1 DEF a
    <3> QED BY <2>2, <3>2
  <2>3. CASE ~(k < i)
    <3>1. /\ k - (i - 1) \in 1..Len(q) - i /\ ~(k <= Len(a)) /\ k \in 1..Len(a) + Len(b)
          /\ (k - (i - 1)) + i = k + 1
      BY <2>1, <2>3
    <3>2. (a \o b)[k] = b[k - (i - 1)]
      BY <1>4, <2>1, <3>1
    <3>3. b[k - (i - 1)] = q[(k - (i - 1)) + i]
      BY <1>2, <3>1 DEF b
    <3> QED BY <2>3, <3>1, <3>2, <3>3
  <2> QED BY <2>2, <2>3
<1>6. Len(a \o b) = Len(q) - 1
  BY <1>1, <1>2, <1>4 DEF a, b
<1> QED BY <1>3, <1>4, <1>5, <1>6

SnapshotFits ==
  /\ Snapshot.concurrent = concurrent /\ Snapshot.cooldownUntil = cooldownUntil
  /\ Snapshot.inFlight \subseteq Scope /\ Snapshot.queue \in [Scope -> Seq(Entry)]
  /\ \A s \in Scope :
       /\ Len(Snapshot.queue[s]) <= QueueCapacity
       /\ \A i \in 1..Len(Snapshot.queue[s]) : Snapshot.queue[s][i].token = None

LEMMA QueueTypes ==
  ASSUME TypeOK, NEW s \in Scope
  PROVE  /\ queue[s] \in Seq(Entry) /\ Len(queue[s]) \in Nat
         /\ \A k \in 1..Len(queue[s]) : queue[s][k].token \in Request \cup {None}
<1>1. PICK q \in Seq(Entry) : q = queue[s]
  BY DEF TypeOK
<1>2. \A k \in 1..Len(q) : q[k] \in Entry
  BY <1>1
<1> QED BY <1>1, <1>2 DEF Entry

\* A snapshot of what the controller holds can be restored.
LEMMA SnapshotOK == TypeOK => SnapshotFits
<1>1. SUFFICES ASSUME TypeOK, NEW s \in Scope
               PROVE  /\ Snapshot.queue[s] \in Seq(Entry)
                      /\ Len(Snapshot.queue[s]) <= QueueCapacity
                      /\ \A i \in 1..Len(Snapshot.queue[s]) : Snapshot.queue[s][i].token = None
  BY DEF Snapshot, SnapshotFits
<1>2. PICK q : q = queue[s]
  OBVIOUS
<1>3. q \in Seq(Entry) /\ Len(q) <= QueueCapacity
  BY <1>1, <1>2 DEF TypeOK
<1>4. PICK z : z = [i \in 1..Len(q) |-> [q[i] EXCEPT !.token = None]]
  OBVIOUS
<1>5. Snapshot.queue[s] = z
  BY <1>2, <1>3, <1>4 DEF Snapshot
<1>6. ASSUME NEW i \in 1..Len(q) PROVE z[i] \in Entry /\ z[i].token = None
  <2>1. q[i] \in Entry
    BY <1>3
  <2>2. [q[i] EXCEPT !.token = None] \in Entry /\ [q[i] EXCEPT !.token = None].token = None
    BY <2>1 DEF Entry
  <2> QED BY <1>4, <2>2
<1>7. z \in [1..Len(q) -> Entry]
  BY <1>4, <1>6
<1>8. z \in Seq(Entry) /\ Len(z) = Len(q)
  BY <1>3, <1>7
<1> QED BY <1>3, <1>5, <1>6, <1>8

\* Whether the save is done or throws, the store holds a snapshot to restore.
LEMMA Saving ==
  ASSUME TypeOK', SavedOK, Persist \/ UNCHANGED saved PROVE SavedOK'
<1>1. CASE Persist
  <2>1. TypeOK' => SnapshotFits'
    BY SnapshotOK, PTL
  <2> QED BY <1>1, <2>1 DEF Persist, SavedOK, SnapshotFits, TypeOK
<1>2. CASE UNCHANGED saved
  BY <1>2 DEF SavedOK
<1> QED BY <1>1, <1>2

-----------------------------------------------------------------------------
(* The permits.                                                             *)

Holding == {"granted", "calling", "leaked"}

LEMMA HoldersFinite == ASSUME FiniteRequests, NEW s PROVE IsFiniteSet(Holders(s))
BY FS_Subset DEF Holders, FiniteRequests

\* A grant adds one holder to the scope of the request.
LEMMA Granting ==
  ASSUME FiniteRequests, TypeOK, Balanced, NEW r \in Request, state[r] \notin Holding,
         NEW outcome \in {"granted", "leaked"}, Grant(ScopeOf[r], r, outcome),
         CanGrant(ScopeOf[r]), crashes' = crashes
  PROVE  /\ Balanced'
         /\ concurrent' \in [Scope -> 0..MaxConcurrent]
         /\ state' \in [Request -> States]
         /\ inFlightToken' \in [Scope -> Request \cup {None, Uncertain}]
<1> DEFINE s == ScopeOf[r]
<1>1. s \in Scope
  OBVIOUS
<1>2. Holders(s)' = Holders(s) \cup {r} /\ r \notin Holders(s)
  BY DEF Holders, Grant, TypeOK, Holding
<1>3. ASSUME NEW t \in Scope, t # s PROVE Holders(t)' = Holders(t)
  BY <1>3 DEF Holders, Grant, TypeOK, Holding
<1>4. Cardinality(Holders(s)') = Cardinality(Holders(s)) + 1
  BY <1>2, HoldersFinite, FS_AddElement
<1>5. \A t \in Scope : Cardinality(Holders(t)) \in Nat
  BY HoldersFinite, FS_CardinalityType
<1>6. /\ concurrent'[s] = concurrent[s] + 1
      /\ \A t \in Scope \ {s} : concurrent'[t] = concurrent[t]
  BY <1>1 DEF Grant, TypeOK
<1>7. Balanced'
  <2>1. SUFFICES ASSUME NEW t \in Scope
                 PROVE  /\ Cardinality(Holders(t)') <= concurrent'[t]
                        /\ crashes' = 0 => concurrent'[t] = Cardinality(Holders(t)')
    BY DEF Balanced
  <2>2. concurrent[t] \in Nat
    BY DEF TypeOK
  <2>3. CASE t = s
    BY <1>1, <1>4, <1>5, <1>6, <2>2, <2>3 DEF Balanced
  <2>4. CASE t # s
    BY <1>3, <1>5, <1>6, <2>2, <2>4 DEF Balanced
  <2> QED BY <2>3, <2>4
<1> QED BY <1>1, <1>7 DEF Grant, TypeOK, CanGrant, States

\* A release takes one holder away, and with it one permit.
LEMMA Releasing ==
  ASSUME FiniteRequests, TypeOK, Balanced, NEW r \in Request, state[r] \in Holding,
         GiveBack(r), crashes' = crashes
  PROVE  /\ Balanced'
         /\ concurrent' \in [Scope -> 0..MaxConcurrent]
         /\ state' \in [Request -> States]
         /\ inFlightToken' \in [Scope -> Request \cup {None, Uncertain}]
<1> DEFINE s == ScopeOf[r]
<1>1. s \in Scope
  OBVIOUS
<1>2. Holders(s)' = Holders(s) \ {r} /\ r \in Holders(s)
  BY DEF Holders, GiveBack, TypeOK, Holding
<1>3. ASSUME NEW t \in Scope, t # s PROVE Holders(t)' = Holders(t)
  BY <1>3 DEF Holders, GiveBack, TypeOK, Holding
<1>4. Cardinality(Holders(s)') = Cardinality(Holders(s)) - 1
  <2>1. PICK h : h = Holders(s) /\ IsFiniteSet(h) /\ r \in h
    BY <1>2, HoldersFinite
  <2>2. Cardinality(h \ {r}) = Cardinality(h) - 1
    BY <2>1, FS_RemoveElement
  <2> QED BY <1>2, <2>1, <2>2
<1>5. \A t \in Scope : Cardinality(Holders(t)) \in Nat
  BY HoldersFinite, FS_CardinalityType
<1>6. Cardinality(Holders(s)) # 0
  BY <1>2, HoldersFinite, FS_EmptySet
<1>7. concurrent[s] > 0 /\ concurrent[s] \in Nat
  BY <1>1, <1>5, <1>6 DEF Balanced, TypeOK
<1>8. /\ concurrent'[s] = concurrent[s] - 1
      /\ \A t \in Scope \ {s} : concurrent'[t] = concurrent[t]
  BY <1>1, <1>7 DEF GiveBack, TypeOK
<1>9. Balanced'
  <2>1. SUFFICES ASSUME NEW t \in Scope
                 PROVE  /\ Cardinality(Holders(t)') <= concurrent'[t]
                        /\ crashes' = 0 => concurrent'[t] = Cardinality(Holders(t)')
    BY DEF Balanced
  <2>2. concurrent[t] \in Nat
    BY DEF TypeOK
  <2>3. CASE t = s
    BY <1>1, <1>4, <1>5, <1>7, <1>8, <2>2, <2>3 DEF Balanced
  <2>4. CASE t # s
    BY <1>3, <1>5, <1>8, <2>2, <2>4 DEF Balanced
  <2> QED BY <2>3, <2>4
<1>10. concurrent' \in [Scope -> 0..MaxConcurrent]
  BY DEF GiveBack, TypeOK
<1> QED BY <1>1, <1>9, <1>10 DEF GiveBack, TypeOK, States

\* Nothing else touches who holds what.
LEMMA SameHolders ==
  ASSUME Balanced, concurrent' = concurrent, crashes' = crashes,
         \A q \in Request : state'[q] \in Holding <=> state[q] \in Holding
  PROVE  Balanced'
<1>1. \A t \in Scope : Holders(t)' = Holders(t)
  BY DEF Holders, Holding
<1> QED BY <1>1 DEF Balanced

-----------------------------------------------------------------------------
(* The requests that a save cost their answer or their permit.              *)

Harms == {"failed", "leaked"}

LEMMA SameHarm ==
  ASSUME FiniteRequests, TypeOK, HarmCounted, faults' = faults,
         \A q \in Request : state'[q] \in Harms => state[q] \in Harms
  PROVE  HarmCounted'
<1>1. IsFiniteSet(Harmed) /\ Harmed' \subseteq Harmed
  BY FS_Subset DEF Harmed, Harms, FiniteRequests
<1>2. /\ Cardinality(Harmed') <= Cardinality(Harmed)
      /\ Cardinality(Harmed') \in Nat /\ Cardinality(Harmed) \in Nat
  BY <1>1, FS_Subset, FS_CardinalityType
<1> QED BY <1>2 DEF HarmCounted, TypeOK

\* A save that throws costs one request at most.
LEMMA OneMoreHarmed ==
  ASSUME FiniteRequests, TypeOK, HarmCounted, SaveThrows, NEW r,
         \A q \in Request : q # r /\ state'[q] \in Harms => state[q] \in Harms
  PROVE  HarmCounted'
<1>1. IsFiniteSet(Harmed) /\ Harmed' \subseteq Harmed \cup {r}
  BY FS_Subset DEF Harmed, Harms, FiniteRequests
<1>2. /\ Cardinality(Harmed) \in Nat /\ IsFiniteSet(Harmed \cup {r})
      /\ \/ Cardinality(Harmed \cup {r}) = Cardinality(Harmed)
         \/ Cardinality(Harmed \cup {r}) = Cardinality(Harmed) + 1
  BY <1>1, FS_AddElement, FS_CardinalityType
<1>3. /\ Cardinality(Harmed') <= Cardinality(Harmed \cup {r})
      /\ Cardinality(Harmed') \in Nat
  BY <1>1, <1>2, FS_Subset, FS_CardinalityType
<1> QED BY <1>2, <1>3 DEF HarmCounted, SaveThrows, TypeOK

-----------------------------------------------------------------------------
(* The invariant.                                                           *)

LEMMA InitInvariant == ASSUME FiniteRequests, Init PROVE IInv
<1>1. TypeOK
  <2>1. unpumped \in BOOLEAN
    BY DEF Init
  <2> QED BY <2>1 DEF Init, TypeOK, States
<1>2. SavedOK
  BY <1>1, SnapshotOK DEF Init, SavedOK, SnapshotFits, TypeOK
<1>3. Balanced
  <2>1. \A s \in Scope : Holders(s) = {}
    BY DEF Init, Holders
  <2>2. \A s \in Scope : Cardinality(Holders(s)) = 0 /\ concurrent[s] = 0
    BY <2>1, FS_EmptySet DEF Init
  <2> QED BY <2>2 DEF Balanced
<1>4. HarmCounted
  <2>1. Harmed = {}
    BY DEF Init, Harmed
  <2> QED BY <2>1, FS_EmptySet DEF Init, HarmCounted
<1> QED BY <1>1, <1>2, <1>3, <1>4 DEF Init, IInv, Parked, Running

LEMMA ReserveStep ==
  ASSUME FiniteRequests, IInv, NEW r \in Request, Reserve(r) PROVE IInv'
<1>1. TypeOK' /\ SavedOK' /\ Parked' /\ Running'
  BY DEF IInv, Reserve, TypeOK, SavedOK, Parked, Running, bounds, failures
<1>2. Balanced' /\ HarmCounted'
  BY SameHolders, SameHarm DEF IInv, Reserve, bounds, failures
<1> QED BY <1>1, <1>2 DEF IInv

LEMMA EnterStep ==
  ASSUME FiniteRequests, IInv, Enter \/ EnterThrows PROVE IInv'
<1> DEFINE r == subject
           s == ScopeOf[r]
           e == Arrival(r)
<1>1. /\ r \in Request /\ s \in Scope /\ state[r] = "new" /\ r # None
      /\ crashes' = crashes /\ now' = now /\ limits' = limits
      /\ running' = "idle" /\ subject' = None /\ cooldownUntil' = cooldownUntil
      /\ unpumped' = unpumped /\ faults' \in 0..MaxFaults
      /\ Persist \/ UNCHANGED saved
  BY DEF IInv, TypeOK, Running, Enter, EnterThrows, SaveThrows, Persist, bounds
<1>2. Running'
  BY <1>1 DEF Running
<1>6. HarmCounted'
  <2>1. CASE Enter
    <3>1. faults' = faults /\ \A q \in Request : state'[q] \in Harms => state[q] \in Harms
      BY <1>1, <2>1 DEF Enter, Grant, Persist, IInv, TypeOK, Harms
    <3> QED BY <3>1, SameHarm DEF IInv
  <2>2. CASE EnterThrows
    <3>1. \A q \in Request : q # r /\ state'[q] \in Harms => state[q] \in Harms
      BY <1>1, <2>2 DEF EnterThrows, Grant, IInv, TypeOK, Harms
    <3> QED BY <2>2, <3>1, OneMoreHarmed DEF IInv, EnterThrows
  <2> QED BY <2>1, <2>2
<1>3. ASSUME NEW outcome \in {"granted", "leaked"}, CanGrant(s), Grant(s, r, outcome),
             UNCHANGED queue
      PROVE  IInv'
  <2>1. /\ Balanced' /\ concurrent' \in [Scope -> 0..MaxConcurrent]
        /\ state' \in [Request -> States]
        /\ inFlightToken' \in [Scope -> Request \cup {None, Uncertain}]
    BY <1>1, <1>3, Granting DEF IInv, Holding
  <2>2. TypeOK'
    BY <1>1, <1>3, <2>1 DEF IInv, TypeOK
  <2>3. Parked'
    BY <1>1, <1>3 DEF IInv, TypeOK, Parked, Grant, Waiting
  <2> QED BY <1>1, <1>2, <1>6, <2>1, <2>2, <2>3, Saving DEF IInv
<1>4. CASE /\ state' = [state EXCEPT ![r] = "saturated"]
           /\ UNCHANGED <<concurrent, cooldownUntil, queue, inFlightToken, saved>>
  <2>1. TypeOK' /\ SavedOK'
    BY <1>1, <1>4 DEF IInv, TypeOK, SavedOK, States
  <2>2. Parked'
    BY <1>1, <1>4 DEF IInv, TypeOK, Parked, Waiting
  <2>3. Balanced'
    BY <1>1, <1>4, SameHolders DEF IInv, TypeOK, Holding
  <2> QED BY <1>2, <1>6, <2>1, <2>2, <2>3 DEF IInv
<1>5. ASSUME NEW outcome \in Waiting, Len(queue[s]) < QueueCapacity,
             queue' = [queue EXCEPT ![s] = Append(@, e)],
             state' = [state EXCEPT ![r] = outcome],
             UNCHANGED <<concurrent, inFlightToken>>
      PROVE  IInv'
  <2>1. e \in Entry /\ e.token = r
    BY <1>1 DEF IInv, TypeOK, Entry, Arrival
  <2>2. PICK q \in Seq(Entry) : q = queue[s] /\ Len(q) < QueueCapacity
    BY <1>1, <1>5 DEF IInv, TypeOK
  <2> HIDE DEF e
  <2>3. /\ Append(q, e) \in Seq(Entry) /\ Len(Append(q, e)) = Len(q) + 1
        /\ Append(q, e)[Len(q) + 1] = e
        /\ \A i \in 1..Len(q) : Append(q, e)[i] = q[i]
    BY <2>1
  <2>4. queue'[s] = Append(q, e) /\ \A t \in Scope \ {s} : queue'[t] = queue[t]
    BY <1>1, <1>5, <2>2 DEF IInv, TypeOK
  <2>5. queue' \in [Scope -> Seq(Entry)]
    BY <1>1, <1>5, <2>2, <2>3 DEF IInv, TypeOK
  <2>6. \A t \in Scope : Len(queue'[t]) <= QueueCapacity
    <3>1. \A t \in Scope : Len(queue[t]) <= QueueCapacity
      BY DEF IInv, TypeOK
    <3>2. Len(queue'[s]) <= QueueCapacity
      BY <2>2, <2>3, <2>4
    <3> QED BY <2>4, <3>1, <3>2
  <2>7. TypeOK'
    BY <1>1, <1>5, <2>5, <2>6 DEF IInv, TypeOK, States, Waiting
  <2>8. Parked'
    <3>1. SUFFICES ASSUME NEW t \in Scope, NEW i \in 1..Len(queue'[t]),
                          queue'[t][i].token # None
                   PROVE  /\ ScopeOf[queue'[t][i].token] = t
                          /\ state'[queue'[t][i].token] \in Waiting
                          /\ \A j \in 1..Len(queue'[t]) :
                               queue'[t][j].token = queue'[t][i].token => j = i
      BY DEF Parked
    <3>2. \A u \in Scope : \A k \in 1..Len(queue[u]) : queue[u][k].token # r
      BY <1>1 DEF IInv, Parked, Waiting
    <3>3. \A u \in Scope : \A k \in 1..Len(queue[u]) : queue[u][k].token \in Request \cup {None}
      BY QueueTypes DEF IInv
    <3>4. state'[r] \in Waiting /\ \A k \in Request \ {r} : state'[k] = state[k]
      BY <1>1, <1>5 DEF IInv, TypeOK
    <3>5. ASSUME NEW u \in Scope, NEW k \in 1..Len(queue[u]), queue[u][k].token # None
          PROVE  /\ ScopeOf[queue[u][k].token] = u /\ state'[queue[u][k].token] \in Waiting
                 /\ \A j \in 1..Len(queue[u]) : queue[u][j].token = queue[u][k].token => j = k
      <4>1. /\ ScopeOf[queue[u][k].token] = u /\ state[queue[u][k].token] \in Waiting
            /\ \A j \in 1..Len(queue[u]) : queue[u][j].token = queue[u][k].token => j = k
        BY <3>5 DEF IInv, Parked
      <4>2. queue[u][k].token \in Request \ {r}
        BY <3>2, <3>3, <3>5
      <4> QED BY <3>4, <4>1, <4>2
    <3>6. CASE t # s
      <4>1. queue'[t] = queue[t]
        BY <2>4, <3>6
      <4> QED BY <3>1, <3>5, <4>1
    <3>7. CASE t = s /\ i = Len(q) + 1
      <4>1. queue'[t][i].token = r
        BY <2>1, <2>3, <2>4, <3>7
      <4>2. \A j \in 1..Len(queue'[t]) : queue'[t][j].token = r => j = i
        <5>1. \A j \in 1..Len(q) : queue'[t][j].token # r
          <6>1. \A j \in 1..Len(q) : q[j].token # r
            BY <1>1, <2>2, <3>2
          <6>2. \A j \in 1..Len(q) : queue'[t][j] = q[j]
            BY <2>3, <2>4, <3>7
          <6> QED BY <6>1, <6>2
        <5>2. Len(q) \in Nat /\ Len(queue'[t]) = Len(q) + 1
          BY <2>3, <2>4, <3>7
        <5> HIDE DEF r
        <5> QED BY <3>7, <5>1, <5>2
      <4> QED BY <1>1, <3>4, <3>7, <4>1, <4>2
    <3>8. CASE t = s /\ i \in 1..Len(q)
      <4>1. queue'[t][i] = queue[t][i] /\ i \in 1..Len(queue[t])
        BY <2>2, <2>3, <2>4, <3>8
      <4>2. /\ ScopeOf[queue[t][i].token] = t /\ state'[queue[t][i].token] \in Waiting
            /\ \A j \in 1..Len(queue[t]) : queue[t][j].token = queue[t][i].token => j = i
        BY <3>1, <3>5, <4>1
      <4>3. queue[t][i].token # r
        BY <3>2, <4>1
      <4>4. ASSUME NEW j \in 1..Len(queue'[t]), queue'[t][j].token = queue'[t][i].token
            PROVE  j = i
        <5>1. CASE j = Len(q) + 1
          BY <2>1, <2>3, <2>4, <3>8, <4>1, <4>3, <4>4, <5>1
        <5>2. CASE j \in 1..Len(q)
          <6>1. queue'[t][j] = queue[t][j] /\ j \in 1..Len(queue[t])
            BY <2>2, <2>3, <2>4, <3>8, <5>2
          <6>2. queue[t][j].token = queue[t][i].token
            BY <4>1, <4>4, <6>1
          <6> QED BY <4>2, <6>1, <6>2
        <5> QED BY <2>3, <2>4, <3>8, <5>1, <5>2
      <4> QED BY <4>1, <4>2, <4>4
    <3>9. i \in 1..Len(q) \/ i = Len(q) + 1 \/ t # s
      BY <2>3, <2>4
    <3> QED BY <3>6, <3>7, <3>8, <3>9
  <2>9. Balanced'
    BY <1>1, <1>5, SameHolders DEF IInv, TypeOK, Holding, Waiting
  <2> QED BY <1>1, <1>2, <1>6, <2>7, <2>8, <2>9, Saving DEF IInv
<1> QED BY <1>3, <1>4, <1>5 DEF Enter, EnterThrows, Waiting

LEMMA PumpStep ==
  ASSUME FiniteRequests, IInv, NEW s \in Scope, PumpGrant(s) PROVE IInv'
<1>1. PICK i \in Candidates(s), outcome \in {"granted", "leaked"} :
        /\ Grant(s, queue[s][i].token, outcome)
        /\ queue' = [queue EXCEPT ![s] = RemoveAt(@, i)]
        /\ outcome = "leaked" => state[queue[s][i].token] = "failed"
  BY DEF PumpGrant
<1>2. PICK q \in Seq(Entry) : q = queue[s]
  BY DEF IInv, TypeOK
<1>3. i \in 1..Len(q) /\ q[i].token # None
  BY <1>2 DEF Candidates, Eligible, Owned
<1>4. PICK r \in Request : r = q[i].token /\ ScopeOf[r] = s /\ state[r] \in Waiting
  BY <1>2, <1>3, QueueTypes DEF IInv, Parked
<1>5. /\ Balanced' /\ concurrent' \in [Scope -> 0..MaxConcurrent]
      /\ state' \in [Request -> States]
      /\ inFlightToken' \in [Scope -> Request \cup {None, Uncertain}]
  BY <1>1, <1>2, <1>4, Granting DEF IInv, Holding, Waiting, PumpGrant, bounds
<1>6. /\ RemoveAt(q, i) \in Seq(Entry) /\ Len(RemoveAt(q, i)) = Len(q) - 1
      /\ \A k \in 1..Len(q) - 1 : RemoveAt(q, i)[k] = IF k < i THEN q[k] ELSE q[k+1]
  BY <1>3, RemoveAtFacts
<1>7. /\ queue' \in [Scope -> Seq(Entry)] /\ queue'[s] = RemoveAt(q, i)
      /\ \A t \in Scope \ {s} : queue'[t] = queue[t]
  BY <1>1, <1>2, <1>6 DEF IInv, TypeOK
<1>8. TypeOK'
  <2>1. \A t \in Scope : Len(queue'[t]) <= QueueCapacity
    <3>1. \A t \in Scope : Len(queue[t]) <= QueueCapacity
      BY DEF IInv, TypeOK
    <3>2. Len(queue'[s]) <= QueueCapacity
      BY <1>2, <1>6, <1>7, <3>1
    <3> QED BY <1>7, <3>1, <3>2
  <2> QED BY <1>5, <1>7, <2>1 DEF IInv, TypeOK, PumpGrant, bounds, failures
<1>9. Running'
  BY <1>1, <1>2, <1>4 DEF IInv, TypeOK, Running, PumpGrant, Grant, Waiting
<1>10. Parked'
  <2>1. \A k \in Request \ {r} : state'[k] = state[k]
    BY <1>1, <1>2, <1>4 DEF IInv, TypeOK, Grant
  <2>2. \A k \in 1..Len(q) : q[k].token = r => k = i
    BY <1>2, <1>3, <1>4 DEF IInv, Parked
  <2>3. \A u \in Scope : \A k \in 1..Len(queue[u]) : queue[u][k].token \in Request \cup {None}
    BY QueueTypes DEF IInv
  <2>4. SUFFICES ASSUME NEW t \in Scope, NEW j \in 1..Len(queue'[t]),
                        queue'[t][j].token # None
                 PROVE  /\ ScopeOf[queue'[t][j].token] = t
                        /\ state'[queue'[t][j].token] \in Waiting
                        /\ \A k \in 1..Len(queue'[t]) :
                             queue'[t][k].token = queue'[t][j].token => k = j
    BY DEF Parked
  <2>5. CASE t # s
    <3>1. queue'[t] = queue[t] /\ ScopeOf[queue[t][j].token] = t
      BY <1>7, <2>4, <2>5 DEF IInv, Parked
    <3>2. queue[t][j].token # r /\ queue[t][j].token \in Request
      BY <1>4, <2>3, <2>4, <2>5, <3>1
    <3> QED BY <2>1, <2>4, <3>1, <3>2 DEF IInv, Parked
  <2>6. CASE t = s
    <3> DEFINE at(k) == IF k < i THEN k ELSE k + 1
    <3>0. Len(queue'[s]) = Len(q) - 1 /\ Len(q) \in Nat
      BY <1>6, <1>7
    <3>1. \A k \in 1..Len(queue'[s]) :
            at(k) \in 1..Len(q) /\ at(k) # i /\ queue'[s][k] = q[at(k)]
      <4> SUFFICES ASSUME NEW k \in 1..Len(q) - 1
                   PROVE  at(k) \in 1..Len(q) /\ at(k) # i /\ queue'[s][k] = q[at(k)]
        BY <3>0
      <4> QED BY <1>3, <1>6, <1>7
    <3>2. \A k, m \in 1..Len(queue'[s]) : at(k) = at(m) => k = m
      BY <1>3, <1>6, <1>7
    <3> HIDE DEF at
    <3>3. queue'[s][j].token = q[at(j)].token /\ q[at(j)].token # r
      BY <2>2, <2>4, <2>6, <3>1
    <3>4. q[at(j)].token \in Request
      BY <1>2, <2>3, <2>4, <2>6, <3>1
    <3>5. /\ ScopeOf[q[at(j)].token] = s /\ state[q[at(j)].token] \in Waiting
          /\ \A m \in 1..Len(q) : q[m].token = q[at(j)].token => m = at(j)
      BY <1>2, <2>4, <2>6, <3>1 DEF IInv, Parked
    <3>6. \A k \in 1..Len(queue'[s]) : queue'[s][k].token = queue'[s][j].token => k = j
      BY <2>4, <2>6, <3>1, <3>2, <3>5
    <3> QED BY <2>1, <2>6, <3>3, <3>4, <3>5, <3>6
  <2> QED BY <2>5, <2>6
<1>11. SavedOK'
  BY DEF IInv, SavedOK, PumpGrant
<1>12. HarmCounted'
  <2>1. \A p \in Request : state'[p] \in Harms => state[p] \in Harms
    BY <1>1, <1>2, <1>4 DEF IInv, TypeOK, Grant, Harms
  <2> QED BY <2>1, SameHarm DEF IInv, PumpGrant, failures
<1> QED BY <1>5, <1>8, <1>9, <1>10, <1>11, <1>12 DEF IInv

\* settleToken, whoever calls it, with a save that is done or throws.
LEMMA ReleaseStep ==
  ASSUME FiniteRequests, IInv, NEW r \in Request, state[r] \in {"granted", "calling"},
         Release(r), UNCHANGED bounds
  PROVE  IInv'
<1>1. /\ Balanced' /\ concurrent' \in [Scope -> 0..MaxConcurrent]
      /\ state' \in [Request -> States]
      /\ inFlightToken' \in [Scope -> Request \cup {None, Uncertain}]
  BY Releasing DEF IInv, bounds, Holding, Release
<1>2. /\ \A p \in Request : p # r => state'[p] = state[p]
      /\ state'[r] = "done" /\ UNCHANGED <<cooldownUntil, queue>>
  BY DEF IInv, TypeOK, Release, GiveBack
<1>3. HarmCounted'
  <2>1. \A p \in Request : state'[p] \in Harms => state[p] \in Harms
    BY <1>2 DEF Harms
  <2>2. CASE faults' = faults
    BY <2>1, <2>2, SameHarm DEF IInv
  <2>3. CASE SaveThrows
    BY <2>1, <2>3, OneMoreHarmed DEF IInv
  <2> QED BY <2>2, <2>3 DEF Release, Persist
<1>4. TypeOK'
  <2>1. unpumped' \in BOOLEAN
    BY DEF IInv, TypeOK, Release
  <2>2. faults' \in 0..MaxFaults
    BY DEF IInv, TypeOK, Release, Persist, SaveThrows
  <2>3. running' \in {"pump", "idle"} /\ subject' = None
    BY DEF Release
  <2> QED BY <1>1, <1>2, <2>1, <2>2, <2>3 DEF IInv, TypeOK, bounds
<1>5. Parked'
  <2>1. \A s \in Scope : \A i \in 1..Len(queue[s]) : queue[s][i].token # r
    BY DEF IInv, Parked, Waiting
  <2> QED BY <1>2, <2>1, QueueTypes DEF IInv, Parked
<1>6. Running'
  BY DEF Running, Release
<1>7. SavedOK'
  BY <1>4, Saving DEF IInv, Release, SaveThrows
<1> QED BY <1>1, <1>3, <1>4, <1>5, <1>6, <1>7 DEF IInv

LEMMA LimitStep ==
  ASSUME FiniteRequests, IInv, NEW r \in Request, Limit(r) PROVE IInv'
<1>1. /\ \A hint \in Hints : Delay(hint) \in Nat
      /\ state[r] = "calling" /\ crashes' = crashes
  BY DEF Delay, Limit
<1>2. cooldownUntil' \in [Scope -> Nat]
  BY <1>1 DEF IInv, TypeOK, Limit
<1>3. \/ Persist /\ running' = "settle" /\ subject' = r /\ UNCHANGED state
      \/ SaveThrows /\ state' = [state EXCEPT ![r] = "leaked"] /\ UNCHANGED <<running, subject>>
  BY DEF Limit
<1>4. TypeOK'
  <2>1. unpumped' \in BOOLEAN
    BY DEF IInv, TypeOK, Limit
  <2>2. faults' \in 0..MaxFaults /\ limits' \in 0..MaxLimits
    BY <1>3 DEF IInv, TypeOK, Limit, Persist, SaveThrows
  <2>3. state' \in [Request -> States]
    BY <1>3 DEF IInv, TypeOK, States
  <2>4. running' \in {"settle", running} /\ subject' \in {r, subject}
    BY <1>3
  <2> QED BY <1>2, <2>1, <2>2, <2>3, <2>4 DEF IInv, TypeOK, Limit
<1>5. \A p \in Request : p # r => state'[p] = state[p]
  BY <1>3 DEF IInv, TypeOK
<1>6. state'[r] \in {"calling", "leaked"}
  BY <1>1, <1>3 DEF IInv, TypeOK
<1>7. Parked'
  <2>1. \A s \in Scope : \A i \in 1..Len(queue[s]) : queue[s][i].token # r
    BY <1>1 DEF IInv, Parked, Waiting
  <2> QED BY <1>5, <2>1, QueueTypes DEF IInv, Parked, Limit
<1>8. Running'
  BY <1>1, <1>3 DEF IInv, Running, Limit
<1>9. Balanced'
  BY <1>1, <1>5, <1>6, SameHolders DEF IInv, Limit, Holding
<1>10. HarmCounted'
  <2>1. CASE Persist /\ UNCHANGED state
    BY <2>1, SameHarm DEF IInv, Persist
  <2>2. CASE SaveThrows
    BY <1>5, <2>2, OneMoreHarmed DEF IInv
  <2> QED BY <1>3, <2>1, <2>2
<1>11. SavedOK'
  BY <1>3, <1>4, Saving DEF IInv, SaveThrows
<1> QED BY <1>4, <1>7, <1>8, <1>9, <1>10, <1>11 DEF IInv

LEMMA RestartStep ==
  ASSUME FiniteRequests, IInv, Restart PROVE IInv'
<1>1. \A s \in Scope : Holders(s)' = {}
  BY DEF IInv, TypeOK, Holders, Restart
<1>2. Balanced'
  <2>1. crashes' # 0
    BY DEF IInv, TypeOK, Restart
  <2>2. \A s \in Scope : Cardinality(Holders(s)') = 0
    BY <1>1, FS_EmptySet
  <2>3. \A s \in Scope : concurrent'[s] \in Nat
    BY DEF IInv, SavedOK, Restart
  <2> QED BY <2>1, <2>2, <2>3 DEF Balanced
<1>3. TypeOK'
  <2>1. unpumped' \in BOOLEAN
    BY DEF Restart
  <2> QED BY <2>1 DEF IInv, TypeOK, SavedOK, Restart, States
<1>4. SavedOK' /\ Parked' /\ Running'
  <2>1. SavedOK'
    BY DEF IInv, SavedOK, Restart
  <2>2. Parked'
    BY DEF IInv, SavedOK, Parked, Restart
  <2>3. Running'
    BY DEF Running, Restart
  <2> QED BY <2>1, <2>2, <2>3
<1>5. HarmCounted'
  <2>1. \A p \in Request : state'[p] \in Harms => state[p] \in Harms
    BY DEF Restart, Harms
  <2> QED BY <2>1, SameHarm DEF IInv, Restart
<1> QED BY <1>2, <1>3, <1>4, <1>5 DEF IInv

\* pump() ends, with a save that is done or throws.
LEMMA PumpedStep ==
  ASSUME FiniteRequests, IInv, PumpEnds \/ PumpThrows PROVE IInv'
<1>1. /\ UNCHANGED <<concurrent, cooldownUntil, queue, inFlightToken, bounds>>
      /\ unpumped' = FALSE /\ running = "pump"
  BY DEF PumpEnds, PumpThrows, Pumped
<1>2. CASE PumpEnds
  <2>1. TypeOK' /\ Parked' /\ Running'
    BY <1>1, <1>2 DEF IInv, TypeOK, Parked, Running, PumpEnds, Persist, bounds
  <2>2. Balanced' /\ HarmCounted'
    BY <1>1, <1>2, SameHolders, SameHarm DEF IInv, PumpEnds, Persist, bounds
  <2> QED BY <1>2, <2>1, <2>2, Saving DEF IInv, PumpEnds
<1>3. CASE PumpThrows
  <2>1. /\ \A p \in Request : p # subject => state'[p] = state[p]
        /\ subject \in Request => state[subject] = "new" /\ state'[subject] = "failed"
    BY <1>1, <1>3 DEF IInv, TypeOK, Running, PumpThrows
  <2>2. TypeOK'
    <3>1. unpumped' \in BOOLEAN
      BY <1>1
    <3> QED BY <1>1, <1>3, <3>1 DEF IInv, TypeOK, PumpThrows, SaveThrows, States, bounds
  <2>3. Parked'
    BY <1>1, <2>1, QueueTypes DEF IInv, Parked, Waiting
  <2>4. Running'
    BY <1>3 DEF Running, PumpThrows
  <2>5. Balanced'
    <3>1. \A p \in Request : state'[p] \in Holding <=> state[p] \in Holding
      BY <2>1 DEF Holding
    <3> QED BY <1>1, <3>1, SameHolders DEF IInv, bounds
  <2>6. HarmCounted'
    BY <1>3, <2>1, OneMoreHarmed DEF IInv, PumpThrows
  <2>7. SavedOK'
    BY <1>3, <2>2, Saving DEF IInv, PumpThrows, SaveThrows
  <2> QED BY <2>2, <2>3, <2>4, <2>5, <2>6, <2>7 DEF IInv
<1> QED BY <1>2, <1>3

LEMMA StepInvariant == ASSUME FiniteRequests, IInv, [Next]_vars PROVE IInv'
<1>1. ASSUME NEW r \in Request, Call(r) PROVE IInv'
  <2>1. TypeOK' /\ SavedOK' /\ Running'
    BY <1>1 DEF IInv, TypeOK, SavedOK, Running, Call, bounds, failures, States
  <2>2. Parked'
    BY <1>1 DEF IInv, TypeOK, Parked, Call, Waiting
  <2>3. Balanced'
    BY <1>1, SameHolders DEF IInv, TypeOK, Call, bounds, Holding
  <2>4. HarmCounted'
    BY <1>1, SameHarm DEF IInv, TypeOK, Call, failures, Harms
  <2> QED BY <2>1, <2>2, <2>3, <2>4 DEF IInv
<1>2. ASSUME NEW r \in Request, Settle(r) PROVE IInv'
  BY <1>2, ReleaseStep DEF Settle
<1>3. CASE PumpEnds \/ PumpThrows
  BY <1>3, PumpedStep
<1>4. CASE SettleLimited
  BY <1>4, ReleaseStep DEF SettleLimited, IInv, TypeOK, Running
<1>5. CASE Tick
  <2>1. TypeOK'
    <3>1. unpumped' = unpumped /\ faults' = faults
      BY <1>5 DEF Tick, failures
    <3> QED BY <1>5, <3>1 DEF IInv, TypeOK, Tick
  <2>2. /\ UNCHANGED <<concurrent, queue, saved, state, running, subject, crashes>>
        /\ SavedOK /\ Parked /\ Running
    BY <1>5 DEF IInv, Tick
  <2>3. Balanced' /\ HarmCounted'
    BY <1>5, SameHolders, SameHarm DEF IInv, Tick, failures
  <2>4. SavedOK' /\ Parked' /\ Running'
    BY <2>2 DEF SavedOK, Parked, Running
  <2> QED BY <2>1, <2>3, <2>4 DEF IInv
<1>6. CASE UNCHANGED vars
  <2>1. TypeOK' /\ SavedOK' /\ Parked' /\ Running'
    BY <1>6 DEF IInv, TypeOK, SavedOK, Parked, Running, vars
  <2> QED BY <1>6, <2>1, SameHolders, SameHarm DEF IInv, vars
<1> QED BY <1>1, <1>2, <1>3, <1>4, <1>5, <1>6, ReserveStep, LimitStep, PumpStep, EnterStep,
           RestartStep DEF Next

LEMMA Invariant == ASSUME FiniteRequests PROVE Spec => []IInv
BY InitInvariant, StepInvariant, PTL DEF Spec

\* The controller keeps within maxConcurrentPerScope and queueCapacityPerScope,
\* across restarts, and its state has its types.
THEOREM TypeCorrect == ASSUME FiniteRequests PROVE Spec => []TypeOK
BY Invariant, PTL DEF IInv

\* Every permit counted is held by one request that has not settled, and a
\* request holds one permit; after a restart permits may be counted that
\* nobody holds, never the other way round.  Each save that throws costs at
\* most one request its answer or leaves it with a permit nobody returns.
THEOREM Accounting == ASSUME FiniteRequests PROVE Spec => []PermitsAccounted
BY Invariant, PTL DEF IInv, Balanced, HarmCounted, PermitsAccounted

-----------------------------------------------------------------------------
(* The scheduler: while requests are parked in a scope, one of them is next. *)

LEMMA LeastElement ==
  ASSUME NEW S \in SUBSET Nat, S # {}
  PROVE  \E x \in S : \A y \in S : x <= y
<1>1. PICK x \in S : \A y \in S : ~ (<<y, x>> \in OpToRel(<, Nat))
  BY WFMin, NatLessThanWellFounded
<1>2. \A y \in S : ~ (y < x)
  BY <1>1 DEF OpToRel
<1>3. \A y \in S : x <= y
  BY <1>2
<1> QED BY <1>3

\* Every class has a rank of its own.
LEMMA RankIs ==
  ASSUME NEW c \in Classes PROVE Rank(c) \in 1..3 /\ PriorityClasses[Rank(c)] = c
BY DEF Rank

LEMMA OwnedIs ==
  ASSUME TypeOK, NEW s \in Scope
  PROVE  /\ Owned(s) = {i \in 1..Len(queue[s]) : queue[s][i].token # None}
         /\ \A i \in Owned(s) : /\ queue[s][i].token \in Request
                                /\ queue[s][i].enqueuedAt \in Nat
                                /\ Class(s, i) \in Classes
<1>1. PICK q \in Seq(Entry) : q = queue[s]
  BY DEF TypeOK
<1>2. \A k \in 1..Len(q) : q[k] \in Entry
  BY <1>1
<1>3. ASSUME NEW k \in 1..Len(q), q[k].token # None
      PROVE  /\ q[k].token \in Request /\ q[k].enqueuedAt \in Nat
             /\ EffectivePriority(q[k]) \in Classes
  BY <1>2, <1>3 DEF Entry, EffectivePriority, Classes
<1>4. DOMAIN q = 1..Len(q)
  BY <1>1
<1> QED BY <1>1, <1>3, <1>4 DEF Owned, Class

LEMMA SomebodyIsNext ==
  ASSUME TypeOK, NEW s \in Scope, Owned(s) # {} PROVE Candidates(s) # {}
<1>1. Owned(s) \subseteq Nat
  BY OwnedIs
<1>2. Eligible(s) # {} /\ Eligible(s) \subseteq Owned(s)
  <2>1. CASE \E i \in Owned(s) : Class(s, i) = "interactive"
    BY <2>1 DEF Eligible
  <2>2. CASE ~ \E i \in Owned(s) : Class(s, i) = "interactive"
    BY <2>2 DEF Eligible
  <2> QED BY <2>1, <2>2 DEF Eligible
<1> DEFINE rank(i) == Rank(Class(s, i))
           age(i) == queue[s][i].enqueuedAt
<1>3. \A i \in Eligible(s) : rank(i) \in Nat /\ age(i) \in Nat /\ i \in Nat
  BY <1>1, <1>2, OwnedIs, RankIs
<1> HIDE DEF rank, age
<1>4. PICK R : R = {rank(i) : i \in Eligible(s)}
  OBVIOUS
<1>5. PICK p \in R : \A y \in R : p <= y
  <2>1. R \subseteq Nat /\ R # {}
    BY <1>2, <1>3, <1>4
  <2> QED BY <2>1, LeastElement
<1>6. PICK F : F = {i \in Eligible(s) : rank(i) = p}
  OBVIOUS
<1>7. PICK A : A = {age(i) : i \in F}
  OBVIOUS
<1>8. PICK a \in A : \A y \in A : a <= y
  <2>1. A \subseteq Nat /\ A # {}
    BY <1>3, <1>4, <1>5, <1>6, <1>7
  <2> QED BY <2>1, LeastElement
<1>9. PICK I : I = {i \in F : age(i) = a}
  OBVIOUS
<1>10. PICK k \in I : \A y \in I : k <= y
  <2>1. I \subseteq Nat /\ I # {}
    BY <1>3, <1>6, <1>7, <1>8, <1>9
  <2> QED BY <2>1, LeastElement
<1>11. ASSUME NEW j \in Eligible(s), j # k PROVE Before(s, k, j)
  <2>1. /\ k \in Eligible(s) /\ rank(k) = p /\ age(k) = a /\ k \in Nat /\ j \in Nat
        /\ rank(j) \in Nat /\ age(j) \in Nat /\ rank(k) \in Nat /\ age(k) \in Nat
    BY <1>3, <1>6, <1>9, <1>10
  <2>2. p <= rank(j) /\ (rank(j) = p => a <= age(j))
    BY <1>4, <1>5, <1>6, <1>7, <1>8
  <2>3. rank(j) = p /\ age(j) = a => k <= j
    BY <1>6, <1>9, <1>10
  <2>4. \/ rank(k) < rank(j)
        \/ rank(k) = rank(j) /\ age(k) < age(j)
        \/ rank(k) = rank(j) /\ age(k) = age(j) /\ k < j
    BY <1>11, <2>1, <2>2, <2>3
  <2> QED BY <2>4 DEF Before, rank, age
<1> QED BY <1>6, <1>9, <1>10, <1>11 DEF Candidates

-----------------------------------------------------------------------------
(* Who waits, and for what.                                                 *)

\* An arrival that may be granted meets an empty queue.
TurnsKept ==
  running = "enter" /\ CanGrant(ScopeOf[subject]) => Owned(ScopeOf[subject]) = {}

WaitInv == IInv /\ TurnsKept /\ NoPermitIdles /\ ParkedIsQueued

LEMMA SameQueue ==
  ASSUME NEW s, queue'[s] = queue[s] PROVE Owned(s)' = Owned(s)
BY DEF Owned

\* A pump that has nothing left to grant leaves nobody behind.
LEMMA PumpedOut ==
  ASSUME IInv, Pumped, NEW s \in Scope, Owned(s) # {} PROVE ~CanGrant(s)
BY SomebodyIsNext DEF IInv, Pumped

LEMMA RestartLeavesNobody ==
  ASSUME IInv, Restart, NEW s \in Scope PROVE Owned(s)' = {}
<1>1. PICK q \in Seq(Entry) : q = saved.queue[s]
  BY DEF IInv, SavedOK
<1>2. DOMAIN q = 1..Len(q)
  BY <1>1
<1>3. \A i \in DOMAIN q : q[i].token = None
  BY <1>1, <1>2 DEF IInv, SavedOK
<1> QED BY <1>1, <1>3 DEF Owned, Restart

LEMMA Closed ==
  ASSUME TypeOK, NEW s \in Scope, ~CanGrant(s)
  PROVE  concurrent[s] = MaxConcurrent \/ cooldownUntil[s] > 0
<1>1. concurrent[s] \in 0..MaxConcurrent /\ cooldownUntil[s] \in Nat /\ now \in Nat
  BY DEF TypeOK
<1> QED BY <1>1 DEF CanGrant

LEMMA TurnsKeptStep ==
  ASSUME WaitInv, [Next]_vars PROVE TurnsKept'
<1>1. ASSUME NEW r \in Request, Reserve(r) PROVE TurnsKept'
  <2>1. CASE queue[ScopeOf[r]] = <<>>
    <3>1. Owned(ScopeOf[r])' = {}
      BY <1>1, <2>1 DEF Owned, Reserve
    <3> QED BY <1>1, <3>1 DEF TurnsKept, Reserve
  <2>2. CASE queue[ScopeOf[r]] # <<>>
    BY <1>1, <2>2 DEF TurnsKept, Reserve
  <2> QED BY <2>1, <2>2
<1>2. CASE PumpEnds
  <2>1. SUFFICES ASSUME subject # None, CanGrant(ScopeOf[subject])
                 PROVE  Owned(ScopeOf[subject]) = {}
    BY <1>2 DEF TurnsKept, PumpEnds, Pumped, bounds, CanGrant, Owned
  <2>2. ScopeOf[subject] \in Scope
    BY <2>1 DEF WaitInv, IInv, TypeOK
  <2> QED BY <1>2, <2>1, <2>2, PumpedOut DEF WaitInv, PumpEnds
<1>3. ASSUME NEW s \in Scope, PumpGrant(s) PROVE TurnsKept'
  BY <1>3 DEF TurnsKept, PumpGrant
<1>4. ASSUME NEW r \in Request, Call(r) \/ Settle(r) \/ Limit(r) PROVE TurnsKept'
  BY <1>4 DEF TurnsKept, Call, Settle, Limit, Release
<1>5. CASE Enter \/ EnterThrows \/ PumpThrows \/ SettleLimited \/ Tick \/ Restart
  BY <1>5 DEF TurnsKept, Enter, EnterThrows, PumpThrows, SettleLimited, Release, Tick, Restart
<1>6. CASE UNCHANGED vars
  BY <1>6 DEF WaitInv, TurnsKept, vars, CanGrant, Owned
<1> QED BY <1>1, <1>2, <1>3, <1>4, <1>5, <1>6 DEF Next

LEMMA NoPermitIdlesStep ==
  ASSUME WaitInv, [Next]_vars PROVE NoPermitIdles'
<1>1. ASSUME NEW r \in Request, Reserve(r) \/ Call(r) PROVE NoPermitIdles'
  <2>1. running = "idle" /\ UNCHANGED <<concurrent, cooldownUntil, queue, unpumped>>
    BY <1>1 DEF Reserve, Call, failures
  <2> QED BY <2>1 DEF WaitInv, NoPermitIdles, Owned
<1>2. ASSUME NEW r \in Request, Settle(r) \/ Limit(r) PROVE NoPermitIdles'
  <2>1. CASE Settle(r)
    BY <2>1 DEF NoPermitIdles, Settle, Release
  <2>2. CASE Limit(r)
    BY <2>2 DEF NoPermitIdles, Limit
  <2> QED BY <1>2, <2>1, <2>2
<1>3. ASSUME NEW s \in Scope, PumpGrant(s) PROVE NoPermitIdles'
  BY <1>3 DEF NoPermitIdles, PumpGrant
<1>4. CASE SettleLimited
  BY <1>4 DEF NoPermitIdles, SettleLimited, Release
<1>5. CASE Tick \/ UNCHANGED vars
  BY <1>5 DEF WaitInv, NoPermitIdles, Tick, vars, failures, Owned
<1>6. CASE PumpEnds \/ PumpThrows
  <2>1. Pumped
    BY <1>6 DEF PumpEnds, PumpThrows
  <2> SUFFICES ASSUME NEW s \in Scope, Owned(s) # {}
               PROVE  concurrent[s] = MaxConcurrent \/ cooldownUntil[s] > 0
    BY <2>1 DEF NoPermitIdles, Pumped, Owned
  <2> QED BY <2>1, PumpedOut, Closed DEF WaitInv, IInv
<1>7. CASE Restart
  BY <1>7, RestartLeavesNobody DEF WaitInv, NoPermitIdles
<1>8. CASE Enter \/ EnterThrows
  <2>1. PICK s \in Scope : s = ScopeOf[subject] /\ (CanGrant(s) => Owned(s) = {})
    BY <1>8 DEF WaitInv, IInv, TypeOK, Running, Enter, EnterThrows, TurnsKept
  <2>2. /\ \A t \in Scope \ {s} : queue'[t] = queue[t] /\ concurrent'[t] = concurrent[t]
        /\ running = "enter" /\ UNCHANGED <<cooldownUntil, unpumped>>
        /\ CanGrant(s) => UNCHANGED queue
        /\ ~CanGrant(s) => UNCHANGED concurrent
    BY <1>8, <2>1 DEF Enter, EnterThrows, Grant, WaitInv, IInv, TypeOK
  <2> SUFFICES ASSUME ~unpumped, NEW t \in Scope, Owned(t)' # {}
               PROVE  concurrent'[t] = MaxConcurrent \/ cooldownUntil'[t] > 0
    BY <2>2 DEF NoPermitIdles
  <2>3. CASE t # s
    <3>1. Owned(t) # {}
      BY <2>2, <2>3, SameQueue
    <3> QED BY <2>2, <2>3, <3>1 DEF WaitInv, NoPermitIdles
  <2>4. CASE t = s /\ CanGrant(s)
    BY <2>1, <2>2, <2>4, SameQueue
  <2>5. CASE t = s /\ ~CanGrant(s)
    BY <2>2, <2>5, Closed DEF WaitInv, IInv
  <2> QED BY <2>3, <2>4, <2>5
<1> QED BY <1>1, <1>2, <1>3, <1>4, <1>5, <1>6, <1>7, <1>8 DEF Next

\* Entries stay, and nobody starts to wait without one.
LEMMA StillQueued ==
  ASSUME ParkedIsQueued, queue' = queue,
         \A r \in Request : state'[r] = "queued" => state[r] = "queued"
  PROVE  ParkedIsQueued'
BY DEF ParkedIsQueued, Owned

LEMMA ParkedIsQueuedStep ==
  ASSUME WaitInv, [Next]_vars PROVE ParkedIsQueued'
<1>1. ASSUME NEW r \in Request, Reserve(r) \/ Call(r) \/ Settle(r) \/ Limit(r)
      PROVE  ParkedIsQueued'
  BY <1>1, StillQueued
     DEF Reserve, Call, Settle, Limit, Release, GiveBack, WaitInv, IInv, TypeOK
<1>2. CASE PumpEnds \/ PumpThrows \/ SettleLimited \/ Tick \/ UNCHANGED vars
  BY <1>2, StillQueued
     DEF PumpEnds, PumpThrows, Pumped, SettleLimited, Release, GiveBack, Tick, vars, WaitInv,
         IInv, TypeOK
<1>3. CASE Restart
  BY <1>3 DEF ParkedIsQueued, Restart, WaitInv, IInv, TypeOK
<1>4. CASE Enter \/ EnterThrows
  <2>1. PICK r \in Request, s \in Scope : r = subject /\ s = ScopeOf[r] /\ r # None
    BY <1>4 DEF WaitInv, IInv, TypeOK, Running, Enter, EnterThrows
  <2> DEFINE e == Arrival(r)
  <2>2. ASSUME NEW outcome \in {"granted", "leaked"}, Grant(s, r, outcome), UNCHANGED queue
        PROVE  ParkedIsQueued'
    BY <2>1, <2>2, StillQueued DEF Grant, WaitInv, IInv, TypeOK
  <2>3. CASE state' = [state EXCEPT ![r] = "saturated"] /\ UNCHANGED queue
    BY <2>1, <2>3, StillQueued DEF WaitInv, IInv, TypeOK
  <2>4. ASSUME NEW outcome \in Waiting, queue' = [queue EXCEPT ![s] = Append(@, e)],
               state' = [state EXCEPT ![r] = outcome]
        PROVE  ParkedIsQueued'
    <3>1. e \in Entry /\ e.token = r
      BY <2>1 DEF WaitInv, IInv, TypeOK, Entry, Arrival
    <3>2. PICK q \in Seq(Entry) : q = queue[s]
      BY <2>1 DEF WaitInv, IInv, TypeOK
    <3> HIDE DEF e
    <3>3. /\ DOMAIN Append(q, e) = 1..Len(q) + 1 /\ DOMAIN q = 1..Len(q) /\ Len(q) \in Nat
          /\ Append(q, e)[Len(q) + 1] = e
          /\ \A i \in 1..Len(q) : Append(q, e)[i] = q[i]
      BY <3>1
    <3>4. queue'[s] = Append(q, e) /\ \A t \in Scope \ {s} : queue'[t] = queue[t]
      BY <2>1, <2>4, <3>2 DEF WaitInv, IInv, TypeOK
    <3> SUFFICES ASSUME NEW p \in Request, state'[p] = "queued"
                 PROVE  \E i \in Owned(ScopeOf[p])' : queue'[ScopeOf[p]][i].token = p
      BY DEF ParkedIsQueued
    <3>5. CASE p = r
      <4>1. Len(q) + 1 \in Owned(s)' /\ queue'[s][Len(q) + 1].token = r
        BY <2>1, <3>1, <3>3, <3>4 DEF Owned
      <4> QED BY <2>1, <3>5, <4>1
    <3>6. CASE p # r
      <4>1. PICK i \in Owned(ScopeOf[p]) : queue[ScopeOf[p]][i].token = p
        BY <2>1, <2>4, <3>6 DEF WaitInv, IInv, TypeOK, ParkedIsQueued
      <4>2. ScopeOf[p] \in Scope
        OBVIOUS
      <4>3. i \in DOMAIN queue'[ScopeOf[p]] /\ queue'[ScopeOf[p]][i] = queue[ScopeOf[p]][i]
        BY <3>2, <3>3, <3>4, <4>1, <4>2 DEF Owned
      <4> QED BY <4>1, <4>3 DEF Owned
    <3> QED BY <3>5, <3>6
  <2> QED BY <1>4, <2>1, <2>2, <2>3, <2>4 DEF Enter, EnterThrows, Waiting
<1>5. ASSUME NEW s \in Scope, PumpGrant(s) PROVE ParkedIsQueued'
  <2>1. PICK i \in Candidates(s), outcome \in {"granted", "leaked"} :
          /\ Grant(s, queue[s][i].token, outcome)
          /\ queue' = [queue EXCEPT ![s] = RemoveAt(@, i)]
    BY <1>5 DEF PumpGrant
  <2>2. PICK q \in Seq(Entry) : q = queue[s]
    BY DEF WaitInv, IInv, TypeOK
  <2>3. i \in 1..Len(q) /\ q[i].token \in Request /\ Len(q) \in Nat
    BY <2>2, OwnedIs DEF Candidates, Eligible, WaitInv, IInv
  <2>4. /\ Len(RemoveAt(q, i)) = Len(q) - 1 /\ DOMAIN RemoveAt(q, i) = 1..Len(q) - 1
        /\ \A k \in 1..Len(q) - 1 : RemoveAt(q, i)[k] = IF k < i THEN q[k] ELSE q[k+1]
    <3>1. RemoveAt(q, i) \in Seq(Entry)
      BY <2>3, RemoveAtFacts
    <3> QED BY <2>3, <3>1, RemoveAtFacts
  <2>5. queue'[s] = RemoveAt(q, i) /\ \A t \in Scope \ {s} : queue'[t] = queue[t]
    BY <2>1, <2>2 DEF WaitInv, IInv, TypeOK
  <2> SUFFICES ASSUME NEW p \in Request, state'[p] = "queued"
               PROVE  \E k \in Owned(ScopeOf[p])' : queue'[ScopeOf[p]][k].token = p
    BY DEF ParkedIsQueued
  <2>6. p # q[i].token /\ state[p] = "queued"
    BY <2>1, <2>2, <2>3 DEF Grant, WaitInv, IInv, TypeOK
  <2>7. PICK j \in Owned(ScopeOf[p]) : queue[ScopeOf[p]][j].token = p
    BY <2>6 DEF WaitInv, ParkedIsQueued
  <2>8. CASE ScopeOf[p] # s
    BY <2>5, <2>7, <2>8 DEF Owned
  <2>9. CASE ScopeOf[p] = s
    <3> DEFINE k == IF j < i THEN j ELSE j - 1
    <3>1. j \in 1..Len(q) /\ q[j].token = p /\ j # i
      BY <2>2, <2>6, <2>7, <2>9, OwnedIs DEF WaitInv, IInv
    <3>2. k \in 1..Len(q) - 1 /\ RemoveAt(q, i)[k] = q[j]
      BY <2>3, <2>4, <3>1
    <3> HIDE DEF k
    <3>3. k \in DOMAIN queue'[s] /\ queue'[s][k].token = p
      BY <2>4, <2>5, <3>1, <3>2
    <3> QED BY <2>9, <3>3 DEF Owned
  <2> QED BY <2>8, <2>9
<1> QED BY <1>1, <1>2, <1>3, <1>4, <1>5 DEF Next

LEMMA WaitInvariant == ASSUME FiniteRequests PROVE Spec => []WaitInv
<1>1. ASSUME Init PROVE TurnsKept /\ NoPermitIdles /\ ParkedIsQueued
  <2>1. \A s \in Scope : Owned(s) = {}
    BY <1>1 DEF Init, Owned
  <2> QED BY <1>1, <2>1 DEF Init, TurnsKept, NoPermitIdles, ParkedIsQueued
<1>2. ASSUME WaitInv, [Next]_vars PROVE WaitInv'
  BY <1>2, StepInvariant, TurnsKeptStep, NoPermitIdlesStep, ParkedIsQueuedStep DEF WaitInv
<1> QED BY <1>1, <1>2, InitInvariant, PTL DEF Spec, WaitInv

-----------------------------------------------------------------------------
(* The turns: a cooldown is respected, and age counts.                      *)

\* A permit is granted by reserve() to the request it is about, or by pump() to the
\* parked request that is next.
LEMMA NewGrants ==
  ASSUME IInv, [Next]_vars, NEW r \in Request, state[r] # "granted", state'[r] = "granted"
  PROVE  /\ CanGrant(ScopeOf[r]) /\ UNCHANGED <<now, cooldownUntil>>
         /\ \/ running = "enter" /\ r = subject
            \/ \E i \in Candidates(ScopeOf[r]) : queue[ScopeOf[r]][i].token = r
<1>1. ASSUME NEW q \in Request, Reserve(q) \/ Call(q) \/ Settle(q) \/ Limit(q) PROVE FALSE
  BY <1>1 DEF Reserve, Call, Settle, Limit, Release, GiveBack, IInv, TypeOK
<1>2. CASE PumpEnds \/ PumpThrows \/ SettleLimited \/ Tick \/ Restart \/ UNCHANGED vars
  BY <1>2
     DEF PumpEnds, PumpThrows, SettleLimited, Release, GiveBack, Tick, Restart, vars, IInv, TypeOK
<1>3. CASE Enter \/ EnterThrows
  BY <1>3 DEF Enter, EnterThrows, Grant, IInv, TypeOK, Running, bounds
<1>4. ASSUME NEW s \in Scope, PumpGrant(s)
      PROVE  /\ CanGrant(ScopeOf[r]) /\ UNCHANGED <<now, cooldownUntil>>
             /\ \E i \in Candidates(ScopeOf[r]) : queue[ScopeOf[r]][i].token = r
  <2>1. PICK i \in Candidates(s), outcome \in {"granted", "leaked"} :
          Grant(s, queue[s][i].token, outcome)
    BY <1>4 DEF PumpGrant
  <2>2. queue[s][i].token = r
    BY <2>1 DEF Grant, IInv, TypeOK
  <2>3. ScopeOf[r] = s
    BY <2>2, OwnedIs DEF IInv, Parked, Candidates, Eligible
  <2> QED BY <1>4, <2>2, <2>3 DEF PumpGrant, bounds
<1> QED BY <1>1, <1>2, <1>3, <1>4 DEF Next

\* Nobody is granted the only permit of a scope in cooldown.
GrantsAreOpen ==
  \A r \in Request : state[r] = "granted" => now >= cooldownUntil[ScopeOf[r]]

\* With one permit, two requests of a scope never hold it.
LEMMA OneHolder ==
  ASSUME FiniteRequests, IInv, MaxConcurrent = 1,
         NEW r \in Request, NEW q \in Request, ScopeOf[r] = ScopeOf[q],
         state[r] \in Holding, state[q] \in Holding
  PROVE  r = q
<1>1. PICK h : h = Holders(ScopeOf[r]) /\ IsFiniteSet(h)
  BY HoldersFinite
<1>2. Cardinality(h) \in Nat /\ Cardinality(h) <= 1
  <2>1. ScopeOf[r] \in Scope
    OBVIOUS
  <2>2. concurrent[ScopeOf[r]] \in 0..1 /\ Cardinality(h) <= concurrent[ScopeOf[r]]
    BY <1>1, <2>1 DEF IInv, TypeOK, Balanced
  <2>3. Cardinality(h) \in Nat
    BY <1>1, FS_CardinalityType
  <2> QED BY <2>2, <2>3
<1>3. r \in h /\ q \in h
  BY <1>1 DEF Holders, Holding
<1>4. SUFFICES ASSUME r # q PROVE FALSE
  OBVIOUS
<1>5. PICK g : g = h \ {r} /\ IsFiniteSet(g) /\ Cardinality(g) = Cardinality(h) - 1
  <2>1. IsFiniteSet(h \ {r})
    BY <1>1, FS_Subset
  <2>2. Cardinality(h \ {r}) = Cardinality(h) - 1
    BY <1>1, <1>3, FS_RemoveElement
  <2> QED BY <2>1, <2>2
<1>6. Cardinality(g) \in Nat
  BY <1>5, FS_CardinalityType
<1>7. Cardinality(g) = 0
  BY <1>2, <1>5, <1>6
<1>8. g = {}
  BY <1>5, <1>7, FS_EmptySet
<1> QED BY <1>3, <1>4, <1>5, <1>8

LEMMA GrantsAreOpenStep ==
  ASSUME FiniteRequests, IInv, GrantsAreOpen, MaxConcurrent = 1, [Next]_vars
  PROVE  GrantsAreOpen'
<1> SUFFICES ASSUME NEW r \in Request, state'[r] = "granted"
             PROVE  now' >= cooldownUntil'[ScopeOf[r]]
  BY DEF GrantsAreOpen
<1>1. now \in Nat /\ now + 1 \in Nat /\ cooldownUntil[ScopeOf[r]] \in Nat
  BY DEF IInv, TypeOK
<1>2. CASE state[r] = "granted"
  <2>1. now >= cooldownUntil[ScopeOf[r]]
    BY <1>2 DEF GrantsAreOpen
  <2>2. ASSUME NEW q \in Request, Limit(q) PROVE now' >= cooldownUntil'[ScopeOf[r]]
    <3>1. ScopeOf[q] # ScopeOf[r]
      BY <1>2, <2>2, OneHolder DEF Limit, Holding
    <3>2. cooldownUntil'[ScopeOf[r]] = cooldownUntil[ScopeOf[r]] /\ now' = now
      BY <2>2, <3>1 DEF Limit, IInv, TypeOK
    <3> QED BY <2>1, <3>2
  <2>3. CASE Restart
    BY <1>2, <2>3 DEF Restart, IInv, TypeOK
  <2>4. CASE Tick
    BY <1>1, <2>1, <2>4 DEF Tick
  <2>5. CASE UNCHANGED vars
    BY <2>1, <2>5 DEF vars
  <2>6. ASSUME NEW q \in Request, Reserve(q) \/ Call(q) \/ Settle(q)
        PROVE  UNCHANGED <<now, cooldownUntil>>
    BY <2>6 DEF Reserve, Call, Settle, Release, GiveBack, bounds
  <2>7. ASSUME NEW s \in Scope, PumpGrant(s) PROVE UNCHANGED <<now, cooldownUntil>>
    BY <2>7 DEF PumpGrant, bounds
  <2>8. CASE PumpEnds \/ PumpThrows \/ Enter \/ EnterThrows \/ SettleLimited
    BY <2>1, <2>8
       DEF PumpEnds, PumpThrows, Pumped, Enter, EnterThrows, SettleLimited, Release, GiveBack, bounds
  <2> QED BY <2>1, <2>2, <2>3, <2>4, <2>5, <2>6, <2>7, <2>8 DEF Next
<1>3. CASE state[r] # "granted"
  <2>1. CanGrant(ScopeOf[r]) /\ UNCHANGED <<now, cooldownUntil>>
    BY <1>3, NewGrants
  <2> QED BY <2>1 DEF CanGrant
<1> QED BY <1>2, <1>3

\* Whoever waited long enough is interactive, and interactive comes first: only an
\* entry that is as old is granted before it.
LEMMA AgeCounts ==
  ASSUME TypeOK, PriorityClasses[1] = "interactive", NEW s \in Scope,
         NEW i \in Candidates(s), NEW k \in Owned(s), now - queue[s][k].enqueuedAt >= MaxWait
  PROVE  queue[s][i].enqueuedAt <= queue[s][k].enqueuedAt
<1>1. Class(s, k) = "interactive"
  BY DEF Class, EffectivePriority
<1>2. k \in Eligible(s)
  BY <1>1 DEF Eligible
<1>3. Rank("interactive") = 1
  BY RankIs DEF Classes
<1>4. i \in Owned(s) /\ (i = k \/ Before(s, i, k))
  BY <1>2 DEF Candidates, Eligible
<1>5. /\ queue[s][i].enqueuedAt \in Nat /\ queue[s][k].enqueuedAt \in Nat
      /\ Rank(Class(s, i)) \in 1..3
  BY <1>4, OwnedIs, RankIs
<1> QED BY <1>1, <1>3, <1>4, <1>5 DEF Before

\* A request that waits has its entry in the queue of its scope, and nothing but
\* its own grant takes the entry out.
THEOREM ParkedRequestsAreQueued ==
  ASSUME FiniteRequests PROVE Spec => []ParkedIsQueued
BY WaitInvariant, PTL DEF WaitInv

\* Between two methods a permit is free beside a parked request only where a
\* cooldown closed the scope.
THEOREM PermitsAreUsed == ASSUME FiniteRequests PROVE Spec => []NoPermitIdles
BY WaitInvariant, PTL DEF WaitInv

\* A fresh arrival is never granted a permit while a request of its scope is parked.
THEOREM NoArrivalJumpsTheQueue ==
  ASSUME FiniteRequests PROVE Spec => ArrivalsWaitTheirTurn
<1>1. ASSUME WaitInv, [Next]_vars
      PROVE  [\A r \in Request :
                state[r] = "new" /\ state'[r] = "granted" => Owned(ScopeOf[r]) = {}]_vars
  <2> SUFFICES ASSUME NEW r \in Request, state[r] = "new", state'[r] = "granted"
               PROVE  Owned(ScopeOf[r]) = {}
    OBVIOUS
  <2>1. ASSUME NEW i \in Candidates(ScopeOf[r]), queue[ScopeOf[r]][i].token = r PROVE FALSE
    <3>1. i \in 1..Len(queue[ScopeOf[r]]) /\ ScopeOf[r] \in Scope /\ r # None
      BY <1>1, <2>1, OwnedIs DEF WaitInv, IInv, Candidates, Eligible
    <3>2. state[r] \in Waiting
      BY <1>1, <2>1, <3>1 DEF WaitInv, IInv, Parked
    <3> QED BY <3>2 DEF Waiting
  <2>2. CanGrant(ScopeOf[r]) /\ running = "enter" /\ r = subject
    BY <1>1, <2>1, NewGrants DEF WaitInv
  <2> QED BY <1>1, <2>2 DEF WaitInv, TurnsKept
<1> QED BY <1>1, WaitInvariant, PTL DEF Spec, ArrivalsWaitTheirTurn

\* With the class order of the code, in which interactive comes first, a request that
\* waited maxWaitMs is not overtaken by one that came later, whatever their classes.
THEOREM AgedComeFirst ==
  ASSUME FiniteRequests, PriorityClasses[1] = "interactive"
  PROVE  Spec => AgedNotOvertaken
<1> DEFINE Turn(r) ==
      LET s == ScopeOf[r]
      IN \A i \in Owned(s) :
           now - queue[s][i].enqueuedAt >= MaxWait =>
             \E j \in Owned(s) : /\ queue[s][j].token = r
                                 /\ queue[s][j].enqueuedAt <= queue[s][i].enqueuedAt
<1>1. ASSUME WaitInv, [Next]_vars, NEW r \in Request,
             state[r] # "granted", state'[r] = "granted"
      PROVE  Turn(r)
  <2>1. CASE running = "enter" /\ r = subject
    BY <1>1, <2>1, NewGrants DEF WaitInv, TurnsKept
  <2>2. CASE \E i \in Candidates(ScopeOf[r]) : queue[ScopeOf[r]][i].token = r
    <3>1. PICK i \in Candidates(ScopeOf[r]) : queue[ScopeOf[r]][i].token = r
      BY <2>2
    <3>2. i \in Owned(ScopeOf[r])
      BY <3>1 DEF Candidates, Eligible
    <3> QED BY <1>1, <3>1, <3>2, AgeCounts DEF WaitInv, IInv
  <2> QED BY <1>1, <2>1, <2>2, NewGrants DEF WaitInv
<1>2. ASSUME WaitInv, [Next]_vars
      PROVE  [\A r \in Request : state[r] # "granted" /\ state'[r] = "granted" => Turn(r)]_vars
  BY <1>1, <1>2
<1> QED BY <1>2, WaitInvariant, PTL DEF Spec, AgedNotOvertaken

\* Where a scope serves one call at a time, as it does unless configured otherwise, no
\* request probes a provider whose cooldown is open, not even one that was granted before.
THEOREM CooldownIsRespected ==
  ASSUME FiniteRequests, MaxConcurrent = 1
  PROVE  Spec => NoProbeDuringCooldown
<1>1. Init => GrantsAreOpen
  BY DEF Init, GrantsAreOpen
<1>2. IInv /\ GrantsAreOpen /\ [Next]_vars => GrantsAreOpen'
  BY GrantsAreOpenStep
<1>3. IInv /\ GrantsAreOpen /\ [Next]_vars
        => [\A r \in Request :
              state[r] = "granted" /\ state'[r] = "calling" => now >= cooldownUntil[ScopeOf[r]]]_vars
  BY DEF GrantsAreOpen
<1> QED BY <1>1, <1>2, <1>3, Invariant, PTL DEF Spec, NoProbeDuringCooldown
=============================================================================
