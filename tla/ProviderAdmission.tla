------------------------- MODULE ProviderAdmission -------------------------
(***************************************************************************)
(* ProviderAdmissionController (src/provider-admission.ts): how many calls  *)
(* a provider scope serves at once, who is next, and how a scope stands     *)
(* down after a provider limit.                                             *)
(*                                                                         *)
(* One process runs the controller.  Its methods are synchronous; a request *)
(* waits between reserve and the provider call it was granted, and while    *)
(* the call is out.  Every method saves a snapshot, some more than once, so *)
(* a method is cut here where it saves: `running` is the rest of it.  A save *)
(* may throw, and with it the method, on what it has done in memory.  A     *)
(* restart builds a controller from the last snapshot.                      *)
(*                                                                         *)
(* Nobody holds a token that is still queued, so nobody cancels one, and    *)
(* nobody holds a restored token, so nobody resolves it (resolveUncertain   *)
(* has no caller).  The permit of a save that threw is nobody's either.     *)
(***************************************************************************)
EXTENDS Naturals, FiniteSets, Sequences, SequencesExt

CONSTANTS
  Scope, Request, ScopeOf, PriorityOf,
  PriorityClasses,   \* the configured order of the classes
  MaxConcurrent, QueueCapacity, MaxWait, RetryDelay, CooldownMax,
  Hints,             \* the retry hints a provider limit may carry
  None, Uncertain, NoHint,
  MaxTime,           \* bound on the clock
  MaxLimits,         \* bound on provider limits
  MaxFaults,         \* bound on saves that throw
  MaxCrashes         \* bound on restarts

Classes == {"interactive", "background", "title"}

ASSUME RequestAssumption ==
  /\ ScopeOf \in [Request -> Scope] /\ PriorityOf \in [Request -> Classes]
  /\ {None, Uncertain} \cap Request = {} /\ None # Uncertain
ASSUME ConfigAssumption ==
  /\ MaxConcurrent \in Nat \ {0} /\ QueueCapacity \in Nat \ {0}
  /\ MaxWait \in Nat \ {0} /\ RetryDelay \in Nat \ {0} /\ CooldownMax \in Nat \ {0}
  /\ PriorityClasses \in [1..3 -> Classes]
  /\ \A c \in Classes : \E i \in 1..3 : PriorityClasses[i] = c
  /\ Hints \subseteq Nat \cup {NoHint} /\ NoHint \notin Nat
ASSUME BoundAssumption ==
  MaxTime \in Nat /\ MaxLimits \in Nat /\ MaxFaults \in Nat /\ MaxCrashes \in Nat

VARIABLES
  concurrent, cooldownUntil, queue, inFlightToken,  \* ScopeRuntime, per scope
  saved,     \* the snapshot in the store
  state,     \* what became of each request
  running,   \* the rest of the method being run
  subject,   \* the request it is about
  unpumped,  \* history: a method whose save threw ended before its pump
  now, limits, faults, crashes

vars == <<concurrent, cooldownUntil, queue, inFlightToken, saved, state, running,
          subject, unpumped, now, limits, faults, crashes>>
failures == <<faults, unpumped>>
bounds == <<now, limits, crashes>>

Entry == [token : Request \cup {None}, priority : Classes, enqueuedAt : 0..MaxTime]

\* snapshot(): a queue entry keeps no token, the token in flight no identity.
Snapshot ==
  [concurrent    |-> concurrent,
   cooldownUntil |-> cooldownUntil,
   queue         |-> [s \in Scope |->
                        [i \in DOMAIN queue[s] |-> [queue[s][i] EXCEPT !.token = None]]],
   inFlight      |-> {s \in Scope : inFlightToken[s] # None}]

\* A save that threw left a request "failed", its caller with the error of the store,
\* or "leaked", with a permit that nobody will return.
States == {"new", "queued", "granted", "calling", "done", "saturated", "failed",
           "leaked", "lost"}

Holders(s) ==
  {r \in Request : ScopeOf[r] = s /\ state[r] \in {"granted", "calling", "leaked"}}

Harmed == {r \in Request : state[r] \in {"failed", "leaked"}}

TypeOK ==
  /\ concurrent \in [Scope -> 0..MaxConcurrent]
  /\ cooldownUntil \in [Scope -> Nat]
  /\ queue \in [Scope -> Seq(Entry)] /\ \A s \in Scope : Len(queue[s]) <= QueueCapacity
  /\ inFlightToken \in [Scope -> Request \cup {None, Uncertain}]
  /\ state \in [Request -> States]
  /\ running \in {"idle", "pump", "enter", "settle"} /\ subject \in Request \cup {None}
  /\ now \in 0..MaxTime /\ limits \in 0..MaxLimits /\ crashes \in 0..MaxCrashes
  /\ faults \in 0..MaxFaults /\ unpumped \in BOOLEAN

Init ==
  /\ concurrent = [s \in Scope |-> 0] /\ cooldownUntil = [s \in Scope |-> 0]
  /\ queue = [s \in Scope |-> <<>>] /\ inFlightToken = [s \in Scope |-> None]
  /\ saved = Snapshot
  /\ state = [r \in Request |-> "new"]
  /\ running = "idle" /\ subject = None
  /\ now = 0 /\ limits = 0 /\ crashes = 0
  /\ faults = 0 /\ unpumped = FALSE

-----------------------------------------------------------------------------
(* The scheduler.                                                           *)

CanGrant(s) == concurrent[s] < MaxConcurrent /\ now >= cooldownUntil[s]

\* An entry keeps its class for ever.
BadEffectivePriority(e) == e.priority

EffectivePriority(e) == IF now - e.enqueuedAt >= MaxWait THEN "interactive" ELSE e.priority

Owned(s) == {i \in DOMAIN queue[s] : queue[s][i].token # None}

Class(s, i) == EffectivePriority(queue[s][i])

Rank(c) == CHOOSE i \in 1..3 : PriorityClasses[i] = c

\* A title waits while anything interactive does.
Eligible(s) ==
  {i \in Owned(s) :
     Class(s, i) = "title" => \A j \in Owned(s) : Class(s, j) # "interactive"}

\* Entry i comes before entry j: by class, then by age, then by place.
Before(s, i, j) ==
  LET a == queue[s][i]  b == queue[s][j]  p == Rank(Class(s, i))  q == Rank(Class(s, j))
  IN \/ p < q
     \/ p = q /\ a.enqueuedAt < b.enqueuedAt
     \/ p = q /\ a.enqueuedAt = b.enqueuedAt /\ i < j

\* dequeueCandidate; empty when only tombstones wait.
Candidates(s) == {i \in Eligible(s) : \A j \in Eligible(s) \ {i} : Before(s, i, j)}

Grant(s, r, outcome) ==
  /\ state' = [state EXCEPT ![r] = outcome]
  /\ concurrent' = [concurrent EXCEPT ![s] = @ + 1]
  /\ inFlightToken' = [inFlightToken EXCEPT ![s] = r]

Persist == saved' = Snapshot' /\ UNCHANGED faults

\* store.save throws: the rename is its last step, so the old snapshot stays.
SaveThrows == faults < MaxFaults /\ faults' = faults + 1 /\ UNCHANGED saved

-----------------------------------------------------------------------------
(* reserve().                                                               *)

\* A fresh arrival goes ahead of the queue.
BadReserve(r) ==
  /\ running = "idle" /\ state[r] = "new"
  /\ subject' = r
  /\ running' = "enter"
  /\ UNCHANGED <<concurrent, cooldownUntil, queue, inFlightToken, saved, state, failures, bounds>>

\* A fresh arrival lets the queue go first.
Reserve(r) ==
  /\ running = "idle" /\ state[r] = "new"
  /\ subject' = r
  /\ running' = IF queue[ScopeOf[r]] = <<>> THEN "enter" ELSE "pump"
  /\ UNCHANGED <<concurrent, cooldownUntil, queue, inFlightToken, saved, state, failures, bounds>>

Arrival(r) == [token |-> r, priority |-> PriorityOf[r], enqueuedAt |-> now]

\* Then it is granted, refused by a full queue, or parked.
Enter ==
  /\ running = "enter"
  /\ LET r == subject  s == ScopeOf[r]
     IN \/ /\ CanGrant(s)
           /\ Grant(s, r, "granted")
           /\ UNCHANGED <<cooldownUntil, queue>>
           /\ Persist
        \/ /\ ~CanGrant(s) /\ Len(queue[s]) >= QueueCapacity
           /\ state' = [state EXCEPT ![r] = "saturated"]
           /\ UNCHANGED <<concurrent, cooldownUntil, queue, inFlightToken, saved, faults>>
        \/ /\ ~CanGrant(s) /\ Len(queue[s]) < QueueCapacity
           /\ queue' = [queue EXCEPT ![s] = Append(@, Arrival(r))]
           /\ state' = [state EXCEPT ![r] = "queued"]
           /\ UNCHANGED <<concurrent, cooldownUntil, inFlightToken>>
           /\ Persist
  /\ running' = "idle" /\ subject' = None
  /\ UNCHANGED <<unpumped, bounds>>

\* The caller gets the error of the store: a granted permit has no token that could
\* return it, a parked entry stays in the queue without anybody who waits for it.
EnterThrows ==
  /\ running = "enter"
  /\ SaveThrows
  /\ LET r == subject  s == ScopeOf[r]
     IN \/ CanGrant(s) /\ Grant(s, r, "leaked") /\ UNCHANGED queue
        \/ /\ ~CanGrant(s) /\ Len(queue[s]) < QueueCapacity
           /\ queue' = [queue EXCEPT ![s] = Append(@, Arrival(r))]
           /\ state' = [state EXCEPT ![r] = "failed"]
           /\ UNCHANGED <<concurrent, inFlightToken>>
  /\ running' = "idle" /\ subject' = None
  /\ UNCHANGED <<cooldownUntil, unpumped, bounds>>

\* pump() takes every scope, whichever woke it; a permit that goes to an entry
\* nobody waits for is not returned ...
PumpGrant(s) ==
  /\ running = "pump" /\ CanGrant(s)
  /\ \E i \in Candidates(s) :
       LET r == queue[s][i].token
       IN /\ Grant(s, r, IF state[r] = "failed" THEN "leaked" ELSE "granted")
          /\ queue' = [queue EXCEPT ![s] = RemoveAt(@, i)]
  /\ UNCHANGED <<cooldownUntil, saved, running, subject, failures, bounds>>

Pumped ==
  /\ running = "pump"
  /\ \A s \in Scope : CanGrant(s) => Candidates(s) = {}
  /\ unpumped' = FALSE
  /\ UNCHANGED <<concurrent, cooldownUntil, queue, inFlightToken, bounds>>

\* ... and saves at its end.
PumpEnds ==
  /\ Pumped
  /\ running' = IF subject = None THEN "idle" ELSE "enter"
  /\ UNCHANGED <<state, subject>>
  /\ Persist

\* Its grants stand when the save throws; the arrival that pumped gets the error.
PumpThrows ==
  /\ Pumped
  /\ SaveThrows
  /\ state' = [r \in Request |-> IF r = subject THEN "failed" ELSE state[r]]
  /\ running' = "idle" /\ subject' = None

-----------------------------------------------------------------------------
(* The wrapped call.                                                        *)

\* The continuation of reserve() issues the call.
Call(r) ==
  /\ running = "idle" /\ state[r] = "granted"
  /\ state' = [state EXCEPT ![r] = "calling"]
  /\ UNCHANGED <<concurrent, cooldownUntil, queue, inFlightToken, saved, running,
                 subject, failures, bounds>>

\* releaseToken, once per token.
GiveBack(r) ==
  LET s == ScopeOf[r]
  IN /\ state' = [state EXCEPT ![r] = "done"]
     /\ inFlightToken' = [inFlightToken EXCEPT ![s] = IF @ = r THEN None ELSE @]
     /\ concurrent' = [concurrent EXCEPT ![s] = IF @ > 0 THEN @ - 1 ELSE 0]
     /\ UNCHANGED <<cooldownUntil, queue>>

\* The permit goes back and nobody looks at the queue.
BadRelease(r) ==
  /\ GiveBack(r)
  /\ Persist /\ UNCHANGED unpumped
  /\ running' = "idle" /\ subject' = None

\* The queue is pumped next, unless the save between the two throws.
Release(r) ==
  /\ GiveBack(r)
  /\ \/ Persist /\ running' = "pump" /\ UNCHANGED unpumped
     \/ SaveThrows /\ running' = "idle" /\ unpumped' = TRUE
  /\ subject' = None

\* The call ends and its permit is not returned.
BadSettle(r) ==
  /\ running = "idle" /\ state[r] \in {"granted", "calling"}
  /\ state' = [state EXCEPT ![r] = "done"]
  /\ UNCHANGED <<concurrent, cooldownUntil, queue, inFlightToken, saved, running,
                 subject, failures, bounds>>

\* The call throws at once, answers, or fails for another reason than a limit.
Settle(r) ==
  /\ running = "idle" /\ state[r] \in {"granted", "calling"}
  /\ Release(r)
  /\ UNCHANGED bounds

\* openCooldown: the hint up to the configured maximum, or the default delay.
Delay(hint) ==
  IF hint = NoHint THEN RetryDelay ELSE IF hint < CooldownMax THEN hint ELSE CooldownMax

\* The permit goes back, and on to the next request, before the cooldown opens.
BadLimit(r) ==
  /\ running = "idle" /\ state[r] = "calling" /\ limits < MaxLimits
  /\ LET s == ScopeOf[r]
     IN \E hint \in Hints, i \in Candidates(s) :
          /\ cooldownUntil' = [cooldownUntil EXCEPT ![s] = now + Delay(hint)]
          /\ state' = [state EXCEPT ![r] = "done", ![queue[s][i].token] = "granted"]
          /\ inFlightToken' = [inFlightToken EXCEPT ![s] = queue[s][i].token]
          /\ queue' = [queue EXCEPT ![s] = RemoveAt(@, i)]
  /\ limits' = limits + 1
  /\ UNCHANGED <<concurrent, running, subject, unpumped, now, crashes>>
  /\ Persist

\* reactRejection opens the cooldown of the scope (one that the bounded clock sees
\* expire) ...
Limit(r) ==
  /\ running = "idle" /\ state[r] = "calling" /\ limits < MaxLimits
  /\ \E hint \in Hints :
       /\ now + Delay(hint) <= MaxTime
       /\ cooldownUntil' = [cooldownUntil EXCEPT ![ScopeOf[r]] = now + Delay(hint)]
  /\ limits' = limits + 1
  /\ UNCHANGED <<concurrent, queue, inFlightToken, now, crashes>>
  /\ \/ Persist /\ running' = "settle" /\ subject' = r /\ UNCHANGED <<state, unpumped>>
     \* The rejection handler ends here when the save throws.
     \/ /\ SaveThrows
        /\ state' = [state EXCEPT ![r] = "leaked"] /\ unpumped' = TRUE
        /\ UNCHANGED <<running, subject>>

\* ... before settleToken returns the permit.
SettleLimited ==
  /\ running = "settle"
  /\ Release(subject)
  /\ UNCHANGED bounds

Tick ==
  /\ running = "idle" /\ now < MaxTime
  /\ now' = now + 1
  /\ UNCHANGED <<concurrent, cooldownUntil, queue, inFlightToken, saved, state, running,
                 subject, failures, limits, crashes>>

\* The process dies, in the middle of a method or not, and restore() takes up
\* its last snapshot: parked requests are placeholders now, and of the permits
\* in flight one is uncertain.
Restart ==
  /\ crashes < MaxCrashes
  /\ crashes' = crashes + 1
  /\ concurrent' = saved.concurrent
  /\ cooldownUntil' = saved.cooldownUntil
  /\ queue' = saved.queue
  /\ inFlightToken' = [s \in Scope |-> IF s \in saved.inFlight THEN Uncertain ELSE None]
  /\ state' = [r \in Request |->
                 IF state[r] \in {"queued", "granted", "calling", "leaked"} \/ r = subject
                 THEN "lost" ELSE state[r]]
  /\ running' = "idle" /\ subject' = None /\ unpumped' = FALSE
  /\ UNCHANGED <<saved, now, limits, faults>>

Next ==
  \/ \E r \in Request : Reserve(r) \/ Call(r) \/ Settle(r) \/ Limit(r)
  \/ \E s \in Scope : PumpGrant(s)
  \/ PumpEnds \/ PumpThrows \/ Enter \/ EnterThrows \/ SettleLimited
  \/ Tick \/ Restart

Spec == Init /\ [][Next]_vars
-----------------------------------------------------------------------------
\* A permit is held by a request that was granted one and has not settled, or,
\* after a restart, by one nobody knows the outcome of; none leaks before that
\* (releaseToken "exactly once"), except that each save that throws may cost one
\* request its answer or its permit.
PermitsAccounted ==
  /\ \A s \in Scope :
       /\ Cardinality(Holders(s)) <= concurrent[s]
       /\ crashes = 0 => concurrent[s] = Cardinality(Holders(s))
  /\ Cardinality(Harmed) <= faults

\* A request that waits has its entry in the queue of its scope: a grant takes out
\* the entry of the request it goes to, and nothing else takes one out.
ParkedIsQueued ==
  \A r \in Request :
    state[r] = "queued" => \E i \in Owned(ScopeOf[r]) : queue[ScopeOf[r]][i].token = r

\* Between two methods no permit of a scope is free while a request is parked
\* there, unless a cooldown of the scope closed it: pump() grants all it can before
\* it saves.  (Nothing pumps when a cooldown runs out, or when a save throws before the
\* pump; the next method does.)
NoPermitIdles ==
  running \in {"idle", "enter"} /\ ~unpumped =>
    \A s \in Scope :
      Owned(s) # {} => concurrent[s] = MaxConcurrent \/ cooldownUntil[s] > 0

\* While a cooldown is open no request, "not even one already queued", probes
\* the provider.
NoProbeDuringCooldown ==
  [][\A r \in Request :
       state[r] = "granted" /\ state'[r] = "calling" => now >= cooldownUntil[ScopeOf[r]]]_vars

\* A fresh arrival is never granted a permit while a request of its scope is
\* parked.
ArrivalsWaitTheirTurn ==
  [][\A r \in Request :
       state[r] = "new" /\ state'[r] = "granted" => Owned(ScopeOf[r]) = {}]_vars

\* A request that waited maxWaitMs is not overtaken by one that came later,
\* whatever their classes ("can never be starved past the bound").
AgedNotOvertaken ==
  [][\A r \in Request :
       state[r] # "granted" /\ state'[r] = "granted" =>
         LET s == ScopeOf[r]
         IN \A i \in Owned(s) :
              now - queue[s][i].enqueuedAt >= MaxWait =>
                \E j \in Owned(s) : /\ queue[s][j].token = r
                                    /\ queue[s][j].enqueuedAt <= queue[s][i].enqueuedAt]_vars

\* Methods run to their end, calls are issued and end, and time passes.
FairSpec ==
  /\ Spec
  /\ WF_vars(Enter \/ EnterThrows) /\ WF_vars(PumpEnds \/ PumpThrows)
  /\ WF_vars(SettleLimited) /\ WF_vars(Tick)
  /\ \A s \in Scope : WF_vars(PumpGrant(s))
  /\ \A r \in Request : WF_vars(Call(r)) /\ WF_vars(Settle(r))

\* "Queued requests do not probe during cooldown and resume fairly afterwards": a
\* parked request does not wait for ever.
ParkedRequestResumes == \A r \in Request : state[r] = "queued" ~> state[r] # "queued"

\* As long as the provider limits nobody, no save throws and the process does not
\* restart, every parked request gets its turn.  (A permit that a failed save leaked or
\* a restart made uncertain is never given back, and at MaxConcurrent = 1 nobody is
\* granted one again.)
UnlimitedRequestResumes ==
  \A r \in Request :
    state[r] = "queued" ~> state[r] # "queued" \/ limits > 0 \/ faults > 0 \/ crashes > 0
=============================================================================
