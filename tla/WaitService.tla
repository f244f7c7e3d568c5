----------------------------- MODULE WaitService -----------------------------
(***************************************************************************)
(* One durable wait (src/orchestration/wait-service.ts) over the sources of  *)
(* src/orchestration/wait-adapters.ts: a timer, or another run's record.     *)
(*                                                                         *)
(* Hosts in any process call reconcile.  The record is changed under its     *)
(* lock, one change a step; between the read that starts a reconcile, the    *)
(* change that dispatches it, the adapter's answer and the change that       *)
(* records it, other processes act.  An operation is dispatched once its id  *)
(* is in the record, and stays there until its answer is: the code calls     *)
(* that the witness.                                                        *)
(*                                                                         *)
(* A wait has at most two events, its creation and its end, so the bounds on *)
(* retained events, evidence and bytes do not come into play.                *)
(***************************************************************************)
EXTENDS Naturals, FiniteSets

CONSTANTS
  Caller,     \* calls of reconcile, each in a process of its own
  Nothing,
  Interval,   \* pollIntervalMs
  MaxTime,    \* bound: the clock
  MaxOps,     \* bound: operations dispatched
  MaxCrashes  \* bound: processes that die

ASSUME TimeAssumption == {Interval, MaxTime, MaxOps, MaxCrashes} \subseteq Nat /\ Nothing \notin Nat

Time     == 0..MaxTime
Ops      == 1..MaxOps
Ended    == {"satisfied", "failed", "unavailable", "stalled", "timed_out", "cancelled"}
Watched  == {"absent", "running", "paused", "failed", "complete"}

VARIABLES
  kind, poll, at, deadline, \* of the wait: its source, its policy, the timer's threshold, deadlineAt
  record,   \* the wait on disk: its lifecycle, updatedAt and the witness
  clock,
  watched,  \* the record of the run that is waited for
  call,      \* the calls: where each is, since when, its operation and the answer
  minted,   \* operation ids so far
  unsettled, \* history: operations that were dispatched and whose answer is not recorded
  crashes

policy   == <<kind, poll, at, deadline>>
waitVars   == <<policy, record, clock, watched, call, minted, unsettled, crashes>>

Idle == [pc |-> "idle", since |-> 0, op |-> Nothing, answer |-> "pending"]

\* What every variable holds.
WaitTypeOK ==
  /\ kind \in {"timer", "run"} /\ poll \in BOOLEAN /\ at \in Time
  /\ deadline \in Time \cup {Nothing}
  /\ record \in [life : {"absent", "pending"} \cup Ended, updatedAt : Time,
                 witness : Ops \cup {Nothing}]
  /\ clock \in Time /\ watched \in Watched
  /\ call \in [Caller -> [pc : {"idle", "due", "asking", "answered"}, since : Time,
                          op : Ops \cup {Nothing}, answer : {"pending"} \cup Ended]]
  /\ minted \in 0..MaxOps /\ unsettled \subseteq Ops /\ crashes \in 0..MaxCrashes

WaitInit ==
  /\ kind \in {"timer", "run"} /\ poll \in BOOLEAN /\ at \in Time /\ deadline \in Time \cup {Nothing}
  /\ record = [life |-> "absent", updatedAt |-> 0, witness |-> Nothing]
  /\ clock = 0 /\ watched \in {"absent", "running"}
  /\ call = [c \in Caller |-> Idle] /\ minted = 0 /\ unsettled = {} /\ crashes = 0

-----------------------------------------------------------------------------
(* Creation, cancellation, deadline.                                        *)

create ==
  /\ record.life = "absent"
  /\ record' = [record EXCEPT !.life = "pending", !.updatedAt = clock]
  /\ UNCHANGED <<policy, clock, watched, call, minted, unsettled, crashes>>

\* transition: a wait that has ended is not changed; the witness stays.
transition(life, time) ==
  /\ record.life = "pending"
  /\ record' = [record EXCEPT !.life = life, !.updatedAt = time]
  /\ UNCHANGED <<policy, clock, watched, minted, unsettled, crashes>>

cancel == transition("cancelled", clock) /\ UNCHANGED call

\* A deadline that is only looked at when nothing is in flight.
BadExpired == deadline # Nothing /\ clock >= deadline /\ record.witness = Nothing

\* The deadline is looked at before the witness is.
Expired == deadline # Nothing /\ clock >= deadline

Expire(c) ==
  /\ call[c].pc = "idle" /\ Expired /\ transition("timed_out", clock) /\ UNCHANGED call

-----------------------------------------------------------------------------
(* reconcile.                                                               *)

\* What reconcile wants of the record it reads.
Eligible ==
  /\ record.life = "pending" /\ ~Expired /\ record.witness = Nothing
  /\ poll => record.updatedAt + Interval <= clock

Begin(c) ==
  /\ call[c].pc = "idle" /\ Eligible
  /\ call' = [call EXCEPT ![c] = [Idle EXCEPT !.pc = "due", !.since = clock]]
  /\ UNCHANGED <<policy, record, clock, watched, minted, unsettled, crashes>>

\* A dispatch that trusts the record read before.
BadUnclaimed == record.life = "pending"

\* What is looked at again under the lock: no interval, no deadline.
Unclaimed == record.life = "pending" /\ record.witness = Nothing

\* The operation is recorded, then the adapter is asked; else not_pending or
\* reconcile_uncertain is thrown.
Dispatch(c) ==
  /\ call[c].pc = "due"
  /\ IF Unclaimed
     THEN /\ minted < MaxOps /\ minted' = minted + 1
          /\ record' = [record EXCEPT !.updatedAt = call[c].since, !.witness = minted']
          /\ call' = [call EXCEPT ![c].pc = "asking", ![c].op = minted']
          /\ unsettled' = unsettled \cup {minted'}
     ELSE call' = [call EXCEPT ![c] = Idle] /\ UNCHANGED <<record, minted, unsettled>>
  /\ UNCHANGED <<policy, clock, watched, crashes>>

\* What the two adapters may answer.  A run's record that is not there and one that cannot be
\* read are answered alike.
Observations ==
  IF kind = "timer" THEN {IF clock >= at THEN "satisfied" ELSE "pending"}
  ELSE {"unavailable",
        CASE watched = "absent"   -> "unavailable"
          [] watched = "running"  -> "pending"
          [] watched = "paused"   -> "stalled"
          [] watched = "failed"   -> "failed"
          [] watched = "complete" -> "satisfied"}

Ask(c) ==
  /\ call[c].pc = "asking"
  /\ \/ \E answer \in Observations :
          call' = [call EXCEPT ![c].pc = "answered", ![c].answer = answer]
     \* It threw: reconcile_uncertain, and the witness remains.
     \/ call' = [call EXCEPT ![c] = Idle]
  /\ UNCHANGED <<policy, record, clock, watched, minted, unsettled, crashes>>

\* The wait is still pending on this very operation.
Awaited(c) == record.witness = call[c].op /\ record.life = "pending"

\* The answer is recorded and the witness removed, or reconcile_uncertain is thrown.
Record(c) ==
  /\ call[c].pc = "answered" /\ call' = [call EXCEPT ![c] = Idle]
  /\ IF Awaited(c)
     THEN /\ record' = [life |-> call[c].answer, updatedAt |-> clock, witness |-> Nothing]
          /\ unsettled' = unsettled \ {call[c].op}
     ELSE UNCHANGED <<record, unsettled>>
  /\ UNCHANGED <<policy, clock, watched, minted, crashes>>

\* Another process holds the lock of the record: the call ends where it is.
Busy(c) ==
  /\ call[c].pc \in {"due", "answered"} /\ \E d \in Caller \ {c} : call[d].pc # "idle"
  /\ call' = [call EXCEPT ![c] = Idle]
  /\ UNCHANGED <<policy, record, clock, watched, minted, unsettled, crashes>>

-----------------------------------------------------------------------------
(* The world.                                                               *)

CallDies(c) ==
  /\ crashes < MaxCrashes /\ call[c].pc # "idle"
  /\ crashes' = crashes + 1 /\ call' = [call EXCEPT ![c] = Idle]
  /\ UNCHANGED <<policy, record, clock, watched, minted, unsettled>>

Tick ==
  /\ clock < MaxTime /\ clock' = clock + 1
  /\ UNCHANGED <<policy, record, watched, call, minted, unsettled, crashes>>

\* The run that is waited for starts, pauses, is resumed, ends.
RunGoesOn ==
  /\ kind = "run" /\ watched \notin {"failed", "complete"}
  /\ watched' \in (IF watched = "running" THEN {"paused", "failed", "complete"} ELSE {"running"})
  /\ UNCHANGED <<policy, record, clock, call, minted, unsettled, crashes>>

reconcile(c) == Expire(c) \/ Begin(c) \/ Dispatch(c) \/ Ask(c) \/ Record(c) \/ Busy(c)

WaitNext ==
  \/ create \/ cancel \/ Tick \/ RunGoesOn
  \/ \E c \in Caller : reconcile(c) \/ CallDies(c)

WaitSpec == WaitInit /\ [][WaitNext]_waitVars

\* Time passes, calls end, and hosts call reconcile at their own cadence.
WaitFairSpec == WaitSpec /\ WF_waitVars(Tick) /\ \A c \in Caller : WF_waitVars(reconcile(c))

-----------------------------------------------------------------------------
(* Properties.                                                              *)

\* An operation whose outcome is not on record is the only one, and the record names it:
\* nothing is dispatched while it is unknown whether the last one took effect, through
\* cancellations, the deadline, late answers, exceptions and deaths (wait-service.ts:288,
\* :297, :328).
UncertainIsWitnessed ==
  unsettled = IF record.witness = Nothing THEN {} ELSE {record.witness}

\* A wait that has ended stays as it ended: a late answer, the deadline and a
\* cancellation that race change it once (:328, :345).
EndIsFinal == [][record.life \in Ended => record'.life = record.life]_waitVars

\* A wait with a deadline within reach of the clock ends, an uncertain one too, as long
\* as hosts go on reconciling (:286).
DeadlineEndsTheWait == (record.life = "pending" /\ deadline # Nothing) ~> (record.life \in Ended)
=============================================================================
