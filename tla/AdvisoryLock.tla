---------------------------- MODULE AdvisoryLock ----------------------------
(***************************************************************************)
(* What a user of ProjectStore's advisory lock may rely on, without any of  *)
(* the files: one owner at a time; an owner acts on the record until it     *)
(* calls release; a lock leaves its path only when its owner released it or *)
(* is gone.  A release that fails may leave the lock in place forever.      *)
(***************************************************************************)
CONSTANTS
  Client,   \* processes
  None      \* no owner

VARIABLES
  owner,    \* whose lock is on the path
  active,   \* processes that hold it and have not called release
  gone      \* processes that died

lockVars == <<owner, active, gone>>

LockInit ==
  /\ owner = None
  /\ active = {}
  /\ gone \in SUBSET Client

Take(p) ==
  /\ owner = None /\ p \notin gone
  /\ owner' = p
  /\ active' = active \cup {p}
  /\ UNCHANGED gone

CallRelease(p) ==
  /\ p \in active
  /\ active' = active \ {p}
  /\ UNCHANGED <<owner, gone>>

\* The lock leaves the path: released by its owner, or taken from a dead one.
Leave ==
  /\ owner \in Client
  /\ owner \notin active
  /\ owner' = None
  /\ UNCHANGED <<active, gone>>

Die(p) ==
  /\ p \notin gone
  /\ gone' = gone \cup {p}
  /\ active' = active \ {p}
  /\ UNCHANGED owner

LockNext == Leave \/ \E p \in Client : Take(p) \/ CallRelease(p) \/ Die(p)

LockSpec == LockInit /\ [][LockNext]_lockVars
=============================================================================
