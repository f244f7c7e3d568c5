-------------------------- MODULE MCVersionedLock --------------------------
(* Small instances of VersionedLock.                                        *)
EXTENDS VersionedLock, TLC

CONSTANTS p1, p2, p3

\* What an earlier run left on lockPath.
StaleLock   == [kind |-> "versioned", pid |-> Gone]
OnlyStale   == {StaleLock}
AnyLeftover == {NoLock, StaleLock, [kind |-> "empty", pid |-> Gone],
                [kind |-> "legacy", pid |-> Gone]}

=============================================================================
