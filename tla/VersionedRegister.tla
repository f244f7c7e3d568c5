------------------------- MODULE VersionedRegister -------------------------
(***************************************************************************)
(* What ProjectStore promises of a versioned record, without files or locks:*)
(* a register whose content only grows by whole updates, one version each.  *)
(***************************************************************************)
EXTENDS Naturals

CONSTANT Update           \* the updates callers may make, each at most once

VARIABLE register         \* [version, value]: the updates the record contains

RegisterInit == register = [version |-> 0, value |-> {}]

Apply(u) ==
  /\ u \notin register.value
  /\ register' = [version |-> register.version + 1, value |-> register.value \cup {u}]

RegisterNext == \E u \in Update : Apply(u)

RegisterSpec == RegisterInit /\ [][RegisterNext]_register
=============================================================================
