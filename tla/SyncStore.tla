------------------------------ MODULE SyncStore ------------------------------
(***************************************************************************)
(* What one user's sync store promises its readers, with no transactions,  *)
(* locks, clients or retries.  A user has one version counter and one row  *)
(* per key.  A committed batch moves the counter forward and stamps every  *)
(* row it touched with a version of its own, never used before.  A reader  *)
(* who knows everything up to the counter therefore learns everything that *)
(* happened since by asking for the rows above it.                         *)
(***************************************************************************)
EXTENDS Integers

CONSTANT Key         \* the (resource, entityId) pairs

VARIABLES version,   \* the version each row carries, 0 where there is no row
          current    \* the user's version counter

vars == <<version, current>>

Init ==
  /\ version = [k \in Key |-> 0]
  /\ current = 0

\* The rows a step re-stamps.
Touched == {k \in Key : version'[k] # version[k]}

\* One batch becomes visible at once: fresh versions, one per touched row, and
\* the counter is exactly the newest of them, so that no reader who stores the
\* counter as a cursor can have claimed a version that is still to be written.
CommitBatch ==
  /\ version' \in [Key -> Int]
  /\ \A k \in Touched : version'[k] > current /\ version'[k] <= current'
  /\ \A j, k \in Touched : version'[j] = version'[k] => j = k
  /\ \E k \in Touched : version'[k] = current'

Spec == Init /\ [][CommitBatch]_vars
=============================================================================
