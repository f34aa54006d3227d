----------------------------- MODULE MCSyncEngine -----------------------------
(* Small instances of SyncEngine for TLC. *)
EXTENDS SyncEngine, TLC

CONSTANTS c1, c2, k1, k2, r1, r2, s1, s2, s3, s4

\* k1 in r1, k2 in r2 where there is an r2.
Resources == [k \in Key |-> IF k = k2 /\ r2 \in Resource THEN r2 ELSE r1]

\* s1 and s2 carry requests of c1, s3 of c2, s4 of the administrator.
Owners == [s \in Slot |-> IF s \in {s1, s2} THEN c1 ELSE IF s = s3 THEN c2 ELSE Admin]

\* c1 edits twice, c2 once.
Edits == [c \in Client |-> IF c = c1 THEN 2 ELSE 1]

\* c1 edits three times.
ThreeEdits == [c \in Client |-> 3]

\* The connections of c1 are interchangeable, and so are keys of one resource.
Interchangeable == Permutations({s1, s2}) \cup Permutations({k1, k2})
=============================================================================
