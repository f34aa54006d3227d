------------------------------- MODULE MCRelay -------------------------------
(* Small instances of Relay for TLC. *)
EXTENDS Relay, TLC

CONSTANTS p1, p2, o1, o2, o3, o4, c1, c2, s1, s2, s3

\* o1, o2 and o3 are objects of p1, o4 of p2.
Pods == [o \in Session |-> IF o = o4 THEN p2 ELSE p1]

\* Unused objects of an instance, sockets and clients are interchangeable.
Interchangeable ==
  Permutations(Session \ {o4}) \cup Permutations(Sock) \cup Permutations(Client)
=============================================================================
