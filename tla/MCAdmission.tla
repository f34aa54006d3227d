---------------------------- MODULE MCAdmission ----------------------------
(* A small instance of Admission for TLC. *)
EXTENDS Admission, TLC, FiniteSets, Naturals

CONSTANTS
    MaxSeats    \* bound on the clients attached at the same time

SeatBound == Cardinality(seats) <= MaxSeats
Symmetry == Permutations(Claim) \cup Permutations(User) \cup Permutations(Session)
=============================================================================
