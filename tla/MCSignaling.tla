---------------------------- MODULE MCSignaling ----------------------------
(* Two instances of the server and the peers of one shared session.  No    *)
(* definition tells the instances or the peers apart.                      *)
EXTENDS Signaling, TLC

Symmetric == Permutations(Inst) \cup Permutations(Peer)
=============================================================================
