--------------------------- MODULE MCAuthSessions ---------------------------
(* Small instances of AuthSessions for TLC. *)
EXTENDS AuthSessions, TLC

\* Token ids and requests are interchangeable.
Interchangeable == Permutations(Token) \cup Permutations(Request)
=============================================================================
