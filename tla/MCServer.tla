------------------------------ MODULE MCServer ------------------------------
(* Two instances, the second with a clock that is ahead by one.             *)
EXTENDS Server, TLC
CONSTANTS first, second

\* One request of an account, and two refreshes, in a window.
MCMaxHits == ("credentials" :> 1) @@ ("refresh" :> 2)

MCAhead == (first :> 0) @@ (second :> 1)
=============================================================================
