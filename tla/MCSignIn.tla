------------------------------ MODULE MCSignIn ------------------------------
(* A trip to Google of each kind and two requests at a time.                *)
EXTENDS SignIn, TLC
CONSTANTS a, b, s

\* The Google account has changed its address from a to b.
MCMail == s :> {a, b}
=============================================================================
