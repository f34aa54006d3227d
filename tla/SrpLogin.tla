------------------------------- MODULE SrpLogin -------------------------------
(***************************************************************************)
(* The challenge between the two requests of a password login, for one     *)
(* address: srp-session.service.ts over a key-value store.  There is one   *)
(* key per address, which each /srp/init overwrites; /srp/verify reads it  *)
(* and deletes it in two calls.  The proofs are right ones: a proof fits   *)
(* the challenge it was made for and no other.                             *)
(***************************************************************************)
EXTENDS Naturals

CONSTANTS
  Request,      \* requests under way at a time
  MaxChallenge, \* BOUND: challenges handed out
  MaxExpiry     \* BOUND: expired keys

VARIABLES
  pending,   \* the key: the challenge stored under the address, 0 for none
  made,      \* challenges generated
  offered,   \* challenges whose client has the answer to its init
  step,      \* per request, where it is
  expired,   \* keys that expired, for the bound
  wins,      \* history: logins per challenge
  pipelined, \* history: challenges two verifies read before either deleted it
  disturbed, \* history: challenges replaced, deleted by another's verify, expired
  lost       \* history: challenges whose first verify failed

vars == <<pending, made, offered, step, expired, wins, pipelined, disturbed, lost>>

Challenge == 1..MaxChallenge
Idle == [at |-> "idle"]

Init ==
  /\ pending = 0 /\ made = 0 /\ offered = {} /\ expired = 0
  /\ step = [r \in Request |-> Idle]
  /\ wins = [n \in Challenge |-> 0]
  /\ pipelined = {} /\ disturbed = {} /\ lost = {}

\* begin: generate, then set.
Begin(r) ==
  /\ step[r].at = "idle" /\ made < MaxChallenge
  /\ made' = made + 1
  /\ step' = [step EXCEPT ![r] = [at |-> "store", n |-> made + 1]]
  /\ UNCHANGED <<pending, offered, expired, wins, pipelined, disturbed, lost>>

Store(r) ==
  /\ step[r].at = "store"
  /\ pending' = step[r].n
  /\ offered' = offered \cup {step[r].n}
  /\ disturbed' = disturbed \cup offered
  /\ step' = [step EXCEPT ![r] = Idle]
  /\ UNCHANGED <<made, expired, wins, pipelined, lost>>

Failed(n) == IF wins[n] = 0 THEN lost \cup {n} ELSE lost

\* verifyAndConsume, the get.
Read(r, n) ==
  /\ step[r].at = "idle" /\ n \in offered
  /\ IF pending = 0
     THEN lost' = Failed(n) /\ UNCHANGED <<step, pipelined>>
     ELSE /\ step' = [step EXCEPT ![r] = [at |-> "verify", n |-> n, stored |-> pending]]
          /\ pipelined' = pipelined \cup
               {m \in {n} : \E q \in Request : step[q].at = "verify" /\ step[q].n = n}
          /\ UNCHANGED lost
  /\ UNCHANGED <<pending, made, offered, expired, wins, disturbed>>

\* Fault variant: a successful verify leaves the key.
LeftWhenWrong(r) == IF step[r].stored = step[r].n THEN pending ELSE 0

\* What the del leaves under the key, whichever challenge is there by now.
Left(r) == 0

\* The del and deriveSession.
Verify(r) ==
  LET n == step[r].n IN
  /\ step[r].at = "verify"
  /\ pending' = Left(r)
  /\ disturbed' = disturbed \cup ({pending} \ {0, n})
  /\ IF step[r].stored = n
     THEN wins' = [wins EXCEPT ![n] = @ + 1] /\ UNCHANGED lost
     ELSE lost' = Failed(n) /\ UNCHANGED wins
  /\ step' = [step EXCEPT ![r] = Idle]
  /\ UNCHANGED <<made, offered, expired, pipelined>>

Expire ==
  /\ pending # 0 /\ expired < MaxExpiry
  /\ pending' = 0 /\ expired' = expired + 1
  /\ disturbed' = disturbed \cup {pending}
  /\ UNCHANGED <<made, offered, step, wins, pipelined, lost>>

Next ==
  \/ \E r \in Request : Begin(r) \/ Store(r) \/ Verify(r) \/ \E n \in Challenge : Read(r, n)
  \/ Expire

Spec == Init /\ [][Next]_vars

-----------------------------------------------------------------------------
TypeOK ==
  /\ pending \in 0..MaxChallenge /\ made \in 0..MaxChallenge /\ expired \in 0..MaxExpiry
  /\ offered \subseteq Challenge /\ pipelined \subseteq Challenge
  /\ disturbed \subseteq Challenge /\ lost \subseteq Challenge
  /\ wins \in [Challenge -> Nat]
  /\ step \in [Request -> {Idle} \cup [at : {"store"}, n : Challenge]
                                 \cup [at : {"verify"}, n : Challenge, stored : Challenge]]

\* A proof signs in once, unless two verifies with it read the challenge before
\* either deleted it; and it signs in, unless another login of the address came
\* between its two requests or the challenge expired.
ChallengesAreOneShot ==
  /\ \A n \in Challenge : wins[n] <= 1 \/ n \in pipelined
  /\ lost \subseteq disturbed
=============================================================================
