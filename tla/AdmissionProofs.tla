-------------------------- MODULE AdmissionProofs --------------------------
(***************************************************************************)
(* Proofs about Admission for any accounts, invites and claims.  The       *)
(* inductive invariant ties the three parts together: a row to its winner, *)
(* a winner to what it holds, a seat to the winner it came from.           *)
(***************************************************************************)
EXTENDS Admission, TLAPS

\* What WinnerMatchesRow promises of a single-use invite the code does with
\* every one, for no statement of a claim asks for single_use.
RowMatchesWinners ==
    \A i \in Invite :
        /\ \A c, d \in Winners(i) : c = d
        /\ status[i] = "consumed" <=> Winners(i) # {}

\* A claim past its signature holds what its claimant needs to attach.
Entitled ==
    \A c \in Claim :
        pc[c] = "consuming" \/ Won(c) => (c \in minted \/ (~tokens /\ ~Anonymous(c)))

\* A revocation that was answered left the row where no claim can take it.
RevokedRows ==
    \A i \in Invite :
        /\ revoke[i] # "idle" => status[i] # "none"
        /\ revoke[i] = "done" => status[i] \in {"consumed", "revoked"}

\* session.clients is a function of the connection id.
OneSeatPerId == \A x, y \in seats : x.room = y.room /\ x.conn = y.conn => x = y

\* An anonymous joiner sits where its claim won a place, under the claim's id.
AnonymousSeats ==
    \A x \in seats : x.user \in Claim =>
        Won(x.user) /\ x.conn = x.user /\ x.room = room[target[x.user]]

AInv == /\ TypeOK
        /\ RowMatchesWinners
        /\ Entitled
        /\ RevokedRows
        /\ OneSeatPerId
        /\ AnonymousSeats
        /\ GuestsHoldAnInvite

-----------------------------------------------------------------------------
(* The three attaches come to one: who takes which place, by which right.   *)

Attaches(r, id, who) ==
    /\ Sit(r, id, who)
    /\ who = r[1] \/ \E c \in Claim : Won(c) /\ joiner[c] = who /\ room[target[c]] = r
    /\ who \in Claim => Won(who) /\ id = who /\ room[target[who]] = r
    /\ UNCHANGED <<tokens, rows, lapsed, revoke, claims>>

LEMMA WinnersRoom ==
    ASSUME TypeOK, RowMatchesWinners, NEW c \in Claim, Won(c)
    PROVE  status[target[c]] = "consumed" /\ room[target[c]] \in Room
<1>1. target[c] \in Invite /\ c \in Winners(target[c])
    BY DEF TypeOK, Winners
<1> QED BY <1>1 DEF TypeOK, RowMatchesWinners

\* A claim's token leads to the room of its invite and to no other.
LEMMA TokenRoom ==
    ASSUME TypeOK, RowMatchesWinners, NEW c \in Claim, Won(c),
           NEW s \in Session, s = room[target[c]][2]
    PROVE  /\ <<room[target[c]][1], s>> = room[target[c]]
           /\ room[target[c]] \in Room
<1>1. room[target[c]] \in User \X Session
    BY WinnersRoom DEF Room
<1> QED BY <1>1 DEF Room

LEMMA AttachSteps ==
    ASSUME TypeOK, RowMatchesWinners, RelayStep
    PROVE  \/ \E r \in Room, id \in Claim \cup Random, who \in Joiner : Attaches(r, id, who)
           \/ \E x \in seats : Detach(x)
<1>1. ASSUME NEW u \in User, NEW s \in Session, NEW id \in Claim \cup Random,
             AttachOwn(u, s, id)
      PROVE \E r \in Room, who \in Joiner : Attaches(r, id, who)
  <2>1. <<u, s>> \in Room /\ u \in Joiner /\ u \notin Claim /\ <<u, s>>[1] = u
      BY NamesDistinct DEF Room, Joiner
  <2>2. Attaches(<<u, s>>, id, u)
      BY <1>1, <2>1 DEF AttachOwn, Attaches
  <2> QED BY <2>1, <2>2
<1>2. ASSUME NEW u \in User, NEW s \in Session, NEW c \in Claim,
             NEW id \in Claim \cup Random, AttachSignedIn(u, s, c, id)
      PROVE \E r \in Room, who \in Joiner : Attaches(r, id, who)
  <2>1. Won(c) /\ s = room[target[c]][2] /\ joiner[c] = u
      BY <1>2 DEF AttachSignedIn, Usable, Won
  <2>2. <<room[target[c]][1], s>> = room[target[c]] /\ room[target[c]] \in Room
      BY <2>1, TokenRoom
  <2>3. Sit(room[target[c]], id, u) /\ UNCHANGED <<tokens, rows, lapsed, revoke, claims>>
      BY <1>2, <2>2 DEF AttachSignedIn
  <2> QED BY <2>1, <2>2, <2>3, NamesDistinct DEF Attaches, Joiner
<1>3. ASSUME NEW s \in Session, NEW c \in Claim,
             NEW id \in Claim \cup Random, AttachAnonymous(s, c, id)
      PROVE \E r \in Room, who \in Joiner : Attaches(r, id, who)
  <2>1. Won(c) /\ s = room[target[c]][2] /\ joiner[c] = c /\ id = c
      BY <1>3 DEF AttachAnonymous, Usable, Won, Anonymous
  <2>2. <<room[target[c]][1], s>> = room[target[c]] /\ room[target[c]] \in Room
      BY <2>1, TokenRoom
  <2>3. Sit(room[target[c]], id, c) /\ UNCHANGED <<tokens, rows, lapsed, revoke, claims>>
      BY <1>3, <2>1, <2>2 DEF AttachAnonymous
  <2> QED BY <2>1, <2>2, <2>3 DEF Attaches, Joiner
<1>4. SUFFICES ASSUME ~ \E x \in seats : Detach(x)
               PROVE  \E id \in Claim \cup Random, r \in Room, who \in Joiner : Attaches(r, id, who)
    OBVIOUS
<1> QED BY <1>1, <1>2, <1>3, <1>4 DEF RelayStep

-----------------------------------------------------------------------------
(* The types. *)

LEMMA TypesHold == TypeOK /\ RowMatchesWinners /\ [Next]_vars => TypeOK'
<1> SUFFICES ASSUME TypeOK, RowMatchesWinners, [Next]_vars PROVE TypeOK'
    OBVIOUS
<1>1. ASSUME NEW i \in Invite, NEW r \in Room, NEW once \in BOOLEAN, Create(i, r, once)
      PROVE TypeOK'
    BY <1>1 DEF TypeOK, Create, claims
<1>2. ASSUME NEW i \in Invite, RevokeRead(i) PROVE TypeOK'
    BY <1>2 DEF TypeOK, RevokeRead, rows, claims
<1>3. ASSUME NEW i \in Invite, RevokeUpdate(i) PROVE TypeOK'
    BY <1>3 DEF TypeOK, RevokeUpdate, claims
<1>4. ASSUME NEW c \in Claim, NEW i \in Invite, NEW who \in User \cup {c},
             NEW h \in BOOLEAN, Lookup(c, i, who, h)
      PROVE TypeOK'
  <2>1. LookupOutcome(c, i, who, h) \in {"signing", "consuming", "refused"}
        /\ (LookupOutcome(c, i, who, h) = "signing" => tokens)
      BY DEF LookupOutcome
  <2>2. /\ pc' \in [Claim -> {"idle", "signing", "consuming", "won"} \cup Ended]
        /\ target' \in [Claim -> Invite]
        /\ joiner' \in [Claim -> Joiner]
        /\ \A d \in Claim : joiner'[d] \in User \cup {d}
      BY <1>4, <2>1 DEF TypeOK, Lookup, Ended, Joiner
  <2>3. \A d \in Claim : pc'[d] = "signing" \/ d \in minted' => tokens'
      BY <1>4, <2>1 DEF TypeOK, Lookup
  <2> QED BY <1>4, <2>2, <2>3 DEF TypeOK, Lookup, rows
<1>5. ASSUME NEW c \in Claim, Sign(c) PROVE TypeOK'
    BY <1>5 DEF TypeOK, Sign, rows
<1>6. ASSUME NEW c \in Claim, Fail(c) PROVE TypeOK'
    BY <1>6 DEF TypeOK, Fail, rows, Ended
<1>7. ASSUME NEW c \in Claim, Consume(c) PROVE TypeOK'
  <2>1. target[c] \in Invite
      BY DEF TypeOK
  <2> QED BY <1>7, <2>1 DEF TypeOK, Consume, Ended
<1>8. ASSUME NEW c \in Claim, Answer(c) PROVE TypeOK'
    BY <1>8 DEF TypeOK, Answer, rows, Ended
<1>9. CASE RelayStep
  <2>1. ASSUME NEW r \in Room, NEW id \in Claim \cup Random, NEW who \in Joiner,
               Attaches(r, id, who)
        PROVE seats' \subseteq Seats /\ UNCHANGED <<tokens, rows, lapsed, revoke, claims>>
      BY <2>1 DEF TypeOK, Attaches, Sit, Seats
  <2>2. ASSUME NEW x \in seats, Detach(x)
        PROVE seats' \subseteq Seats /\ UNCHANGED <<tokens, rows, lapsed, revoke, claims>>
      BY <2>2 DEF TypeOK, Detach
  <2>3. seats' \subseteq Seats /\ UNCHANGED <<tokens, rows, lapsed, revoke, claims>>
      BY <1>9, <2>1, <2>2, AttachSteps
  <2> QED BY <2>3 DEF TypeOK, rows, claims
<1>10. CASE ClockStep
    BY <1>10 DEF TypeOK, ClockStep, Lapse, rows, claims
<1>11. CASE UNCHANGED vars
    BY <1>11 DEF TypeOK, vars, rows, claims
<1> QED BY <1>1, <1>2, <1>3, <1>4, <1>5, <1>6, <1>7, <1>8, <1>9, <1>10, <1>11
        DEF Next, OwnerStep, ClaimStep

-----------------------------------------------------------------------------
(* A row and its winner. *)

\* A step leaves the winners of an invite alone, or gives the active row its
\* first and only one.
RowStep(i) ==
    \/ /\ Winners(i)' = Winners(i)
       /\ \/ status'[i] = status[i]
          \/ status[i] = "none" /\ status'[i] = "active"
          \/ status[i] = "active" /\ status'[i] = "revoked"
    \/ /\ Winners(i) = {} /\ status[i] = "active" /\ status'[i] = "consumed"
       /\ \E c \in Claim : Winners(i)' = {c}

LEMMA RowSteps ==
    ASSUME TypeOK, RowMatchesWinners, [Next]_vars
    PROVE  \A i \in Invite : RowStep(i)
<1> TAKE i \in Invite
<1>1. ASSUME UNCHANGED <<pc, target>> PROVE Winners(i)' = Winners(i)
    BY <1>1 DEF Winners, Won
<1>2. ASSUME NEW j \in Invite, NEW r \in Room, NEW once \in BOOLEAN, Create(j, r, once)
      PROVE RowStep(i)
    BY <1>1, <1>2 DEF TypeOK, Create, RowStep, claims
<1>3. ASSUME NEW j \in Invite, RevokeRead(j) PROVE RowStep(i)
    BY <1>1, <1>3 DEF RevokeRead, RowStep, claims, rows
<1>4. ASSUME NEW j \in Invite, RevokeUpdate(j) PROVE RowStep(i)
    BY <1>1, <1>4 DEF TypeOK, RevokeUpdate, RowStep, claims
<1>5. ASSUME NEW c \in Claim, NEW j \in Invite, NEW who \in User \cup {c},
             NEW h \in BOOLEAN, Lookup(c, j, who, h)
      PROVE RowStep(i)
  <2>1. LookupOutcome(c, j, who, h) \notin {"won", "unheard", "answered"}
      BY DEF LookupOutcome
  <2>2. \A d \in Claim : (Won(d)' /\ target'[d] = i) <=> (Won(d) /\ target[d] = i)
      BY <1>5, <2>1 DEF TypeOK, Lookup, Won
  <2>3. Winners(i)' = Winners(i)
      BY <2>2 DEF Winners
  <2> QED BY <1>5, <2>3 DEF Lookup, RowStep, rows
<1>6. ASSUME NEW c \in Claim, Sign(c) \/ Fail(c) \/ Answer(c) PROVE RowStep(i)
  <2>1. \A d \in Claim : Won(d)' <=> Won(d)
      BY <1>6 DEF TypeOK, Sign, Fail, Answer, Won
  <2>2. target' = target /\ status' = status
      BY <1>6 DEF Sign, Fail, Answer, rows
  <2>3. Winners(i)' = Winners(i)
      BY <2>1, <2>2 DEF Winners
  <2> QED BY <2>2, <2>3 DEF RowStep
<1>7. ASSUME NEW c \in Claim, Consume(c) PROVE RowStep(i)
  <2> DEFINE wins == status[target[c]] = "active"
  <2>1. target' = target /\ target[c] \in Invite
      BY <1>7 DEF TypeOK, Consume
  <2>2. \A d \in Claim : Won(d)' <=> Won(d) \/ (d = c /\ wins)
      BY <1>7 DEF TypeOK, Consume, Won
  <2>3. CASE wins /\ target[c] = i
    <3>1. Winners(i) = {}
        BY <2>3 DEF RowMatchesWinners
    <3>2. Winners(i)' = {c}
        BY <3>1, <2>1, <2>2, <2>3 DEF Winners
    <3> QED BY <1>7, <2>3, <3>1, <3>2 DEF TypeOK, Consume, RowStep
  <2>4. CASE ~(wins /\ target[c] = i)
    <3>1. Winners(i)' = Winners(i)
        BY <2>1, <2>2, <2>4 DEF Winners
    <3>2. status'[i] = status[i]
        BY <1>7, <2>1, <2>4 DEF TypeOK, Consume
    <3> QED BY <3>1, <3>2 DEF RowStep
  <2> QED BY <2>3, <2>4
<1>8. CASE RelayStep
  <2>1. UNCHANGED <<rows, claims>>
      BY <1>8, AttachSteps DEF Attaches, Detach
  <2> QED BY <2>1, <1>1 DEF RowStep, rows, claims
<1>9. CASE ClockStep
    BY <1>1, <1>9 DEF ClockStep, Lapse, RowStep, rows, claims
<1>10. CASE UNCHANGED vars
    BY <1>1, <1>10 DEF vars, RowStep, rows, claims
<1> QED BY <1>2, <1>3, <1>4, <1>5, <1>6, <1>7, <1>8, <1>9, <1>10
        DEF Next, OwnerStep, ClaimStep

LEMMA WinnersHold == TypeOK /\ RowMatchesWinners /\ [Next]_vars => RowMatchesWinners'
<1> SUFFICES ASSUME TypeOK, RowMatchesWinners, [Next]_vars, NEW i \in Invite
             PROVE  /\ \A c, d \in Winners(i)' : c = d
                    /\ status'[i] = "consumed" <=> Winners(i)' # {}
    BY DEF RowMatchesWinners
<1>1. RowStep(i)
    BY RowSteps
<1> QED BY <1>1 DEF RowStep, RowMatchesWinners

\* What a claim won stays won: the identity, the invite and its room.
LEMMA WinsLast ==
    ASSUME TypeOK, RowMatchesWinners, [Next]_vars,
           NEW c \in Claim, NEW i \in Invite, Won(c), target[c] = i
    PROVE  /\ Won(c)' /\ target'[c] = i /\ joiner'[c] = joiner[c]
           /\ room'[i] = room[i]
           /\ Winners(i)' = {c} /\ Winners(i) = {c}
<1>1. status[i] = "consumed"
    BY WinnersRoom
<1>2. Winners(i) = {c}
    BY <1>1 DEF RowMatchesWinners, Winners
<1>3. RowStep(i)
    BY RowSteps
<1>4. Winners(i)' = {c}
    BY <1>1, <1>2, <1>3 DEF RowStep
<1>5. Won(c)' /\ target'[c] = i
    BY <1>4 DEF Winners
<1>6. joiner'[c] = joiner[c]
  <2>1. ASSUME NEW d \in Claim, NEW j \in Invite, NEW who \in User \cup {d},
               NEW h \in BOOLEAN, Lookup(d, j, who, h)
        PROVE joiner'[c] = joiner[c]
      BY <2>1 DEF TypeOK, Lookup, Won
  <2>2. CASE RelayStep
      BY <2>2, AttachSteps DEF Attaches, Detach, claims
  <2> QED BY <2>1, <2>2 DEF Next, OwnerStep, ClaimStep, ClockStep, Lapse, Create, RevokeRead,
             RevokeUpdate, Sign, Fail, Consume, Answer, vars, claims
<1>7. room'[i] = room[i]
  <2>1. ASSUME NEW j \in Invite, NEW r \in Room, NEW once \in BOOLEAN, Create(j, r, once)
        PROVE room'[i] = room[i]
      BY <2>1, <1>1 DEF TypeOK, Create
  <2>2. CASE RelayStep
      BY <2>2, AttachSteps DEF Attaches, Detach, rows
  <2> QED BY <2>1, <2>2 DEF Next, OwnerStep, ClaimStep, ClockStep, Lapse, RevokeRead,
             RevokeUpdate, Lookup, Sign, Fail, Consume, Answer, vars, rows
<1> QED BY <1>2, <1>4, <1>5, <1>6, <1>7

-----------------------------------------------------------------------------
(* The other parts of the invariant. *)

LEMMA EntitledHolds == TypeOK /\ RowMatchesWinners /\ Entitled /\ [Next]_vars => Entitled'
<1> SUFFICES ASSUME TypeOK, RowMatchesWinners, Entitled, [Next]_vars PROVE Entitled'
    OBVIOUS
<1>1. ASSUME UNCHANGED <<tokens, claims>> PROVE Entitled'
    BY <1>1 DEF Entitled, Won, Anonymous, claims
<1>2. ASSUME NEW c \in Claim, NEW i \in Invite, NEW who \in User \cup {c},
             NEW h \in BOOLEAN, Lookup(c, i, who, h)
      PROVE Entitled'
  <2>1. /\ LookupOutcome(c, i, who, h) \notin {"won", "unheard", "answered"}
        /\ LookupOutcome(c, i, who, h) = "consuming" => ~tokens /\ who # c
      BY DEF LookupOutcome
  <2> QED BY <1>2, <2>1 DEF TypeOK, Lookup, Entitled, Won, Anonymous
<1>3. ASSUME NEW c \in Claim, Sign(c) PROVE Entitled'
    BY <1>3 DEF TypeOK, Sign, Entitled, Won, Anonymous
<1>4. ASSUME NEW c \in Claim, Fail(c) PROVE Entitled'
    BY <1>4 DEF TypeOK, Fail, Entitled, Won, Anonymous
<1>5. ASSUME NEW c \in Claim, Consume(c) PROVE Entitled'
    BY <1>5 DEF TypeOK, Consume, Entitled, Won, Anonymous
<1>6. ASSUME NEW c \in Claim, Answer(c) PROVE Entitled'
    BY <1>6 DEF TypeOK, Answer, Entitled, Won, Anonymous
<1>7. CASE RelayStep
    BY <1>1, <1>7, AttachSteps DEF Attaches, Detach
<1> QED BY <1>1, <1>2, <1>3, <1>4, <1>5, <1>6, <1>7
        DEF Next, OwnerStep, ClaimStep, ClockStep, Create, RevokeRead, RevokeUpdate, Lapse, vars

LEMMA RevokedRowsHold ==
    TypeOK /\ RowMatchesWinners /\ RevokedRows /\ [Next]_vars => RevokedRows'
<1> SUFFICES ASSUME TypeOK, RowMatchesWinners, RevokedRows, [Next]_vars
             PROVE  RevokedRows'
    OBVIOUS
<1>1. \A i \in Invite : RowStep(i)
    BY RowSteps
<1>2. CASE UNCHANGED revoke
    BY <1>1, <1>2 DEF RevokedRows, RowStep
<1>3. ASSUME NEW j \in Invite, RevokeRead(j) PROVE RevokedRows'
    BY <1>3 DEF TypeOK, RevokedRows, RevokeRead, rows
<1>4. ASSUME NEW j \in Invite, RevokeUpdate(j) PROVE RevokedRows'
    BY <1>4 DEF TypeOK, RevokedRows, RevokeUpdate
<1>5. CASE RelayStep
    BY <1>2, <1>5, AttachSteps DEF Attaches, Detach
<1> QED BY <1>2, <1>3, <1>4, <1>5 DEF Next, OwnerStep, ClaimStep, ClockStep, Create,
           Lookup, Sign, Fail, Consume, Answer, Lapse, vars

LEMMA SeatsHold == AInv /\ [Next]_vars => OneSeatPerId' /\ AnonymousSeats' /\ GuestsHoldAnInvite'
<1> SUFFICES ASSUME AInv, [Next]_vars
             PROVE  OneSeatPerId' /\ AnonymousSeats' /\ GuestsHoldAnInvite'
    OBVIOUS
<1> USE DEF AInv
<1> DEFINE Anon(x) == x.user \in Claim =>
               Won(x.user) /\ x.conn = x.user /\ x.room = room[target[x.user]]
           Guest(x) == x.user # x.room[1] =>
               \E i \in Invite, c \in Claim :
                   c \in Winners(i) /\ room[i] = x.room /\ joiner[c] = x.user
\* A seat that is kept keeps its right.
<1>1. ASSUME NEW x \in seats PROVE Anon(x)' /\ Guest(x)'
  <2>1. Anon(x)'
    <3>1. SUFFICES ASSUME x.user \in Claim
                   PROVE  Won(x.user)' /\ x.conn = x.user /\ x.room = room'[target'[x.user]]
        OBVIOUS
    <3>2. Won(x.user) /\ x.conn = x.user /\ x.room = room[target[x.user]]
        BY <3>1 DEF AnonymousSeats
    <3>3. target[x.user] \in Invite
        BY <3>1 DEF TypeOK
    <3> QED BY <3>1, <3>2, <3>3, WinsLast
  <2>2. Guest(x)'
    <3>1. SUFFICES ASSUME x.user # x.room[1] PROVE Guest(x)'
        OBVIOUS
    <3>2. PICK i \in Invite, c \in Claim :
              c \in Winners(i) /\ room[i] = x.room /\ joiner[c] = x.user
        BY <3>1 DEF GuestsHoldAnInvite
    <3>3. Won(c) /\ target[c] = i
        BY <3>2 DEF Winners
    <3>4. c \in Winners(i)' /\ room'[i] = x.room /\ joiner'[c] = x.user
        BY <3>2, <3>3, WinsLast
    <3> QED BY <3>4
  <2> QED BY <2>1, <2>2
<1>2. CASE seats' \subseteq seats
    BY <1>1, <1>2 DEF OneSeatPerId, AnonymousSeats, GuestsHoldAnInvite
<1>3. ASSUME NEW r \in Room, NEW id \in Claim \cup Random, NEW who \in Joiner,
             Attaches(r, id, who)
      PROVE OneSeatPerId' /\ AnonymousSeats' /\ GuestsHoldAnInvite'
  <2> DEFINE new == [room |-> r, conn |-> id, user |-> who]
  <2>1. seats' = {x \in seats : ~(x.room = r /\ x.conn = id)} \cup {new}
      BY <1>3 DEF Attaches, Sit
  <2>2. new.room = r /\ new.conn = id /\ new.user = who
      OBVIOUS
  <2>3. OneSeatPerId'
      BY <2>1, <2>2 DEF OneSeatPerId
  <2>4. UNCHANGED <<room, pc, target, joiner>>
      BY <1>3 DEF Attaches, rows, claims
  <2>5. Anon(new)'
      BY <1>3, <2>2, <2>4 DEF Attaches, Won
  <2>6. Guest(new)'
    <3>1. SUFFICES ASSUME who # r[1] PROVE Guest(new)'
        BY <2>2
    <3>2. PICK c \in Claim : Won(c) /\ joiner[c] = who /\ room[target[c]] = r
        BY <1>3, <3>1 DEF Attaches
    <3>3. target[c] \in Invite
        BY DEF TypeOK
    <3>4. PICK i \in Invite : i = target[c]
        BY <3>3
    <3>5. c \in Winners(i)' /\ room'[i] = r /\ joiner'[c] = who
        BY <3>2, <3>4, WinsLast
    <3> QED BY <3>5, <2>2
  <2>7. ASSUME NEW x \in seats' PROVE Anon(x)' /\ Guest(x)'
      BY <1>1, <2>1, <2>5, <2>6
  <2>8. AnonymousSeats' /\ GuestsHoldAnInvite'
      BY <2>7 DEF AnonymousSeats, GuestsHoldAnInvite
  <2> QED BY <2>3, <2>8
<1>4. CASE RelayStep
    BY <1>2, <1>3, <1>4, AttachSteps DEF Detach
<1> QED BY <1>2, <1>4 DEF Next, OwnerStep, ClaimStep, ClockStep, Create, RevokeRead,
           RevokeUpdate, Lookup, Sign, Fail, Consume, Answer, Lapse, vars

LEMMA AInvHolds == Spec => []AInv
<1>1. Init => AInv
    BY DEF Init, AInv, TypeOK, RowMatchesWinners, Winners, Won, Entitled, RevokedRows,
           OneSeatPerId, AnonymousSeats, GuestsHoldAnInvite, Joiner
<1>2. AInv /\ [Next]_vars => AInv'
    BY TypesHold, WinnersHold, EntitledHolds, RevokedRowsHold, SeatsHold DEF AInv
<1> QED BY <1>1, <1>2, PTL DEF Spec

-----------------------------------------------------------------------------
(* The types of the state, for any accounts, sessions, invites and claims;  *)
(* a token is signed only where the deployment has a secret for it.         *)
THEOREM AdmissionTypes == Spec => []TypeOK
<1>1. AInv => TypeOK
    BY DEF AInv
<1> QED BY <1>1, AInvHolds, PTL

(* claim and revoke, in any number and order: a single-use invite has at    *)
(* most one winner, and its row reads consumed exactly when it has one.     *)
THEOREM InvitesHaveOneWinner == Spec => []WinnerMatchesRow
<1>1. AInv => WinnerMatchesRow
    BY DEF AInv, TypeOK, RowMatchesWinners, WinnerMatchesRow
<1> QED BY <1>1, AInvHolds, PTL

(* claim signs before it consumes: no invite is spent on a claimant who has *)
(* nothing to attach with.                                                  *)
THEOREM WinnersCanJoin == Spec => []WinnerCanJoin
<1>1. AInv => WinnerCanJoin
    BY DEF AInv, Entitled, WinnerCanJoin
<1> QED BY <1>1, AInvHolds, PTL

(* resolveRelayIdentity: a guest in a room has won an invite to it, under   *)
(* the identity of the claim.                                               *)
THEOREM GuestsAreInvited == Spec => []GuestsHoldAnInvite
<1>1. AInv => GuestsHoldAnInvite
    BY DEF AInv
<1> QED BY <1>1, AInvHolds, PTL

(* resolveAnonymous: an anonymous joiner never holds two places.            *)
THEOREM AnonymousSitOnce == Spec => []AnonymousOneSeat
<1>1. AInv => AnonymousOneSeat
    BY DEF AInv, AnonymousSeats, OneSeatPerId, AnonymousOneSeat
<1> QED BY <1>1, AInvHolds, PTL

(* revoke: an invite whose revocation was answered admits no new guest.     *)
THEOREM RevocationHolds == Spec => RevokeHolds
<1>1. AInv /\ [Next]_vars =>
          [\A i \in Invite : revoke[i] = "done" => Winners(i)' = Winners(i)]_vars
    BY RowSteps DEF AInv, RevokedRows, RowStep
<1> QED BY <1>1, AInvHolds, PTL DEF Spec, RevokeHolds

-----------------------------------------------------------------------------
(* Admission implements Invitations. *)

\* What is offered, and to whom, as Invitations sees it.
Taken(i) == {joiner[c] : c \in Winners(i)}

LEMMA TakenKept ==
    ASSUME AInv, [Next]_vars, NEW i \in Invite, Winners(i)' = Winners(i)
    PROVE  Taken(i)' = Taken(i)
<1>1. \A c \in Winners(i) : joiner'[c] = joiner[c]
    BY WinsLast DEF AInv, Winners
<1> QED BY <1>1 DEF Taken

LEMMA TakenNot ==
    ASSUME AInv, NEW i \in Invite, status[i] # "consumed"
    PROVE  Taken(i) = {}
BY DEF AInv, RowMatchesWinners, Taken

\* A step after which the same is offered to the same: guests may come and go.
LEMMA SameOffers ==
    ASSUME AInv, [Next]_vars, UNCHANGED <<status, room, single, Answered>>,
           \A x \in seats' \ seats :
               x.user # x.room[1] => \E i \in Invite : x.user \in Taken(i) /\ x.room = room[i]
    PROVE  Promised!ComeAndGo
<1>1. \A i \in Invite : Winners(i)' = Winners(i)
  <2> TAKE i \in Invite
  <2>1. RowStep(i)
      BY RowSteps DEF AInv
  <2> QED BY <2>1 DEF RowStep
<1>2. \A i \in Invite : Taken(i)' = Taken(i)
    BY <1>1, TakenKept
<1>3. States' = States
    BY DEF States
<1>4. Guests = [i \in Invite |-> Taken(i)] /\ Guests' = [i \in Invite |-> Taken(i)']
    BY DEF Guests, Taken
<1>5. Guests' = Guests
    BY <1>2, <1>4
<1>6. \A x \in Present' \ Present : \E i \in Invite : x[1] \in Guests[i] /\ x[2] = room[i]
  <2> SUFFICES ASSUME NEW x \in Present', x \notin Present
               PROVE  \E i \in Invite : x[1] \in Guests[i] /\ x[2] = room[i]
      OBVIOUS
  <2>1. PICK y \in seats' : y.user # y.room[1] /\ x = <<y.user, y.room>>
      BY DEF Present
  <2>2. y \notin seats
      BY <2>1 DEF Present
  <2>3. PICK i \in Invite : y.user \in Taken(i) /\ y.room = room[i]
      BY <2>1, <2>2
  <2> QED BY <1>4, <2>1, <2>3
<1> QED BY <1>3, <1>5, <1>6 DEF Promised!ComeAndGo, Promised!offers

\* A place that is taken anew is the host's own or that of an invite's winner.
LEMMA RelayOffers ==
    ASSUME AInv, [Next]_vars, RelayStep
    PROVE  Promised!ComeAndGo
<1> USE DEF AInv
<1>1. UNCHANGED <<status, room, single, Answered>>
    BY AttachSteps DEF Attaches, Detach, rows, Answered
<1>2. ASSUME NEW r \in Room, NEW id \in Claim \cup Random, NEW who \in Joiner,
             Attaches(r, id, who), NEW x \in seats' \ seats, x.user # x.room[1]
      PROVE  \E i \in Invite : x.user \in Taken(i) /\ x.room = room[i]
  <2>1. x.room = r /\ x.user = who
      BY <1>2 DEF Attaches, Sit
  <2>2. PICK c \in Claim : Won(c) /\ joiner[c] = who /\ room[target[c]] = r
      BY <1>2, <2>1 DEF Attaches
  <2>3. target[c] \in Invite /\ c \in Winners(target[c])
      BY <2>2 DEF TypeOK, Winners
  <2>4. x.user \in Taken(target[c])
      BY <2>1, <2>2, <2>3 DEF Taken
  <2> QED BY <2>1, <2>2, <2>3, <2>4
<1>3. ASSUME NEW y \in seats, Detach(y) PROVE seats' \subseteq seats
    BY <1>3 DEF Detach
<1>4. \A x \in seats' \ seats :
          x.user # x.room[1] => \E i \in Invite : x.user \in Taken(i) /\ x.room = room[i]
    BY <1>2, <1>3, AttachSteps
<1> QED BY <1>1, <1>4, SameOffers

\* An invite is made: nobody can have taken it.
LEMMA CreateOffers ==
    ASSUME AInv, [Next]_vars, NEW i \in Invite, NEW r \in Room, NEW once \in BOOLEAN, Create(i, r, once)
    PROVE  Promised!Offer(i)
<1> USE DEF AInv
<1>1. /\ status[i] = "none" /\ status' = [status EXCEPT ![i] = "active"]
      /\ room' = [room EXCEPT ![i] = r] /\ UNCHANGED <<revoke, claims, seats>>
      /\ single' \in {single, single \cup {i}}
    BY DEF Create
<1>2. States[i] = "none" /\ States' = [States EXCEPT ![i] = "open"]
    BY <1>1 DEF TypeOK, States
<1>3. UNCHANGED <<Guests, Answered, Present>>
    BY <1>1 DEF claims, Guests, Winners, Won, Answered, Present
<1> QED BY <1>1, <1>2, <1>3 DEF Promised!Offer

\* A revocation is answered, by its read of the row or by its update.
LEMMA RevokeOffers ==
    ASSUME AInv, [Next]_vars, NEW i \in Invite, RevokeRead(i) \/ RevokeUpdate(i)
    PROVE  Promised!ComeAndGo \/ Promised!Withdraw(i)
<1> USE DEF AInv
<1>1. UNCHANGED <<room, single, claims, seats>>
    BY DEF RevokeRead, RevokeUpdate, rows
<1>2. UNCHANGED <<Guests, Present>>
    BY <1>1 DEF claims, Guests, Winners, Won, Present
<1>3. CASE RevokeRead(i) /\ status[i] = "active"
  <2>1. UNCHANGED <<status, Answered>>
      BY <1>3 DEF RevokeRead, rows, TypeOK, Answered
  <2> QED BY <1>1, <2>1, SameOffers
<1>4. ASSUME i \notin Answered, Answered' = Answered \cup {i}, status[i] # "none",
             status'[i] = (IF status[i] = "active" THEN "revoked" ELSE status[i]),
             \A j \in Invite \ {i} : status'[j] = status[j]
      PROVE  Promised!Withdraw(i)
  <2>1. States[i] # "none"
      BY <1>4 DEF TypeOK, States
  <2>2. \A j \in Invite \ {i} : States'[j] = States[j]
      BY <1>4 DEF States
  <2>3. States'[i] = IF States[i] = "open" THEN "withdrawn" ELSE States[i]
    <3>1. CASE status[i] = "active"
        BY <1>4, <3>1 DEF States
    <3>2. CASE status[i] # "active"
        BY <1>4, <3>2 DEF States
    <3> QED BY <3>1, <3>2
  <2>4. States' = [States EXCEPT ![i] = IF @ = "open" THEN "withdrawn" ELSE @]
    <3>1. States = [j \in Invite |-> States[j]] /\ States' = [j \in Invite |-> States'[j]]
        BY DEF States
    <3> QED BY <2>2, <2>3, <3>1
  <2> QED BY <1>1, <1>2, <1>4, <2>1, <2>4 DEF Promised!Withdraw
<1>5. CASE RevokeRead(i) /\ status[i] # "active"
  <2>1. revoke[i] = "idle" /\ revoke' = [revoke EXCEPT ![i] = "done"] /\ UNCHANGED status
        /\ status[i] # "none"
      BY <1>5 DEF RevokeRead, rows
  <2>2. i \notin Answered /\ Answered' = Answered \cup {i}
      BY <2>1 DEF TypeOK, Answered
  <2> QED BY <1>4, <1>5, <2>1, <2>2
<1>6. CASE RevokeUpdate(i)
  <2>1. revoke[i] = "update" /\ revoke' = [revoke EXCEPT ![i] = "done"]
      BY <1>6 DEF RevokeUpdate
  <2>2. i \notin Answered /\ Answered' = Answered \cup {i}
      BY <2>1 DEF TypeOK, Answered
  <2>3. status[i] # "none"
      BY <2>1 DEF RevokedRows
  <2>4. /\ status'[i] = (IF status[i] = "active" THEN "revoked" ELSE status[i])
        /\ \A j \in Invite \ {i} : status'[j] = status[j]
      BY <1>6 DEF RevokeUpdate, TypeOK
  <2> QED BY <1>4, <2>2, <2>3, <2>4
<1> QED BY <1>3, <1>5, <1>6

\* The update of a claim takes the invite, or loses the race for it.
LEMMA ConsumeOffers ==
    ASSUME AInv, [Next]_vars, NEW c \in Claim, Consume(c)
    PROVE  Promised!ComeAndGo \/ \E i \in Invite : Promised!Take(i)
<1> USE DEF AInv
<1>1. UNCHANGED <<room, single, revoke, target, joiner, seats>> /\ target[c] \in Invite /\ joiner[c] \in Joiner
    BY DEF Consume, TypeOK
<1>2. UNCHANGED <<Answered, Present>>
    BY <1>1 DEF Answered, Present
<1>3. CASE status[target[c]] # "active"
  <2>1. UNCHANGED status
      BY <1>3 DEF Consume
  <2> QED BY <1>1, <1>2, <2>1, SameOffers
<1>4. ASSUME status[target[c]] = "active", NEW i \in Invite, i = target[c]
      PROVE  Promised!Take(i)
  <2>1. status' = [status EXCEPT ![i] = "consumed"] /\ pc' = [pc EXCEPT ![c] = "won"]
      BY <1>4 DEF Consume
  <2>2. States[i] = "open" /\ States' = [States EXCEPT ![i] = "taken"]
      BY <1>4, <2>1 DEF TypeOK, States
  <2>3. Winners(i) = {}
      BY <1>4 DEF RowMatchesWinners
  <2>4. \A d \in Claim : Won(d)' <=> Won(d) \/ d = c
      BY <2>1 DEF TypeOK, Won
  <2>5. Winners(i)' = {c} /\ \A j \in Invite \ {i} : Winners(j)' = Winners(j)
      BY <1>1, <1>4, <2>3, <2>4 DEF Winners
  <2>6. Guests' = [Guests EXCEPT ![i] = @ \cup {joiner[c]}]
    <3>1. Guests = [j \in Invite |-> Taken(j)] /\ Guests' = [j \in Invite |-> Taken(j)']
        BY DEF Guests, Taken
    <3>2. Taken(i)' = Taken(i) \cup {joiner[c]}
        BY <1>1, <2>3, <2>5 DEF Taken
    <3>3. \A j \in Invite \ {i} : Taken(j)' = Taken(j)
        BY <2>5, TakenKept
    <3> QED BY <3>1, <3>2, <3>3
  <2> QED BY <1>1, <1>2, <2>2, <2>6 DEF Promised!Take
<1> QED BY <1>1, <1>3, <1>4

LEMMA InvitationsStep == AInv /\ [Next]_vars => [Promised!Next]_Promised!vars
<1> SUFFICES ASSUME AInv, [Next]_vars PROVE Promised!Next
    OBVIOUS
<1>1. ASSUME UNCHANGED <<status, room, single, revoke, seats>> PROVE Promised!ComeAndGo
    BY <1>1, SameOffers DEF Answered
<1>2. CASE OwnerStep
    BY <1>2, CreateOffers, RevokeOffers DEF OwnerStep, Promised!Next
<1>3. CASE ClaimStep
  <2>1. \/ \E c \in Claim : Consume(c)
        \/ UNCHANGED <<status, room, single, revoke, seats>>
      BY <1>3 DEF ClaimStep, Lookup, Sign, Fail, Answer, rows
  <2> QED BY <1>1, <2>1, ConsumeOffers DEF Promised!Next
<1>4. CASE RelayStep
    BY <1>4, RelayOffers DEF Promised!Next
<1>5. CASE ClockStep \/ UNCHANGED vars
    BY <1>1, <1>5 DEF ClockStep, Lapse, vars, rows, Promised!Next
<1> QED BY <1>2, <1>3, <1>4, <1>5 DEF Next

LEMMA InvitationsInit == Init => Promised!Init
<1> SUFFICES ASSUME Init PROVE Promised!Init
    OBVIOUS
<1>1. States = [i \in Invite |-> "none"]
    BY DEF Init, States
<1>2. Guests = [i \in Invite |-> {}]
    BY DEF Init, Guests, Winners, Won
<1>3. Answered = {} /\ Present = {}
    BY DEF Init, Answered, Present
<1> QED BY <1>1, <1>2, <1>3 DEF Init, Promised!Init

(* create, claim, revoke and the attaches implement the abstract invitations: *)
(* each is to one room and open to nobody once it is taken or withdrawn, one  *)
(* for one guest is taken by one, and nobody comes into a room of another     *)
(* account but by an invite he has taken.                                     *)
THEOREM AdmissionImplementsInvitations == Spec => ImplementsInvitations
<1>1. AInv /\ [Next]_vars => [Promised!Next]_Promised!vars
    BY InvitationsStep
<1> QED BY <1>1, InvitationsInit, AInvHolds, PTL DEF Spec, ImplementsInvitations, Promised!Spec
=============================================================================
