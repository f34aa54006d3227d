----------------------------- MODULE Admission -----------------------------
(***************************************************************************)
(* How a guest comes to sit in somebody else's terminal session:           *)
(*   - the owner's invite, a row of collab_invites;                        *)
(*   - the claim, which reads the row, signs a relay claim token and only  *)
(*     then consumes the row (collab.service.ts);                          *)
(*   - the attach, which turns a JWT, a claim token or both into a place   *)
(*     in one room of the relay (resolve-relay-identity.ts).               *)
(* What the relay then does with its connections is module Relay.          *)
(*                                                                         *)
(* A claim is one call of the endpoint; its name stands for all it draws   *)
(* at random, the connectionId and the `anon-` identity.  Clocks are not   *)
(* counted: an invite or a token lapses once, at any moment.  Expiry is    *)
(* read when the row is read and not again, as in the code.                *)
(***************************************************************************)
CONSTANTS
    User,       \* accounts, also the joiner identity of a signed-in claim
    Session,    \* session ids; two owners may use the same one
    Invite,     \* invite ids, 24 random bytes: one row each
    Claim,      \* calls of the claim endpoint
    Random      \* connection ids the relay draws for a client that names none

ASSUME NamesDistinct == /\ User \cap Claim = {}
                        /\ Random \cap Claim = {}

Room == User \X Session                     \* the relay's `userId:sessionId`
NoRoom == <<>>                              \* before the row exists
Joiner == User \cup Claim                   \* a claim names its anonymous joiner
Seats == [room : Room, conn : Claim \cup Random, user : Joiner]

VARIABLES
    tokens,     \* whether the deployment has a relay claim token secret
    status,     \* collab_invites.status, "none" before the row exists
    room,       \* the owner and the session of each row
    single,     \* the invites whose row says single_use
    lapsed,     \* the invites and the tokens past their expiry
    revoke,     \* how far the owner's revocation of an invite has come
    pc,         \* where each claim stands, or how it was answered
    target,     \* the invite a claim names
    joiner,     \* who claims
    minted,     \* the claims that hold a signed token
    seats       \* session.clients of every room on one instance of the relay;
                \* `user` is who resolveRelayIdentity made of the client

rows == <<status, room, single>>
claims == <<pc, target, joiner, minted>>
vars == <<tokens, rows, lapsed, revoke, claims, seats>>

\* A claim that ends without the invite is refused, whatever the error says.
Ended == {"refused", "unheard", "answered"}

TypeOK ==
    /\ tokens \in BOOLEAN
    /\ status \in [Invite -> {"none", "active", "consumed", "revoked"}]
    /\ room \in [Invite -> Room \cup {NoRoom}]
    /\ \A i \in Invite : status[i] # "none" => room[i] \in Room
    /\ single \subseteq Invite
    /\ lapsed \subseteq Invite \cup Claim
    /\ revoke \in [Invite -> {"idle", "update", "done"}]
    /\ pc \in [Claim -> {"idle", "signing", "consuming", "won"} \cup Ended]
    /\ target \in [Claim -> Invite]
    /\ joiner \in [Claim -> Joiner]
    /\ \A c \in Claim : joiner[c] \in User \cup {c}
    /\ minted \subseteq Claim
    /\ \A c \in Claim : pc[c] = "signing" \/ c \in minted => tokens
    /\ seats \subseteq Seats

Anonymous(c) == joiner[c] = c

\* The UPDATE of markConsumed found the row still active.
Won(c) == pc[c] \in {"won", "unheard", "answered"}
Winners(i) == {c \in Claim : Won(c) /\ target[c] = i}

Init ==
    /\ tokens \in BOOLEAN
    /\ status = [i \in Invite |-> "none"]
    /\ room = [i \in Invite |-> NoRoom]
    /\ single = {}
    /\ lapsed = {}
    /\ revoke = [i \in Invite |-> "idle"]
    /\ pc = [c \in Claim |-> "idle"]
    /\ target \in [Claim -> Invite]             \* any, until the claim begins
    /\ joiner = [c \in Claim |-> c]
    /\ minted = {}
    /\ seats = {}

-----------------------------------------------------------------------------
(* The owner. *)

\* single_use is written with the row, and listed; a claim never asks for it.
Create(i, r, once) ==
    /\ status[i] = "none"
    /\ status' = [status EXCEPT ![i] = "active"]
    /\ room' = [room EXCEPT ![i] = r]
    /\ single' = IF once THEN single \cup {i} ELSE single
    /\ UNCHANGED <<tokens, lapsed, revoke, claims, seats>>

\* revoke() reads the row and updates it only if it was active.  Revocations
\* of one invite that overlap do no more than one does.
RevokeRead(i) ==
    /\ status[i] # "none" /\ revoke[i] = "idle"
    /\ revoke' = [revoke EXCEPT
                    ![i] = IF status[i] = "active" THEN "update" ELSE "done"]
    /\ UNCHANGED <<tokens, rows, lapsed, claims, seats>>

\* Fault variant: the UPDATE of revoke without its filter on the status.
RevokeAnyUpdate(i) ==
    /\ revoke[i] = "update"
    /\ revoke' = [revoke EXCEPT ![i] = "done"]
    /\ status' = [status EXCEPT ![i] = "revoked"]
    /\ UNCHANGED <<tokens, room, single, lapsed, claims, seats>>

\* The UPDATE touches the row only while it is active.
RevokeUpdate(i) ==
    /\ revoke[i] = "update"
    /\ revoke' = [revoke EXCEPT ![i] = "done"]
    /\ status' = [status EXCEPT ![i] = IF @ = "active" THEN "revoked" ELSE @]
    /\ UNCHANGED <<tokens, room, single, lapsed, claims, seats>>

-----------------------------------------------------------------------------
(* The claim. *)

\* Fault variant: the check for anonymous claims without a token secret gone.
LookupAnyone(c, i, who, hashMatches) ==
    IF status[i] # "active" \/ i \in lapsed \/ ~hashMatches THEN "refused"
    ELSE IF tokens THEN "signing" ELSE "consuming"

\* Fault variant: a token is signed without asking for the token service.
LookupSigning(c, i, who, hashMatches) ==
    IF status[i] # "active" \/ i \in lapsed \/ ~hashMatches THEN "refused"
    ELSE "signing"

\* What findByInviteId and the checks after it make of a claim: refused are
\* those of an invite that is not active, that expired or whose capability hash
\* is another, and anonymous ones where no token can be signed.
LookupOutcome(c, i, who, hashMatches) ==
    IF status[i] # "active" \/ i \in lapsed \/ ~hashMatches THEN "refused"
    ELSE IF tokens THEN "signing"
    ELSE IF who = c THEN "refused"
    ELSE "consuming"

Lookup(c, i, who, hashMatches) ==
    /\ pc[c] = "idle" /\ status[i] # "none"
    /\ pc' = [pc EXCEPT ![c] = LookupOutcome(c, i, who, hashMatches)]
    /\ target' = [target EXCEPT ![c] = i]
    /\ joiner' = [joiner EXCEPT ![c] = who]
    /\ UNCHANGED <<tokens, rows, lapsed, revoke, minted, seats>>

Sign(c) ==
    /\ pc[c] = "signing"
    /\ pc' = [pc EXCEPT ![c] = "consuming"]
    /\ minted' = minted \cup {c}
    /\ UNCHANGED <<tokens, rows, lapsed, revoke, target, joiner, seats>>

\* sign() throws, or the statement of markConsumed fails before it commits.
Fail(c) ==
    /\ pc[c] \in {"signing", "consuming"}
    /\ pc' = [pc EXCEPT ![c] = "refused"]
    /\ UNCHANGED <<tokens, rows, lapsed, revoke, target, joiner, minted, seats>>

\* Fault variant: markConsumed without its filter on the status.
ConsumeAny(c) ==
    /\ pc[c] = "consuming"
    /\ status' = [status EXCEPT ![target[c]] = "consumed"]
    /\ pc' = [pc EXCEPT ![c] = "won"]
    /\ UNCHANGED <<tokens, room, single, lapsed, revoke, target, joiner, minted, seats>>

Consume(c) ==
    /\ pc[c] = "consuming"
    /\ IF status[target[c]] = "active"
       THEN /\ status' = [status EXCEPT ![target[c]] = "consumed"]
            /\ pc' = [pc EXCEPT ![c] = "won"]
       ELSE /\ pc' = [pc EXCEPT ![c] = "refused"]
            /\ UNCHANGED status
    /\ UNCHANGED <<tokens, room, single, lapsed, revoke, target, joiner, minted, seats>>

\* The answer reaches the claimant, or is lost with the row already consumed.
Answer(c) ==
    /\ pc[c] = "won"
    /\ \E o \in {"answered", "unheard"} : pc' = [pc EXCEPT ![c] = o]
    /\ UNCHANGED <<tokens, rows, lapsed, revoke, target, joiner, minted, seats>>

-----------------------------------------------------------------------------
(* The attach, in client mode; a daemon always sits in its own room.  The   *)
(* client that presents a token need not be the one the token was minted    *)
(* for: a page keeps it while the account signed in changes.                *)

\* session.clients is a map: an id attached again takes the old one's place.
Sit(r, id, who) ==
    seats' = {x \in seats : ~(x.room = r /\ x.conn = id)}
                \cup {[room |-> r, conn |-> id, user |-> who]}

Usable(c) == pc[c] = "answered" /\ c \in minted /\ c \notin lapsed

AttachOwn(u, s, id) ==
    /\ Sit(<<u, s>>, id, u)
    /\ UNCHANGED <<tokens, rows, lapsed, revoke, claims>>

\* Fault variant: the token's joiner is not compared with the JWT's subject.
AttachAnyAccount(u, s, c, id) ==
    /\ Usable(c)
    /\ s = room[target[c]][2]
    /\ id \in Random \cup {c}
    /\ Sit(<<room[target[c]][1], s>>, id, u)
    /\ UNCHANGED <<tokens, rows, lapsed, revoke, claims>>

\* With a JWT the connectionId may be left out; the relay then draws one.
AttachSignedIn(u, s, c, id) ==
    /\ Usable(c)
    /\ joiner[c] = u
    /\ s = room[target[c]][2]
    /\ id \in Random \cup {c}
    /\ Sit(<<room[target[c]][1], s>>, id, u)
    /\ UNCHANGED <<tokens, rows, lapsed, revoke, claims>>

\* With a token alone, it must be an anonymous joiner's and the connectionId
\* must be the claim's.
AttachAnonymous(s, c, id) ==
    /\ Usable(c)
    /\ Anonymous(c)
    /\ s = room[target[c]][2]
    /\ id = c
    /\ Sit(<<room[target[c]][1], s>>, id, joiner[c])
    /\ UNCHANGED <<tokens, rows, lapsed, revoke, claims>>

\* A connection closes, one of those a shutdown or a revocation evicts, or an
\* old one whose id was attached again: _detach deletes the id's entry.
Detach(x) ==
    /\ seats' = seats \ {x}
    /\ UNCHANGED <<tokens, rows, lapsed, revoke, claims>>

Lapse(x) ==
    /\ lapsed' = lapsed \cup {x}
    /\ UNCHANGED <<tokens, rows, revoke, claims, seats>>

-----------------------------------------------------------------------------
OwnerStep ==
    \/ \E i \in Invite, r \in Room, once \in BOOLEAN : Create(i, r, once)
    \/ \E i \in Invite : RevokeRead(i) \/ RevokeUpdate(i)

ClaimStep ==
    \E c \in Claim :
        \/ \E i \in Invite, who \in User \cup {c}, h \in BOOLEAN : Lookup(c, i, who, h)
        \/ Sign(c) \/ Fail(c) \/ Consume(c) \/ Answer(c)

RelayStep ==
    \/ \E id \in Claim \cup Random, s \in Session :
        \/ \E u \in User : AttachOwn(u, s, id)
        \/ \E u \in User, c \in Claim : AttachSignedIn(u, s, c, id)
        \/ \E c \in Claim : AttachAnonymous(s, c, id)
    \/ \E x \in seats : Detach(x)

ClockStep ==
    \/ \E i \in Invite : status[i] # "none" /\ i \notin lapsed /\ Lapse(i)
    \/ \E c \in minted \ lapsed : Lapse(c)

Next == OwnerStep \/ ClaimStep \/ RelayStep \/ ClockStep
Spec == Init /\ [][Next]_vars

-----------------------------------------------------------------------------
(* A single-use invite has at most one winner, and its row says so: it      *)
(* reads consumed exactly when a claim of it has won, whatever claims,      *)
(* retries and a revocation did between the read of the row and its update. *)
(* Nothing is said of the others, which the code consumes all the same.     *)
WinnerMatchesRow ==
    \A i \in single :
        /\ \A c, d \in Winners(i) : c = d
        /\ status[i] = "consumed" <=> Winners(i) # {}

(* An invite is never burned by a claim that can never attach: the winner   *)
(* holds a token, or is signed in where no tokens are minted.               *)
WinnerCanJoin ==
    \A c \in Claim : Won(c) => (c \in minted \/ (~tokens /\ ~Anonymous(c)))

(* Whoever sits in another account's room has won an invite to that room,   *)
(* single-use or not, under the identity the invite was claimed with.       *)
GuestsHoldAnInvite ==
    \A x \in seats :
        x.user # x.room[1] =>
            \E i \in Invite, c \in Claim :
                /\ c \in Winners(i)
                /\ room[i] = x.room
                /\ joiner[c] = x.user

(* An anonymous joiner sits in one place of an instance at a time, however  *)
(* often it attaches with its token: session.clients has one entry for it.  *)
AnonymousOneSeat ==
    \A x, y \in seats : x.user \in Claim /\ y.user = x.user => x = y

(* Once a revocation was answered no claim of that invite wins any more.    *)
RevokeHolds ==
    [][\A i \in Invite : revoke[i] = "done" => Winners(i)' = Winners(i)]_vars

(* To owners and guests, reads of a row long before its update, claims that *)
(* fail or race, tokens and connections look like the steps of Invitations. *)
States == [i \in Invite |->
             CASE status[i] = "active"   -> "open"
               [] status[i] = "consumed" -> "taken"
               [] status[i] = "revoked"  -> "withdrawn"
               [] OTHER                  -> "none"]
Guests == [i \in Invite |-> {joiner[c] : c \in Winners(i)}]
Answered == {i \in Invite : revoke[i] = "done"}
Present == {<<x.user, x.room>> : x \in {y \in seats : y.user # y.room[1]}}

Promised == INSTANCE Invitations WITH
    Person <- Joiner, state <- States, once <- single, guest <- Guests, answered <- Answered,
    present <- Present
ImplementsInvitations == Promised!Spec

=============================================================================
