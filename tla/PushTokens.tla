------------------------------ MODULE PushTokens ------------------------------
(***************************************************************************)
(* The push tokens of phones: push.service.ts over push_tokens, whose key  *)
(* is (userId, deviceToken).  A registration takes the token from whoever  *)
(* had it and inserts it for the user, in one READ COMMITTED transaction:  *)
(* the delete looks at the rows committed when it began and waits for those *)
(* another transaction has deleted.                                        *)
(***************************************************************************)
EXTENDS Naturals

CONSTANTS
  User, Token,
  Request  \* registrations under way at a time

VARIABLES
  owner,     \* push_tokens, committed: the users who hold each token
  reg,       \* per request, where its transaction is
  overlapped \* history: tokens registered by two at once since one alone did

vars == <<owner, reg, overlapped>>

Idle == [at |-> "idle"]
Busy(t) == {r \in Request : reg[r].at # "idle" /\ reg[r].token = t}

Init ==
  /\ owner = [t \in Token |-> {}]
  /\ reg = [r \in Request |-> Idle]
  /\ overlapped = {}

\* Fault variant: a user's registration replaces the user's own row only.
TargetsOwn(u, t) == owner[t] \cap {u}

\* deleteByDeviceToken: the rows of the token that the delete will look at.
Targets(u, t) == owner[t]

Begin(r, u, t) ==
  /\ reg[r].at = "idle"
  /\ reg' = [q \in Request |->
       IF q = r THEN [at |-> "delete", user |-> u, token |-> t, rows |-> Targets(u, t),
                      alone |-> Busy(t) = {}]
       ELSE IF q \in Busy(t) THEN [reg[q] EXCEPT !.alone = FALSE] ELSE reg[q]]
  /\ UNCHANGED <<owner, overlapped>>

\* Rows that other open transactions have deleted.
LockedBy(r, t) == UNION {reg[q].rows : q \in {q \in Busy(t) \ {r} : reg[q].at # "delete"}}

DeleteRows(r) ==
  /\ reg[r].at = "delete"
  /\ reg[r].rows \cap LockedBy(r, reg[r].token) = {}
  /\ reg' = [reg EXCEPT ![r].at = "insert", ![r].rows = @ \cap owner[reg[r].token]]
  /\ UNCHANGED <<owner, overlapped>>

\* The primary key makes an insert wait for another of the same row, and fail
\* if that one is there; the transaction rolls back.
Insert(r) ==
  LET u == reg[r].user
      t == reg[r].token IN
  /\ reg[r].at = "insert"
  /\ \A q \in Busy(t) \ {r} : reg[q].at = "commit" => reg[q].user # u
  /\ reg' = [reg EXCEPT ![r] = IF u \in owner[t] \ reg[r].rows THEN Idle ELSE [@ EXCEPT !.at = "commit"]]
  /\ UNCHANGED <<owner, overlapped>>

Commit(r) ==
  LET t == reg[r].token IN
  /\ reg[r].at = "commit"
  /\ owner' = [owner EXCEPT ![t] = (@ \ reg[r].rows) \cup {reg[r].user}]
  /\ overlapped' = IF reg[r].alone THEN overlapped \ {t} ELSE overlapped \cup {t}
  /\ reg' = [reg EXCEPT ![r] = Idle]

\* The transaction fails and rolls back.
Rollback(r) ==
  /\ reg[r].at # "idle"
  /\ reg' = [reg EXCEPT ![r] = Idle]
  /\ UNCHANGED <<owner, overlapped>>

Unregister(u, t) ==
  /\ u \in owner[t] /\ u \notin UNION {reg[q].rows : q \in {q \in Busy(t) : reg[q].at # "delete"}}
  /\ owner' = [owner EXCEPT ![t] = @ \ {u}]
  /\ UNCHANGED <<reg, overlapped>>

Next ==
  \/ \E r \in Request : \/ \E u \in User, t \in Token : Begin(r, u, t)
                        \/ DeleteRows(r) \/ Insert(r) \/ Commit(r) \/ Rollback(r)
  \/ \E u \in User, t \in Token : Unregister(u, t)

Spec == Init /\ [][Next]_vars

-----------------------------------------------------------------------------
Transaction == [at : {"delete", "insert", "commit"}, user : User, token : Token,
                rows : SUBSET User, alone : BOOLEAN]

TypeOK ==
  /\ owner \in [Token -> SUBSET User] /\ overlapped \subseteq Token
  /\ reg \in [Request -> {Idle} \cup Transaction]

\* A phone that changes hands gets one account's notifications: a token has one
\* owner unless two registrations of it overlapped, and the next registration
\* that overlaps none leaves it with one again.
OneOwner == \A t \in Token \ overlapped : \A u, v \in owner[t] : u = v
=============================================================================
