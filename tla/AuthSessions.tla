---------------------------- MODULE AuthSessions ----------------------------
(***************************************************************************)
(* The sessions of one account: packages/auth/src/services/auth.service.ts *)
(* and setUserActive of packages/admin, over the refresh_tokens table.     *)
(*                                                                         *)
(* A session is a login and the refresh tokens that succeed each other in  *)
(* it, one at a time.  Requests run concurrently and PostgreSQL            *)
(* transactions are READ COMMITTED: a statement sees what was committed    *)
(* when it began, an UPDATE waits for rows another transaction has         *)
(* updated and then looks at them again, and rows inserted meanwhile       *)
(* escape it.  Nothing of a transaction is seen before its commit.         *)
(***************************************************************************)
EXTENDS Integers

CONSTANTS
  Token,        \* refresh token ids (jti) that can be issued
  Request,      \* requests that can be in progress at the same time
  None,         \* no token
  MaxPassword,  \* bound: password versions
  MaxAdmin      \* bound: changes of is_active

ASSUME NoneAssumption  == None \notin Token
ASSUME BoundAssumption == MaxPassword \in Nat \ {0} /\ MaxAdmin \in Nat

VARIABLES
  password,  \* srp_credentials: the version of the credential
  active,    \* users.is_active
  token,     \* refresh_tokens: not yet issued, active, revoked
  stage,     \* per request: how far it is
  tok,       \* per request: the token presented, or the one a password change keeps
  ver,       \* per login: the password version it was verified against
  todo,      \* per sweep: rows its statement saw and has not come to
  held,      \* per request: rows its open transaction has revoked, and so locked
  admin,     \* changes of is_active, for the bound
  session,   \* history: the first token of each token's session
  version,   \* history: by first token, the password a session goes with
  raced,     \* history: sessions with two refreshes of one token at the same time
  late,      \* history: requests under way while a sweep ran or their token was revoked
  slipped,   \* history: sessions that got a token from such a request
  halfway    \* history: a deactivation that failed between its two statements

requestVars == <<stage, tok, ver, todo, held>>
historyVars == <<session, version, raced, late, slipped, halfway>>
vars == <<password, active, token, requestVars, admin, historyVars>>

\* A request that will issue a token, and one that revokes a set of tokens.
Refreshing(r) == stage[r] \in {"found", "rotated", "checked"} /\ tok[r] # None
LoggingIn(r)  == stage[r] \in {"challenged", "checked"} /\ tok[r] = None
Deactivating(r) == stage[r] \in {"disabled", "revoking"}
Sweeping(r)   == stage[r] \in {"changing", "revoking"}

\* The account is disabled, and every setUserActive that disables it has run to its end.
Deactivated == ~active /\ ~halfway /\ \A r \in Request : ~Deactivating(r)

\* Fault variant: rows are not locked.
Unlocked(r, t) == FALSE

\* Another request's transaction has updated the row of token t.
Locked(r, t) == \E q \in Request \ {r} : t \in held[q]

Init ==
  /\ password = 1 /\ active = TRUE
  /\ token = [t \in Token |-> "unissued"]
  /\ stage = [r \in Request |-> "idle"]
  /\ tok = [r \in Request |-> None]
  /\ ver = [r \in Request |-> 1]
  /\ todo = [r \in Request |-> {}]
  /\ held = [r \in Request |-> {}]
  /\ admin = 0
  /\ session = [t \in Token |-> None]
  /\ version = [t \in Token |-> 1]
  /\ raced = {} /\ late = {} /\ slipped = {}
  /\ halfway = FALSE
-----------------------------------------------------------------------------
\* Request r starts, presenting token t.
Start(r, at, t) ==
  /\ stage[r] = "idle"
  /\ stage' = [stage EXCEPT ![r] = at]
  /\ tok' = [tok EXCEPT ![r] = t]

\* One that starts to issue a token while a sweep runs is late from the start.
MarkLate(r) == late' = IF \E q \in Request : Sweeping(q) THEN late \cup {r} ELSE late

\* Request r is over; its rows are free.
End(r) ==
  /\ stage' = [stage EXCEPT ![r] = "idle"]
  /\ tok' = [tok EXCEPT ![r] = None]
  /\ ver' = [ver EXCEPT ![r] = 1]
  /\ todo' = [todo EXCEPT ![r] = {}]
  /\ held' = [held EXCEPT ![r] = {}]
  /\ late' = late \ {r}

\* What the commit of request r leaves in the table.
Revoked(r) == [t \in Token |-> IF t \in held[r] THEN "revoked" ELSE token[t]]

\* The transaction fails or the server dies: nothing of it remains.
Abort(r) ==
  /\ stage[r] # "idle"
  /\ End(r)
  /\ halfway' = (halfway \/ Deactivating(r))
  /\ UNCHANGED <<password, active, token, admin, session, version, raced, slipped>>
-----------------------------------------------------------------------------
(* refresh *)

\* Fault variant: the lookup does not ask whether the token is revoked.
Issued(t) == token[t] # "unissued"

\* What findActiveByJti finds.
Findable(t) == token[t] = "active"

FindActive(r, t) ==
  /\ Findable(t)
  /\ Start(r, "found", t)
  /\ raced' = IF \E q \in Request : Refreshing(q) /\ tok[q] = t
              THEN raced \cup {session[t]} ELSE raced
  /\ MarkLate(r)
  /\ UNCHANGED <<password, active, token, ver, todo, held, admin, session, version, slipped, halfway>>

\* Fault variant: the presented token stays active.
NothingRotated(r) == held

\* revokeByJti: the row is updated whether it is still active or not.
Rotated(r) == [held EXCEPT ![r] = {tok[r]}]

Rotate(r) ==
  /\ stage[r] = "found" /\ ~Locked(r, tok[r])
  /\ stage' = [stage EXCEPT ![r] = "rotated"]
  /\ held' = Rotated(r)
  /\ UNCHANGED <<password, active, token, tok, ver, todo, admin, historyVars>>

\* The account is looked up; if it is disabled the transaction commits without a new token.
CheckUser(r) ==
  /\ stage[r] = "rotated"
  /\ IF active
     THEN /\ stage' = [stage EXCEPT ![r] = "checked"]
          /\ UNCHANGED <<token, tok, ver, todo, held, late>>
     ELSE token' = Revoked(r) /\ End(r)
  /\ UNCHANGED <<password, active, admin, session, version, raced, slipped, halfway>>
-----------------------------------------------------------------------------
(* login *)

\* srpInit: the challenge is made from the credential as it is now.
Challenge(r) ==
  /\ Start(r, "challenged", None)
  /\ ver' = [ver EXCEPT ![r] = password]
  /\ MarkLate(r)
  /\ UNCHANGED <<password, active, token, todo, held, admin, session, version, raced, slipped, halfway>>

\* loginAfterSrpVerify: the proof was right; a disabled account is refused.
CheckLogin(r) ==
  /\ stage[r] = "challenged"
  /\ IF active
     THEN /\ stage' = [stage EXCEPT ![r] = "checked"]
          /\ UNCHANGED <<tok, ver, todo, held, late>>
     ELSE End(r)
  /\ UNCHANGED <<password, active, token, admin, session, version, raced, slipped, halfway>>

\* issueSession, for a user whom Google has signed in: no password is involved.
Claim(r) ==
  /\ active
  /\ Start(r, "checked", None)
  /\ ver' = [ver EXCEPT ![r] = password]
  /\ MarkLate(r)
  /\ UNCHANGED <<password, active, token, todo, held, admin, session, version, raced, slipped, halfway>>

\* _issueTokensTx and the commit, of a login or of a refresh.
Issue(r, t) ==
  LET s == IF tok[r] = None THEN t ELSE session[tok[r]]
  IN /\ stage[r] = "checked" /\ token[t] = "unissued"
     /\ token' = [Revoked(r) EXCEPT ![t] = "active"]
     /\ session' = [session EXCEPT ![t] = s]
     /\ version' = IF tok[r] = None THEN [version EXCEPT ![t] = ver[r]] ELSE version
     /\ slipped' = IF r \in late THEN slipped \cup {s} ELSE slipped
     /\ End(r)
     /\ UNCHANGED <<password, active, admin, raced, halfway>>
-----------------------------------------------------------------------------
(* logout, revokeDevice, changePassword, setUserActive *)

\* revokeOneByUserId, a statement of its own: it waits for the row and asks for an active one.
RevokeOne(t) ==
  /\ token[t] = "active" /\ \A q \in Request : t \notin held[q]
  /\ token' = [token EXCEPT ![t] = "revoked"]
  /\ late' = late \cup {q \in Request : Refreshing(q) /\ tok[q] = t}
  /\ UNCHANGED <<password, active, requestVars, admin, session, version, raced, slipped, halfway>>

\* changePassword up to the upsert, which waits for another change's.  The caller's access
\* token names token k, which may have been rotated or revoked since.
UpsertCredential(r, k) ==
  /\ token[k] # "unissued" /\ password < MaxPassword
  /\ \A q \in Request : stage[q] \notin {"upserted", "changing"}
  /\ Start(r, "upserted", k)
  /\ UNCHANGED <<password, active, token, ver, todo, held, admin, historyVars>>

\* setUserActive(false), its first statement.
Disable(r) ==
  /\ admin < MaxAdmin
  /\ Start(r, "disabled", None)
  /\ active' = FALSE
  /\ admin' = admin + 1
  /\ UNCHANGED <<password, token, ver, todo, held, historyVars>>

\* setUserActive(true).
Enable ==
  /\ ~active /\ admin < MaxAdmin
  /\ active' = TRUE
  /\ admin' = admin + 1
  /\ UNCHANGED <<password, token, requestVars, historyVars>>

\* Fault variants: only the kept token is swept; the sweep leaves the tokens of logins alone.
KeptOnly(r) == {t \in Token : token[t] = "active" /\ t = tok[r]}
Rotations(r) == {t \in Token : token[t] = "active" /\ t # tok[r] /\ session[t] # t}

\* The rows revokeAllExceptJti or revokeAllByUserId finds when it begins.
Matching(r) == {t \in Token : token[t] = "active" /\ t # tok[r]}

Sweep(r) ==
  /\ stage[r] \in {"upserted", "disabled"}
  /\ stage' = [stage EXCEPT ![r] = IF @ = "upserted" THEN "changing" ELSE "revoking"]
  /\ todo' = [todo EXCEPT ![r] = Matching(r)]
  /\ late' = late \cup {q \in Request : Refreshing(q) \/ LoggingIn(q)}
  /\ UNCHANGED <<password, active, token, tok, ver, held, admin, session, version, raced,
                 slipped, halfway>>

\* The sweep comes to a row, after waiting for it if it has to, and updates it if it is
\* still active.
SweepRow(r, t) ==
  /\ t \in todo[r] /\ ~Locked(r, t)
  /\ todo' = [todo EXCEPT ![r] = @ \ {t}]
  /\ held' = IF token[t] = "active" THEN [held EXCEPT ![r] = @ \cup {t}] ELSE held
  /\ UNCHANGED <<password, active, token, stage, tok, ver, admin, historyVars>>

\* The sweep is committed.
Swept(r) ==
  /\ Sweeping(r) /\ todo[r] = {}
  /\ token' = Revoked(r)
  /\ End(r)
  /\ UNCHANGED <<active, admin, session, raced, slipped>>

CommitChange(r) ==
  /\ stage[r] = "changing"
  /\ Swept(r)
  /\ password' = password + 1
  /\ version' = [version EXCEPT ![session[tok[r]]] = password + 1]
  /\ UNCHANGED halfway

CommitRevoke(r) ==
  /\ stage[r] = "revoking"
  /\ Swept(r)
  /\ halfway' = FALSE
  /\ UNCHANGED <<password, version>>
-----------------------------------------------------------------------------
TokenStep(r, t) ==
  FindActive(r, t) \/ Issue(r, t) \/ UpsertCredential(r, t) \/ SweepRow(r, t)

RequestStep(r) ==
  \/ \E t \in Token : TokenStep(r, t)
  \/ Rotate(r) \/ CheckUser(r)
  \/ Challenge(r) \/ CheckLogin(r) \/ Claim(r)
  \/ Disable(r) \/ Sweep(r) \/ CommitChange(r) \/ CommitRevoke(r)
  \/ Abort(r)

Next ==
  \/ \E r \in Request : RequestStep(r)
  \/ \E t \in Token : RevokeOne(t)
  \/ Enable

Spec == Init /\ [][Next]_vars
-----------------------------------------------------------------------------
Stages == {"idle", "found", "rotated", "checked", "challenged", "upserted", "disabled",
           "changing", "revoking"}

\* Types, and a row is updated by one open transaction at a time.
TypeOK ==
  /\ password \in 1..MaxPassword /\ active \in BOOLEAN
  /\ token \in [Token -> {"unissued", "active", "revoked"}]
  /\ stage \in [Request -> Stages]
  /\ tok \in [Request -> Token \cup {None}]
  /\ ver \in [Request -> 1..MaxPassword]
  /\ todo \in [Request -> SUBSET Token] /\ held \in [Request -> SUBSET Token]
  /\ admin \in 0..MaxAdmin
  /\ session \in [Token -> Token \cup {None}]
  /\ version \in [Token -> 1..MaxPassword]
  /\ raced \subseteq Token /\ slipped \subseteq Token
  /\ late \subseteq Request /\ halfway \in BOOLEAN
  /\ \A t \in Token : token[t] # "unissued" => session[t] \in Token
  /\ \A q, r \in Request : q # r => held[q] \cap held[r] = {}

\* A session has one active refresh token, unless two refreshes of one token overlapped
\* (refresh: the lookup takes no lock).
OneTokenPerSession ==
  \A t, u \in Token :
    token[t] = "active" /\ token[u] = "active" /\ session[t] = session[u] =>
      t = u \/ session[t] \in raced

\* After a password change the only sessions are the one that asked for it, those opened
\* since, and those that a request under way during the change gave a token
\* (changePassword).
PasswordEndsSessions ==
  \A t \in Token : token[t] = "active" =>
    version[session[t]] = password \/ session[t] \in slipped

\* A disabled account has no active token once setUserActive has run to its end, but for
\* those a request under way during the sweep was given.
DisabledHasNoSession ==
  Deactivated => \A t \in Token : token[t] = "active" => session[t] \in slipped

\* What has become of the session that begins with token s: loose once two refreshes of
\* one token of it overlapped or a late request gave it a token; stale, which Sessions
\* does not know, if it outlives the password it goes with.
State(s) ==
  IF token[s] = "unissued" \/ session[s] # s THEN "none"
  ELSE IF s \in raced \/ s \in slipped THEN "loose"
  ELSE IF \A t \in Token : token[t] = "active" => session[t] # s THEN "closed"
  ELSE IF version[s] = password THEN "open"
  ELSE "stale"
States == [s \in Token |-> State(s)]

\* To the owner of the sessions requests look like the steps of Sessions, but for the
\* sessions of requests that overlap: a password change or a deactivation ends what it
\* should at once, and what is closed stays closed.
Promised == INSTANCE Sessions WITH Id <- Token, state <- States, disabled <- Deactivated
ImplementsSessions == Promised!Spec

\* What the self-hosting guide says of refresh tokens: they are single-use.
SingleUse ==
  \A t, u \in Token :
    token[t] = "active" /\ token[u] = "active" /\ session[t] = session[u] => t = u
-----------------------------------------------------------------------------
(* The inductive invariant. *)

\* What each stage says of its request's token and locks.
StageOK(r) ==
  /\ stage[r] \in {"found", "rotated", "upserted", "changing"} => tok[r] \in Token
  /\ stage[r] \in {"challenged", "disabled", "revoking"} => tok[r] = None
  /\ ~Sweeping(r) =>
       /\ held[r] = IF stage[r] \in {"rotated", "checked"} THEN {tok[r]} \ {None} ELSE {}
       /\ todo[r] = {}
  /\ Sweeping(r) => \A t \in held[r] : token[t] = "active"
  /\ tok[r] # None => token[tok[r]] # "unissued"

\* While a sweep runs, every request that will issue a token is late.
SweepMarks ==
  \A q, r \in Request : Sweeping(q) /\ (Refreshing(r) \/ LoggingIn(r)) => r \in late

\* A session begins with a token that was issued, its own.
SessionsKnown ==
  \A t \in Token : token[t] # "unissued" =>
    token[session[t]] # "unissued" /\ session[session[t]] = session[t]

\* A session that did not race has one refresh under way, of its active token.
OneRefresh ==
  \A r \in Request : Refreshing(r) /\ session[tok[r]] \notin raced =>
    /\ \A t \in Token : token[t] = "active" /\ session[t] = session[tok[r]] => t = tok[r]
    /\ \A q \in Request : Refreshing(q) /\ session[tok[q]] = session[tok[r]] => q = r

\* A refresh under way has an active token, or is late, or its session is loose.
RefreshLive ==
  \A r \in Request \ late :
    Refreshing(r) /\ session[tok[r]] \notin raced \cup slipped => token[tok[r]] = "active"

\* A sweep has seen, or has revoked, every active token it is to revoke.
SweepCovers ==
  \A r \in Request, t \in Token :
    Sweeping(r) /\ token[t] = "active" /\ t # tok[r] /\ session[t] \notin slipped =>
      t \in todo[r] \cup held[r]

\* One password change at a time is past its upsert, and within the bound.
OneChange ==
  \A r \in Request : stage[r] \in {"upserted", "changing"} =>
    /\ password < MaxPassword
    /\ \A q \in Request : stage[q] \in {"upserted", "changing"} => q = r

\* What is about to be issued goes with the current password, or is late.
VersionKept ==
  \A r \in Request \ late :
    /\ LoggingIn(r) => ver[r] = password
    /\ Refreshing(r) /\ session[tok[r]] \notin slipped => version[session[tok[r]]] = password

\* Once the account is disabled, a request that was let through before is late.
CheckedMarks ==
  Deactivated => \A r \in Request : stage[r] = "checked" => r \in late

SessionInv ==
  /\ TypeOK /\ \A r \in Request : StageOK(r)
  /\ SweepMarks /\ SessionsKnown
  /\ OneTokenPerSession /\ OneRefresh /\ RefreshLive
  /\ SweepCovers /\ OneChange
  /\ PasswordEndsSessions /\ VersionKept
  /\ DisabledHasNoSession /\ CheckedMarks
=============================================================================
