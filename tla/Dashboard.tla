------------------------------ MODULE Dashboard ------------------------------
(***************************************************************************)
(* A tab of the admin dashboard and its hold on a token: useAuth and       *)
(* adminFetch over the tab's sessionStorage, against the token check and   *)
(* the auth routes of the server.  Tokens are numbered as they are issued, *)
(* 0 is none.  Typed passwords are right or wrong by choice.               *)
(***************************************************************************)
EXTENDS Naturals

CONSTANTS
  Request,  \* requests of a page under way at a time
  MaxLogin  \* BOUND: tokens issued

VARIABLES
  session, \* sessionStorage: the token
  logins,  \* tokens issued
  refused, \* tokens no server accepts: expired, another secret, account gone
  page,    \* useAuth of the page in the tab: "loading", "login", "account"
  call,    \* requests of the page, with the token each was sent with
  dropped  \* history: valid tokens the tab dropped without a logout

vars == <<session, logins, refused, page, call, dropped>>

Idle == [kind |-> "none", with |-> 0, at |-> "idle"]

Init ==
  /\ session = 0 /\ logins = 0 /\ refused = {}
  /\ page = "login" /\ call = [q \in Request |-> Idle] /\ dropped = {}

(***************************************************************************)
(* The page sends.                                                         *)
(***************************************************************************)
Sent(kind) == [kind |-> kind, with |-> session, at |-> "sent"]

Send(q, kind) ==
  /\ call[q] = Idle
  /\ call' = [call EXCEPT ![q] = Sent(kind)]
  /\ UNCHANGED <<session, logins, refused, page, dropped>>

Underway(kind) == \E q \in Request : call[q].kind = kind

\* A page starts: by a visit, a reload, or sent to the login page by a 401.
\* The answers to the requests of the page before it are not heard.
Load(q) ==
  /\ page' = IF session = 0 THEN "login" ELSE "loading"
  /\ call' = [p \in Request |-> IF p = q /\ session # 0 THEN Sent("me") ELSE Idle]
  /\ UNCHANGED <<session, logins, refused, dropped>>

Submit(q) == page = "login" /\ ~Underway("login") /\ Send(q, "login")

\* What the pages read and write, and the form that changes the password.
Query(q) == page = "account" /\ Send(q, "query")
Change(q) == page = "account" /\ ~Underway("change") /\ Send(q, "change")

Logout ==
  /\ page = "account"
  /\ session' = 0 /\ page' = "login"
  /\ UNCHANGED <<logins, refused, call, dropped>>

(***************************************************************************)
(* A server handles.                                                       *)
(***************************************************************************)
Answer(q, status) == call' = [call EXCEPT ![q].at = status]

\* requireAdminAuth: the token verifies and its account is there and active.
Admitted(q) == call[q].with \notin refused \cup {0}

Login(q) ==
  /\ call[q].at = "sent" /\ call[q].kind = "login" /\ logins < MaxLogin
  /\ logins' = logins + 1
  /\ call' = [call EXCEPT ![q] = [@ EXCEPT !.at = "ok", !.with = logins + 1]]
  /\ UNCHANGED <<session, refused, page, dropped>>

Accept(q) ==
  /\ call[q].at = "sent" /\ call[q].kind # "login" /\ Admitted(q)
  /\ Answer(q, "ok")
  /\ UNCHANGED <<session, logins, refused, page, dropped>>

\* No valid token, or a wrong password; both are a 401.
Refuse(q) ==
  /\ call[q].at = "sent" /\ (~Admitted(q) \/ call[q].kind \in {"login", "change"})
  /\ Answer(q, "unauthorized")
  /\ UNCHANGED <<session, logins, refused, page, dropped>>

\* A lost connection, a failing query, a server without a dashboard.
Fails(q) ==
  /\ call[q].at = "sent"
  /\ Answer(q, "failed")
  /\ UNCHANGED <<session, logins, refused, page, dropped>>

Expire(t) ==
  /\ t \notin refused
  /\ refused' = refused \cup {t}
  /\ UNCHANGED <<session, logins, page, call, dropped>>

(***************************************************************************)
(* The page hears: adminFetch, and what useAuth makes of it.               *)
(***************************************************************************)

\* Fault variant: any failure signs out.
ClearsOnAny(c) == c.at # "ok"

\* adminFetch on a 401, and the catch of useAuth's first request on anything.
Clears(c) == c.at = "unauthorized" \/ (c.kind = "me" /\ c.at # "ok")

Receive(q) ==
  LET c == call[q] IN
  /\ c.at \in {"ok", "unauthorized", "failed"}
  /\ session' = IF Clears(c) THEN 0 ELSE IF c.kind = "login" /\ c.at = "ok" THEN c.with ELSE session
  /\ dropped' = IF Clears(c) /\ session \notin refused \cup {0}
                THEN dropped \cup {[kind |-> c.kind, own |-> c.with = session]} ELSE dropped
  /\ page' = IF c.kind \in {"me", "login"} /\ c.at = "ok" THEN "account"
             ELSE IF c.kind = "me" THEN "login" ELSE page
  /\ call' = [call EXCEPT ![q] = Idle]
  /\ UNCHANGED <<logins, refused>>

Next ==
  \/ Logout
  \/ \E q \in Request : \/ Load(q) \/ Submit(q) \/ Query(q) \/ Change(q)
                        \/ Login(q) \/ Accept(q) \/ Refuse(q) \/ Fails(q) \/ Receive(q)
  \/ \E t \in 1..logins : Expire(t)

Spec == Init /\ [][Next]_vars

-----------------------------------------------------------------------------
TypeOK ==
  /\ session \in 0..logins /\ logins \in 0..MaxLogin /\ refused \subseteq 1..logins
  /\ page \in {"loading", "login", "account"}
  /\ call \in [Request -> [kind : {"none", "me", "login", "query", "change"}, with : 0..logins,
                           at : {"idle", "sent", "ok", "unauthorized", "failed"}]]
  /\ dropped \subseteq [kind : {"me", "login", "query", "change"}, own : BOOLEAN]

\* A tab does not lose a valid token but in three cases: the first request of a
\* page failed, the current password was mistyped when changing it (a 401 like
\* any other), or a request of an earlier sign-in was answered late.
TokensLostForCause ==
  \A d \in dropped : d.kind \in {"me", "change"} \/ ~d.own
=============================================================================
