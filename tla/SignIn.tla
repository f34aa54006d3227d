------------------------------- MODULE SignIn -------------------------------
(***************************************************************************)
(* How an account comes about and is signed in to: the Google flow of      *)
(* auth.controller.ts over the one-shot keys of oauth-flow-store, and the  *)
(* accounts it shares with registration and with the setup of a password.  *)
(*                                                                         *)
(* A flow is one trip to Google.  Its state, its device code and its relay *)
(* code are random and its own, so each key of the store is named by the   *)
(* flow.  Requests run concurrently; a database transaction is READ        *)
(* COMMITTED, and a unique index makes an insert wait for an uncommitted   *)
(* row with its key.  Profile columns and is_active are left out: a step   *)
(* that may refuse an account may fail here.                               *)
(***************************************************************************)
EXTENDS Naturals

CONSTANTS
  Desktop,  \* trips to Google for a desktop client
  Web,      \* trips to Google for a web client
  Request,  \* requests in progress at the same time
  Email,    \* normalised addresses
  Sub,      \* Google accounts
  Mail,     \* EXTERNAL: the verified addresses a Google account may have
  User,     \* ids for rows of users
  MaxFault, \* BOUND: expired keys, lost steps, crashes, and keys read twice
  None

ASSUME FlowAssumption == Desktop \cap Web = {}
ASSUME MailAssumption == Mail \in [Sub -> SUBSET Email]
ASSUME FaultAssumption == MaxFault \in Nat
ASSUME NoneAssumption == None \notin Email /\ None \notin User

VARIABLES
  adaptor,   \* the key-value store the deployment is wired with
  kv,        \* its keys: <<"pending" | "relay" | "web", flow>>
  started,   \* flows under way
  consent,   \* EXTERNAL: what the user did at Google
  spent,     \* EXTERNAL: flows whose authorization code has been redeemed
  told,      \* what the client of a flow has heard of its end
  email,     \* users: the address of each committed row
  cred,      \* srp_credentials: what set the password of a user
  identity,  \* oauth_identities: the user a Google account is linked to
  req,       \* per request, where its handler is
  issued,    \* history: sessions issued for the relay code of a flow
  session,   \* history: the account they are for
  raced,     \* history: keys two requests read before either deleted it
  hurt,      \* history: web flows that met a fault
  faults     \* faults so far

accounts == <<email, cred, identity>>
client == <<started, consent, told>>
history == <<issued, session, raced>>
vars == <<adaptor, kv, client, spent, accounts, req, history, hurt, faults>>

Flow == Desktop \cup Web
Key == {"pending", "relay", "web"} \X Flow
Declined == <<None, None>>
Idle == [at |-> "idle"]

Init ==
  /\ adaptor \in {"redis", "memory"}
  /\ kv = [k \in Key |-> None]
  /\ started = {}
  /\ consent = [f \in Flow |-> None]
  /\ spent = {}
  /\ told = [f \in Flow |-> None]
  /\ email = [u \in User |-> None]
  /\ cred = [u \in User |-> None]
  /\ identity = [s \in Sub |-> None]
  /\ req = [r \in Request |-> Idle]
  /\ issued = [f \in Flow |-> 0]
  /\ session = [f \in Flow |-> None]
  /\ raced = {} /\ hurt = {} /\ faults = 0

Go(r, s) == req' = [req EXCEPT ![r] = s]
At(r, stage) == req[r].at = stage
Set(k, v) == kv' = [kv EXCEPT ![k] = v]

(***************************************************************************)
(* The flow's start and, at Google, its end.                               *)
(***************************************************************************)

\* GET /google/start for a desktop client, POST /google/web/begin for a web one.
Start(f) ==
  /\ f \notin started
  /\ started' = started \cup {f}
  /\ Set(<<"pending", f>>, IF f \in Web THEN "web" ELSE "desktop")
  /\ UNCHANGED <<adaptor, consent, spent, told, accounts, req, history, hurt, faults>>

\* EXTERNAL: the user picks a Google account, or declines.
Consent(f) ==
  /\ f \in started /\ consent[f] = None
  /\ \E c \in {Declined} \cup UNION {{s} \X Mail[s] : s \in Sub} :
       consent' = [consent EXCEPT ![f] = c]
  /\ UNCHANGED <<adaptor, kv, started, spent, told, accounts, req, history, hurt, faults>>

(***************************************************************************)
(* getdel.  Redis reads and deletes in one command; the in-memory store    *)
(* awaits in between, so a pipelined request can read the same value.      *)
(***************************************************************************)

\* Who asks for a key: the browser that comes back from Google, possibly again,
\* and a client that knows the relay code.  A key that is not there is answered
\* at once: invalid_state, invalid_relay.
MayAsk(k) ==
  /\ kv[k] # None
  /\ \/ k[1] = "pending" /\ consent[k[2]] # None
     \/ k[1] = "relay" /\ told[k[2]] = "success"

\* How the callback and the claim go on with the value.
Then(k, v) == IF k[1] = "pending" THEN [at |-> "exchange", flow |-> k[2]]
                                  ELSE [at |-> "issue", flow |-> k[2], user |-> v]

\* Fault variant: a get where a getdel is meant.
ConsumedKept(k) == kv

\* The store once key k has been consumed.
Consumed(k) == [kv EXCEPT ![k] = None]

Take(r, k) ==
  /\ adaptor = "redis" /\ At(r, "idle") /\ MayAsk(k)
  /\ kv' = Consumed(k)
  /\ Go(r, Then(k, kv[k]))
  /\ UNCHANGED <<adaptor, client, spent, accounts, history, hurt, faults>>

Read(r, k) ==
  LET race == \E q \in Request : At(q, "read") /\ req[q].key = k IN
  /\ adaptor = "memory" /\ At(r, "idle") /\ MayAsk(k)
  /\ Go(r, [at |-> "read", key |-> k, val |-> kv[k]])
  /\ raced' = IF race THEN raced \cup {k[2]} ELSE raced
  /\ race => faults < MaxFault
  /\ faults' = IF race THEN faults + 1 ELSE faults
  /\ UNCHANGED <<adaptor, kv, client, spent, accounts, issued, session, hurt>>

Delete(r) ==
  /\ At(r, "read")
  /\ kv' = Consumed(req[r].key)
  /\ Go(r, Then(req[r].key, req[r].val))
  /\ UNCHANGED <<adaptor, client, spent, accounts, history, hurt, faults>>

(***************************************************************************)
(* GET /google/callback: exchange the code, resolve the account in one     *)
(* transaction, leave a relay code, and for a web client park the outcome. *)
(***************************************************************************)

\* EXTERNAL: Google redeems an authorization code once.
Exchange(r) ==
  LET f == req[r].flow IN
  /\ At(r, "exchange")
  /\ IF consent[f] = Declined \/ f \in spent
     THEN /\ Go(r, [at |-> "fail", flow |-> f])
          /\ UNCHANGED spent
     ELSE /\ Go(r, [at |-> "identify", flow |-> f])
          /\ spent' = spent \cup {f}
  /\ UNCHANGED <<adaptor, kv, client, accounts, history, hurt, faults>>

Linking(f, u, fresh) == [at |-> "link", flow |-> f, user |-> u, fresh |-> fresh]

\* findByProviderUserId and findById.
Identify(r) ==
  LET f == req[r].flow
      u == identity[consent[f][1]] IN
  /\ At(r, "identify")
  /\ Go(r, IF u # None THEN Linking(f, u, FALSE) ELSE [at |-> "lookup", flow |-> f])
  /\ UNCHANGED <<adaptor, kv, client, spent, accounts, history, hurt, faults>>

\* Fault variant: an account without a linked identity is taken for a match.
OwnersUnlinked(mail) == {u \in User : email[u] # None /\ \A s \in Sub : identity[s] # u}

\* findByEmail: the committed row with an address.
Owners(mail) == {u \in User : email[u] = mail}

Lookup(r) ==
  LET f == req[r].flow
      found == Owners(consent[f][2]) IN
  /\ At(r, "lookup")
  /\ Go(r, IF found # {} THEN Linking(f, CHOOSE u \in found : TRUE, FALSE)
                         ELSE [at |-> "insert", flow |-> f])
  /\ UNCHANGED <<adaptor, kv, client, spent, accounts, history, hurt, faults>>

\* A row of users that an open transaction has inserted.
Fresh(q) == At(q, "commit") \/ (At(q, "link") /\ req[q].fresh)
MailOf(q) == IF At(q, "commit") THEN req[q].mail ELSE consent[req[q].flow][2]
Unused == {u \in User : email[u] = None /\ \A q \in Request : Fresh(q) => req[q].user # u}

\* The unique index on users.email: a committed row has the address.
Taken(mail) == \E u \in User : email[u] = mail

\* insert waits for an uncommitted row with the address.
MayInsert(mail) == \A q \in Request : Fresh(q) => MailOf(q) # mail

Insert(r) ==
  LET f == req[r].flow
      mail == consent[f][2] IN
  /\ At(r, "insert") /\ MayInsert(mail)
  /\ IF Taken(mail) THEN Go(r, [at |-> "fail", flow |-> f])
     ELSE Unused # {} /\ Go(r, Linking(f, CHOOSE u \in Unused : TRUE, TRUE))
  /\ UNCHANGED <<adaptor, kv, client, spent, accounts, history, hurt, faults>>

\* Fault variant: the upsert overwrites the user of the identity.
LinkedAnew(s, u) == [identity EXCEPT ![s] = u]

\* The upsert of the identity: a conflict leaves the user it is linked to.
Linked(s, u) == [identity EXCEPT ![s] = IF @ = None THEN u ELSE @]

\* The upsert and the commit; the handler goes on with the user it resolved.
Link(r) ==
  LET f == req[r].flow
      u == req[r].user IN
  /\ At(r, "link")
  /\ identity' = Linked(consent[f][1], u)
  /\ email' = IF req[r].fresh THEN [email EXCEPT ![u] = consent[f][2]] ELSE email
  /\ Go(r, [at |-> "relay", flow |-> f, user |-> u])
  /\ UNCHANGED <<adaptor, kv, client, spent, cred, history, hurt, faults>>

\* Fault variant: a failed web flow parks nothing for its poll.
ParkedSuccess(k, outcome) == IF outcome = "error" THEN kv ELSE [kv EXCEPT ![k] = outcome]

\* Fault variant: the outcome is saved under the key of the relay code.
ParkedMixed(k, outcome) == [kv EXCEPT ![<<"relay", k[2]>>] = outcome]

\* saveWebOutcome.
Parked(k, outcome) == [kv EXCEPT ![k] = outcome]

\* A desktop client hears of the end from the deep link of the landing page.
Hear(f, outcome) == told' = [told EXCEPT ![f] = IF @ = None THEN outcome ELSE @]

SaveRelay(r) ==
  LET f == req[r].flow IN
  /\ At(r, "relay")
  /\ Set(<<"relay", f>>, req[r].user)
  /\ IF f \in Web THEN Go(r, [at |-> "park", flow |-> f]) /\ UNCHANGED told
                        ELSE Go(r, Idle) /\ Hear(f, "success")
  /\ UNCHANGED <<adaptor, started, consent, spent, accounts, history, hurt, faults>>

Park(r) ==
  /\ At(r, "park")
  /\ kv' = Parked(<<"web", req[r].flow>>, "success")
  /\ Go(r, Idle)
  /\ UNCHANGED <<adaptor, client, spent, accounts, history, hurt, faults>>

\* fail(): the web client's poll is told, or the desktop's deep link.
Fail(r) ==
  LET f == req[r].flow IN
  /\ At(r, "fail")
  /\ IF f \in Web THEN kv' = Parked(<<"web", f>>, "error") /\ UNCHANGED told
                        ELSE Hear(f, "error") /\ UNCHANGED kv
  /\ Go(r, Idle)
  /\ UNCHANGED <<adaptor, started, consent, spent, accounts, history, hurt, faults>>

\* Google is unreachable, an account is disabled, registration is closed, a
\* query fails: the transaction rolls back, and the callback's catch runs.
Refused(r) ==
  /\ req[r].at \in {"exchange", "identify", "lookup", "insert", "link", "relay", "park"}
  /\ Go(r, [at |-> "fail", flow |-> req[r].flow])
  /\ UNCHANGED <<adaptor, kv, client, spent, accounts, history, hurt, faults>>

(***************************************************************************)
(* POST /google/web/poll, which holds nothing while it waits for the store, *)
(* and /google/claim, once the relay code is consumed.                     *)
(***************************************************************************)
Poll(f) ==
  /\ told[f] = None /\ kv[<<"web", f>>] # None
  /\ Hear(f, kv[<<"web", f>>])
  /\ kv' = Consumed(<<"web", f>>)
  /\ UNCHANGED <<adaptor, started, consent, spent, accounts, req, history, hurt, faults>>

IssueSession(r) ==
  LET f == req[r].flow IN
  /\ At(r, "issue")
  /\ issued' = [issued EXCEPT ![f] = @ + 1]
  /\ session' = [session EXCEPT ![f] = req[r].user]
  /\ Go(r, Idle)
  /\ UNCHANGED <<adaptor, kv, client, spent, accounts, raced, hurt, faults>>

(***************************************************************************)
(* POST /register and /e2e/setup.                                          *)
(***************************************************************************)

\* A unique violation is a 409; otherwise the account and its password are
\* inserted in one transaction.
Register(r, mail) ==
  /\ At(r, "idle") /\ MayInsert(mail) /\ ~Taken(mail) /\ Unused # {}
  /\ Go(r, [at |-> "commit", mail |-> mail, user |-> CHOOSE u \in Unused : TRUE])
  /\ UNCHANGED <<adaptor, kv, client, spent, accounts, history, hurt, faults>>

CommitRegistration(r) ==
  /\ At(r, "commit")
  /\ email' = [email EXCEPT ![req[r].user] = req[r].mail]
  /\ cred' = [cred EXCEPT ![req[r].user] = "register"]
  /\ Go(r, Idle)
  /\ UNCHANGED <<adaptor, kv, client, spent, identity, history, hurt, faults>>

\* setupE2E: a signed-in user without a password sets the first one.
Setup(r, u) ==
  /\ At(r, "idle") /\ \E f \in Flow : session[f] = u
  /\ cred[u] = None
  /\ Go(r, [at |-> "setup", user |-> u])
  /\ UNCHANGED <<adaptor, kv, client, spent, accounts, history, hurt, faults>>

\* Fault variant: the setup upserts.
FirstPasswordUpsert(r, u) == TRUE

\* The insert finds no row with the primary key.
FirstPassword(r, u) == cred[u] = None

\* The repository's insert does not turn the unique violation into the
\* UniqueViolationError that setupE2E catches: the loser gets the raw error.
InsertCred(r) ==
  LET u == req[r].user IN
  /\ At(r, "setup")
  /\ cred' = IF FirstPassword(r, u) THEN [cred EXCEPT ![u] = r] ELSE cred
  /\ Go(r, Idle)
  /\ UNCHANGED <<adaptor, kv, client, spent, email, identity, history, hurt, faults>>

(***************************************************************************)
(* Faults nobody makes up for.                                             *)
(***************************************************************************)
FlowsOf(R) == {f \in Flow : \E r \in R : \/ "flow" \in DOMAIN req[r] /\ req[r].flow = f
                                         \/ "key" \in DOMAIN req[r] /\ req[r].key[2] = f}

Fault(F) == faults < MaxFault /\ faults' = faults + 1 /\ hurt' = hurt \cup (F \cap Web)

Expire(k) ==
  /\ kv[k] # None /\ Fault({k[2]})
  /\ Set(k, None)
  /\ UNCHANGED <<adaptor, client, spent, accounts, req, history>>

\* The answer of a poll is lost; the outcome is consumed.
LosePoll(f) ==
  /\ told[f] = None /\ kv[<<"web", f>>] # None /\ Fault({f})
  /\ kv' = Consumed(<<"web", f>>)
  /\ UNCHANGED <<adaptor, client, spent, accounts, req, history>>

\* The last step of a request fails.
Lost(r) ==
  /\ req[r].at \in {"fail", "issue", "commit", "setup"} /\ Fault(FlowsOf({r}))
  /\ Go(r, Idle)
  /\ UNCHANGED <<adaptor, kv, client, spent, accounts, history>>

\* The process restarts; the in-memory store restarts with it.
Crash ==
  /\ req' = [r \in Request |-> Idle]
  /\ kv' = IF adaptor = "memory" THEN [k \in Key |-> None] ELSE kv
  /\ Fault(IF adaptor = "memory" THEN Flow ELSE FlowsOf(Request))
  /\ UNCHANGED <<adaptor, client, spent, accounts, history>>

Step(r) ==
  \/ Delete(r) \/ Exchange(r) \/ Identify(r) \/ Lookup(r) \/ Insert(r) \/ Link(r)
  \/ SaveRelay(r) \/ Park(r) \/ Fail(r) \/ IssueSession(r)
  \/ CommitRegistration(r) \/ InsertCred(r)

Ask(r, k) == Take(r, k) \/ Read(r, k)

Next ==
  \/ \E f \in Flow : Start(f) \/ Consent(f) \/ Poll(f) \/ LosePoll(f)
  \/ \E r \in Request : \/ \E k \in Key : Ask(r, k)
                        \/ Step(r) \/ Refused(r) \/ Lost(r)
                        \/ \E e \in Email : Register(r, e)
                        \/ \E u \in User : Setup(r, u)
  \/ \E k \in Key : Expire(k)
  \/ Crash

\* Handlers run on; a web client's backend keeps polling and claims the relay
\* code it is given.  Every key is consumed at most a few times, so requests
\* cannot keep each other waiting for ever and weak fairness is enough.
Fairness ==
  /\ \A r \in Request : WF_vars(Step(r))
  /\ \A f \in Web : WF_vars(Poll(f)) /\ WF_vars(\E r \in Request : Ask(r, <<"relay", f>>))

Spec == Init /\ [][Next]_vars /\ Fairness

-----------------------------------------------------------------------------
Stage ==
  {Idle}
  \cup [at : {"read"}, key : {"pending"} \X Flow, val : {"desktop", "web"}]
  \cup [at : {"read"}, key : {"relay"} \X Flow, val : User]
  \cup [at : {"exchange", "identify", "lookup", "insert", "park", "fail"}, flow : Flow]
  \cup [at : {"link"}, flow : Flow, user : User, fresh : BOOLEAN]
  \cup [at : {"relay", "issue"}, flow : Flow, user : User]
  \cup [at : {"commit"}, mail : Email, user : User]
  \cup [at : {"setup"}, user : User]

TypeOK ==
  /\ adaptor \in {"redis", "memory"}
  /\ kv \in [Key -> {None, "desktop", "web", "success", "error"} \cup User]
  /\ \A f \in Flow : /\ kv[<<"pending", f>>] \in {None, "desktop", "web"}
                     /\ kv[<<"relay", f>>] \in User \cup {None}
                     /\ kv[<<"web", f>>] \in {None, "success", "error"}
  /\ started \subseteq Flow
  /\ consent \in [Flow -> {None, Declined} \cup (Sub \X Email)]
  /\ told \in [Flow -> {None, "success", "error"}]
  /\ email \in [User -> Email \cup {None}]
  /\ cred \in [User -> Request \cup {None, "register"}]
  /\ identity \in [Sub -> User \cup {None}]
  /\ req \in [Request -> Stage]
  /\ issued \in [Flow -> Nat] /\ session \in [Flow -> User \cup {None}]
  /\ spent \subseteq Flow /\ raced \subseteq Flow /\ hurt \subseteq Web
  /\ faults \in 0..MaxFault

\* One trip to Google gives at most one session, however often the browser
\* repeats the callback and the client the claim, unless two requests read the
\* same key of the in-memory store before either deleted it.
OneSessionPerConsent == \A f \in Flow : issued[f] <= 1 \/ f \in raced

\* The user a flow resolved to, from the relay code on.
Resolved(f, u) ==
  \/ kv[<<"relay", f>>] = u \/ session[f] = u
  \/ \E r \in Request : req[r].at \in {"relay", "issue"} /\ req[r].flow = f /\ req[r].user = u

\* User u is linked to the Google account of flow f or has its address.
Rightful(f, u) == identity[consent[f][1]] = u \/ email[u] = consent[f][2]

\* A relay code and its session are for a committed account that is linked to
\* the Google account of the flow or has the address Google vouched for, also
\* when sign-ins and registrations with that address overlap.
NotSomeoneElse ==
  \A f \in Flow, u \in User : Resolved(f, u) => Rightful(f, u)

\* Overlapping registrations, sign-ins and setups leave one account per
\* address; a linked Google account stays with its user, and nothing but a
\* password change replaces a password.
AccountsStayPut ==
  [][/\ \A u, v \in User : email'[u] = email'[v] /\ email'[u] # None => u = v
     /\ \A u \in User : email[u] # None => email'[u] = email[u]
     /\ \A u \in User : cred[u] # None => cred'[u] = cred[u]
     /\ \A s \in Sub : identity[s] # None => identity'[s] = identity[s]]_vars

\* A web client never polls in vain: once the callback has consumed the state,
\* the client is signed in or told of the failure, unless a key expired, the
\* process restarted or an answer was lost.
WebFlowsEnd ==
  \A f \in Web :
    (\E r \in Request : At(r, "exchange") /\ req[r].flow = f)
      ~> (issued[f] > 0 \/ told[f] = "error" \/ f \in hurt)

-----------------------------------------------------------------------------
(* The inductive invariant behind OneSessionPerConsent, NotSomeoneElse and    *)
(* AccountsStayPut.                                                          *)

\* A request on its way to the relay code of f, one that holds the value of the
\* code, and one that is about to issue its session.
Resolving(r, f) ==
  /\ req[r].at \in {"identify", "lookup", "insert", "link", "relay"}
  /\ req[r].flow = f
Claims(r, f) == At(r, "read") /\ req[r].key = <<"relay", f>>
Issues(r, f) == At(r, "issue") /\ req[r].flow = f

\* Only the in-memory store is read before it is deleted from.  Nobody is on the
\* way from Google without an answer, and a code is redeemed only for a user who
\* said who she is.
Answered ==
  /\ adaptor = "redis" => \A r \in Request : ~At(r, "read")
  /\ \A r \in Request : /\ At(r, "exchange") => consent[req[r].flow] # None
                        /\ \A f \in Flow : At(r, "read") /\ req[r].key = <<"pending", f>> =>
                             consent[f] # None
  /\ \A f \in spent : consent[f] \notin {None, Declined}

\* The authorization code is redeemed once, so one request at most is on its way
\* to a relay code, and until it saves it nobody has one.
OneCode(f) ==
  /\ \A r \in Request : Resolving(r, f) =>
       /\ kv[<<"relay", f>>] = None /\ issued[f] = 0
       /\ \A q \in Request : /\ ~Claims(q, f) /\ ~Issues(q, f)
                             /\ Resolving(q, f) => q = r
  /\ f \notin spent =>
       /\ kv[<<"relay", f>>] = None /\ issued[f] = 0 /\ session[f] = None
       /\ \A r \in Request : ~Resolving(r, f) /\ ~Claims(r, f) /\ ~Issues(r, f)

\* Unless two read it, the relay code is in one place: the store, or one
\* request, or the session it was claimed for.
OneClaim(f) ==
  f \notin raced =>
    /\ issued[f] <= 1
    /\ kv[<<"relay", f>>] # None => issued[f] = 0 /\ \A q \in Request : ~Issues(q, f)
    /\ \A q \in Request : Claims(q, f) =>
         issued[f] = 0 /\ \A p \in Request : ~Issues(p, f) /\ (Claims(p, f) => p = q)
    /\ \A q \in Request : Issues(q, f) =>
         issued[f] = 0 /\ \A p \in Request : Issues(p, f) => p = q

\* Addresses are unique, nothing belongs to a row that is not there, and the
\* rows not yet committed clash with nothing.
AccountsSound ==
  /\ \A u, v \in User : email[u] = email[v] /\ email[u] # None => u = v
  /\ \A s \in Sub : identity[s] # None => email[identity[s]] # None
  /\ \A u \in User : cred[u] # None => email[u] # None
  /\ \A r \in Request : At(r, "setup") => email[req[r].user] # None
  /\ \A q \in Request : Fresh(q) =>
       /\ email[req[q].user] = None /\ ~Taken(MailOf(q))
       /\ \A p \in Request : Fresh(p) => p = q \/ ( /\ req[p].user # req[q].user
                                                   /\ MailOf(p) # MailOf(q) )

\* The rightful user is found before the relay code is there, and kept after.
RightfulSoFar ==
  /\ NotSomeoneElse
  /\ \A r \in Request, f \in Flow : Claims(r, f) => Rightful(f, req[r].val)
  /\ \A r \in Request : At(r, "link") /\ ~req[r].fresh => Rightful(req[r].flow, req[r].user)

SignInInv ==
  /\ Answered /\ AccountsSound /\ RightfulSoFar
  /\ \A f \in Flow : OneCode(f) /\ OneClaim(f)

=============================================================================
