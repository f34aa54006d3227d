------------------------------ MODULE Routing ------------------------------
(***************************************************************************)
(* How requests go through the HTTP surface, one at a time: the limits of  *)
(* the rate limiter, which are kept in memory per bucket and per key, the  *)
(* guards, the validation of the input and the handler.  The tables are    *)
(* those of Surface.                                                       *)
(***************************************************************************)
EXTENDS Naturals, Sequences

CONSTANTS
  Caller,        \* machines that send requests
  MaxHits,       \* bucket -> requests a key may make in one window
  The, App, Meets, Answers, GoogleIds, AdminIds, Calls, Endpoints, Setups,  \* see Surface
  None

VARIABLES
  setup,  \* what the process was started with
  hits,    \* bucket -> key -> requests counted in this window, up to the limit
  renewed, \* history: per key, the refreshes let on since the refresh bucket's window began
  reply    \* the request under way and its answer, or None

vars == <<setup, hits, renewed, reply>>

Bucket == {"credentials", "refresh"}
Key == Caller \cup {"anonymous"}

\* Tokens are signed with a secret per kind; "stale" is any that is expired or
\* not valid.  A socket's token is not in the Authorization header.
Credential == {"none", "access", "admin", "claim", "stale"}
Sockets == {"relay", "signal", "poke"}
Header(req) == IF req.route \in Sockets THEN "none" ELSE req.credential
Protocol(req) == IF req.route \in Sockets THEN req.credential ELSE "none"

\* Fault variant: a token is verified with either secret.
RequireAnyToken(req) == Header(req) \in {"access", "admin"}

\* Which requests a guard lets on.
RequireAuth(req) == Header(req) = "access"
OptionalAuth(req) == Header(req) \in {"none", "access"}
RequireAdmin(req) == Header(req) = "admin"
SocketAuth(req) == Protocol(req) = "access"
RelayIdentity(req) == Protocol(req) \in {"access", "claim"}
Passes(guard, req) ==
  CASE guard = "cors" -> req.method # "options"
    [] guard = "bearer" -> RequireAuth(req)
    [] guard = "optional" -> OptionalAuth(req)
    [] guard = "admin" -> RequireAdmin(req)
    [] guard = "socket" -> SocketAuth(req)
    [] guard = "query" -> req.wellFormed
    [] guard = "identity" -> RelayIdentity(req)

\* defaultHook and onError: invalid input is 400, an unexpected failure 500.
Handled(entry, req) ==
  IF entry.input /\ ~req.wellFormed THEN {400} ELSE Answers[entry.id] \cup {500}

\* The status of a refusal.
Refusals(entry) ==
  CASE entry.does = "cors" -> {204} [] entry.does = "query" -> {400} [] entry.does = "limit" -> {429}
    [] entry.does = "identity" -> {401, 403} [] OTHER -> {401}

\* createAuthSurfaceRateLimit: renewals are counted apart.
BucketOf(id) == IF id = "refresh" THEN "refresh" ELSE "credentials"

\* keyByForwardedFor: the header the reverse proxy adds, if there is one.
KeyOf(c) == IF setup.proxied THEN c ELSE "anonymous"

\* The first entry that does not let the request on.
Deciding(req, full) ==
  LET live == {i \in Meets[req.route] : App[i].feature \in {"always"} \cup setup.features}
      stops == {i \in live :
        CASE App[i].does = "serve" -> req.method # "options"
          [] App[i].does = "limit" -> full
          [] OTHER -> ~Passes(App[i].does, req)} IN
  IF stops = {} THEN None ELSE App[CHOOSE i \in stops : \A j \in stops : i <= j]

By(entry) == IF entry.does = "serve" THEN entry.id ELSE entry.does

Init ==
  /\ setup \in Setups
  /\ hits = [b \in Bucket |-> [k \in Key |-> 0]]
  /\ renewed = [k \in Key |-> 0]
  /\ reply = None

\* A counter stops at the limit: how far beyond it goes decides nothing.
Counted(n, b) == IF n >= MaxHits[b] THEN n ELSE n + 1

Ask(c, r, method, credential, wellFormed) ==
  LET req == [route |-> r.id, method |-> method, credential |-> credential, wellFormed |-> wellFormed]
      b == BucketOf(r.id)
      k == KeyOf(c)
      counts == method # "options" /\ \E i \in Meets[r.id] : App[i].does = "limit"
      full == counts /\ hits[b][k] >= MaxHits[b]
      entry == Deciding(req, full) IN
  /\ hits' = IF counts THEN [hits EXCEPT ![b][k] = Counted(@, b)] ELSE hits
  /\ renewed' = IF counts /\ ~full /\ r.id = "refresh" THEN [renewed EXCEPT ![k] = @ + 1] ELSE renewed
  /\ IF entry = None
     THEN reply' = [req |-> req, key |-> k, by |-> "nobody", status |-> 404]
     ELSE \E s \in IF entry.does = "serve" THEN Handled(entry, req) ELSE Refusals(entry) :
            reply' = [req |-> req, key |-> k, by |-> By(entry), status |-> s]
  /\ UNCHANGED setup

Done == reply # None /\ reply' = None /\ UNCHANGED <<setup, hits, renewed>>

\* The limiter forgets a key when its window ends.
WindowEnds(b, k) ==
  /\ reply = None
  /\ hits' = [hits EXCEPT ![b][k] = 0]
  /\ renewed' = IF b = "refresh" THEN [renewed EXCEPT ![k] = 0] ELSE renewed
  /\ UNCHANGED <<setup, reply>>

Next ==
  \/ /\ reply = None
     /\ \E c \in Caller, id \in DOMAIN The, credential \in Credential :
          \/ \E ok \in {TRUE, ~The[id].input} : Ask(c, The[id], The[id].method, credential, ok)
          \/ credential = "none" /\ Ask(c, The[id], "options", credential, TRUE)
  \/ Done
  \/ \E b \in Bucket, k \in Key : WindowEnds(b, k)

-----------------------------------------------------------------------------
\* The names of the guards, which no route has.
Guard == {"cors", "bearer", "optional", "admin", "socket", "query", "identity", "limit"}

TypeOK ==
  /\ \A b \in Bucket : \A k \in Key : hits[b][k] \in 0..MaxHits[b]
  /\ reply # None =>
       /\ reply.key \in Key /\ reply.req.route \in DOMAIN The
       /\ reply.by \in DOMAIN The \cup Guard \cup {"nobody"}

\* Who may use a route, as it declares.
Entitled(r, credential) ==
  CASE r.security = "none" -> TRUE
    [] r.security = "optional" -> credential \in {"none", "access"}
    [] r.security = "Bearer" -> credential = "access"
    [] r.security = "AdminBearer" -> credential = "admin"
    [] r.security = "relay" -> credential \in {"access", "claim"}

Mounted(id) == (id \in GoogleIds => "google" \in setup.features) /\ (id \in AdminIds => "admin" \in setup.features)

\* Statuses that occur and no route file documents: the input of these routes
\* can be refused, a Google account be disabled, and anything can fail.
Undocumented(r) ==
  {500} \cup (IF r.id = "googleClaim" THEN {403} ELSE {})
    \cup (IF r.id \in {"revokeDevice", "listSessions"} \cup AdminIds THEN {400} ELSE {})

\* A refresh is refused by the limiter only when as many refreshes of its key
\* have been let on in the window as a key may make: not for the sign-ins, nor
\* for the refreshes of other keys.
RefreshesCountedApart ==
  reply # None /\ reply.by = "limit" /\ reply.req.route = "refresh" =>
    renewed[reply.key] >= MaxHits["refresh"]

\* A preflight is always answered, and any other request reaches the handler
\* of its own route if it is mounted and the credential is one it declares (an
\* anonymous caller's optional, a socket's in the sub-protocol header), and no
\* handler otherwise, whatever other routes have been guarded with around it;
\* the answer is one the route documents or a listed other.  The dashboard has
\* a call for every route of its API and a route for every call, which answers
\* with a body where the caller wants one.
RequestsFollowDeclarations ==
  /\ RefreshesCountedApart
  /\ reply # None =>
       LET r == The[reply.req.route]
           preflight == reply.req.method = "options" IN
       /\ preflight <=> reply.by = "cors"
       /\ reply.by = "limit" => Len(r.path) > 2 /\ r.path[2] = "auth"
       /\ ~preflight /\ reply.by # "limit" => (reply.by = "nobody" <=> ~Mounted(r.id))
       /\ reply.by = "query" => ~reply.req.wellFormed /\ 400 \in r.declared
       /\ reply.by \notin {"cors", "limit", "nobody", "query"} =>
            /\ reply.by = r.id <=> Entitled(r, reply.req.credential)
            /\ reply.status \in r.declared \cup Undocumented(r)
       /\ r.id \in AdminIds \ {"spa"} /\ reply.by = r.id =>
            \E e \in Calls[r.id] : reply.status \in {200, 204} => (e.body <=> reply.status = 200)
       /\ \A e \in Endpoints : \E id \in AdminIds : e \in Calls[id]

-----------------------------------------------------------------------------
(* What the tables are, route by route, for requests to follow them.        *)

Kinds == {"none", "optional", "Bearer", "AdminBearer", "relay"}

\* The guards in front of the handler of a route, from the scheme it declares.
GuardsOf(r) ==
  CASE r.security = "none" -> {}
    [] r.security = "optional" -> {"optional"}
    [] r.security = "Bearer" -> IF r.id \in Sockets THEN {"socket"} ELSE {"bearer"}
    [] r.security = "AdminBearer" -> {"admin"}
    [] r.security = "relay" -> {"query", "identity"}

FeatureOf(id) == IF id \in GoogleIds THEN "google" ELSE IF id \in AdminIds THEN "admin" ELSE "always"

\* An entry that a request to route r meets, `own` being the one that serves it.
EntryFits(r, own, i) ==
  CASE App[i].does = "cors" -> i = 1
    [] App[i].does = "limit" -> Len(r.path) > 2 /\ r.path[2] = "auth"
    [] App[i].does = "serve" -> own <= i /\ App[i].feature = FeatureOf(r.id)
    [] OTHER ->
         /\ i < own /\ App[i].feature = FeatureOf(r.id)
         /\ App[i].does \in GuardsOf(r)
         /\ App[i].does = "query" => 400 \in r.declared
         /\ App[i].does # "query" => Refusals(App[i]) \subseteq r.declared \cup Undocumented(r)

\* The answer to preflights is the first entry, the handler of a route comes
\* behind the guards of its scheme and no others, and before any other handler.
Mounts(r) ==
  /\ r.security \in Kinds /\ (r.security \in {"optional", "AdminBearer"} => r.id \notin Sockets)
  /\ r.security = "relay" => r.id \in Sockets
  /\ 1 \in Meets[r.id]
  /\ \A g \in GuardsOf(r) : \E i \in Meets[r.id] : App[i].does = g
  /\ \E own \in Meets[r.id] :
       /\ App[own].does = "serve" /\ App[own].id = r.id /\ App[own].input = r.input
       /\ \A i \in Meets[r.id] : EntryFits(r, own, i)

\* What a route's handler answers is documented or listed, and the dashboard's
\* call for it counts on a body when there is one.
Documents(r) ==
  /\ r.input => 400 \in r.declared \cup Undocumented(r)
  /\ Answers[r.id] \subseteq r.declared \cup Undocumented(r)
  /\ r.id \in AdminIds \ {"spa"} =>
       \E e \in Calls[r.id] : \A s \in Answers[r.id] \cap {200, 204} : e.body <=> s = 200

TablesAgree ==
  /\ App[1].does = "cors" /\ App[1].feature = "always"
  /\ GoogleIds \cap AdminIds = {}
  /\ \A id \in DOMAIN The : The[id].method # "options" /\ Mounts(The[id]) /\ Documents(The[id])
  /\ \A e \in Endpoints : \E id \in AdminIds : e \in Calls[id]
=============================================================================
