------------------------------ MODULE Surface ------------------------------
(***************************************************************************)
(* The HTTP surface as the sources write it: what the route files declare, *)
(* what the controllers register, which entries a request meets, and what  *)
(* the handlers can answer.  The routers are one list of entries in the    *)
(* order the plugins mount them; an entry that matches lets a request on,  *)
(* refuses it or serves it.                                                *)
(* Paths are sequences of segments; a request's parameters are the segment *)
(* "x".  Routing runs requests through it.                                 *)
(***************************************************************************)
EXTENDS Naturals, Sequences

-----------------------------------------------------------------------------
\* What the route files declare.

\* A route, as createRoute is given it: the scheme it asks for, whether it
\* validates a body, a query or parameters, and the answers it documents.
Route(id, method, path, security, input, declared) ==
  [id |-> id, method |-> method, path |-> path, security |-> security, input |-> input,
   declared |-> declared]

AccountRoutes ==
  LET R(id, method, path, security, input, declared) ==
        Route(id, method, <<"v1", "auth">> \o path, security, input, declared) IN
  {R("register", "post", <<"register">>, "none", TRUE, {200, 400, 403, 409}),
   R("srpInit", "post", <<"srp", "init">>, "none", TRUE, {200, 400}),
   R("srpVerify", "post", <<"srp", "verify">>, "none", TRUE, {200, 400, 401, 403}),
   R("refresh", "post", <<"refresh">>, "none", TRUE, {200, 400, 401}),
   R("me", "get", <<"me">>, "Bearer", FALSE, {200, 401}),
   R("devices", "get", <<"devices">>, "Bearer", FALSE, {200, 401}),
   R("revokeDevice", "post", <<"devices", ":id", "revoke">>, "Bearer", TRUE, {204, 401}),
   R("logout", "post", <<"logout">>, "Bearer", FALSE, {204, 401}),
   R("capabilities", "get", <<"capabilities">>, "none", FALSE, {200})}

PasswordRoutes ==
  LET R(id, path, security, declared) ==
        Route(id, "post", <<"v1", "auth">> \o path, security, TRUE, declared) IN
  {R("googleClaim", <<"google", "claim">>, "none", {200, 400, 401}),
   R("e2eSetup", <<"e2e", "setup">>, "Bearer", {200, 400, 401, 409}),
   R("passwordChange", <<"password", "change">>, "Bearer", {200, 400, 401, 409})}

SyncRoutes ==
  {Route(id, "post", <<"v1", "sync", id>>, "Bearer", TRUE, {200, 400, 401}) : id \in {"push", "pull"}}

PhoneRoutes ==
  {Route("registerPhone", "post", <<"v1", "push", "register">>, "Bearer", TRUE, {200, 400, 401}),
   Route("unregisterPhone", "delete", <<"v1", "push", "register">>, "Bearer", TRUE, {204, 400, 401})}

InviteRoutes ==
  LET R(id, method, path, security, input, declared) ==
        Route(id, method, <<"v1", "collab", "invite">> \o path, security, input, declared) IN
  {R("createInvite", "post", <<>>, "Bearer", TRUE, {200, 400, 401, 409}),
   R("revokeInvite", "post", <<":inviteId", "revoke">>, "Bearer", TRUE, {204, 400, 401, 404}),
   R("listInvites", "get", <<>>, "Bearer", FALSE, {200, 401}),
   R("claimInvite", "post", <<":inviteId", "claim">>, "optional", TRUE, {200, 400, 401, 404, 410, 503})}

AnnouncementRoutes ==
  LET R(id, method, path, declared) ==
        Route(id, method, <<"v1", "multiplayer">> \o path, "Bearer", TRUE, declared) IN
  {R("announce", "post", <<"announce">>, {204, 400, 401}),
   R("retract", "delete", <<"announce", ":sessionId">>, {204, 400, 401}),
   R("listSessions", "get", <<"sessions">>, {200, 401})}

API == <<"admin", "api", "v1">>

AdminRoutes ==
  {Route("adminLogin", "post", API \o <<"auth", "login">>, "none", TRUE, {200, 401, 403}),
   Route("adminMe", "get", API \o <<"auth", "me">>, "AdminBearer", FALSE, {200, 401}),
   Route("adminPassword", "post", API \o <<"auth", "change-password">>, "AdminBearer", TRUE, {204, 401})}

StatsRoutes ==
  {Route(id, "get", API \o <<"stats", id>>, "AdminBearer", FALSE, {200, 401}) : id \in {"overview", "sync"}}

UserRoutes ==
  LET R(id, method, path, declared) ==
        Route(id, method, API \o <<"users">> \o path, "AdminBearer", TRUE, declared \cup {401}) IN
  {R("listUsers", "get", <<>>, {200}),
   R("getUser", "get", <<":id">>, {200, 404}),
   R("getUserDevices", "get", <<":id", "devices">>, {200}),
   R("revokeUserDevice", "post", <<":id", "devices", ":jti", "revoke">>, {204}),
   R("revokeAllDevices", "post", <<":id", "revoke-all">>, {204}),
   R("getUserOAuth", "get", <<":id", "oauth-identities">>, {200}),
   R("getUserSyncStats", "get", <<":id", "sync-stats">>, {200})}

UserActionRoutes ==
  LET R(id, method, path, declared) ==
        Route(id, method, API \o <<"users", ":id">> \o path, "AdminBearer", TRUE, declared \cup {401}) IN
  {R("clearResource", "delete", <<"sync-resources", ":resource">>, {200, 404}),
   R("disableUser", "post", <<"disable">>, {204}),
   R("enableUser", "post", <<"enable">>, {204})}

\* The sockets, which carry their credential in the sub-protocol header.
SocketRoutes ==
  {Route("relay", "get", <<"v1", "shared-terminal">>, "relay", TRUE, {101, 400, 401, 403}),
   Route("signal", "get", <<"v1", "multiplayer", "signal">>, "Bearer", TRUE, {101, 400, 401}),
   Route("poke", "get", <<"v1", "sync", "poke">>, "Bearer", FALSE, {101, 401})}

\* What browsers open, and what the reverse proxy probes.
PageRoutes ==
  {Route("googleStart", "get", <<"v1", "auth", "google", "start">>, "none", FALSE, {302}),
   Route("googleCallback", "get", <<"v1", "auth", "google", "callback">>, "none", FALSE, {200}),
   Route("webBegin", "post", <<"v1", "auth", "google", "web", "begin">>, "none", FALSE, {200}),
   Route("webPoll", "post", <<"v1", "auth", "google", "web", "poll">>, "none", TRUE, {200, 400}),
   Route("landing", "get", <<"s", ":inviteId">>, "none", FALSE, {200, 404}),
   Route("spa", "get", <<"admin", "*">>, "none", FALSE, {200, 404}),
   Route("health", "get", <<"health">>, "none", FALSE, {200})}

GoogleIds == {"googleClaim", "e2eSetup", "googleStart", "googleCallback", "webBegin", "webPoll"}
AdminIds == {r.id : r \in AdminRoutes \cup StatsRoutes \cup UserRoutes \cup UserActionRoutes} \cup {"spa"}
Routes ==
  AccountRoutes \cup PasswordRoutes \cup SyncRoutes \cup PhoneRoutes \cup InviteRoutes
    \cup AnnouncementRoutes \cup AdminRoutes \cup StatsRoutes \cup UserRoutes \cup UserActionRoutes
    \cup SocketRoutes \cup PageRoutes
The == [id \in {r.id : r \in Routes} |-> CHOOSE r \in Routes : r.id = id]

-----------------------------------------------------------------------------
\* What the dashboard calls: with adminFetch's prefix, and whether the caller
\* is promised a body.

Endpoints ==
  LET Call(method, path, body) == [method |-> method, path |-> API \o path, body |-> body]
      Get(path) == Call("get", path, TRUE)
      Post(path) == Call("post", path, FALSE)
      OfUser(path) == <<"users", "x">> \o path IN
  {Call("post", <<"auth", "login">>, TRUE), Get(<<"auth", "me">>), Post(<<"auth", "change-password">>),
   Get(<<"stats", "overview">>), Get(<<"stats", "sync">>), Get(<<"users">>)}
  \cup {Get(OfUser(path)) : path \in {<<>>, <<"devices">>, <<"oauth-identities">>, <<"sync-stats">>}}
  \cup {Post(OfUser(path)) : path \in {<<"devices", "x", "revoke">>, <<"revoke-all">>, <<"disable">>, <<"enable">>}}
  \cup {Call("delete", OfUser(<<"sync-resources", "x">>), TRUE)}

-----------------------------------------------------------------------------
\* What the controllers register.

\* An entry that is there when the feature is on.
Use(guard, path, feature) ==
  [does |-> guard, id |-> "guard", method |-> "any", path |-> path, feature |-> feature, input |-> FALSE]

Serve(ids, feature) ==
  [i \in DOMAIN ids |->
    [does |-> "serve", id |-> ids[i], method |-> The[ids[i]].method, path |-> The[ids[i]].path,
     feature |-> feature, input |-> The[ids[i]].input]]

\* AppService: the answer to preflights comes before everything else.
RootApp == <<Use("cors", <<"*">>, "always")>>

AuthApp ==
  LET U(path) == Use("bearer", <<"v1", "auth">> \o path, "always") IN
  <<U(<<"me">>), U(<<"devices">>), U(<<"devices", "*">>), U(<<"logout">>), U(<<"password", "*">>)>>
  \o Serve(<<"register", "srpInit", "srpVerify", "refresh", "me", "devices", "revokeDevice", "logout",
             "capabilities", "passwordChange">>, "always")

GoogleApp ==
  <<Use("bearer", <<"v1", "auth", "e2e", "setup">>, "google")>>
  \o Serve(<<"googleStart", "webBegin", "webPoll", "googleCallback", "googleClaim", "e2eSetup">>, "google")

\* AuthPlugin: the limits come before the guards.
AuthSide == <<Use("limit", <<"v1", "auth", "*">>, "always")>> \o AuthApp \o GoogleApp

SyncApp ==
  <<Use("bearer", <<"v1", "sync", "push">>, "always"), Use("bearer", <<"v1", "sync", "pull">>, "always")>>
  \o Serve(<<"push", "pull">>, "always")

PhoneApp ==
  <<Use("bearer", <<"v1", "push", "*">>, "always")>> \o Serve(<<"registerPhone", "unregisterPhone">>, "always")

\* The relay's query is looked at before its identity.
RelayApp ==
  LET at == <<"v1", "shared-terminal">> IN
  <<Use("query", at, "always"), Use("identity", at, "always")>> \o Serve(<<"relay">>, "always")

InviteApp ==
  LET at == <<"v1", "collab", "invite">> IN
  <<Use("bearer", at, "always"), Use("bearer", at \o <<":inviteId", "revoke">>, "always"),
    Use("optional", at \o <<":inviteId", "claim">>, "always")>>
  \o Serve(<<"createInvite", "revokeInvite", "listInvites", "claimInvite">>, "always")

AnnouncementApp ==
  LET U(guard, path) == Use(guard, <<"v1", "multiplayer">> \o path, "always") IN
  <<U("bearer", <<"announce">>), U("bearer", <<"announce", "*">>), U("bearer", <<"sessions">>)>>
  \o Serve(<<"announce", "retract", "listSessions">>, "always")
  \o <<U("socket", <<"signal">>)>> \o Serve(<<"signal">>, "always")

\* SharedTerminalPlugin: the landing page is outside every prefix.
SharedSide == RelayApp \o InviteApp \o Serve(<<"landing">>, "always") \o AnnouncementApp

AdminApp ==
  <<Use("admin", API \o <<"auth", "me">>, "admin"), Use("admin", API \o <<"auth", "change-password">>, "admin")>>
  \o Serve(<<"adminLogin", "adminMe", "adminPassword">>, "admin")

StatsApp == <<Use("admin", API \o <<"stats", "*">>, "admin")>> \o Serve(<<"overview", "sync">>, "admin")

UsersApp ==
  <<Use("admin", API \o <<"users">>, "admin"), Use("admin", API \o <<"users", "*">>, "admin")>>
  \o Serve(<<"listUsers", "getUser", "getUserDevices", "revokeUserDevice", "revokeAllDevices", "getUserOAuth",
             "getUserSyncStats", "clearResource", "disableUser", "enableUser">>, "admin")

\* AdminPlugin: the pages of the dashboard come after its API.
AdminSide == AdminApp \o StatsApp \o UsersApp \o Serve(<<"spa">>, "admin")

PokeApp == <<Use("socket", <<"v1", "sync", "poke">>, "always")>> \o Serve(<<"poke">>, "always")

\* The plugins' onReady in the order they start, then the entry point.
App ==
  RootApp \o AuthSide \o SyncApp \o PhoneApp \o SharedSide \o AdminSide \o Serve(<<"health">>, "always")
    \o PokeApp

-----------------------------------------------------------------------------
\* Hono: a parameter takes one segment, a final "*" any number.
Params == {":id", ":jti", ":inviteId", ":sessionId", ":resource"}
Fits(pattern, segment) == pattern \in {segment, "*"} \cup (IF segment = "x" THEN Params ELSE {})
Matches(pattern, path) ==
  LET n == Len(pattern) IN
  \/ /\ n = Len(path)
     /\ \A i \in 1..n : Fits(pattern[i], path[i])
  \/ /\ pattern[n] = "*" /\ Len(path) >= n - 1
     /\ \A i \in 1..(n - 1) : Fits(pattern[i], path[i])

Concrete(path) == [i \in DOMAIN path |-> IF path[i] \in Params \cup {"*"} THEN "x" ELSE path[i]]

\* The entries that a request to a route meets, in order.
Met(r) == {i \in DOMAIN App : App[i].method \in {"any", r.method} /\ Matches(App[i].path, Concrete(r.path))}
Meets == [id \in DOMAIN The |-> Met(The[id])]

\* The calls of the dashboard that a route is for.
Calls == [id \in DOMAIN The |-> {e \in Endpoints : e.method = The[id].method /\ e.path = Concrete(The[id].path)}]

-----------------------------------------------------------------------------
\* What the handlers answer to a well-formed request, when nothing fails.
AccountAnswers(id) ==
  CASE id = "register" -> {200, 403, 409}
    [] id \in {"srpVerify", "googleClaim"} -> {200, 401, 403}
    [] id \in {"refresh", "me"} -> {200, 401}
    [] id \in {"revokeDevice", "logout"} -> {204}
    [] id \in {"e2eSetup", "passwordChange"} -> {200, 409}
    [] OTHER -> {200}
InviteAnswers(id) ==
  CASE id = "createInvite" -> {200, 409}
    [] id = "revokeInvite" -> {204, 404}
    [] id = "claimInvite" -> {200, 400, 404, 410, 503}
    [] OTHER -> {200}
AdminAnswers(id) ==
  CASE id = "adminLogin" -> {200, 401, 403}
    [] id = "adminMe" -> {200, 401}
    [] OTHER -> {204, 401}
UserAnswers(id) ==
  CASE id \in {"getUser", "clearResource"} -> {200, 404}
    [] id \in {"revokeUserDevice", "revokeAllDevices", "disableUser", "enableUser"} -> {204}
    [] OTHER -> {200}
SessionAnswers(id) == IF id = "listSessions" THEN {200} ELSE {204}
PhoneAnswers(id) == IF id = "registerPhone" THEN {200} ELSE {204}
SyncAnswers(id) == {200}
StatsAnswers(id) == {200}
SocketAnswers(id) == {101}
PageAnswers(id) ==
  CASE id = "googleStart" -> {302}
    [] id \in {"landing", "spa"} -> {200, 404}
    [] OTHER -> {200}

Answers ==
  [id \in DOMAIN The |->
    LET r == The[id] IN
    CASE r \in AccountRoutes \cup PasswordRoutes -> AccountAnswers(id)
      [] r \in InviteRoutes -> InviteAnswers(id)
      [] r \in AnnouncementRoutes -> SessionAnswers(id)
      [] r \in PhoneRoutes -> PhoneAnswers(id)
      [] r \in SyncRoutes -> SyncAnswers(id)
      [] r \in SocketRoutes -> SocketAnswers(id)
      [] r \in AdminRoutes -> AdminAnswers(id)
      [] r \in StatsRoutes -> StatsAnswers(id)
      [] r \in UserRoutes \cup UserActionRoutes -> UserAnswers(id)
      [] OTHER -> PageAnswers(id)]

-----------------------------------------------------------------------------
\* What a process is started with.  A variable is unset, empty, valid or not;
\* docker compose sets those that have no default to the empty string.

Environment(enabled, google, admin, proxied) ==
  [secrets |-> "valid", settings |-> "valid", enabled |-> enabled, google |-> google, admin |-> admin,
   proxied |-> proxied]
Composed == Environment("false", "empty", "empty", FALSE)
Complete == Environment("true", "valid", "valid", TRUE)
Environments ==
  {Composed, Complete,
   Environment("true", "empty", "valid", TRUE), Environment("", "valid", "valid", TRUE),
   Environment("false", "empty", "invalid", TRUE),
   [Complete EXCEPT !.secrets = "empty"], [Complete EXCEPT !.settings = "empty"]}

\* loadEnv: secrets have to be there, settings have defaults for what is unset
\* only, and what is optional is unset when it is empty.
Loads(env) ==
  /\ env.secrets = "valid" /\ env.settings \in {"unset", "valid"}
  /\ env.enabled \in {"unset", "true", "false"}
  /\ "invalid" \notin {env.google, env.admin}
  /\ env.enabled = "true" => env.google = "valid"

Features(env) ==
  (IF env.enabled = "true" THEN {"google"} ELSE {}) \cup (IF env.admin = "valid" THEN {"admin"} ELSE {})

\* main goes on with what it loads, or exits.
Setups == {[features |-> Features(env), proxied |-> env.proxied] : env \in {e \in Environments : Loads(e)}}
=============================================================================
