# termlnk-server in TLA+

TLA+ models of the server of Termlnk, the TLC configurations that check them and
TLAPS proofs about them. Source references are to the repository; unless a path is
given, `sync.service.ts` is `packages/sync/src/services/sync.service.ts`.

Run a configuration with `tlc -config SyncRetries.cfg MCSyncEngine`; check the
proofs with `tlapm SyncEngineProofs.tla`, and likewise every module whose name ends in
`Proofs`.

## The system

termlnk-server is a Node.js backend. Several instances may run behind a load
balancer; they share one PostgreSQL database and one Redis. Within an instance
everything runs on one event loop, so code between two `await`s is atomic; across
`await`s, requests of the same and of other instances interleave.

| Component | State | Operations | Talks to |
|---|---|---|---|
| Sync engine (`packages/sync`, three repositories in `packages/database`) | `sync_global_version` (one counter per user), `sync_objects` (rows and tombstones with versions), `sync_clients` (watermark per client) | `push`, `pull`, `subscribe` | PostgreSQL; publishes pokes |
| Sync broadcast, poke socket (`packages/sync-broadcast`, `apps/server/src/ws`) | subscriptions per user | `publish`, `subscribe`, socket open and close | Redis pub/sub or an in-process map |
| Relay (`packages/shared-terminal`, `relay.service.ts`) | per instance: session -> daemon socket, client sockets, departure timers, a Redis subscription | attach, frame, shutdown, revoke, close, timer, Redis message | other instances by pub/sub |
| Collaboration invites (`collab.service.ts`) | `collab_invites` rows: active, consumed, revoked | create, claim, revoke, list | PostgreSQL; mints relay claim tokens |
| Relay claim tokens, joiner identity | none | sign, verify, resolve | used by relay attach |
| WebRTC signaling (`signaling.service.ts`) | per instance: session -> peer sockets | attach, message, close, Redis message | other instances by pub/sub |
| Session announcements (`announcement.service.ts`) | `multiplayer_announcements` rows with heartbeats | upsert, retract, list, sweep timer | PostgreSQL; publishes changes |
| Authentication (`packages/auth`) | users, SRP credentials, refresh tokens; pending logins and one-time codes in the key-value store | register, SRP login, Google login, refresh, logout, revoke device, set up and change password | PostgreSQL, key-value store |
| Key-value store (`packages/kv`) | keys with a time to live | get, set, getdel, incr | Redis, or a map |
| Push tokens (`packages/push`) | `push_tokens` | register, unregister | PostgreSQL |
| Administration (`packages/admin`) | admin account; acts on users, tokens and sync rows | login, queries, deactivate user, wipe a resource | PostgreSQL, broadcaster |
| Plugin core (`packages/core`) | registry, loaded plugins, lifecycle stage | register, start, stage changes | every plugin |
| RPC server (`packages/rpc-server`, the route files and controllers) | the list of routers, the rate limiter's counters | mount, limit, guard, validate, answer | every controller |
| Protocol schemas (`packages/protocol`), tables (`packages/database/src/entities`) | none | validate | clients, controllers, PostgreSQL |
| Entry point (`apps/server`), database adaptor | a process with its pool, the migrations table | start, migrate, serve, shut down | PostgreSQL, plugins |
| Admin UI (`apps/admin-ui`) | a tab: token, what a page shows | sign in, list, act on a user | Administration, over HTTP |
| Landing pages (`*-landing.template.ts`) | a page: flags of its script | launch the client, press, look after it | browser, desktop client |
| Deployment (`deploy/docker`) | `.env`, running containers | start, restart, reset and enable the administrator, uninstall | entry point |
| Cryptography (`packages/crypto`) | none | sign, verify, hash | Authentication, relay claim tokens |

What is hard in it:

* **Concurrent pushes and pulls of one user.** A push is one transaction behind a
  row lock; a pull is two or three separate statements and is not.
* **Retries.** A client that lost a response repeats its batch, maybe while the first
  one is still waiting for the lock, and a batch can be partly rejected.
* **Timers against messages.** The relay holds back `peer_left` for five seconds and
  cancels it when the client returns, on this instance or on another one.
* **Lossy pub/sub.** What is published before a subscription is active is lost, and a
  publication that Redis rejects is swallowed; a subscription drops and is made anew.
* **Session objects that outlive their registry entry**, through sockets whose close
  events arrive late.
* **Check, await, act.** Invite claims, token refreshes and pending logins read, await
  something, and then write.
* **One list of routers.** A guard one plugin mounts for a prefix guards what another
  plugin mounts under it.
* **Pages that fetch.** Answers come in any order and actions end after the user has gone
  on to another page; nothing is cancelled.
* **Starts.** Several processes start, migrate and seed the database at the same time.

What makes each component correct:

* sync: no edit is lost, none is applied twice, cursors have no holes, clients converge;
* relay: one live object per session and instance, departures are reported exactly for
  those who left, nothing is stranded, frames that are published reach whoever is attached;
* invites and tokens: nobody but a winner of an invite to it sits in the owner's session;
  a single-use invite is claimed once, a revoked one never afterwards, and a
  failing claim does not burn it;
* signaling: one socket per peer, a departure is announced and does not remove the
  successor;
* announcements: fresh sessions are listed, retracted and stale ones go away;
* auth: a refresh token is rotated once, and after a password change, a logout or a
  deactivation no session survives that should not; one-time codes work once;
* push tokens: a device token belongs to one account;
* pokes: a connected client that lacks a write is told of it, or one of three things went
  wrong;
* plugins: every one is initialised after what it depends on, once, whenever it was
  registered;
* HTTP: a request reaches the handler its route declares, with the credential its route
  declares, and nothing else does; what one schema accepts is nowhere refused later;
* processes: migrations are applied once and in order, transactions survive a shutdown;
* dashboard and landing pages: what they show is so, and links are handed over once.

## Modules

| Module | What it is |
|---|---|
| `SyncStore` | the abstract store of one user that readers rely on: a counter, versioned rows, atomic batches |
| `SyncEngine` | push, pull and wipe in detail, with the clients; its properties; the inductive invariants `AckInv`, `StoreInv` and `CursorInv` |
| `MCSyncEngine` | small instances for TLC |
| `SyncEngineProofs` | proofs: types, acknowledged edits, the watermark; the committed tables, re-application, the refinement of `SyncStore`; cursors |
| `Relay` | one shared-terminal session on several instances: attach, close, timers, messages, collection; its properties and inductive invariants |
| `MCRelay` | small instances for TLC |
| `RelayProofs` | proofs: types and bindings; nothing is stranded, one object serves an instance; departures and frames |
| `AuthSessions` | the sessions of one account: login, refresh, logout, password change, deactivation over `refresh_tokens`; its properties and the inductive invariant `SessionInv` |
| `MCAuthSessions` | small instances for TLC |
| `Sessions` | what the sessions of an account promise to their owner, without requests, tokens or locks |
| `AuthSessionsProofs` | proofs: types and locks, one token per session, password changes and deactivations, the refinement of `Sessions` |
| `Admission` | an invite from its creation to a guest in the owner's relay session: claims, revocation, tokens, attaches |
| `MCAdmission` | a small instance for TLC |
| `Invitations` | what an invite promises to owner and guest, without claims under way, tokens or connections |
| `AdmissionProofs` | proofs: one winner per single-use invite, guests and their invites, the refinement of `Invitations` |
| `Signaling`, `MCSignaling` | one signalling bucket on several instances joined by Redis; its properties and the inductive invariant `SignalingInv`; a small instance |
| `SignalingProofs` | proofs: types, sessions and their sockets, envelopes once and in order, byes and departures |
| `SignIn`, `MCSignIn` | sign-in with Google for desktop and web clients over the one-shot keys, registration, the first set-up of a password; its properties and the inductive invariant `SignInInv`; a small instance |
| `SignInProofs` | proofs: types, one session per consent, rightful accounts, accounts stay put |
| `Fanout` | the poke fan-out of one user: pushes, broadcaster, poke sockets, pulls; the inductive invariant `FInv` is in `ServerProofs` |
| `Plugins` | the plugin core: registration as a depth-first search, lifecycle stages, hooks |
| `PluginsProofs` | proofs: types, plugins are created and go through the stages in order |
| `Announcements` | the discovery list of one user, written by instances whose clocks differ |
| `PushTokens` | registrations of phones as READ COMMITTED transactions |
| `SrpLogin` | the challenges of password logins in the key-value store |
| `AdminAccount` | the administrator's account: `.env`, seeding, resets, changes |
| `Dashboard`, `UserList`, `UserDetail` | a tab of the dashboard: its token, its list of users, its page of one user |
| `Surface` | constants only: routes as declared, routers as mounted, what handlers answer, the environments a server may start with |
| `Routing` | requests through that surface, with the rate limiter |
| `Wire` | constants only: the fields of schemas and tables, and who moves a value from which to which |
| `Values` | one value on its way through those fields |
| `Process` | server and migration processes from boot to exit, over one database |
| `Landing` | the pages a browser is left on after Google or an invite link |
| `Server`, `MCServer` | the parts above from `Fanout` on, except `SignIn`, as one specification; a small instance |
| `ServerProofs` | proofs: pokes, plugins, phones, password logins, landing pages, the discovery list, administration, processes, the limiter, types; the inductive invariants of the parts |

### SyncEngine

One user: every table is keyed by the user and every query filters on it.

| State | Code |
|---|---|
| `row`, `current`, `lastId` | the committed tables `sync_objects`, `sync_global_version`, `sync_clients` |
| `lock` | the row lock of `SELECT ... FOR UPDATE` on the counter |
| `pc`, `req`, `work` | per request in flight: its stage, its batch, the local variables of `push` and what the open transaction wrote |
| `outbox`, `nextId`, `awaiting`, `seen`, `cursor`, `pull` | the clients: unacknowledged mutations, id counter, the push awaited, versions known (`sync_row_meta`), cursors, the pull under way |
| `log`, `held`, `missed` | history: every committed write with its author; the version whose content a client has; the keys an empty pull stepped over |

| Action | Code |
|---|---|
| `Begin` | `ensureExists`, `findCurrentForUpdate` and the client's watermark, lines 70-78 |
| `Skip`, `Accept`, `Reject` | one turn of the loop, lines 94-129, with `applyMutation` |
| `Commit` | lines 131-142 and COMMIT |
| `Abort` | a request that never ran, a failing statement, a server that dies: rollback |
| `BeginWipe` | `clearUserSyncResource`; its loop is the same one over an unconditional delete of each live row |
| `PullRows`, `PullVersion` | the two statements of `pull` that decide the cursor, lines 165 and 179 |
| `Edit`, `Send`, `Timeout`, `ReceiveAck`, `Discard`, `ReceivePull`, `LosePull` | the clients and the network |

A push works on its `work` record until `Commit`, because PostgreSQL shows its
writes to nobody else; a statement inside it sees its own writes over the committed
rows (`View`). `Commit` is one step: PostgreSQL makes it one.

The clients are in another repository. They are modelled from the protocol comments
(`packages/protocol/src/sync.ts`): a client numbers its edits from 1, pushes its whole
outbox, drops accepted ids, keeps rejected ones and rebases them on the next pull. A
client awaits one push at a time but may give up on it (`Timeout`) and push again
while the first one is still on its way. A client runs one pull per resource at a time.

### Relay

One session key (`userId:sessionId`); keys share nothing. A session is an object, and
an object is not its key: a socket's handle is a closure over the object it attached
to (lines 188-192), so an object lives on, through its sockets and its timers, after
`_maybeGcSession` has taken the key out of the registry.

| State | Code |
|---|---|
| `registry` | `_sessions` of each instance |
| `daemon`, `clients`, `leaving` | `session.daemon`, `session.clients`, `session.pendingLeaves`, per object |
| `sub`, `inbox` | the object's Redis connection: not yet created, subscribing, subscribed, closed; and what it has not yet handed over |
| `sock` | sockets of `relay.controller.ts`: open, told to close, gone; the peer and the object of the handle |
| `lateGc`, `overlapped`, `deaf`, `fate`, `due`, `unsent` | history, to state the properties |

| Action | Code |
|---|---|
| `AttachDaemon`, `AttachClient` | `attach` with `_getOrCreateSession` |
| `Shutdown`, `Revoke`, `SendFrame` | the daemon's envelopes in `_handleInbound` |
| `CloseDaemon`, `CloseClient` | `_detach` |
| `Fire` | the timer of `_schedulePeerLeft` with `_emitPeerLeft` |
| `ReceiveEvict`, `ReceivePeerLeft`, `ReceiveRejoined`, `ReceiveFrame` | `_handleRedisEnvelope` |
| `Subscribed`, `Quit` | the subscriber connection, `createSubscriber` |

Handlers have no `await`: each is one action, `_maybeGcSession` included. A close event
comes any time after `close` was called, or by itself; a timer fires any time after it
was armed. `Publish` is `_publish`, whose rejected promise is swallowed: each publication
succeeds or fails (`sent`) and is not repeated. What succeeds reaches the subscriptions that
are active then, in order, each after a delay of its own, and the others never; a
subscription that was confirmed lasts until the object ends it (here and in `Signaling`;
`Fanout` has those that drop). An unsubscribed object may still handle what was on its way.
Pings, invalid JSON and frames of clients change no state and are left out (a client whose daemon is on
another instance is told `daemon_unavailable`). A relay without Redis is the case of one
instance. An instance that dies is not modelled.

### AuthSessions

One account. A session is a login and the refresh tokens that succeed each other in it;
the code has no name for it, `session` records it. Requests of any instance interleave
between statements. Transactions are READ COMMITTED (`node-pg.adaptor.ts:88`, no level
given): a statement sees what was committed when it began; an UPDATE waits for a row that
another transaction has updated and then evaluates its condition again, but misses rows
that were inserted meanwhile. That is why a sweep is many steps: `Sweep` fixes the rows it
will come to, `SweepRow` takes one.

| State | Code |
|---|---|
| `password`, `active`, `token` | the committed `srp_credentials` (as a version), `users.is_active`, `refresh_tokens` |
| `stage`, `tok`, `ver`, `todo`, `held` | per request: where it is, its token, the password a login was checked against, the rows its sweep has still to come to, the rows its transaction has updated |
| `session`, `version`, `raced`, `late`, `slipped`, `halfway` | history, to state the properties |

| Action | Code |
|---|---|
| `FindActive`, `Rotate`, `CheckUser`, `Issue` | the four statements of `refresh` and its commit, `auth.service.ts:181-195` |
| `Challenge`, `CheckLogin`, `Issue` | `_srpInit`, `loginAfterSrpVerify` and the transaction of `_issueTokens` |
| `Claim`, `Issue` | `issueSession`, after Google has signed the user in; `register` ends in the same way |
| `RevokeOne` | `logout`, `revokeDevice` |
| `UpsertCredential`, `Sweep`, `SweepRow`, `CommitChange` | `changePassword` |
| `Disable`, `Sweep`, `SweepRow`, `CommitRevoke`, `Enable` | `setUserActive`, two statements without a transaction |
| `Abort` | a failing statement, a deadlock that PostgreSQL breaks, a server that dies |

Left out: refused requests that change nothing (a wrong proof, an expired or unknown
token: a token that expires behaves like one that is not used), the first set-up of a
password (`SignIn`) and the pending login in the key-value store (`SrpLogin`). Access tokens
are stateless; a password change may thus name a token that was rotated since it was
signed, and `UpsertCredential` takes any issued one.

### Admission

What lets a guest into a session of the relay, from `collab.service.ts`,
`relay-claim-token.service.ts` and `resolve-relay-identity.ts`. What the relay then does
with the connection is `Relay`.

| State | Code |
|---|---|
| `status`, `room`, `single` | rows of `collab_invites`: status, owner and session, `single_use` (which no claim reads) |
| `tokens` | whether the deployment has a secret for relay claim tokens |
| `pc`, `target`, `joiner`, `minted` | per call of the claim endpoint: its stage or answer, its invite, the claimant, whether its token is signed |
| `revoke` | the two statements of a revocation |
| `lapsed` | invites and tokens past their expiry (no clock is counted) |
| `seats` | `session.clients` of one instance, with the identity each client was given |

| Action | Code |
|---|---|
| `Create`, `RevokeRead`, `RevokeUpdate` | `create`, `revoke` |
| `Lookup`, `Sign`, `Fail`, `Consume`, `Answer` | `claim`, cut at each `await`; a refused claim ends in `Lookup` |
| `AttachOwn`, `AttachSignedIn`, `AttachAnonymous` | `resolveRelayIdentity` and the client branch of `attach` |
| `Detach`, `Lapse` | a close or eviction, an expiry |

A claim's name stands for what it draws at random: the connection id and the `anon-`
identity. Daemons are left out: one sits in the session of its own JWT.

### Signaling

One `userId:sessionId` bucket; buckets share nothing. Handlers have no `await`, so each is
one action. The service reads `from` and `to` of an envelope and nothing else.

| State | Code |
|---|---|
| `current`, `peers` | `_sessions` of each instance, by generation, and `session.peers` of each object |
| `sub`, `subq` | the object's Redis subscription (asked for, confirmed, being ended) and what it has not yet handed over |
| `conn` | sockets: the object and peer of the handle; open, replaced, gone |
| `ready`, `inbox`, `sent` | what a socket was told when it attached and since; envelopes made |

| Action | Code |
|---|---|
| `Attach` | `attach`: session, cap, replacement, `ready` |
| `InboundTargeted`, `InboundBroadcast`, `InboundInvalid` | `_handleInbound` |
| `Detach` | `_detach`, with the `bye` and the end of an empty session |
| `Subscribed`, `Unsubscribed`, `HandleRedisEnvelope` | the subscription, which is not awaited, and `_handleRedisEnvelope` |

Publications may fail, subscriptions may be confirmed late; an instance that dies is not
modelled.

### SignIn

A flow is one trip to Google; its state, device code and relay code are random and its
own, so the keys of the store are named by the flow.

| State | Code |
|---|---|
| `adaptor`, `kv` | Redis or in-process store; `pending`, `relay` and `web` keys of `oauth-flow-store.service.ts` |
| `started`, `consent`, `spent`, `told` | the clients, and what the user did at Google |
| `email`, `cred`, `identity` | committed `users`, `srp_credentials`, `oauth_identities` |
| `req` | per request, where its handler is |
| `issued`, `session`, `raced`, `hurt`, `faults` | history, to state the properties |

| Action | Code |
|---|---|
| `Start`, `Poll` | the start of a flow, and the web client's polling |
| `Take`, or `Read` and `Delete` | `getdel`: one command of Redis, two steps with an `await` between them in memory |
| `Exchange`, `Identify`, `Lookup`, `Insert`, `Link`, `SaveRelay`, `Park` | the callback: code exchange, `upsertGoogleUser` statement by statement, the relay code, the result parked for a web client |
| `IssueSession` | the claim of a relay code |
| `Register`, `CommitRegistration`, `Setup`, `InsertCred` | registration, `setupE2E` |
| `Fail`, `Refused`, `Lost`, `LosePoll`, `Expire`, `Crash` | failing steps, keys that expire, lost answers, a restart |

A unique index makes an insert wait for an uncommitted row with its key (`MayInsert`).
Profile columns and `is_active` are left out: a step that may refuse an account may fail.

### Fanout

| State | Code |
|---|---|
| `adaptor` | the broadcaster `apps/server/src/index.ts` wires |
| `version`, `row`, `tx` | the counter, the newest version per resource, the holder of the row lock |
| `committed`, `queue` | pushes that committed and have not published; pokes on their way to a subscription |
| `sock` | the poke socket of each client (`poke.ws.ts`) and its subscription |
| `needPull`, `cursor` | the clients |
| `missed`, `opened`, `faults` | history and bounds |

`BeginPush`, `Commit`, `Abort` and `Publish` are `SyncService.push` as seen from outside;
`PublishFails`, `Stop` and `DropSubscription` lose pokes (the last is a subscription whose
connection to Redis breaks and is made anew); `Open`, `Subscribed`, `Deliver`, `Break`, `Closed`
are the socket, whose subscription is not awaited; `Pull` is the client. Clients never poll
here: the module shows what pokes achieve alone.

### Server

The remaining parts of a server share no state with each other: none reads or writes what
another does, so interleaving them adds nothing. `Server` is their sum: `part` says which
one runs, `ServerInit` takes all initial states of that part and one of each other, and
`ServerNext` its steps.

| Module | State | Actions |
|---|---|---|
| `Plugins` | `deps` (`@DependentOn`), `seen`, `visiting` and `final` (the depth-first search of `_loadFromPlugins`), `loaded`, `config`, `fresh` and `turn` (who is catching up, and where), `stage`, `disposed` | `Register`; `Descend` and `Leave`, the turns and the end of `dfs`; `Create`, `Replay` of the stages already reached; `CoreStart`, `CoreReady`, `SetStage`, `CoreDispose` |
| `Announcements` | `announcement` rows, `write` (requests whose statement has not run), `now` | `Arrive`, `Upsert`, `Delete` with the clock of the instance, `Sweep`; `Listed` is the answer of the list |
| `PushTokens` | `owner` (committed rows), `reg` (transactions) | `Begin`, `DeleteRows` (waits for rows another transaction has locked), `Insert`, `Commit`, `Rollback`, `Unregister` |
| `SrpLogin` | `pending` (the key of an address), `step` (requests) | `Begin`, `Store`, `Read`, `Verify`, `Expire` |
| `AdminAccount` | `file` (`.env`), `box`, `boot` (servers), `account`, `script`, `changing` | `EnableAdmin`, `Up`, `Restart`, `ResetRow`, `ResetFile`, `Uninstall` of `deploy.sh`; `Count`, `Insert` of `seedIfEmpty`; `Check`, `Update` of `changePassword` |
| `Dashboard` | `session` (the token in `sessionStorage`), `page`, `call` | `Load`, `Submit`, `Query`, `Change`, `Logout`; `Login`, `Accept`, `Refuse`, `Fails` of the server; `Receive` |
| `UserList` | `active` (the rows), `view`, `data`, `fetch`, `toggle` | `Choose`, `ReadList`, `Show`, `Toggle`, `SetActive`, `Toggled` |
| `UserDetail` | `record`, `address`, `shown`, `loading`, `gather`, `deeds` | `Visit`, `ReadFact`, `ShowAll`, `Confirm`, `Write`, `RevokeAll`, `Alter` |
| `Routing` over `Surface` | `setup`, `hits` (the limiter's counters), `reply` | `Ask` takes a request through every router entry it meets, `WindowEnds` |
| `Values` over `Wire` | `field`, `value`, `met`, `kept` | `Arrive` (validation, or the statement that writes the row), `Move` (a handler, or a client that sends back what it was given) |
| `Process` | `applied` (the migrations table), `proc`, `job`, `closes` | `Boot`, `ReadApplied`, `RunMigrations`, `CommitMigrations`, `Ask`, `Again`, `Commit`, `Signal`, `Drained`, `Exit`, `Crash` |
| `Landing` | `card` (what the served page has), `launched`, `automatic`, `checks`, `visible`, `hint` | `Automatic`, `Press`, `Check`, `Hidden`; `Open`, `Dismiss`, `Leave`, `Return` of browser and user |

`Surface` has one entry per route and per guard, in the order in which the plugins mount
them, because Hono flattens mounted routers into one list in which an entry matches by path
prefix wherever it came from. `Wire` has one record per schema and table; a type says of
what a text is made (an alphabet), how long it may be in characters and in bytes, or how
many bits a number has.

### Properties of SyncEngine

* `TypeOK` (with `LockHeld`): the open transaction is the lock holder.
* `RowIsNewestWrite`: committed writes have distinct versions up to the counter and
  each row is its newest write.
* `AckedMeansApplied`: an edit that left its outbox was applied. This is what the seal
  in lines 84-91 is for.
* `NoReapplyBelowWatermark`: a step never applies a mutation the committed watermark
  covers.
* `CursorCompleteButMissed`: a client's cursor has no holes but those of an empty pull,
  which `missed` records; `CursorComplete` is the same without the exception and fails.
* `ImplementsStore`: the committed tables refine `SyncStore`.
* `Convergence`: if no empty pull steps over anything, all edits are applied and all
  clients end with every row, forever.

### Properties of Relay

* `TypeOK`: types; what an object holds as daemon or client is a connected socket of
  that peer bound to that object.
* `NoStrandedSession`: an object with a subscription is referenced, or has a socket whose
  close will collect it.
* `OneLiveObject`: who is attached on an instance is in the registered object, until a
  late collection there (`lateGc`: an object that is not the registered one is
  collected and takes the key away).
* `DepartureCancelled`: no `peer_left` is pending for a client that is connected, unless
  its `peer_rejoined` is still on the way, or never reached the instance with the timer
  (published before it listened, or the publication failed: `deaf`), or the timer is in
  an object that was abandoned. Clients that attach before their earlier socket has closed
  are left out here: for them it is false, which is `NoFalseDeparture` and a finding.
* `DepartureNotForgotten`: a client whose sockets are all closed has a timer until that
  fires or it is evicted, or until a `peer_rejoined` of its own, published before the timer
  was armed, arrives late and cancels it (`miscancelled`). The report is made once: that a
  daemon on another instance hears of it is not claimed, as its publication may fail.
* `FrameOnItsWay`: when the daemon sends a frame, everybody attached where the relay
  listens, who did not get it in process, has it in the subscription until it is handed
  over, unless the frame's publication failed (`unsent`) or a late collection has split
  his instance; `FrameReachesClients` is the same without the exceptions and fails even
  on one instance, where nothing is published.

Every exception named here is reachable in `relay_session`: without it the property fails.

### Properties of AuthSessions

* `TypeOK`: types, and a row is updated by one open transaction at a time.
* `OneTokenPerSession`: one active refresh token per session, unless two refreshes of one
  token overlapped (`raced`); `SingleUse` is the same without the exception and fails.
* `PasswordEndsSessions`: what is active after a password change is the caller's session,
  a later one, or one that a request under way during the change renewed (`slipped`).
  It relates the version a login was verified against, before the change, to the token
  it is given after it.
* `DisabledHasNoSession`: once a deactivation has run to its end, a disabled account has
  no active token but those that slipped in during the sweep; `halfway` is the
  deactivation that failed after its first statement. A request that read `is_active`
  before the account was disabled is either still under way when the sweep begins, and
  then counts as slipped in, or has inserted its token where the sweep sees it.
* `ImplementsSessions`: to who owns the account, requests look like the steps of `Sessions`. A
  session is open while it has an active token; it is opened once, by a login with the
  password of that moment, on an account that is not disabled; a password change closes in
  one step all but the caller's, a deactivation all there are; what is closed is not opened
  again. A session that two refreshes of one token, or a request under way during a sweep or
  a logout, got hold of is `loose`: of it nothing is promised. One that outlived its password
  otherwise would be `stale`, which `Sessions` does not know.

In each of them an exception is reachable in the runs: without it TLC finds the property
violated.

### Properties of Admission

* `TypeOK`: types, and a token is signed only where the deployment has a secret for it.
* `WinnerMatchesRow`: a single-use invite has at most one winner, and its row reads consumed
  exactly when it has one. Of other invites it says nothing (see the observations). Claims read the row long before they update it, and so does a
  revocation; what holds them apart is the filter on the status in both updates.
* `WinnerCanJoin`: the invite is spent only on a claimant who holds a token, or who is
  signed in on a deployment without tokens: signing comes before consuming.
* `GuestsHoldAnInvite`: whoever sits in another account's room has won an
  invite to it, single-use or not, under the identity of the claim. It ties the row, the claim, the token and
  the place in the relay together, with other accounts presenting the token as well.
* `ImplementsInvitations`: reads of a row long before its update, claims that fail or race,
  tokens and connections look like the steps of `Invitations`: an invite is to one room; one for
  one guest is taken by one or withdrawn, never both (one for more may be taken by more, which
  is not promised); once its owner was told that it is withdrawn
  it is not taken any more; and nobody comes into another's room but by an invite he has
  taken, which is never taken back.
* `RevokeHolds` and `AnonymousOneSeat`, which are proved and not run: after a revocation was
  answered, no claim of the invite wins; an anonymous joiner has one place on an instance,
  however often it attaches with its token.

### Properties of Signaling

* `TypeOK`: types, and numbers of envelopes.
* `SessionsEndWithTheirPeers`: a session object is live exactly while it has a peer; one that
  ended has no socket and no subscription that nobody will close; the cap holds (a
  reconnecting peer of a full session is refused, its old socket counts).
* `OnceAndInOrder`: no socket hears an envelope twice, its own, or one for somebody else,
  although an envelope takes a local and a Redis path; and what one socket says arrives in
  the order it was said.
* `ByesAreDepartures`: who left an instance was announced to those it was announced to
  before (`LeftPeersAreAnnounced`), and when a `bye` is made its peer has no open socket
  left on that instance. On another instance it may: a bye can overtake an attach there.

### Properties of SignIn

* `TypeOK`.
* `OneSessionPerConsent`: one trip to Google, one session, unless two requests read the same
  key of the in-memory store before either deleted it (`raced`).
* `NotSomeoneElse`: a relay code and its session are for an account that is linked to the
  Google account of the flow or has the address Google vouched for, also when sign-ins and
  registrations overlap.
* `AccountsStayPut`: one account per address; a linked Google account stays with its user;
  nothing here replaces a password.
* `WebFlowsEnd`: once the callback has consumed the state, a web client is signed in or told
  of the failure, unless a key expired, the process restarted or an answer was lost.

### Properties of Server

* `ServerTypeOK`: the type invariants of the parts.
* `NobodySilentlyStale` and `PokesDriveClients` of `Fanout`: a connected client that lacks a
  write is about to pull, or the poke is on its way, or it was lost in one of four named
  ways; without a loss, pokes alone bring every client up to date.
* `LivesInOrder` is `HooksInOrder` of `Plugins` (a plugin is created once and after what it
  depends on; stages in order, each once, after what it depends on, however late it was
  registered) and `SchemaFirstPoolLast` of `Process`
  (migrations once and in order; a server serves on all its release needs; no transaction is
  cut off unless the process is killed or the pool is ended twice).
* `DiscoveryFollowsHeartbeats`: within the difference between the clocks, what is listed has
  sent a heartbeat and was not retracted since, unless a heartbeat was under way when the
  retraction arrived and was written after it (`revived`: announce and retract are requests
  of their own, and nothing compares the two); and what sends heartbeats is listed and not
  swept, unless an older one was written over a newer one (`overtaken`).
* `OverlapsDouble` is `OneOwner` of `PushTokens`, `ChallengesAreOneShot` of `SrpLogin` and
  `LandingTruthful` of `Landing`: a phone has one owner unless registrations overlapped, a
  proof signs in once unless verifies were pipelined, a page hands its link over once
  unless its button is pressed, and its hints are true.
* `RequestsFollowDeclarations` is that of `Routing` (a request reaches its own route's handler
  with the credential the route declares, no handler otherwise, and the status is one the
  route documents or a listed other; refreshes are refused by the limiter only for
  refreshes) and `ValuesTravel` of `Values` (what one schema accepts no table, answer schema
  or other schema refuses later, and it comes back as it was sent; the exceptions are
  listed under Observations).
* `AdministrationHolds` is `FileOpensAccount` of `AdminAccount` (the password in `.env` opens
  the account until it drifted), `TokensLostForCause` of `Dashboard`, `ScreenFollows` of
  `UserList` and `DetailFollows` of `UserDetail`: what is on the screen is so but in named
  cases.

The named exceptions of these properties are reachable in the run: without one of them TLC
finds the property violated.

### Runs

| Run | Instance | Shows |
|---|---|---|
| `sync_retries` | one client with two connections, two keys, three edits, one fault, one wipe | the safety properties under retries, overlap, rejection, wipe |
| `sync_convergence` | two clients, one key, two and one edits, no faults | convergence under fairness, and safety with two writers |
| `sync_pull_race` | two clients | finding: an empty pull steps over a commit |
| `relay_session` | two instances, three objects on one and one on the other, three sockets at a time, four attaches, one client, one envelope of a daemon (shutdown, revoke or frame), any publications failing | the properties of `Relay` |
| `relay_blip` | one instance, one object, three attaches | finding: a late close removes a reconnected client |
| `auth_sessions` | three tokens, two requests at a time, one password change, `is_active` changes twice | rotation, revocation, password change and deactivation against each other |
| `auth_rotation` | as `auth_sessions` | finding: one token rotated twice |
| `admission` | two accounts, two session ids, one invite, two claims, two seats and one drawn connection id | the properties of `Admission` |
| `signaling` | two instances, two peers, three sockets, cap two, two envelopes | the properties of `Signaling` |
| `sign_in` | one desktop and one web flow, two requests, one Google account whose address has changed, two addresses, two users, one fault | the properties of `SignIn` |
| `server` | see below | the properties of `Server` |
| `relay_restart` | one instance, three objects, five attaches | finding: a late collection takes the key from a session in use |

Bounds. Three edits of two keys are the smallest batch with an edit before, at and
after a rejection; the wipe supplies the stale base that causes it; two connections
let the repeated batch overtake the first one; one fault is the lost response or the
aborted transaction that makes the client repeat. One resource is enough: cursors of two
resources meet only in the counter, and a second one takes the run beyond five minutes
(the proofs hold for any number). In `sync_retries` the two slots and the two keys are
interchangeable and TLC uses that symmetry; no run with a liveness property does. In `sync_convergence` two edits
against one on a single key make each client reject the other at least once. Faults
and liveness together, or two clients with faults, are beyond five minutes.

For `Relay`, a client that leaves one instance for another or comes back, with a daemon
on either, takes three or four attaches; three sockets at a time let an old one of the
client overlap a new one beside the daemon's; the second object of an instance is what a
collected session is succeeded by, the third what a late collection makes room for. A
second client adds interleavings of what never meets (timers, frames and registrations are
per client). A second envelope takes the run beyond five minutes; a shutdown or revoke
meets a frame in the clients it takes away, which one envelope and a close do as well. The proofs have no such bounds.

For `AuthSessions`, three tokens are a login and two rotations of it, or two sessions and a
rotation; every hazard listed is between two requests. Tokens and requests are
interchangeable and TLC uses that symmetry. `SessionInv` was checked in the same instances.

For `Admission`, two claims are a winner and a claim it races, or a claim before and one
after a revocation; two accounts are the owner and one more, who may be the claimant or
the one who presents another's token; the same session id exists under both accounts, and
a second one lets a token meet the wrong session. `MaxSeats` bounds the seats from which
the search goes on; a second seat is what a re-attach adds. Accounts, session ids and
claims are interchangeable and TLC uses that symmetry. Invites do not interact.

For `Signaling`, three sockets are a peer, its reconnection and another peer; with both
attached the cap of two refuses the reconnection, with one it is replaced. Two instances
give every envelope a local and a Redis path, and two envelopes have an order. Peers and instances are interchangeable.

For `SignIn`, two requests are the callback twice, the claim twice, or a callback and a
registration with its address; an account whose address changed at Google distinguishes the
identity from the address. One fault is a lost step, an expired key, a restart or a doubly
read key.

For `Server`: `Fanout` has two instances, one client with one socket, two resources, two
batches and one fault: a client that connects again pulls everything, as one does that
connects for the first time after a batch or two, and the theorems allow any number of
sockets; `Plugins` every acyclic graph over three plugins; `Announcements` two
clocks one apart, a window of two, two requests under way and time up to three;
`PushTokens` two users and three requests for one token; `SrpLogin` two challenges of one
address, three requests, one expiry; `AdminAccount` two servers, three passwords, two
changes; `Dashboard` two requests and two sign-ins; `UserList` one user, two views, one action
and two fetches; `UserDetail` two users, one change of the address and two actions, here or
elsewhere; `Routing` two callers, one credential request and two refreshes per window (a caller
is known by the header its proxy sets: one that no proxy stands before can name itself
anything, `rate-limit.ts:21`, and its buckets are not modelled), and of
the seven environments tried the two that load with different features; `Process` two
processes with one request each, two migrations and two starts; `Landing` two presses;
`Values` one value from each field a value comes in at, of eleven alphabets, at the smallest
size the field takes, the largest and one more, where a text without limit is tried up to
4000 characters, which no index entry holds. These are the smallest in which every named
exception occurs.

Fairness. `FairSpec` of `SyncEngine`: handlers run to their end (weak fairness). A waiting push gets
the lock if it is free again and again (strong fairness on `Begin`): PostgreSQL queues
row-lock waiters. Clients keep sending what is pending and keep polling every
resource. Nobody has to edit, wipe, fail or time out. `Spec` of `Fanout`: what was committed
is published or lost, what was sent is delivered, and a client that was told to pull does so
(weak fairness); nobody has to push, open a socket or fail, no subscription need ever be
confirmed, and a client whose socket stays closed is left out of the property. `Spec` of `SignIn`: requests go on and
a web client keeps polling; weak fairness is enough, as each key is consumed a bounded number
of times.

### Findings

* `sync_pull_race`: `pull` takes its cursor from the counter in a statement of its own
  when there are no rows (line 179). A push that commits between the two statements is
  inside the cursor and in no answer.
* `relay_blip`: `_detach` removes a client by connection id without comparing the
  connection, as it does for the daemon (line 297). A client that reconnects before its
  dead socket is noticed is removed by the old socket's close, and its departure is
  announced.
* `relay_restart`: `_maybeGcSession` deletes by key. A socket of an object that was already
  collected (here a daemon that was replaced) closes late; the object is collected once
  more and the key of its successor, in use, is gone. The next client gets a third object
  and does not hear its daemon. The late closes of clients that a shutdown evicted arm
  timers on such an object and lead there too.
* `auth_rotation`: `refresh` reads the token as active without a row lock and its update
  does not ask again (`revokeByJti`). Two overlapping refreshes of one token both get
  a successor, and both stay valid; using a token again after it was rotated is refused but
  revokes nothing, against what the self-hosting guide says.

### Observations

What the models made plain and no run of its own shows. The first two were found by TLC.

* An edit accepted after a rejection in its batch stays above the watermark
  (`sync.service.ts:88-90`, `:114`) and is applied again when the batch is repeated, over what
  another writer wrote in between; the comment calls that harmless.
* `claim` never reads `single_use`: the first claim of any invite consumes it
  (`collab.service.ts:231`), where `collab.service.spec.ts:96-105` claims a multi-use one twice, of
  a repository that always answers `true`. The models keep the field, promise one winner of a
  single-use invite only, and in their runs a second claim of any other is refused.
* `kv-store.service.ts:37-42` promises an atomic `getdel`; `memory.adaptor.ts:64-66` awaits
  between read and delete. `srp-session.service.ts:76` says a pipelined duplicate verify cannot
  reuse a login, but it reads and deletes in two commands.
* `auth.service.ts:321-324` means to answer 409 to the loser of a set-up race, who in fact gets
  500: `srp-credentials.repository.ts:30-38` does not turn the driver's unique violation into
  the `UniqueViolationError` that the service expects. Nothing is overwritten.
* Plugin order does matter (`index.ts:21-23`) when a dependency was registered automatically and
  is then registered by name: a duplicate throws. `Core.ready` skips the stage Rendered.
* `deviceClock` is stored and never compared (`multiplayer-announcements.ts:49-52`);
  `originClientId` is never used to skip a client (`sync-broadcaster.service.ts:21-23`).
* Pokes do not reach a socket whose subscription is not confirmed yet
  (`docs/self-hosting.md:198`). The payload cap of a signal envelope (`multiplayer.ts:89`) is in
  a schema the signalling service never applies.
* `deploy.sh enable-admin` prints a password that does not open an account that exists
  already; `restart` keeps the environment the containers were made with, where
  `install.sh:263` and `docs/self-hosting.md:74` say to edit `.env` and restart.
* Any 401 clears the dashboard's token (`client.ts:41`), a mistyped password's too, so the
  messages of `LoginPage.tsx:49` and `SettingsPage.tsx:57` are never shown. The users page shows
  the last answer to arrive, whichever view it is for (`UsersPage.tsx:27`); the page of a user
  shows a failed read as "User not found" or as the previous user, and keeps the devices of a
  user it has disabled.
* A landing page launches the client again after half a second although its button was
  pressed; its error page has no button, so a declined prompt never hands the error over
  (against `oauth-landing.controller.ts:71-73`).
* `auth.routes.ts:133` documents a logout of every token, the code ends this session.
  `rate-limit.ts:50` counts by address, but callers without a proxy's header are one caller. The
  CORS headers lack `x-termlnk-device-id`, which a retraction from a browser needs.
  Undocumented: the 403 of a Google claim; the 400 of `revokeDevice`, `listSessions` and the
  admin routes, whose errors are documented as `{code, message}` and sent as `{error: {...}}`.
* `Values`: a text with a NUL passes every schema and no column; `entityId`, `clientId`, a device
  token and the seed address have no bound in bytes that fits their index, so a request is
  answered with 500; a cursor that is not a number is a plain `Error`, 500
  (`sync.service.ts:162`); a payload that is not base64 is stored without what
  `Buffer.from` skips; a session id of 256 escaped characters makes a claim token longer than
  the 2048 its own schema admits (`collab.ts:158`).
* `docker-compose.yml:85` sets a claim token's life to 300 seconds where `env.ts:61-67` explains
  why it is twelve hours.
* Migrations that start together fail for the second (`docs/self-hosting.md:128` calls them
  idempotent); ending the pool twice is taken for its end, and a process exits with
  transactions open.
* `registerConfig` promises that disposing restores the previous value (`config.service.ts:36-41`)
  but looks for it with `Object.hasOwn` (`:79`), so the value of a dotted id is deleted, not
  restored; nothing in the repository calls it.

### Proofs

For any clients, keys, resources, request slots and bounds, in `SyncEngineProofs`:

* `TypeCorrect`: `Spec => []TypeOK`.
* `NoEditDropped`: `Spec => []AckedMeansApplied`, and `WatermarkSound`:
  `Spec => []WatermarkIsApplied`, from the inductive invariant `AckInv`.

`AckedMeansApplied` is not inductive: that an acknowledged id was applied follows from
what the server had decided when it answered. `AckInv` adds that a batch in flight holds
every unapplied id up to its last (`BatchWhole`: the client pushes its whole outbox),
that the running watermark and the verdicts of the open transaction cover applied ids
only, and that as long as nothing was rejected all mutations gone through are applied
(`OpenSound`); the last part is what lets the watermark step from one accepted id to the
next. A response on its way lists applied ids (`ResponseSound`).

* `RowsAreNewestWrites`: `Spec => []RowIsNewestWrite`.
* `AppliedOnceBelowWatermark`: `Spec => NoReapplyBelowWatermark`.
* `EngineImplementsStore`: `Spec => ImplementsStore`, the refinement of `SyncStore`.

The last three come from `StoreInv`. It adds to `RowIsNewestWrite` what the open transaction
has written and nobody sees yet: its writes have distinct versions above everything
committed and up to its own counter, its rows are its newest writes (`OpenWrites`), and
the ids it has applied lie above the committed watermark (`OpenIds`). That its counter
starts from the committed one rests on the row lock, which `TypeOK` (`LockHeld`) gives;
`Commit` then publishes a batch that `SyncStore` accepts as one step, and every other
step leaves the three tables alone.

* `CursorHasNoOtherHoles`: `Spec => []CursorCompleteButMissed`, from `CursorInv`, which says
  of an answer on its way what the property says of the client: of each row not changed
  since the pull read the counter, the answer has the version unless the cursor it started
  from covers it (`PullSound`). That a push's own answer moves a client only to versions of
  committed writes is `DetailsWritten`. A row written later has a version above the counter
  read, hence above the new cursor, except after an empty patch: those keys are `missed`.

In `RelayProofs`, for any instances, objects, clients, sockets and bounds:

* `RelayTypes`: `Spec => []TypeOK`, by induction, `Bound` per object.
* `SessionsAreCollected` and `OneObjectServes`, from `RegistryInv`: what is registered is
  live and on its instance, what has peers is live, an object not yet created has neither
  sockets nor timers, and a live object is the registered one until a late collection.
  A timer alone does not make an object live: that is what the late collections are about.
* `ReturnsCancelDepartures`, from `OneSocket` (a client has one socket until it overlaps)
  and `DepartureInv`, which says of the message on its way that the object is still
  subscribed and so will handle it; a return that was not published or not heard makes the
  timer `deaf` in the same step. When a client attaches on the instance with the
  timer, it gets the object with the timer, or `RegistryInv` shows that one abandoned.
* `DeparturesAreKept`, inductive as it stands.
* `FramesArrive`, from `FrameInv`. In process or published: `RegistryInv` shows that
  two live objects of one instance do not exist before a late collection, so whoever is
  not in the daemon's object is on another instance and his subscription gets the frame
  if its publication succeeds.

In `AuthSessionsProofs`, for any tokens, requests and bounds, `SessionTypes`,
`SessionsHaveOneToken`, `PasswordChangeEndsSessions`, `DeactivationEndsSessions` and
`AccountsImplementSessions`, all from `SessionInv`. None of these properties is
inductive: what a request will issue was decided when it started. `SessionInv` says of the
requests under way what the properties say of the tokens: a session that did not race has
one refresh under way, of its token (`OneRefresh`), which is active unless the refresh is late
(`RefreshLive`); anything about to be issued while a sweep runs is late (`SweepMarks`); what is about to be issued goes with the current password or is late
(`VersionKept`). `SweepCovers` says that a sweep has seen every active token it is to
revoke: READ COMMITTED allows tokens it has not seen, but `SweepMarks` shows those to be
issued to late requests. The proof first says what a step does to tokens, requests and
sweeps (`TokenEffects`, `RequestEffects`, `SweepEffects`), so that each conjunct is then
proved from a few cases instead of sixteen.

The refinement of `Sessions` maps a session to one of its states by three facts: it has begun,
it is loose, it has an active token (`StateIs`); that no session is stale is
`PasswordEndsSessions`. Ten of the sixteen actions leave the three facts alone
(`QuietStep`). A refresh that commits replaces the token of an open session and is a stutter,
because `RefreshLive` says that the session was still open; a login opens one, with the
current password by `VersionKept` and on an enabled account by `CheckedMarks`; a logout and a
refused refresh close one (`LossStep`); the commit of a sweep closes all but the kept one
(`SweptStep`), which is `SweepCovers`.

In `AdmissionProofs`, for any accounts, sessions, invites and claims, `AdmissionTypes`,
`InvitesHaveOneWinner`, `WinnersCanJoin`, `GuestsAreInvited`, `AnonymousSitOnce`,
`RevocationHolds` and `AdmissionImplementsInvitations`, from `AInv`. What `WinnerMatchesRow`
promises of single-use invites holds of all (`RowMatchesWinners`), as no statement asks for
`single_use`, and is inductive over the types. From it follows
that a win lasts (`WinsLast`: identity, invite and room of a winner do not change), on which
the seats rest: an attach is granted from what a claim won, and the right is still there
later. `WinnerCanJoin` needs that a claim which has yet to consume is entitled already
(`Entitled`), `RevokeHolds` that an answered revocation left a row that is not active
(`RevokedRows`), and `AnonymousOneSeat` that the id and the room of an anonymous seat are
those of its claim (`AnonymousSeats`, `OneSeatPerId`). In the refinement of `Invitations` the
update of a claim is where an invite is taken, `RevokeUpdate`, or the read of a row that is
not active any more, where it is withdrawn; an attach is granted by what `WinsLast` keeps.

In `SignInProofs`, for any trips, requests, accounts, addresses and faults, over either
key-value store, `TypeCorrect`, `ConsentGivesOneSession`, `SessionsAreRightful` and
`AccountsDoNotMove`, from `SignInInv`. Google redeems an authorization code once, so at
most one request is on its way to a relay code, and until it is saved nobody holds one
(`OneCode`); after that the code is in one place: the store, a request that read it, or the
session issued (`OneClaim`). The second read of the in-memory store is what `raced` names.
That a session is for the right account is known when the callback resolves the account, and
must then last: `AccountsSound` says that rows not yet committed clash with nothing, which
makes addresses unique and links lasting, so `Rightful` once holds for good
(`RightfulSoFar`). `AccountsStayPut` is a property of steps and follows from the same.

In `SignalingProofs`, for any instances, peers, sockets, cap and envelopes, `TypeCorrect`,
`SessionsLiveWithPeers`, `EnvelopesOnceInOrder` and `ByesMeanDepartures`, from
`SignalingInv`. `SocketInv` adds to `SessionsEndWithTheirPeers` its converse, that an open
socket is the one its peer has; with it a close is a departure or none, and never that of a
successor. `EnvelopeInv` relates the two paths of an envelope. What a socket has from another
instance is older than what is still on its way to its session (`NewerIsToCome`), and
subscribers are sent envelopes in the order they were made (`QueuedInOrder`), so the order
holds for the envelopes that pass through Redis; those sent on the spot are the newest there
are. An envelope that came both ways would have one number and, by `NumberNamesMaker`, one
maker, on an instance that skips its own echo. The proof shows that every handler but
`HandleRedisEnvelope` makes at most one envelope and sends it to its maker's session
(`OneEnvelope`), so that two lemmas, `FreshStep` and `DeliverStep`, cover the nine actions.
That an instance never runs out of objects for a session (`LiveSessionType`) is part of the
types: each object there was took a socket.

In `PluginsProofs`, for any plugins and any dependencies without a cycle, `PluginTypes` and
`PluginsHookInOrder`, from `CoreInv`. A plugin that was seen is created, placed or being
visited, once (`SeenAre`, `LoadedOnce`, `FinalOnce`, `VisitedOnce`). A visit within a visit is
to a dependency (`VisitsNest`), so a dependency met while it is being visited would close a
cycle (`NoCycle`): one that was seen is created or placed, and a visit that ends has all it
depends on before it (`VisitsPlace`, `FinalAfter`, `LoadedAfter`). What catches up was created
last (`FreshLast`), so its hooks come after those of all it depends on, which have been
through the stages before (`HooksOfLoaded`, `StagesCalled`). The search is modelled step by
step because of this proof: as a recursive function of the plugins it could be run, not
reasoned about.

In `ServerProofs`, for any plugins, instances, clients, devices, clocks, users, tokens,
requests, processes and bounds. The parts share no variables, so each has an invariant of
its own, kept by its own steps; `PartStep` says that a step of any other part leaves its
variables alone.

* `ServersTellStaleClients`: `ServerSpec => []NobodySilentlyStale`, and `PokesComeAfterWrites`
  (`PokesFollowCommits`, proved and not run), from `FInv`. A poke passes from the instance to
  Redis to the client's list of pulls; `NobodySilentlyStale` says where it can be, and is
  kept by every step given that rows are committed (`CommittedRows`), versions are counted
  (`Counted`) and only an open socket is subscribed (`OpenSubscribed`). Closing a socket
  excuses its client, opening one makes it pull everything: that is why a lost poke counts
  only for the socket it was lost to.

* `OverlapsDoubleHolds`: `ServerSpec => []OverlapsDouble`, in three parts. `PhonesInv`: a
  registration that has met no other has every row there is among those it deletes
  (`AlonesSeeAll`), so it leaves one owner, its own. `LoginsInv`: two verifies of one
  challenge are pipelined, and after a login the store has another challenge or none
  (`UsedUp`); a challenge not used is there, or something disturbed it (`ThereOrDisturbed`).
  `LandedInv`: launches are counted by presses and the automatic one (`LaunchesCounted`), and
  the hint goes with what the browser showed (`HintFollowsSigns`).
* `DiscoveryFollows`: `ServerSpec => []DiscoveryFollowsHeartbeats`, from `DiscoveryInv`. A row is
  stamped, by the clock of some server, when the newest heartbeat of its device arrived,
  unless that was overtaken (`RowsStamped`); a row that is gone was too old for the clock that
  swept it (`SweptWhenOld`); a row that is there although its retraction has run was written
  by a heartbeat after it, which if it was under way then is what revived it
  (`RetractedOrRevived`). The property speaks of pairs of clocks where it once named the
  largest difference of two: an unbounded set of servers need not have one.
* `AdministrationHoldsAlways`: `ServerSpec => []AdministrationHolds`, in four parts. `AdminInv`: a
  reset under way has changed the row to what it will write to `.env` (`ResetAhead`), and
  without an account nobody is about to seed another password than the one there
  (`SeedsTheFile`). `TabInv`: what is refused for its token was sent with none or with one
  that a server refused (`RefusalsRightful`). `ListInv`: an answer that is not late is so, but
  for what is still to come (`Truthful`). `DetailInv`: what the page of a user shows differs
  from the database by the actions done and not shown yet (`AsShown`); a card does one thing
  at a time (`DeedsProper`), so no two actions are mistaken for each other; what a fetch has
  read is so and the last is of the address (`FetchesTrue`).
* `LivesHold`: `ServerSpec => []LivesInOrder`. For plugins, `PluginsProofs` is instantiated with the
  variables of `Server`. For processes, `RunInv`: what a migrator has read is still all there
  is when it has something to run, and no other has then (`MigrationsOnce`); requests run in
  servers, and only two ends of a process cut one (`JobsServed`).
* `DeclarationsAreFollowed`: `ServerSpec => []RequestsFollowDeclarations`, in two parts. For
  requests, `HttpInv`: what the counter of refreshes of a key holds is what was let on of them
  (`Counts`); who answers is the first entry of the router's list that stops the request
  (`First`, `DecidingIsFirst`). That the first to stop a request is its own handler exactly when
  the caller is entitled to it is a condition on the tables of `Surface`, entry by entry and
  route by route (`TablesAgree`: the entries a route meets, the guards among them that ask for
  its credential, a handler for each route mounted); the theorem shows that these local
  conditions suffice for any number of callers and of requests. For values, `ValueInv`: a
  value's load (its alphabet, length, bytes or bits) is one of those that reach its field from a
  place a value starts in (`Reach`, computed with the least, the greatest and one more than the
  greatest of each field); that the loads are closed under all moves, and what each holds, is a
  condition on the tables of `Wire` (`Sound`); the theorem shows that loads between the ends
  behave as the ends do (`BetweenTheEnds`, `Carries`), so it holds for all sizes, where TLC
  tries three.
  Both conditions are assumptions about constants, `MountAssumption` and `LoadAssumption`, which
  TLC evaluates on the tables as they are, in every run of `Server`.
* `ServerTypeCorrect`: `ServerSpec => []ServerTypeOK`, from these invariants, `LandedTypes` and
  `HttpInv`. That a reply names its route or a guard, and a converted value stays of a known
  size, needs of the tables of `Surface` and `Wire` only what `SurfaceAssumption` and
  `WireAssumption` say; TLC evaluates both on the tables as they are.

The proofs assume only the named assumptions about the constants of `SyncEngine`, `Relay`,
`Admission`, `AuthSessions`, `SignIn`, `Signaling`, `Fanout` and `Server`: bounds are
numbers, clocks are integers, the values that stand for "none" are apart from the others, and
entries of the tables are of their kinds.

Only model-checked:

* Liveness (`Convergence`, `PokesDriveClients`, `WebFlowsEnd`): fairness is out of the prover's
  reach.

Every other property of a passing run is a theorem.

## Plan

1. `SyncEngine`, `SyncStore`: done.
2. `Relay`, `Signaling`: done. Left: an instance that dies, and liveness of departures.
3. `Admission`, `Invitations`: done. Left: claim tokens presented to several instances of the
   relay.
4. `AuthSessions`, `Sessions`, `SignIn`: done. Left: an abstract account of which `SignIn` is an
   implementation.
5. `Server`: done for the parts listed, and proved but for liveness. Left: an abstract poke
   channel and an abstract list of plugins of which `Fanout` and `Plugins` are implementations.

## Not modelled

Cryptography (pure functions around libraries), payloads (opaque ciphertext), WebSocket
framing and pings, the OpenAPI document, logging, `ConfigService` (a map filled at start and
then only read), dependency injection, updates of profile columns, the admin queries that only read, the
components and styles of the admin UI, the texts of the landing pages, and what the
deployment scripts install.
