-------------------------------- MODULE Wire --------------------------------
(***************************************************************************)
(* The fields a value passes on its way through the server: the schemas of *)
(* requests and answers in packages/protocol and the route files, the      *)
(* columns it is stored in, and who moves it from which to which.  A field *)
(* is a place <<schema, field>>; its type says which values it takes.      *)
(* Enumerations, flags and dates, which nothing narrows, are left out, and *)
(* so is whether a field may be missing.  Values carries values along.     *)
(***************************************************************************)
EXTENDS Naturals, TLC

-----------------------------------------------------------------------------
\* Values and types.

\* BOUND: a size no schema limits, in characters of a text.
Unbounded == 4000

\* What a text is made of: its narrowest alphabet here.  A "wide" text takes
\* three bytes a character in UTF-8, a "control" text six in JSON; PostgreSQL has
\* no text with a NUL.
Alphabet == {"hex", "base64", "base64url", "uuid", "mail", "digits", "plain", "wide", "control", "nul"}

\* The values a field takes: alphabets, sizes in characters (of a number, in
\* bits), and size in bytes.
Type(of, min, max, bytes) == [of |-> of, min |-> min, max |-> max, bytes |-> bytes]

Text(min, max) == Type(Alphabet, min, max, 3 * Unbounded)
Some == Text(1, Unbounded)
Uuid == Type({"uuid"}, 36, 36, 36)
Base64url(min, max) == Type({"hex", "digits", "base64url", "uuid"}, min, max, max)

\* z.number().int(): the safe integers.
Number == Type({"number"}, 0, 53, 53)

\* Columns.  An index entry has a third of a page, of which its other columns
\* leave about Indexed bytes.
Column == Type(Alphabet \ {"nul"}, 0, Unbounded, 3 * Unbounded)
Indexed == Type(Alphabet \ {"nul"}, 0, Unbounded, 2600)
Integer(bits) == Type({"number"}, 0, bits, bits)

Bytes(v) == IF v.of = "wide" THEN 3 * v.size ELSE v.size

Accepts(type, v) ==
  v.of \in type.of /\ v.size \in type.min..type.max /\ Bytes(v) <= type.bytes

-----------------------------------------------------------------------------
\* Accounts.

Email == Type({"mail"}, 3, 255, 255)
Base64 == Type({"hex", "digits", "base64"}, 1, Unbounded, Unbounded)
Hex == Type({"hex", "digits"}, 1, Unbounded, Unbounded)
DeviceName == Text(1, 120)
Password == [argon2SaltB64 |-> Base64, srpSalt |-> Hex, srpVerifier |-> Hex]

RegisterRequest ==
  [email |-> Email, argon2SaltB64 |-> Base64, srpSalt |-> Hex, srpVerifier |-> Hex,
   displayName |-> Text(1, 120), deviceName |-> DeviceName]
UserAccount ==
  [id |-> Some, email |-> Email, displayName |-> Text(0, Unbounded), avatarUrl |-> Text(0, Unbounded)]
SrpInitResponse == [argon2SaltB64 |-> Base64, srpSalt |-> Hex, serverEphemeral |-> Hex]
SrpVerifyRequest ==
  [email |-> Email, clientEphemeral |-> Hex, clientProof |-> Hex, deviceName |-> DeviceName]
DeviceView == [id |-> Uuid, deviceName |-> Text(0, Unbounded), userAgent |-> Text(0, Unbounded)]

\* EXTERNAL: what Google tells of an account.
GoogleUserInfo ==
  [email |-> Type({"mail"}, 3, 254, 254), displayName |-> Text(0, Unbounded), avatarUrl |-> Text(0, Unbounded)]

Users == [id |-> Uuid, email |-> Indexed, displayName |-> Column, avatarUrl |-> Column]
SrpCredentials == [argon2SaltB64 |-> Column, srpSalt |-> Column, srpVerifier |-> Column]
RefreshTokens == [jti |-> Uuid, deviceName |-> Column, userAgent |-> Column]

Moves(from, to, fields) == {<<<<from, f>>, <<to, f>>>> : f \in fields}

RegisterMoves ==
  Moves("register", "users", {"email", "displayName"})
    \cup Moves("register", "srpCredentials", DOMAIN Password)
    \cup Moves("register", "refreshTokens", {"deviceName"})

GoogleMoves == Moves("google", "users", DOMAIN GoogleUserInfo)

\* An account comes back to its owner, who signs in with the address it has.
AccountMoves ==
  Moves("made", "users", {"id"}) \cup Moves("users", "userAccount", DOMAIN Users)
    \cup Moves("userAccount", "srpInit", {"email"}) \cup Moves("srpInit", "srpVerify", {"email"})
ChallengeMoves == Moves("srpCredentials", "srpInitAnswer", {"argon2SaltB64", "srpSalt"})
PasswordMoves == Moves("passwordChange", "srpCredentials", DOMAIN Password)
DeviceMoves ==
  Moves("srpVerify", "refreshTokens", {"deviceName"}) \cup Moves("made", "refreshTokens", {"jti"})
    \cup Moves("header", "refreshTokens", {"userAgent"})
    \cup Moves("refreshTokens", "device", {"deviceName", "userAgent"})
    \cup {<<<<"refreshTokens", "jti">>, <<"device", "id">>>>, <<<<"device", "id">>, <<"revokeDevice", "id">>>>}

-----------------------------------------------------------------------------
\* Synchronisation.

Mutation == [id |-> Number, entityId |-> Some, payload |-> Text(0, Unbounded), baseVersion |-> Number]
PushRequest == [clientId |-> Some]
PushResponse == [version |-> Number, entityId |-> Some]
PullRequest == [clientId |-> Some, cursor |-> Text(0, Unbounded)]
PatchItem == [entityId |-> Text(0, Unbounded), payload |-> Text(0, Unbounded), version |-> Number]
PullResponse == [cursor |-> Text(0, Unbounded), lastMutationId |-> Number]

\* What rows are compared with: the newer ones are the answer.
NewerThan == [version |-> Integer(63)]

SyncObjects == [entityId |-> Indexed, payload |-> Column, version |-> Integer(63)]
SyncClients == [clientId |-> Indexed, lastMutationId |-> Integer(63)]

PushMoves ==
  Moves("mutation", "syncObjects", {"entityId", "payload"})
    \cup Moves("push", "syncClients", {"clientId"})
    \cup Moves("made", "syncObjects", {"version"})
    \cup Moves("syncObjects", "pushAnswer", {"version", "entityId"})
    \cup {<<<<"mutation", "id">>, <<"syncClients", "lastMutationId">>>>,
          <<<<"pushAnswer", "version">>, <<"mutation", "baseVersion">>>>}

\* A cursor is the version of a row, which the next pull sends back.
PullMoves ==
  Moves("syncObjects", "patch", DOMAIN PatchItem)
    \cup Moves("syncClients", "pullAnswer", {"lastMutationId"})
    \cup Moves("pullAnswer", "pull", {"cursor"}) \cup Moves("patch", "mutation", {"entityId"})
    \cup {<<<<"syncObjects", "version">>, <<"pullAnswer", "cursor">>>>,
          <<<<"pull", "cursor">>, <<"newer", "version">>>>}

-----------------------------------------------------------------------------
\* Shared terminals: invites, relay, discovery, signaling, phones.

InviteId == Base64url(8, 64)
Hash == Base64url(8, 128)
SessionId == Text(1, 256)
DeviceId == Text(1, 128)
PeerId == Base64url(8, 64)

CreateInviteRequest ==
  [inviteId |-> InviteId, sessionId |-> SessionId, capabilityHash |-> Hash, ephPubB64 |-> Hash,
   capabilityVersion |-> Number, exp |-> Number, note |-> Text(1, 200)]
InviteView ==
  [inviteId |-> Some, sessionId |-> Some, capabilityHash |-> Some, exp |-> Number]
ClaimRequest == [inviteId |-> InviteId, capabilityHash |-> Hash, displayName |-> Text(1, 80)]
ClaimResponse ==
  [sessionId |-> Some, ephPubB64 |-> Text(8, 128), connectionId |-> Text(8, 64),
   relayClaimToken |-> Text(8, 2048)]
ConnectionId == Base64url(22, 22)
RelayQuery == [sessionId |-> SessionId, connectionId |-> Text(1, 256)]

CollabInvites ==
  [inviteId |-> Indexed, sessionId |-> Column, capabilityHash |-> Column, ephPubB64 |-> Column,
   capabilityVersion |-> Integer(63), exp |-> Integer(63), note |-> Column]

InviteMoves == Moves("createInvite", "collabInvites", DOMAIN CreateInviteRequest)
InviteViewMoves == Moves("collabInvites", "inviteView", DOMAIN InviteView)

\* The owner hands the invite over in a link and may revoke it.
LinkMoves ==
  Moves("inviteView", "claim", {"inviteId", "capabilityHash"})
    \cup Moves("inviteView", "revokeInvite", {"inviteId"})

\* The session id is also signed into the token.
ClaimMoves ==
  Moves("collabInvites", "claimAnswer", {"sessionId", "ephPubB64"})
    \cup Moves("made", "claimAnswer", {"connectionId"})
    \cup {<<<<"collabInvites", "sessionId">>, <<"claimAnswer", "relayClaimToken">>>>}
JoinMoves == Moves("claimAnswer", "relay", {"sessionId", "connectionId"})

AnnounceRequest ==
  [deviceId |-> DeviceId, sessionId |-> SessionId, title |-> Text(1, 160), cols |-> Integer(14),
   rows |-> Integer(14), deviceClock |-> Number]
AnnouncedSession ==
  [sessionId |-> Some, deviceId |-> Some, title |-> Some, cols |-> Number, rows |-> Number]
MultiplayerAnnouncements ==
  [deviceId |-> Indexed, sessionId |-> Indexed, title |-> Column, cols |-> Integer(31), rows |-> Integer(31),
   deviceClock |-> Integer(63)]
SessionIdParams == [sessionId |-> SessionId]

AnnounceMoves == Moves("announce", "multiplayerAnnouncements", DOMAIN AnnounceRequest)
ListMoves == Moves("multiplayerAnnouncements", "announced", DOMAIN AnnouncedSession)

\* A device retracts what it has announced; another one joins what it is told of,
\* and leaves its own out of the list.
DiscoveryMoves ==
  Moves("announce", "retract", {"sessionId"}) \cup Moves("announced", "relay", {"sessionId"})
    \cup Moves("announced", "signal", {"sessionId"})
    \cup {<<<<"announce", "deviceId">>, <<"list", "excludeDevice">>>>}

SignalQuery == [sessionId |-> SessionId, peerId |-> PeerId]
SignalEnvelope == [from |-> Text(8, 64), to |-> Text(8, 64)]

\* The server writes the peer of the socket into from; a peer answers to it.
SignalMoves ==
  {<<<<"signal", "peerId">>, <<"envelope", "from">>>>, <<<<"envelope", "from">>, <<"envelope", "to">>>>}

PhoneRequest == [deviceToken |-> Text(1, 2048), userAgent |-> Text(0, 512)]
PushTokensTable == [deviceToken |-> Indexed, userAgent |-> Column]
PhoneMoves ==
  Moves("registerPhone", "pushTokens", DOMAIN PhoneRequest)
    \cup Moves("registerPhone", "unregisterPhone", {"deviceToken"})

-----------------------------------------------------------------------------
\* Administration.

AnyMail == Type({"mail"}, 3, Unbounded, Unbounded)
SeedSettings == [email |-> AnyMail, password |-> Text(8, Unbounded)]
AdminLoginRequest == [email |-> AnyMail, password |-> Some]
AdminPasswordRequest == [currentPassword |-> Some, newPassword |-> Text(8, Unbounded)]
AdminUsers == [email |-> Indexed]

\* A password goes through its hash into the row, of whatever size it is.
AdminMoves ==
  Moves("seed", "adminUsers", {"email"}) \cup Moves("adminUsers", "adminLogin", {"email"})
    \cup Moves("seed", "adminLogin", {"password"})
    \cup {<<<<"adminPassword", "newPassword">>, <<"adminLogin", "password">>>>,
          <<<<"adminLogin", "password">>, <<"adminPassword", "currentPassword">>>>}

\* The dashboard asks for the user and the device it has been told of.
UserParams == [id |-> Uuid, jti |-> Uuid]
UserMoves == Moves("users", "userParam", {"id"}) \cup Moves("refreshTokens", "userParam", {"jti"})

-----------------------------------------------------------------------------
\* What the server makes itself; a version rises by one with each write.
Made == [version |-> Number, connectionId |-> ConnectionId, id |-> Uuid, jti |-> Uuid]

Tables ==
  [users |-> Users, srpCredentials |-> SrpCredentials, refreshTokens |-> RefreshTokens,
   syncObjects |-> SyncObjects, syncClients |-> SyncClients, collabInvites |-> CollabInvites,
   multiplayerAnnouncements |-> MultiplayerAnnouncements, pushTokens |-> PushTokensTable,
   adminUsers |-> AdminUsers]

Table == DOMAIN Tables

AccountSchemas ==
  [register |-> RegisterRequest, google |-> GoogleUserInfo, userAccount |-> UserAccount, srpInit |-> [email |-> Email],
   srpInitAnswer |-> SrpInitResponse, srpVerify |-> SrpVerifyRequest, passwordChange |-> Password,
   device |-> DeviceView, revokeDevice |-> [id |-> Uuid], header |-> [userAgent |-> Text(0, Unbounded)]]

SyncSchemas ==
  [mutation |-> Mutation, push |-> PushRequest, pushAnswer |-> PushResponse, pull |-> PullRequest,
   patch |-> PatchItem, pullAnswer |-> PullResponse, newer |-> NewerThan]

TerminalSchemas ==
  [createInvite |-> CreateInviteRequest, inviteView |-> InviteView, claim |-> ClaimRequest,
   revokeInvite |-> [inviteId |-> InviteId], claimAnswer |-> ClaimResponse, relay |-> RelayQuery,
   announce |-> AnnounceRequest, announced |-> AnnouncedSession, retract |-> SessionIdParams,
   list |-> [excludeDevice |-> DeviceId], signal |-> SignalQuery, envelope |-> SignalEnvelope,
   registerPhone |-> PhoneRequest, unregisterPhone |-> [deviceToken |-> Text(1, 2048)]]

AdminSchemas ==
  [seed |-> SeedSettings, adminLogin |-> AdminLoginRequest, adminPassword |-> AdminPasswordRequest,
   userParam |-> UserParams]

\* Fields a client also fills with what it was not given.
Typed == {<<"mutation", "entityId">>, <<"pull", "cursor">>, <<"srpInit", "email">>}

Schemas == Tables @@ AccountSchemas @@ SyncSchemas @@ TerminalSchemas @@ AdminSchemas @@ [made |-> Made]

Place == UNION {{<<s, f>> : f \in DOMAIN Schemas[s]} : s \in DOMAIN Schemas}
TypeOf(p) == Schemas[p[1]][p[2]]

Moved ==
  RegisterMoves \cup GoogleMoves \cup AccountMoves \cup ChallengeMoves \cup PasswordMoves \cup DeviceMoves
    \cup PushMoves \cup PullMoves \cup InviteMoves \cup InviteViewMoves \cup LinkMoves \cup ClaimMoves
    \cup JoinMoves \cup AnnounceMoves \cup ListMoves \cup DiscoveryMoves \cup SignalMoves \cup PhoneMoves
    \cup AdminMoves \cup UserMoves

\* Values come in where nothing moves them to, or where a client types them.
Origins == {p \in Place : \A m \in Moved : m[2] # p} \cup Typed
=============================================================================
