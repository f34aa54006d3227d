SPECIFICATION ServerSpec
CHECK_DEADLOCK FALSE
CONSTANTS
  first = first
  second = second
  Inst = {first, second}
  Client = {c}
  Resource = {r, s}
  MaxVersion = 2
  MaxSocket = 1
  MaxFault = 1
  None = None
  Plugin = {p1, p2, p3}
  Device = {d}
  Ahead <- MCAhead
  Window = 2
  MaxTime = 3
  MaxWrite = 2
  User = {u, v}
  Token = {t}
  Request = {q1, q2, q3}
  MaxChallenge = 2
  MaxExpiry = 1
  PageRequest = {q1, q2}
  MaxPassword = 3
  MaxLogin = 2
  Row = {u}
  View = {v, w}
  Action = {q1}
  MaxFetch = 2
  MaxHits <- MCMaxHits
  Proc = {p, q}
  Job = {j}
  MaxMigration = 2
  MaxStart = 2
  MaxPress = 2
  MaxDeed = 2
INVARIANTS
  ServerTypeOK
  NobodySilentlyStale
  LivesInOrder
  DiscoveryFollowsHeartbeats
  OverlapsDouble
  RequestsFollowDeclarations
  AdministrationHolds
PROPERTIES
  PokesDriveClients
