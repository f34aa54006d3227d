SPECIFICATION Spec
CHECK_DEADLOCK FALSE
SYMMETRY Symmetric
CONSTANTS
  Inst = {a, b}
  Peer = {p, q}
  MaxConn = 3
  Cap = 2
  MaxEnv = 2
  NoConn = NoConn
INVARIANTS
  TypeOK
  SessionsEndWithTheirPeers
  OnceAndInOrder
PROPERTIES
  ByesAreDepartures
