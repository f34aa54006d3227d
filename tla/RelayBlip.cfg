CONSTANTS
  p1 = p1
  p2 = p2
  o1 = o1
  o2 = o2
  o3 = o3
  o4 = o4
  c1 = c1
  c2 = c2
  s1 = s1
  s2 = s2
  s3 = s3
  Daemon = Daemon
  None = None
  Broadcast = Broadcast
  Pod = {p1}
  Client = {c1}
  Session = {o1}
  PodOf <- Pods
  Sock = {s1, s2, s3}
  MaxAttach = 3
  MaxEnvelope = 0
SYMMETRY Interchangeable
SPECIFICATION Spec
CHECK_DEADLOCK FALSE
INVARIANT NoFalseDeparture
