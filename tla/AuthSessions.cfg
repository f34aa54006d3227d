CONSTANTS
  None = None
  Token = {t1, t2, t3}
  Request = {r1, r2}
  MaxPassword = 2
  MaxAdmin = 2
SYMMETRY Interchangeable
SPECIFICATION Spec
INVARIANTS
  TypeOK
  OneTokenPerSession
  PasswordEndsSessions
  DisabledHasNoSession
PROPERTIES
  ImplementsSessions
