SPECIFICATION Spec
CHECK_DEADLOCK FALSE
CONSTANTS
  a = a
  b = b
  s = s
  Desktop = {f}
  Web = {g}
  Request = {q, r}
  Email = {a, b}
  Sub = {s}
  Mail <- MCMail
  User = {u, v}
  MaxFault = 1
  None = None
INVARIANTS
  TypeOK
  OneSessionPerConsent
  NotSomeoneElse
PROPERTIES
  AccountsStayPut
  WebFlowsEnd
