CONSTANTS
  c1 = c1
  c2 = c2
  k1 = k1
  k2 = k2
  r1 = r1
  r2 = r2
  s1 = s1
  s2 = s2
  s3 = s3
  s4 = s4
  Free = Free
  Admin = Admin
  Client = {c1, c2}
  Key = {k1}
  Resource = {r1}
  ResourceOf <- Resources
  Op = {"upsert"}
  Slot = {s1, s3}
  Owner <- Owners
  MaxId <- Edits
  MaxFault = 0
  MaxClear = 0
SPECIFICATION FairSpec
PROPERTIES
  Convergence
