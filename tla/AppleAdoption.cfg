SPECIFICATION Spec
CONSTANTS
  u1 = u1
  u2 = u2
  c1 = c1
  c2 = c2
  Users = {u1, u2}
  Calls = {c1, c2}
  None = None
  MaxVersion = 2
  MaxFaults = 1
INVARIANTS AdoptersSucceed
CHECK_DEADLOCK FALSE
