SPECIFICATION FairSpec
CONSTANTS
  u1 = u1
  u2 = u2
  c1 = c1
  c2 = c2
  Users = {u1, u2}
  Calls = {c1, c2}
  None = None
  MaxVersion = 2
  MaxFaults = 2
INVARIANTS RowsAgree OwnersBought RecordedMeansApplied
PROPERTIES ImplementsRegister CallsEnd
CHECK_DEADLOCK FALSE
