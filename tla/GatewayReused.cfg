SPECIFICATION Spec
CONSTANTS
  a = a
  b = b
  None = None
  Starts = {a, b}
  Conns = {"c1"}
  Ids = {1}
  ConnOf <- OneConn
  UserOf <- OneUser
  ServerNames = {"web"}
  ClientNames = {"fridge"}
  RefusedNames = {"skipped"}
  MaxToolRounds = 2
  MaxActive = 2
  MaxPerUser = 1
  MaxPending = 2
  MaxPerConn = 2
  MaxEarly = 1
  Tasks = {1, 2, 3}
SYMMETRY Symmetric
INVARIANTS CallsAnsweredOnce
CHECK_DEADLOCK FALSE
