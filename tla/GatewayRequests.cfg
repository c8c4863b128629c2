SPECIFICATION Spec
CONSTANTS
  a = a
  b = b
  None = None
  Starts = {a, b}
  Conns = {"c1"}
  Ids = {1, 2}
  ConnOf <- OneConn
  UserOf <- OneUser
  ServerNames = {"web"}
  ClientNames = {"fridge", "shop"}
  RefusedNames = {}
  MaxToolRounds = 1
  MaxActive = 2
  MaxPerUser = 1
  MaxPending = 2
  MaxPerConn = 2
  MaxEarly = 1
  Tasks = {1, 2, 3}
SYMMETRY Symmetric
INVARIANTS SlotsAreLiveRequests DrivenByOne CallsHoldSlots AnsweredOnce
PROPERTIES DrainIsFinal
CHECK_DEADLOCK FALSE
