SPECIFICATION Spec
CONSTANTS
  r1 = r1
  r2 = r2
  r3 = r3
  Runs = {r1, r2, r3}
  Plans <- CappedPlan
  FreePerDay = 1
  Enforcement = TRUE
  LastDay = 1
  MonthOf <- OneMonth
PROPERTIES OnlyConsumedReturned
CHECK_DEADLOCK FALSE
