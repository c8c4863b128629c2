CONSTANTS
  r1 = r1
  r2 = r2
  r3 = r3
  Runs = {r1, r2, r3}
  Plans <- DailyPlan
  FreePerDay = 1
  Enforcement = TRUE
  LastDay = 1
  MonthOf <- OneMonth
SPECIFICATION FairSpec
INVARIANTS
  CountsHonest
  AllowanceRespected
  NoUnitsAfterPurge
PROPERTIES
  RunsEnd
CHECK_DEADLOCK FALSE
