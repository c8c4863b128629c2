SPECIFICATION FairSpec
CONSTANTS
  c1 = c1
  s1 = s1
  Reqs = {c1, s1}
  Summaries = {s1}
  Plans <- ChangingPlans
  Sizes <- OneSize
  Actuals <- Reported
  Null = Null
  GraceLimit = 1
  Enforcement = TRUE
  MaxRounds = 1
  LastDay = 1
  WeekOf <- MCWeekOf
  MonthOf <- SameMonth
INVARIANTS LedgerExact ReservedWithinLimit NoUsageAfterPurge OvershootBounded
PROPERTIES ImplementsLedger RequestsEnd
CHECK_DEADLOCK FALSE
