SPECIFICATION FairSpec
CONSTANTS
  d1 = d1
  d2 = d2
  s1 = s1
  l1 = l1
  Deletes = {d1, d2}
  Statuses = {s1}
  Links = {l1}
  Casts <- TwoCasts
  Worker = Worker
  PurgeOrder <- TwoTables
  Unguarded <- Metered
  MaxAttempts = 2
  MaxFaults = 2
  NoTomb = NoTomb
INVARIANTS NothingComesBack CompleteMeansDone NoSilentAuthorization OneAtATime NotRequestedIsTrue
PROPERTIES OutcomesAreFinal TombstoneCompletes
CHECK_DEADLOCK FALSE
