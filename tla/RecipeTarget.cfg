SPECIFICATION Spec
CONSTANTS
  Pages <- ThreePages
  DeniedPages <- ThirdDenied
  DishKinds <- MixedKinds
  StockKinds <- PantryKinds
  Dishes = {"a", "b"}
  AliasModes = {"pending", "off"}
  MaxQueries = 3
  SearchWorkers = 2
  MaxPages = 2
  WaveSize = 1
  Wanted = 1
  MaxNear = 1
  Requests <- Asked
  PoolTarget = 2
INVARIANTS TargetOrIdea
CHECK_DEADLOCK FALSE
