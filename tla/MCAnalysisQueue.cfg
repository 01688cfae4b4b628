SPECIFICATION Spec
CONSTANTS
  impact = impact
  safety = safety
  deadCode = deadCode
  embeddings = embeddings
  builder = builder
  Jobs = {impact, safety, deadCode, embeddings, builder}
  NoJob = NoJob
  Workers = {w1, w2}
  Cost <- MCCost
  Parallelism <- MCParallelism
  CostBudget = 3
  MaxPending = 3
INVARIANTS
  TypeOK
  CountersAgree
  BudgetRespected
  OnePlaceEach
  CheapestThenOldest
  NoLostWakeup
PROPERTIES
  EveryAcceptedJobStarts
  ImplementsPool
