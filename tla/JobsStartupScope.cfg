SPECIFICATION Spec

CONSTANTS
  j1 = j1
  j2 = j2
  home = home
  other = other
  Jobs = {j1}
  NoJob = NoJob
  None = None
  Workers = {w1}
  Clients = {c1}
  Projects <- MCProjects
  Home = home
  Scope <- AllElsewhere
  Cost <- MCCost
  Parallelism <- MCParallelism
  CostBudget = 3
  MaxPending = 1
  Heavy = {}
  Reports = {j1}
  MaxJobs = 2
  MaxAttempts = 1
  StaleAfter = 0
  Deadline = 1
  TTL = 2
  DiskMayFail = FALSE
  MaxPolls = 0
  MaxAdvances = 1
  MaxClock = 2
  MaxRestarts = 1
  MaxSwitches = 0

INVARIANT NoAbandonedJob
