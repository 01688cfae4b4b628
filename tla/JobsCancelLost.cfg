SPECIFICATION Spec

CONSTANTS
  j1 = j1
  j2 = j2
  home = home
  other = other
  Jobs = {j1, j2}
  NoJob = NoJob
  None = None
  Workers = {w1}
  Clients = {c1}
  Projects <- MCProjects
  Home = home
  Scope <- AllAtHome
  Cost <- MCCost
  Parallelism <- MCParallelism
  CostBudget = 3
  MaxPending = 1
  Heavy <- MCIndexed
  Reports <- MCReport
  MaxJobs = 2
  MaxAttempts = 2
  StaleAfter = 1
  Deadline = 1
  TTL = 2
  DiskMayFail = FALSE
  MaxPolls = 1
  MaxAdvances = 1
  MaxClock = 0
  MaxRestarts = 0
  MaxSwitches = 0

INVARIANT CancellationSticks
