SPECIFICATION Spec

CONSTANTS
  j1 = j1
  j2 = j2
  home = home
  other = other
  Jobs = {j1}
  NoJob = NoJob
  None = None
  Workers = {w1}
  Clients = {c1}
  Projects <- MCProjects
  Home = home
  Scope <- AllAtHome
  Cost <- MCCost
  Parallelism <- MCParallelism
  CostBudget = 3
  MaxPending = 1
  Heavy = {}
  Reports = {j1}
  MaxJobs = 1
  MaxAttempts = 2
  StaleAfter = 1
  Deadline = 1
  TTL = 0
  DiskMayFail = TRUE
  MaxPolls = 1
  MaxAdvances = 1
  MaxClock = 1
  MaxRestarts = 0
  MaxSwitches = 1


PROPERTY ImplementsQueue
INVARIANT ResultMeansCompleted
