SPECIFICATION Spec

CONSTANTS
  Scopes = {a, b}
  Requests = {r, w}
  Sessions = {r}
  Sweepers = {}
  Slots <- MCSlots
  MaxSlots = 2
  None = None
  CacheLimit = 1
  ReaderFallback = FALSE
  Contested = {}
  Switchers = {}
  JobWorkers = {w}
  MayVanish = FALSE
  MaxDeletes = 0

INVARIANTS
  SessionKeepsItsRuntime
