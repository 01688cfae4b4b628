SPECIFICATION Spec

CONSTANTS
  Scopes = {a, b}
  Requests = {r, w}
  Sessions = {r}
  Sweepers = {}
  Slots <- MCSlots
  MaxSlots = 2
  None = None
  CacheLimit = 1
  ReaderFallback = FALSE
  Contested = {}
  Switchers = {w}
  JobWorkers = {}
  MayVanish = FALSE
  MaxDeletes = 1

INVARIANTS
  TypeOK
  NoUseAfterShutdown
  InUseIsCached
  SessionKeepsItsRuntime
SYMMETRY Symmetry
