SPECIFICATION Spec

CONSTANTS
  Scopes = {a}
  Requests = {r}
  Sessions = {}
  Sweepers = {sweeper}
  Slots <- MCSlots
  MaxSlots = 2
  None = None
  CacheLimit = 1
  ReaderFallback = TRUE
  Contested = {}
  Switchers = {}
  JobWorkers = {}
  MayVanish = FALSE
  MaxDeletes = 0

INVARIANT ReaderOnlyBesideOtherProcess
