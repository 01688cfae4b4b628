SPECIFICATION Spec

CONSTANTS
  Scopes = {a}
  Requests = {r, w}
  Sessions = {}
  Sweepers = {sweeper}
  Slots <- MCSlots
  MaxSlots = 2
  None = None
  CacheLimit = 1
  ReaderFallback = TRUE
  Contested = {a}
  Switchers = {}
  JobWorkers = {}
  MayVanish = TRUE
  MaxDeletes = 0

PROPERTY LeasesAreReleased
