SPECIFICATION ComponentsSpec

CONSTANTS
  Paths = {f}
  Callers = {p, q}
  Watcher = watcher
  Nobody = nobody
  IndexRetries = 1
  BulkOverhang = 0
  Budgets <- MCBudgets

  EditFiles = {fa, fb, fc}
  MaxForeign = 1
  MaxIoFaults = 2

  Verifiers = {v}
  Edits = {ma, mb}
  Sessions = {s, t}
  GatedSessions = {s}
  Targets = {f}
  Symbols = {x}
  NoSymbol = none
  MaxMishaps = 1

  Requests = {p, q, r}
  SessionIds = {i}
  Projects = {d, e}
  DefaultProject = d
  NoProject = none
  MaxLosses = 1

  da = da
  db = db
  Docs = {da, db}
  Imports <- MCImports
  MaxLspCalls = 2
  MaxTexts = 1
  MaxServerFaults = 2
  MaxPublishes = 1

  sa = sa
  sb = sb
  ta = ta
  tb = tb
  tc = tc
  Servers = {sa, sb}
  Workers = {ta, tb, tc}
  ServerOf <- MCServerOf
  Does <- MCDoes
  Free = nobody
  ArtifactCap = 1
  MaxStores = 2
  MaxArtifactCalls = 3

  ua = ua
  ub = ub
  ca = ca
  cb = cb
  cc = cc
  Agents = {ua, ub}
  ClaimCalls = {ca, cb, cc}
  ClaimedFiles = {f, g}
  Terms = {1, 2}
  AgentOf <- MCAgentOf
  ClaimHorizon = 2

  FileCount = 4
  Statements <- MCStatements
  MaxStatements = 4
  Declarations <- MCDeclarations
  Ancestors <- MCAncestors
  Searches <- MCSearches

  fa = fa
  fb = fb
  fc = fc
  ma = ma
  mb = mb
  p = p
  q = q
  r = r

VIEW FocusView

INVARIANTS
  ComponentsTypeOK
  IndexMatchesDisk
  NewestRemembered
  FencedReadIsOneGeneration
  AllOrNothingOrTold
  GuardedWritesSurvive
  LedgerTellsTheTruth
  NoSpentEvidence
  HeaderIsHonoured
  DeletedStaysDeleted
  AnswersAreAboutTheTextRead
  NotesMatchServer
  HandedOutWasThere
  NewestAreKept
  SecondClaimantIsTold
  EndedClaimsStayEnded
  LoopsAreTold

PROPERTIES
  RowsMoveForward
  ChosenProjectSurvives
