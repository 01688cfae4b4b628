SPECIFICATION LspSpec

CONSTANTS
  da = da
  db = db
  Docs = {da, db}
  Imports <- MCImports
  MaxLspCalls = 2
  MaxTexts = 1
  MaxServerFaults = 0
  MaxPublishes = 1

INVARIANT PublishedIsCurrent
