SPECIFICATION BrowserSpec
CONSTANTS
  Cooldown = 1
  MaxTick = 2
  MaxCalls = 1
  MaxGenerations = 2
  MaxOwn = 2
  MaxOthers = 1
  Finding = {1, 2, 3, 4}
  FoundBy <- MCFoundBy
  PrintOf <- MCPrintOf
  NoScore = NoScore
  Tables <- MCTables
  PageSizes = {1, 2}
  MaxPosture = 1
  MaxRate = 3
  Presets = {2, 3}
  Desk = {1, 2}
  PageSize = 1
  BulkLimit = 1
  MaxSends = 1
  MaxElsewhere = 1
INVARIANTS
  BrowserTypeOK
  
  ListingExact
  
  

  
CHECK_DEADLOCK FALSE
