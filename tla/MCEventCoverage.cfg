SPECIFICATION ECLiveSpec
CONSTANTS
  p1 = p1
  p2 = p2
  Pollers = {p1, p2}
  Cutoff = 1
  LastLedger = 2
  LastEvent = 3
  LedgerOf <- TwoLedgers
  GroupOf <- OneBusyGroup
  LastGroup = 2
  Window = 1
  PageLimit = 1
  MaxPages = 3
INVARIANTS CursorCovers CutoffCovered
PROPERTIES CoverageOnlyGrows EventsArrive
CHECK_DEADLOCK FALSE
