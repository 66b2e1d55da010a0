SPECIFICATION Spec
CONSTANTS
  Oids <- MCOids
  Cursors <- MCSmallPages
  MaxForeign = 0
CHECK_DEADLOCK FALSE
INVARIANT EveryMatchVisitedOnce
