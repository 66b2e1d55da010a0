\* Every bounded step may be used up.
SPECIFICATION PartsSpec
CONSTANTS
  Tasks = {t1, t2}
  Main = t1
  Rows = {r1, r2, r3}
  BatchSize = 2
  MaxSends = 4
  DaRows = {d1, d2, d3}
  MaxBlocks = 2
  MaxDaSends = 4
  Writers = {w1, w2, w3}
  NoWriter = NoWriter
  LastDay = 2
  MaxCloses = 2
SYMMETRY MCSymmetry
CHECK_DEADLOCK FALSE
INVARIANTS
  RowsAccountedFor
  WrittenOnce
  AuditTellsTheOutcome
  CleanBlockHasSent
  RecordsReachTheirDay
