SPECIFICATION MCSpec
CONSTANTS
  Oids <- MCOids
  Cursors <- MCCursors
  MaxForeign = 2
  Walks <- MCWalks
  DefaultPages = 3
  Commands <- MCCommands
  MaxLines = 3
CHECK_DEADLOCK FALSE
INVARIANTS
  SafeCursorsVisitTheirPages
  CollectsWhatWasAsked
  TruncationIsSignalled
  LogsAreWhole
  VerdictsComeWithTheirEvents
PROPERTY LoopsEnd
