SPECIFICATION PageSpec
CONSTANTS
  Walks <- MCResumed
  DefaultPages = 4
CHECK_DEADLOCK FALSE
INVARIANT CollectsWhatWasAsked
