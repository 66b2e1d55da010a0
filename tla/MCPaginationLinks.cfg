SPECIFICATION FairPageSpec
CONSTANTS
  Walks <- MCLinksOnly
  DefaultPages = 3
CHECK_DEADLOCK FALSE
PROPERTY PageWalkEnds
