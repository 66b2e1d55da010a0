SPECIFICATION FairSpec
CONSTANTS
  c1 = c1
  c2 = c2
  j1 = j1
  forever = forever
  Clients <- MCClients
  AsyncClients <- MCAsync
  JobIds <- MCJobs
  PollIntervals <- MCIntervals
  Timeouts <- MCTimeouts
  Forever = forever
  MaxPoll = 2
  NoJob = NoJob
CHECK_DEADLOCK FALSE
INVARIANTS
  VerdictIsFinal
  ResultsAreReal
  NoJobLeftBehind
  OneJobPerCall
  NoDismissAfterVerdict
PROPERTIES
  ImplementsJobCall
  WaitEnds
