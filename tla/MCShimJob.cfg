SPECIFICATION FairSpec
CONSTANTS
  t1 = t1
  t2 = t2
  j1 = j1
  j2 = j2
  JobIds <- MCJobs
  Tools <- MCTools
  PollInterval = 2
  Timeouts = {0, 1, 3}
  NoJob = NoJob
CHECK_DEADLOCK FALSE
INVARIANTS
  TimedOutJobsEnd
PROPERTIES
  ImplementsJobCall
  ShimWaitEnds
