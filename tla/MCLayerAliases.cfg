\* Every bounded step may be used up.
SPECIFICATION PartsSpec
CONSTANTS
  t1 = t1
  t2 = t2
  j1 = j1
  j2 = j2
  Threads <- MCThreads
  Names <- MCNames
  Objects = {o1, o2, o3}
  NoObject = NoObject
  Jobs <- MCJobs
  NoJob = NoJob
  Layers = {"honua://services/roads/0"}
  Rows = {r1}
  NoWhere = NoWhere
  Users <- MCThreads
  Handles = {h1, h2, h3}
  MaxChanges = 2
  Nobody = Nobody
SYMMETRY MCSymmetry
CHECK_DEADLOCK FALSE
INVARIANTS
  OnlyRealOutputs
  SelectionReachesWork
  ClientsFollowSettings
  CredentialsStayGuarded
PROPERTIES
  OverwriteProtected
