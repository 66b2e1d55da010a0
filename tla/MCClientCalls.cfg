\* A caller stops when its program is done.
SPECIFICATION Spec
CHECK_DEADLOCK FALSE
CONSTANTS
  a = a
  b = b
  Callers = {a, b}
  Plans <- MCPlans
  MaxRetries = 1
  PageSize = 2
  Entries = {e1, e2, e3, e4}
  NoTag = NoTag
INVARIANTS
  UpdatesBuildOnWhatWasRead
  PostsActOnce
  OutcomesAreTrue
  ListsWhatStays
  ErrorsSayWhy
