\* Requests end, and a program stops using its tokens and clients.
SPECIFICATION PartsSpec
CHECK_DEADLOCK FALSE
CONSTANTS
  Requests = {r1, r2}
  Methods = {"GET", "POST"}
  RetryMethods <- DefaultRetryMethods
  MaxRetries = 2
  Overrides <- MCOverrides
  NoOverride = NoOverride
  BackoffInitial = 1
  BackoffMax = 2
  RetryAfters <- MCHints
  NoHint = NoHint
  PoolSize = 1
  HistoryBound = 4
  Threads = {t1, t2}
  Providers = {p1}
  Tokens = {k1, k2}
  NoToken = NoToken
  Free = Free
  Lifetimes <- MCLifetimes
  Never = Never
  Window = 2
  RefreshTime = 1
  UseTime = 1
  Clients = {c0, c1, c2, c3}
  Root = c0
  Injected = injected
  None = none
  Timeouts <- MCTimeouts
INVARIANTS
  ServerIsSpared
  IdleHoldsNoConnection
  TokensServeTheirTime
  NothingLeaks
PROPERTIES
  RevokedNotServed
  CloneCloseIsHarmless
  CallsEnd
