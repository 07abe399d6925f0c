SPECIFICATION Spec
CONSTANTS
  t1 = t1
  t2 = t2
  w1 = w1
  w2 = w2
  Tasks = {t1, t2}
  Workers = {w1, w2}
  Owners = {o1, o2, o3, o4}
  Interrupts = {"question"}
  Values = {"yes", "no"}
  Null = Null
  Types <- MCTypes
  TypeOf <- OneType
  Serves <- AllServe
  Priority <- MCPriority
  MaxAttempts <- MCMaxAttempts
  LeaseSeconds = 2
  RetryDelays <- MCRetryDelays
SYMMETRY Symmetry
CHECK_DEADLOCK FALSE
INVARIANTS
  TokensUnique
  FenceExclusive
  RowsConsistent
  RetryBudget
PROPERTIES
  LiveLeasesProtected
  AcceptedReplyKept
  Lifecycle
