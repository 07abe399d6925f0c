SPECIFICATION FairGatewaySpec
CONSTANTS
  c1 = c1
  c2 = c2
  app = app
  None = None
  Callers = {c1, c2}
  Application <- MCApplication
  Maximum <- MCMaximum
  TaskLimit <- MCTaskLimit
  AppLimit = 5
  DailyLimit = 3
  MonthlyLimit = 4
  MaxRequests = 3
  SchemaAttempts = 2
  TransportAttempts = 2
  MonthOf <- MCMonthOf
  MaxCalls = 2
  MaxMishaps = 1
CHECK_DEADLOCK FALSE
INVARIANTS
  SpendingWithinCeilings
  EscalatesOnAnswers
PROPERTIES
  CallsEnd
