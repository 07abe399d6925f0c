SPECIFICATION FairSubmissionSpec
CONSTANTS
  rw = rw
  Tasks <- MCTasks
  Workers = {rw, s1}
  Owners = {o1, o2}
  Interrupts = {"approval", "submission"}
  Values = {"reply"}
  Null = Null
  Types <- MCTypes
  TypeOf <- MCTypeOf
  Serves <- MCServes
  Priority <- MCPriority
  MaxAttempts <- MCMaxAttempts
  LeaseSeconds = 1
  RetryDelays <- MCRetryDelays
  MaxRounds = 2
  ReviewTask <- MCReviewTask
  SubmitTask <- MCSubmitTask
  Contents = {c1}
  ApprovalSeconds = 1
  PortalShowsReceipt = TRUE
  MaxFaults = 1
  MaxEdits = 0
CHECK_DEADLOCK FALSE
PROPERTIES
  FreshReviewFollows
