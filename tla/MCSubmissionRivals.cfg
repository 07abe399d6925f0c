SPECIFICATION SubmissionSpec
CONSTANTS
  rw = rw
  Tasks <- MCTasks
  Workers = {rw, s1, s2}
  Owners = {o1, o2, o3}
  Interrupts = {"approval", "submission"}
  Values = {"reply"}
  Null = Null
  Types <- MCTypes
  TypeOf <- MCTypeOf
  Serves <- MCServes
  Priority <- MCPriority
  MaxAttempts <- MCMaxAttempts
  LeaseSeconds = 2
  RetryDelays <- MCRetryDelays
  MaxRounds = 1
  ReviewTask <- MCReviewTask
  SubmitTask <- MCSubmitTask
  Contents = {c1, c2}
  ApprovalSeconds = 1
  PortalShowsReceipt = TRUE
  MaxFaults = 2
  MaxEdits = 1
CHECK_DEADLOCK FALSE
SYMMETRY Symmetry
INVARIANTS
  OneClickPerApproval
  SubmittedIsReal
  
PROPERTIES
  ApprovalMoves
