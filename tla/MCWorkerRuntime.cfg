SPECIFICATION FairRuntimeSpec
CONSTANTS
  Tasks = {t1}
  Workers = {w1, w2}
  Owners = {o1, o2, o3}
  Interrupts = {"review"}
  Question = "review"
  Values = {"yes", "no"}
  Null = Null
  Types <- MCTypes
  TypeOf <- MCTypeOf
  Serves <- MCServes
  Priority <- MCPriority
  MaxAttempts <- MCMaxAttempts
  RetryDelays <- MCRetryDelays
  LeaseSeconds = 2
  Nodes = 3
  HumanNode = 2
  MaxFaults = 2
CHECK_DEADLOCK FALSE
INVARIANTS
  NoLostProgress
  RowFollowsThread
  AnswerWasAccepted
PROPERTIES
  CheckpointByOwner
  TasksSettle
