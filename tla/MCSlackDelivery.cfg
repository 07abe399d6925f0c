SPECIFICATION FairSlackSpec
CONSTANTS
  Null = Null
  MaxMessages = 2
  MayBe <- MCMayBe
  MaxEvents = 1
  Tasks = {1}
  Workers = {w1}
  MaxAttempts <- MCMaxAttempts
  MaxFaults = 1
CHECK_DEADLOCK FALSE
INVARIANTS
  EventEffectOnce
  AnswersConfirmed
PROPERTIES
  PostedAtMostOnce
  LoopSettles
