SPECIFICATION FairPipelineSpec
CONSTANTS
  Null = Null
  opening = opening
  first = first
  Jobs = {opening}
  Intakes = {first}
  Tasks <- MCTasks
  MaxAttempts <- MCMaxAttempts
  Workers = {q1, q2, r1}
  Qualifiers = {q1, q2}
  Writers = {r1}
  Names <- MCNames
  Shows <- MCShows
  CoverLetter = TRUE
  Operations <- MCOperations
  MaxClaims = 2
  PageHolds = 1
  MaxRounds = 1
  MaxSources = 2
  MaxFaults = 1
CHECK_DEADLOCK FALSE
INVARIANTS
  ModelAskedOnce
PROPERTIES
  PassedInTime
  PublishedFromSources
  PipelineSettles
