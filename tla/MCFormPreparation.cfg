SPECIFICATION FairFormSpec
CONSTANTS
  Null = Null
  f1 = f1
  f2 = f2
  v1 = v1
  v2 = v2
  Tasks = {form}
  Workers = {w1, w2}
  MaxAttempts <- MCMaxAttempts
  Values = {v1, v2}
  Offers <- MCOffers
  Pages <- MCPages
  FinalPages = {1, 2}
  Known <- MCKnown
  Registered = {f2}
  MaxPages = 2
  MaxEdits = 1
  MaxFaults = 1
CHECK_DEADLOCK FALSE
INVARIANTS
  FillsApproved
  ReviewShowsForm
PROPERTIES
  FormSettles
