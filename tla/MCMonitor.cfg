SPECIFICATION FairMonitorSpec
CONSTANTS
  Null = Null
  app1 = app1
  app2 = app2
  review = review
  interview = interview
  blank = blank
  verdict = verdict
  other = other
  Tasks = {app1, app2}
  Workers = {w1, w2}
  MaxAttempts <- MCMaxAttempts
  Messages = {review}
  Pages = {blank, verdict, other}
  About <- MCAbout
  Readings <- MCReadings
  MailLimit = 1
  CheckLimit = 1
  Unchecked <- MCUnchecked
  MaxFaults = 1
INVARIANTS
  EventsExplainStatus
PROPERTIES
  CheckedAgain
