SPECIFICATION FairOutreachSpec
CONSTANTS
  Null = Null
  email = email
  manual = manual
  Connect = connect
  Tasks = {email, manual, connect}
  Workers = {w1, w2}
  MaxAttempts <- MCMaxAttempts
  Orders <- MCContact
  Channel <- MCChannel
  MaxVersion = 2
  MaxFaults = 1
CHECK_DEADLOCK FALSE
INVARIANTS
  SentAsApproved
PROPERTIES
  MailedAtMostOnce
  ConnectorSettles
