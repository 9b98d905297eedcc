SPECIFICATION Spec
CONSTANTS
  m1 = m1
  m2 = m2
  m3 = m3
  None = None
  Msgs <- ThreeMsgs
  KeyAtStart = {TRUE, FALSE}
  ReadResults = {TRUE}
  WriteResults = {TRUE, FALSE}
  MaxTimers = 2
  MaxStarts = 3
INVARIANTS
  TypeOK
  Durable
PROPERTIES
  StaleFileIsRetried
  RecoveryKeepsDraft
CHECK_DEADLOCK FALSE
