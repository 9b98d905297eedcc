SPECIFICATION FairSpec
CONSTANTS
  m1 = m1
  m2 = m2
  m3 = m3
  None = None
  Msgs <- TwoMsgs
  KeyAtStart = {FALSE}
  ReadResults = {TRUE}
  WriteResults = {TRUE}
  MaxTimers = 1
  MaxStarts = 2
PROPERTIES
  BecomesDraft
CHECK_DEADLOCK FALSE
