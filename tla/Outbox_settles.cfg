SPECIFICATION FairSpec
CONSTANTS
  p1 = p1
  p2 = p2
  f1 = f1
  f2 = f2
  c1 = c1
  u1 = u1
  Posts <- TwoPosts
  Foreign <- Nothing
  Convs <- OneConv
  Threads <- Nothing
  ConvOf <- OneRoom
  Uploads <- Nothing
  UploadsOf <- NoFiles
  MaxAttempts = 2
  MaxIntervening = 1
  RetryWindow = 1
  Losable <- Nothing
  Evictable <- Nothing
  Told <- OnePost
  Paged <- Nothing
  MaxTime = 1
  LastInput = 0
  MaxGen = 4
INVARIANTS
  DeliveryInOrder
  NoSilentLoss
PROPERTIES
  ImplementsOrderedDelivery
  Settles
CHECK_DEADLOCK FALSE
