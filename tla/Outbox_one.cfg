SPECIFICATION Spec
CONSTANTS
  p1 = p1
  p2 = p2
  f1 = f1
  f2 = f2
  c1 = c1
  u1 = u1
  Posts <- OnePost
  Foreign <- TwoForeign
  Convs <- OneConv
  Threads <- OneConv
  ConvOf <- OneRoom
  Uploads <- OneUpload
  UploadsOf <- OnlyHasOne
  MaxAttempts = 2
  MaxIntervening = 2
  RetryWindow = 1
  Losable <- OneConv
  Evictable <- OneForeign
  Told <- Everything
  Paged <- Everything
  MaxTime = 1
  LastInput = 0
  MaxGen = 3
INVARIANTS
  TypeOK
  NoStrandedPost
  CutOffHolds
  UploadFailureSurfaces
  OneLiveRequest
  DeadlineArmed
CHECK_DEADLOCK FALSE
