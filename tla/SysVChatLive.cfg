SPECIFICATION FairSpec
CONSTANTS
  a = a
  b = b
  c = c
  i1 = i1
  i2 = i2
  k1 = k1
  k2 = k2
  Clients <- TwoClients
  Ids <- TwoIds
  IdOf <- OneEach
  Keys <- TwoKeys
  MaxClients = 2
  QueueCap = 1
  MaxSend <- OneTextEach
  Mortal <- JustB
  MayShutDown = TRUE
PROPERTY ExitIsHonoured
CHECK_DEADLOCK FALSE
