SPECIFICATION Spec
CONSTANTS
  a = a
  b = b
  c = c
  i1 = i1
  i2 = i2
  k1 = k1
  k2 = k2
  Clients <- TwoClients
  Ids <- TwoIds
  IdOf <- OneEach
  Keys <- TwoKeys
  MaxClients = 2
  QueueCap = 4
  MaxSend <- OneTextEach
  Mortal <- Nobody
  MayShutDown = FALSE
PROPERTY QueueIsThereWhenOpened
CHECK_DEADLOCK FALSE
