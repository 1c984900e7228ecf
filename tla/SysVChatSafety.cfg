SPECIFICATION Spec
CONSTANTS
  a = a
  b = b
  c = c
  i1 = i1
  i2 = i2
  k1 = k1
  k2 = k2
  Clients <- ThreeClients
  Ids <- TwoIds
  IdOf <- OneReused
  Keys <- TwoKeys
  MaxClients = 2
  QueueCap = 3
  MaxSend <- TwoTexts
  Mortal <- JustB
  MayShutDown = FALSE
SYMMETRY Symmetry
INVARIANTS
  SlotIsFound
  SlotsHoldLiveQueues
  TextsInOrder
CHECK_DEADLOCK FALSE
