SPECIFICATION Spec
CONSTANTS
  a1 = a1
  a2 = a2
  b = b
  Clients <- ThreeClients
  Ids = {"a", "b"}
  NameOf <- TwoOfOneName
  MaxClients = 2
  QueueLen = 1
  Polls = 2
  MaxTexts <- OneText
INVARIANTS
  ChatSound
PROPERTIES
  ServerGoesOn
CHECK_DEADLOCK FALSE
