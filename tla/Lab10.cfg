SPECIFICATION AllSpec
CONSTANTS
  c1 = c1
  c2 = c2
  c3 = c3
  Clients <- ThreeClients
  Via <- OneRemote
  MaxClients = 4
  MaxSend <- TwoOneNone
  BufSize = 3
  MaxLines = 5
  MaxIncoming = 1
  l1 = l1
  l2 = l2
  r1 = r1
  Local <- TwoLocal
  Remote <- OneFarAway
  TableSize = 2
  MaxTexts <- OneTextEach
  Timeout = 1
  QueueLen = 1
INVARIANTS
  TcpSound
  ClientSound
  UdpSound

  
CHECK_DEADLOCK FALSE
