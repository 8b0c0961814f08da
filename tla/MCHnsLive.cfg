SPECIFICATION FairSpec
CONSTANTS
  Clients = {a, b}
  MessageIds = {}
  InitThreads = {t1}
  MaxSession = 4
  MaxPort = 0
  MaxStart = 1
  MaxPackets = 2
  Repeats = FALSE
  MaxRequest = 0
CHECK_DEADLOCK FALSE
PROPERTY Reconnects
