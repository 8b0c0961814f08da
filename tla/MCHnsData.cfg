SPECIFICATION Spec
CONSTANTS
  Clients = {a, b}
  MessageIds = {m}
  InitThreads = {t1, t2}
  MaxSession = 2
  MaxPort = 1
  MaxStart = 1
  MaxPackets = 2
  Repeats = FALSE
  MaxRequest = 1
CHECK_DEADLOCK FALSE
PROPERTY DataIsOfTheSession
