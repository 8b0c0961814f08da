SPECIFICATION Spec
CONSTANTS
  Clients = {a}
  MessageIds = {m}
  InitThreads = {t1, t2}
  MaxSession = 2
  MaxPort = 1
  MaxStart = 1
  MaxPackets = 2
  Repeats = TRUE
  MaxRequest = 1
CHECK_DEADLOCK FALSE
INVARIANT ServedAddressIsCurrent
