SPECIFICATION Spec
CONSTANTS
  Clients = {a, b}
  MessageIds = {m}
  InitThreads = {t1, t2}
  MaxSession = 2
  MaxPort = 1
  MaxStart = 1
  MaxPackets = 2
  Repeats = TRUE
  MaxRequest = 1
SYMMETRY Symmetry
CHECK_DEADLOCK FALSE
INVARIANTS TypeOK SessionOwnership AnsweredIsRegistered QueryIsCurrent
PROPERTY RelaySpec
