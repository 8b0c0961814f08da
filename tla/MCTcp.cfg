SPECIFICATION TcpSpec
CONSTANTS
  Sockets = {s1, s2, s3}
  NoSocket = NoSocket
  Clients = {c1, c2, c3}
  NoClient = NoClient
  Base = 2
  SenderMax = 0
  ReceiverMax = 3
  MaxLength = 4
  MaxSent = 2
CHECK_DEADLOCK FALSE
INVARIANTS TypeOK OneConnection OneReceive NothingHeldBack ClientsAreOpen
PROPERTIES ComesBack ChannelSpec
