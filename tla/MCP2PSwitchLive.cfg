SPECIFICATION FairSpec
CONSTANTS
  a = a
  b = b
  c = c
  x = x
  y = y
  z = z
  Home <- TwoHomes
  Hosts = {a, b}
  Addresses = {x, y, z}
  Lans = {{a, b}}
  Services = {}
  MessageIds = {}
  Here = a
  AddressSize = 19
  LocalCount = 3
  MaxSession = 4
  MaxMove = 1
  MaxStart = 1
  MaxEdit = 1
  MaxRequest = 0
  MaxPackets = 1
  Repeats = FALSE
CHECK_DEADLOCK FALSE
PROPERTY Reachable
