SPECIFICATION Spec
CONSTANTS
  a = a
  b = b
  c = c
  x = x
  y = y
  z = z
  Home <- ThreeHomes
  Hosts = {a, b, c}
  Addresses = {x, y, z}
  Lans = {}
  Services = {s}
  MessageIds = {m}
  Here = a
  AddressSize = 19
  LocalCount = 3
  MaxSession = 0
  MaxMove = 0
  MaxStart = 0
  MaxEdit = 2
  MaxRequest = 1
  MaxPackets = 1
  Repeats = FALSE
SYMMETRY SymmetryAll
CHECK_DEADLOCK FALSE
PROPERTY RelaySpec
