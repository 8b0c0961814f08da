SPECIFICATION Spec
CONSTANTS
  a = a
  b = b
  c = c
  x = x
  y = y
  z = z
  Home <- ThreeHomes
  Hosts = {a, b, c}
  Addresses = {x, y, z}
  Lans = {{a, c}, {b, c}}
  Services = {}
  MessageIds = {m}
  Here = a
  AddressSize = 19
  LocalCount = 3
  MaxSession = 2
  MaxMove = 0
  MaxStart = 1
  MaxEdit = 0
  MaxRequest = 1
  MaxPackets = 1
  Repeats = FALSE
SYMMETRY SymmetryAB
CHECK_DEADLOCK FALSE
INVARIANTS TypeOK
PROPERTY RelaySpec
