SPECIFICATION Spec
CONSTANTS
  a = a
  b = b
  c = c
  x = x
  y = y
  z = z
  Home <- TwoHomes
  Hosts = {a, b}
  Addresses = {x, y}
  Lans = {}
  Services = {s}
  MessageIds = {m}
  Here = a
  AddressSize = 19
  LocalCount = 4
  MaxSession = 0
  MaxMove = 0
  MaxStart = 0
  MaxEdit = 2
  MaxRequest = 1
  MaxPackets = 1
  Repeats = FALSE
CHECK_DEADLOCK FALSE
PROPERTY AddressesAnswered
