SPECIFICATION Spec
CONSTANTS
  Sockets = {s1, s2, s3}
  NoSocket = NoSocket
CHECK_DEADLOCK FALSE
INVARIANT WholeDatagrams
