SPECIFICATION FairSpec
CONSTANTS
  Routers <- MCRouters
  Packets <- MCPackets
  LanOf <- MCLanOf
  Config <- MCConfig
  Routes <- MCRoutes
  UseNat = {"a"}
  Mtu = {"a", "c"}
  Home <- MCHome
  Pool <- MCPool
  Limits <- MCLimits
INVARIANTS LoopFree OwnNetwork SendersOnly
PROPERTIES Reaches
CHECK_DEADLOCK FALSE
