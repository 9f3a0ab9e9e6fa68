SPECIFICATION Spec
CONSTANTS
  Devices = {1, 2, 3}
  Link = 1
  PROPAGATION_DELAY = 10
  IBBPC_8 = 35
  IBBPC_10 = 100
  IBBPC_30 = 140
  IBBPC_40 = 170
  SyncMaster = 10
  SyncAny = 14
  Delay = 3
  Starts <- TheStarts
  Targets <- TheTargets
  Faulty = {3}
  MaxFaults = 1
  MaxTransits = 1
INVARIANT NoCollision
PROPERTIES CollisionsEnd EveryTurn TransitEnds
