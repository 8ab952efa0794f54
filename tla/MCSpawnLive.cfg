\* One client, who is also the host, and two spawners with queues of one that share the
\* purse and the limit, under fairness; rewards lift the purse above its maximum of one.
CONSTANTS
  p1 = p1
  p2 = p2
  s1 = s1
  s2 = s2
  z1 = z1
  z2 = z2
  z3 = z3
  Nobody = Nobody
  Players <- OnePlayer
  Hosts <- OnePlayer
  Spawners <- TwoSpawners
  MapActive <- AllActive
  CanSpawn <- AllCanSpawn
  Zombies <- ThreeZombies
  Classes = {"shambler"}
  Shambler = "shambler"
  Cost <- Prices
  PopCost <- Prices
  HiddenCost = 1
  PhysExpCost = 2
  QueueCap = 1
  PopMax = 2
  ResInit = 0
  ResMax = 1
  Refills = {1}
  Rewards = {1}
  Grants <- Taken
  ResBound = 3
SPECIFICATION FairSpec
INVARIANT BoughtWithinLimit
PROPERTY NothingLost
PROPERTY OrdersServed
