\* Two clients, one spawner, three zombies of two classes.
CONSTANTS
  p1 = p1
  p2 = p2
  s1 = s1
  s2 = s2
  z1 = z1
  z2 = z2
  z3 = z3
  Nobody = Nobody
  Players <- AllPlayers
  Hosts = {}
  Spawners <- OneSpawner
  MapActive <- AllActive
  CanSpawn <- AllCanSpawn
  Zombies <- ThreeZombies
  Classes = {"shambler", "hulk"}
  Shambler = "shambler"
  Cost <- Prices
  PopCost <- Prices
  HiddenCost = 2
  PhysExpCost = 2
  QueueCap = 2
  PopMax = 3
  ResInit = 1
  ResMax = 2
  Refills = {1}
  Rewards = {1}
  Grants <- Taken
  ResBound = 3
SPECIFICATION Spec
SYMMETRY SpawnSymmetry
INVARIANT TypeOK
INVARIANT QueueBounded
INVARIANT PopIsSum
PROPERTY PaidInFull
PROPERTY ThinkKept
