\* The spawner of MCSpawnLive: what the dead handler of Unhide promises.
CONSTANTS
  p1 = p1
  p2 = p2
  s1 = s1
  s2 = s2
  z1 = z1
  z2 = z2
  z3 = z3
  Nobody = Nobody
  Players <- AllPlayers
  Hosts = {}
  Spawners <- OneSpawner
  MapActive <- AllActive
  CanSpawn <- AllCanSpawn
  Zombies <- TwoZombies
  Classes = {"shambler"}
  Shambler = "shambler"
  Cost <- Prices
  PopCost <- Prices
  HiddenCost = 1
  PhysExpCost = 1
  QueueCap = 1
  PopMax = 2
  ResInit = 1
  ResMax = 2
  Refills = {1}
  Rewards = {1}
  Grants = {}
  ResBound = 2
SPECIFICATION Spec
INVARIANT UnhideResumes
