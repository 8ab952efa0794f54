\* Two traps, one of which activates once, and three slots for triggers.
CONSTANTS
  t1 = t1
  t2 = t2
  g1 = g1
  g2 = g2
  g3 = g3
  NoTrap = NoTrap
  Traps <- TwoTraps
  Triggers <- ThreeTriggers
  MapActive <- AllActive
  RemoveOnTrigger <- FirstOnce
  Cost <- PressCost
  TrapCost <- PlaceCost
  MaxTriggers = 2
  Survivors = 2
  ResBound = 5
  FiredBound = 1
SPECIFICATION Spec
SYMMETRY TriggerSymmetry
INVARIANT TypeOK
INVARIANT NoDanglingTrigger
INVARIANT NoOrphanTrigger
INVARIANT TriggersLimited
PROPERTY NothingForFree
