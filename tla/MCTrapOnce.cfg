\* One trap that is to activate once, and two survivors who come near its trigger.
CONSTANTS
  t1 = t1
  t2 = t2
  g1 = g1
  g2 = g2
  g3 = g3
  NoTrap = NoTrap
  Traps <- OneTrap
  Triggers <- TwoTriggers
  MapActive <- AllActive
  RemoveOnTrigger <- FirstOnce
  Cost <- PressCost
  TrapCost <- PlaceCost
  MaxTriggers = 2
  Survivors = 2
  ResBound = 5
  FiredBound = 2
SPECIFICATION Spec
PROPERTY ActivateOnce
