\* One player, a gun that reloads singly, boxes of the map: who is empty may pick up?
CONSTANTS
  p1 = p1
  p2 = p2
  g1 = g1
  g2 = g2
  m1 = m1
  Hands = Hands
  Nobody = Nobody
  Players <- OnePlayer
  Guns <- TwoGuns
  Molotovs <- OneMolotov
  Classes = {"shotgun", "mac10", "molotov"}
  ClassOf <- Kinds
  SlotOf <- Places
  Singly = {"shotgun"}
  Configured <- Counts
  OneOfAll = FALSE
  MaxClip <- Clips
  MaxCarry <- Clips
  BoxSize <- Boxfuls
  AmmoBound = 2
SPECIFICATION Spec
INVARIANT EmptyMayPickUp
