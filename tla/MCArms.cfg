\* Two players, a shotgun of two rounds and a machine pistol of one that share a slot, a molotov; at
\* most a box of two shells, and what the loadout gives.
CONSTANTS
  p1 = p1
  p2 = p2
  g1 = g1
  g2 = g2
  m1 = m1
  Hands = Hands
  Nobody = Nobody
  Players <- TwoPlayers
  Guns <- TwoGuns
  Molotovs <- OneMolotov
  Classes = {"shotgun", "mac10", "molotov"}
  ClassOf <- Kinds
  SlotOf <- Places
  Singly = {"shotgun"}
  Configured <- Counts
  OneOfAll = FALSE
  MaxClip <- Clips
  MaxCarry <- Clips
  BoxSize <- Boxfuls
  AmmoBound = 2
SPECIFICATION Spec
SYMMETRY PlayerSymmetry
INVARIANT TypeOK
INVARIANT SlotsAgree
PROPERTY RoundsKept
PROPERTY ThrownOnce
