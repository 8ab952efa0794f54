\* Two clients, a banshee and a shambler, three trigger slots.
CONSTANTS
  p1 = p1
  p2 = p2
  b1 = b1
  z1 = z1
  z2 = z2
  t1 = t1
  t2 = t2
  t3 = t3
  Nobody = Nobody
  NoTrigger = NoTrigger
  Players <- TwoPlayers
  Zombies <- TwoZombies
  Banshees <- Banshee
  Triggers <- ThreeTriggers
SPECIFICATION Spec
SYMMETRY Symmetry
INVARIANT TypeOK
INVARIANT AmbushCounted
INVARIANT NoForgottenAmbusher
PROPERTY AmbushersReleased
