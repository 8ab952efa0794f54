------------------------------ MODULE MCSpawn ------------------------------
(* Model checking ZMSpawn: small hordes of two classes with different costs. *)
EXTENDS ZMSpawn, FiniteSetsExt, TLC

CONSTANTS p1, p2, s1, s2, z1, z2, z3

AllPlayers == {p1, p2}
OnePlayer  == {p1}
OneSpawner == {s1}
TwoSpawners == {s1, s2}
ThreeZombies == {z1, z2, z3}
TwoZombies == {z1, z2}

AllActive == [s \in Spawners |-> TRUE]
AllCanSpawn == [s \in Spawners |-> Classes]
Prices == [c \in Classes |-> IF c = Shambler THEN 1 ELSE 2]
Taken    == {-2, 1}

\* Total is the sum that the community modules define, over sets of up to three.
ASSUME TotalIsSum ==
  \A S \in SUBSET {1, 2, 3} : \A f \in [S -> 0..3] : Total(f) = MapThenSumSet(LAMBDA x : f[x], S)

SpawnSymmetry == Permutations(ThreeZombies) \cup Permutations(AllPlayers)
=============================================================================
