------------------------------ MODULE MCHorde ------------------------------
(* Model checking ZMHorde: a banshee, shamblers and two clients. *)
EXTENDS ZMHorde, TLC

CONSTANTS p1, p2, b1, z1, z2, t1, t2, t3

TwoPlayers == {p1, p2}
OnePlayer  == {p1}

Banshee      == {b1}
TwoZombies   == {b1, z1}
ThreeZombies == {b1, z1, z2}

TwoTriggers   == {t1, t2}
ThreeTriggers == {t1, t2, t3}

Symmetry == Permutations(TwoPlayers) \cup Permutations({z1, z2}) \cup Permutations(ThreeTriggers)
=============================================================================
