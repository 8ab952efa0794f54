------------------------------- MODULE MCArms -------------------------------
(* Model checking ZMArms: a shotgun and a machine pistol for one slot, a molotov. *)
EXTENDS ZMArms, TLC

CONSTANTS p1, p2, g1, g2, m1

TwoPlayers == {p1, p2}
OnePlayer  == {p1}
TwoGuns    == {g1, g2}
OneMolotov == {m1}

Kinds  == [w \in Weapons |-> IF w = g1 THEN "shotgun" ELSE IF w = g2 THEN "mac10" ELSE "molotov"]
Places == [c \in Classes |-> IF c = "molotov" THEN "equipment" ELSE "large"]
Counts == [c \in Classes |-> IF c = "shotgun" THEN 0 ELSE 1]

Clips   == [c \in Classes |-> IF c = "shotgun" THEN 2 ELSE 1]
Boxfuls == [c \in Classes |-> IF c = "shotgun" THEN 2 ELSE 4]

PlayerSymmetry == Permutations(TwoPlayers)
=============================================================================
