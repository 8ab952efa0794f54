------------------------------- MODULE MCTrap -------------------------------
(* Model checking ZMTrap: a trap that activates once and one that does not. *)
EXTENDS ZMTrap, TLC

CONSTANTS t1, t2, g1, g2, g3

OneTrap  == {t1}
TwoTraps == {t1, t2}
TwoTriggers == {g1, g2}
ThreeTriggers == {g1, g2, g3}

AllActive == [t \in Traps |-> TRUE]
FirstOnce == [t \in Traps |-> t = t1]
PressCost == [t \in Traps |-> 1]
PlaceCost == [t \in Traps |-> 2]

TriggerSymmetry == Permutations(ThreeTriggers)
=============================================================================
