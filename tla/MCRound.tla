------------------------------ MODULE MCRound ------------------------------
(* Model checking ZMRound on a few client slots. *)
EXTENDS ZMRound, TLC

CONSTANTS p1, p2, p3

ThreeSlots == {p1, p2, p3}
OneBot     == {p1}
AllParticipations == {"allowzm", "onlyhuman", "onlyspec"}
Willing    == {"allowzm"}

SlotSymmetry == Permutations(ThreeSlots)
=============================================================================
