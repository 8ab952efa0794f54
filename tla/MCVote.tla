------------------------------- MODULE MCVote -------------------------------
(* Model checking ZMVote on a few client slots. *)
EXTENDS ZMVote, TLC

CONSTANTS s1, s2, s3, s4

ThreeSlots == {s1, s2, s3}
FourSlots  == {s1, s2, s3, s4}
OneBot     == {s1}
=============================================================================
