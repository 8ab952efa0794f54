------------------------------ MODULE ZMBallot ------------------------------
(***************************************************************************)
(* What the vote controller promises: one vote at a time, which is opened, *)
(* counted, executed once for each count that passes, and closed.  A late  *)
(* ballot may open a counted vote again, for another count.                *)
(***************************************************************************)
VARIABLE
  phase  \* "none", "open", "passed" (to be executed) or "counted" (to be closed)

Phases == {"none", "open", "passed", "counted"}

Open    == phase = "none"    /\ phase' = "open"
Count   == phase = "open"    /\ phase' \in {"passed", "counted"}
Execute == phase = "passed"  /\ phase' = "counted"
Reopen  == phase = "counted" /\ phase' = "open"
Close   == phase = "counted" /\ phase' = "none"

Init == phase = "none"

Next == Open \/ Count \/ Execute \/ Reopen \/ Close

Spec == Init /\ [][Next]_phase
=============================================================================
