------------------------------ MODULE ZMOffice ------------------------------
(***************************************************************************)
(* What the rules of rounds promise about the office of Zombie Master.     *)
(*                                                                         *)
(* Rounds are opened and closed in turn.  While one runs, the office is    *)
(* never vacated, only handed over; between rounds, and once the map is    *)
(* closed for intermission, its holder may go.  The first round is the     *)
(* wait for players after the start of the map: it has no master and is    *)
(* not counted.                                                            *)
(***************************************************************************)
EXTENDS Integers, FiniteSets

CONSTANTS Players, RoundLimit

VARIABLES
  running,  \* is a round being played?
  closed,   \* has the map gone to intermission?
  office,   \* the holder of the office, a set of at most one player
  played    \* rounds opened so far

officeVars == <<running, closed, office, played>>

Holders == {{}} \cup {{p} : p \in Players}

Open ==
  /\ ~running /\ ~closed
  /\ RoundLimit > 0 => played < RoundLimit
  /\ running' = TRUE
  /\ office' \in Holders
  /\ played' = played + 1
  /\ UNCHANGED closed

\* A round is closed, possibly because its master goes; the last one the limit
\* allows closes the map.
Close ==
  /\ running
  /\ running' = FALSE
  /\ office' \in SUBSET office
  /\ closed' \in BOOLEAN
  /\ closed => closed'
  /\ RoundLimit > 0 /\ played = RoundLimit => closed'
  /\ UNCHANGED played

Handover ==
  /\ running
  /\ office # {}
  /\ office' \in {{p} : p \in Players \ office}
  /\ UNCHANGED <<running, closed, played>>

Vacate ==
  /\ ~running \/ closed
  /\ office # {} /\ office' = {}
  /\ UNCHANGED <<running, closed, played>>

CloseMap ==
  /\ ~closed /\ closed' = TRUE
  /\ UNCHANGED <<running, office, played>>

Init == running = TRUE /\ closed = FALSE /\ office = {} /\ played = 0

Next == Open \/ Close \/ Handover \/ Vacate \/ CloseMap

Spec == Init /\ [][Next]_officeVars
=============================================================================
