--------------------------- MODULE ZMRoundProofs ---------------------------
(* Proofs about the round and team rules, for any number of client slots and *)
(* any setting of the server.                                                *)
EXTENDS ZMRound, FiniteSetTheorems, TLAPS

USE RoundAssumption DEF RoundAssumption, Teams, Playing, Reasons

-----------------------------------------------------------------------------
(* Types *)

\* The type of the variables EndRound assigns.
RoundTyped ==
  /\ inRoundEnd \in BOOLEAN /\ rounds \in Nat /\ gameOver \in BOOLEAN
  /\ endReason \in Reasons \cup {"none"} /\ awarded \in SUBSET Players
  /\ restart \in {"off", "running", "elapsed"}

\* Ending the round, or not, keeps the types of what it assigns.
LEMMA EndRoundTyped ==
  ASSUME TypeOK, NEW r \in Reasons, EndRound(r) \/ UNCHANGED roundVars
  PROVE  RoundTyped'
<1>1. Rewarded(r) \subseteq Players
  BY DEF Rewarded, ZMs, Members, AliveHumans, Humans, Connected
<1>2. CASE UNCHANGED roundVars
  BY <1>2 DEF TypeOK, RoundTyped, roundVars
<1>3. CASE Conclude(r)
  <2>1. gameOver' \in BOOLEAN
    BY <1>3, Zenon DEF TypeOK, Conclude
  <2> QED
    BY <1>1, <1>3, <2>1 DEF TypeOK, RoundTyped, Conclude, StartRestart
<1> QED
  BY <1>2, <1>3 DEF EndRound

\* A change of team keeps the types of what it assigns.
LEMMA ChangeTeamTyped ==
  ASSUME TypeOK, NEW p \in Players, NEW t \in Teams, ChangeTeam(p, t)
  PROVE  /\ RoundTyped'
         /\ team' \in [Players -> Teams] /\ alive' \in [Players -> BOOLEAN]
<1>1. RoundTyped'
  BY EndRoundTyped DEF ChangeTeam
<1>2. team' \in [Players -> Teams] /\ alive' \in [Players -> BOOLEAN]
  BY DEF TypeOK, ChangeTeam
<1> QED
  BY <1>1, <1>2

\* Handing the office over keeps the types of what it assigns.
LEMMA ReplaceZMTyped ==
  ASSUME TypeOK, NEW z \in Players, ReplaceZM(z)
  PROVE  /\ RoundTyped'
         /\ team' \in [Players -> Teams] /\ alive' \in [Players -> BOOLEAN]
<1>1. CASE ReplacementsOf(z) = {} /\ ChangeTeam(z, "spectator")
  BY <1>1, ChangeTeamTyped
<1>2. CASE /\ \E c \in ReplacementsOf(z) :
                /\ team'  = [team  EXCEPT ![c] = "zm", ![z] = "spectator"]
                /\ alive' = [alive EXCEPT ![c] = TRUE, ![z] = FALSE]
           /\ UNCHANGED roundVars
  <2>1. RoundTyped'
    BY <1>2 DEF TypeOK, RoundTyped, roundVars
  <2> QED
    BY <1>2, <2>1 DEF TypeOK
<1> QED
  BY <1>1, <1>2 DEF ReplaceZM

\* Beginning a round keeps the types, whoever becomes the master.
LEMMA BeginRoundTyped ==
  ASSUME TypeOK, NEW z, BeginRound(z)
  PROVE  TypeOK'
<1>1. team' \in [Players -> Teams] /\ alive' \in [Players -> BOOLEAN]
  BY DEF TypeOK, BeginRound, Moves, RoundTeam
<1>2. priority' \in [Players -> Nat] /\ waited' \in [Players -> Nat]
  BY DEF TypeOK, BeginRound, RoundPriority
<1>3. grace' \in BOOLEAN /\ inRoundEnd' \in BOOLEAN
  BY Zenon DEF BeginRound
<1> QED
  BY <1>1, <1>2, <1>3 DEF TypeOK, BeginRound

\* Every step of the rules and of the players keeps the types.
LEMMA TypeStep == TypeOK /\ [Next]_vars => TypeOK'
<1> SUFFICES ASSUME TypeOK, [Next]_vars PROVE TypeOK'
  OBVIOUS
<1>a. ASSUME RoundTyped', UNCHANGED <<conn, team, alive, part, priority, waited, begun>>,
             grace' \in BOOLEAN, vote' \in Ballot!Phases
      PROVE  TypeOK'
  BY <1>a DEF TypeOK, RoundTyped
<1>b. ASSUME UNCHANGED roundVars PROVE RoundTyped'
  BY <1>b DEF TypeOK, RoundTyped, roundVars
<1>1. ASSUME NEW p \in Players, ClientPutInServer(p) PROVE TypeOK'
  BY <1>1 DEF TypeOK, ClientPutInServer, roundVars
<1>2. ASSUME NEW p \in Players, ClientActive(p) PROVE TypeOK'
  <2>1. RoundTyped'
    BY <1>2, EndRoundTyped DEF ClientActive
  <2>2. SpawnTeam(p) \in Teams
    BY DEF TypeOK, SpawnTeam
  <2> QED
    BY <1>2, <2>1, <2>2 DEF TypeOK, RoundTyped, ClientActive
<1>3. ASSUME NEW p \in Players, Disconnect(p) PROVE TypeOK'
  <2>1. RoundTyped'
    BY <1>3, EndRoundTyped DEF Disconnect
  <2> QED
    BY <1>3, <2>1 DEF TypeOK, RoundTyped, Disconnect
<1>4. ASSUME NEW p \in Players, NEW v \in Participations, SetParticipation(p, v)
      PROVE  TypeOK'
  BY <1>4 DEF TypeOK, SetParticipation, roundVars
<1>5. ASSUME NEW p \in Players, Kill(p) PROVE TypeOK'
  <2>1. RoundTyped'
    BY <1>5, EndRoundTyped DEF Kill
  <2> QED
    BY <1>5, <2>1 DEF TypeOK, RoundTyped, Kill
<1>6. ASSUME NEW p \in Players, Respawn(p) PROVE TypeOK'
  <2>1. ChangeTeam(p, "spectator")
    BY <1>6 DEF Respawn
  <2> QED
    BY <1>6, <2>1, ChangeTeamTyped DEF TypeOK, RoundTyped, Respawn
<1>7. ASSUME NEW p \in Players, PunishInactivity(p) PROVE TypeOK'
  <2>1. ReplaceZM(p) \/ ChangeTeam(p, "spectator")
    BY <1>7 DEF PunishInactivity
  <2> QED
    BY <1>7, <2>1, ChangeTeamTyped, ReplaceZMTyped
    DEF TypeOK, RoundTyped, PunishInactivity
<1>8. ASSUME NEW p \in Players, CallVote(p) PROVE TypeOK'
  BY <1>8, <1>a, <1>b DEF CallVote, TypeOK, playerVars, Ballot!Open, Ballot!Phases
<1>9. CASE RoundRestart
  BY <1>9, <1>a, EndRoundTyped DEF RoundRestart, TypeOK, playerVars
<1>10. ASSUME NEW r \in Reasons, MapVerdict(r) PROVE TypeOK'
  BY <1>10, <1>a, EndRoundTyped DEF MapVerdict, TypeOK, playerVars
<1>11. CASE VoteGoesOn
  BY <1>11, <1>a, <1>b
  DEF VoteGoesOn, TypeOK, playerVars, Ballot!Count, Ballot!Reopen, Ballot!Close, Ballot!Phases
<1>12. CASE ExecuteVote
  BY <1>12, <1>a, EndRoundTyped
  DEF ExecuteVote, TypeOK, playerVars, Ballot!Execute, Ballot!Phases
<1>13. CASE ResetWorld
  BY <1>13, BeginRoundTyped DEF ResetWorld
<1>14. CASE MapTimeUp
  BY <1>14 DEF MapTimeUp, TypeOK, playerVars
<1>15. CASE GraceEnds
  BY <1>15, <1>a, <1>b DEF GraceEnds, TypeOK, playerVars
<1>16. CASE RestartTimeUp
  BY <1>16 DEF RestartTimeUp, TypeOK, playerVars
<1>17. CASE UNCHANGED vars
  BY <1>17 DEF vars, TypeOK
<1> QED
  BY <1>1, <1>2, <1>3, <1>4, <1>5, <1>6, <1>7, <1>8, <1>9, <1>10, <1>11, <1>12, <1>13,
     <1>14, <1>15, <1>16, <1>17 DEF Next, PlayerStep, RulesStep

\* The server starts in a well-typed state.
LEMMA RoundTypeInit == Init => TypeOK
<1>1. Init => grace \in BOOLEAN /\ inRoundEnd \in BOOLEAN /\ gameOver \in BOOLEAN
  BY Zenon DEF Init
<1> QED
  BY <1>1 DEF Init, TypeOK, Ballot!Phases

\* The variables keep their types: a slot's team, life and priority, the state of
\* the round.
THEOREM RoundTypeCorrect == Spec => []TypeOK
BY RoundTypeInit, TypeStep, PTL DEF Spec

-----------------------------------------------------------------------------
(* What a step does to the round and to the office of the master *)

\* A free slot is on no team: it can not bring a team along when it is taken.
FreeUnassigned == \A p \in Players : conn[p] = "free" => team[p] = "unassigned"

OfficeInv == TypeOK /\ FreeUnassigned /\ AtMostOneZM /\ RunningRoundHasZM

\* Nothing is begun, ended or closed.  The master may go while no round is played.
Quiet ==
  /\ UNCHANGED <<inRoundEnd, rounds, gameOver, begun>>
  /\ \/ ZMs' = ZMs
     \/ ZMs' \subseteq ZMs /\ (inRoundEnd \/ gameOver)
     \/ ~inRoundEnd /\ ZMs # {} /\ \E c \in Players \ ZMs : ZMs' = {c}

Ends ==
  /\ ~inRoundEnd /\ \E r \in Reasons : Conclude(r)
  /\ ZMs' \subseteq ZMs
  /\ UNCHANGED begun

Begins ==
  /\ RestartDue
  /\ inRoundEnd' = FALSE /\ begun' = begun + 1
  /\ (Active' = {} /\ ZMs' = {}) \/ \E c \in Players : ZMs' = {c}
  /\ UNCHANGED <<rounds, gameOver>>

Stops ==
  /\ TimeLimit /\ ~gameOver /\ gameOver' = TRUE
  /\ UNCHANGED <<inRoundEnd, rounds, begun>>
  /\ ZMs' = ZMs

RoundMove == Quiet \/ Ends \/ Begins \/ Stops

\* A request to end the round is quiet in a round end, and ends a running round.
LEMMA EndRoundMove ==
  ASSUME NEW r \in Reasons, EndRound(r), ZMs' = ZMs, UNCHANGED begun
  PROVE  Quiet \/ Ends
BY DEF EndRound, Quiet, Ends, roundVars

\* A member of a team that is put among the spectators ends a running round when
\* it was the master, since there is no other.
LEMMA ToSpectatorMove ==
  ASSUME OfficeInv, NEW p \in Active, ChangeTeam(p, "spectator"),
         UNCHANGED <<conn, begun>>
  PROVE  RoundMove
<1>1. p \in Players /\ p \in Connected
  BY DEF Active, Connected
<1>2. ZMs' = ZMs \ {p}
  BY <1>1 DEF ZMs, Members, Connected, ChangeTeam, OfficeInv, TypeOK
<1>3. CASE Drains(team[p], "spectator", team')
  <2>1. EndRound("gamebegin")
    BY <1>3 DEF ChangeTeam
  <2>2. CASE inRoundEnd
    BY <1>2, <2>1, <2>2 DEF EndRound, roundVars, RoundMove, Quiet
  <2>3. CASE ~inRoundEnd
    BY <1>2, <2>1, <2>3 DEF EndRound, RoundMove, Ends
  <2> QED
    BY <2>2, <2>3
<1>4. CASE ~Drains(team[p], "spectator", team')
  <2>1. UNCHANGED roundVars
    BY <1>4 DEF ChangeTeam
  <2>2. p \notin ZMs
    <3> SUFFICES ASSUME p \in ZMs PROVE FALSE
      OBVIOUS
    <3>1. team[p] = "zm" /\ \A q \in Connected : team'[q] # "zm"
      BY <1>1, <1>2 DEF OfficeInv, AtMostOneZM, ZMs, Members, Connected, ChangeTeam, TypeOK
    <3> QED
      BY <1>4, <3>1 DEF Drains
  <2> QED
    BY <1>2, <2>1, <2>2 DEF roundVars, RoundMove, Quiet
<1> QED
  BY <1>3, <1>4

\* The master is replaced by a single successor at once, or the round ends.
LEMMA ReplaceMove ==
  ASSUME OfficeInv, ~inRoundEnd, NEW z \in Active, team[z] = "zm", ReplaceZM(z),
         UNCHANGED <<conn, begun>>
  PROVE  RoundMove
<1>1. CASE ReplacementsOf(z) = {} /\ ChangeTeam(z, "spectator")
  BY <1>1, ToSpectatorMove
<1>2. ASSUME NEW c \in ReplacementsOf(z),
             team' = [team EXCEPT ![c] = "zm", ![z] = "spectator"],
             UNCHANGED roundVars
      PROVE  RoundMove
  <2>1. ZMs = {z}
    BY DEF OfficeInv, AtMostOneZM, ZMs, Members, Connected, Active
  <2>2. c \in Connected /\ c # z
    BY DEF ReplacementsOf
  <2>3. ZMs' = {c}
    BY <1>2, <2>1, <2>2 DEF ZMs, Members, Connected, OfficeInv, TypeOK, Active
  <2> QED
    BY <1>2, <2>1, <2>2, <2>3 DEF roundVars, RoundMove, Quiet, Connected
<1> QED
  BY <1>1, <1>2 DEF ReplaceZM

\* The master of a new round is the only one, whoever held the office before.
LEMMA BeginMove ==
  ASSUME OfficeInv, NEW z \in Connected, RestartDue, BeginRound(z)
  PROVE  Begins /\ ZMs' = {z}
<1>1. ASSUME NEW q \in Players PROVE q \in ZMs' <=> q = z
  <2>1. q \in ZMs' <=> conn[q] # "free" /\ team'[q] = "zm"
    BY DEF BeginRound, ZMs, Members, Connected
  <2>2. q \in Connected /\ q # z => team'[q] # "zm"
    BY DEF BeginRound, Moves, RoundTeam, Observer
  <2>3. team'[z] = "zm"
    BY DEF BeginRound, Moves, RoundTeam, Connected
  <2> QED
    BY <2>1, <2>2, <2>3 DEF Connected
<1>2. ZMs' = {z}
  BY <1>1 DEF ZMs, Members, Connected
<1> QED
  BY <1>2 DEF Begins, BeginRound, Connected

\* Every step is one of the four moves.
LEMMA StepMove == OfficeInv /\ [Next]_vars => RoundMove
<1> SUFFICES ASSUME OfficeInv, [Next]_vars PROVE RoundMove
  OBVIOUS
<1>a. ASSUME UNCHANGED <<conn, team, begun>> PROVE ZMs' = ZMs
  BY <1>a DEF ZMs, Members, Connected
<1>b. ASSUME NEW r \in Reasons, EndRound(r), UNCHANGED <<conn, team, begun>>
      PROVE  RoundMove
  BY <1>a, <1>b, EndRoundMove DEF RoundMove
<1>1. ASSUME NEW p \in Players, ClientPutInServer(p) PROVE RoundMove
  <2>1. ZMs' = ZMs
    BY <1>1 DEF ClientPutInServer, ZMs, Members, Connected, OfficeInv, FreeUnassigned, TypeOK
  <2> QED
    BY <1>1, <2>1 DEF ClientPutInServer, roundVars, RoundMove, Quiet
<1>2. ASSUME NEW p \in Players, ClientActive(p) PROVE RoundMove
  <2>1. ZMs' = ZMs
    BY <1>2 DEF ClientActive, SpawnTeam, ShouldLateSpawn, ZMs, Members, Connected,
                OfficeInv, TypeOK
  <2>2. EndRound("gamebegin") \/ UNCHANGED roundVars
    BY <1>2 DEF ClientActive
  <2>3. begun' = begun
    BY <1>2 DEF ClientActive
  <2> QED
    BY <2>1, <2>2, <2>3, EndRoundMove DEF roundVars, RoundMove, Quiet
<1>3. ASSUME NEW p \in Players, Disconnect(p) PROVE RoundMove
  <2>1. ZMs' = ZMs \ {p} /\ begun' = begun
    BY <1>3 DEF Disconnect, ZMs, Members, Connected, OfficeInv, TypeOK
  <2>2. CASE LastOfTeam(p) /\ ~gameOver
    <3>1. PICK r \in Reasons : EndRound(r)
      BY <1>3, <2>2 DEF Disconnect
    <3> QED
      BY <2>1, <3>1 DEF EndRound, roundVars, RoundMove, Quiet, Ends
  <2>3. CASE ~(LastOfTeam(p) /\ ~gameOver)
    <3>1. UNCHANGED roundVars
      BY <1>3, <2>3 DEF Disconnect
    <3>2. p \in ZMs => Members(team[p]) = {p} /\ team[p] \in Playing
      BY DEF OfficeInv, AtMostOneZM, ZMs, Members
    <3>3. p \notin ZMs \/ gameOver
      BY <2>3, <3>2 DEF LastOfTeam
    <3> QED
      BY <2>1, <3>1, <3>3 DEF roundVars, RoundMove, Quiet
  <2> QED
    BY <2>2, <2>3
<1>4. ASSUME NEW p \in Players, NEW v \in Participations, SetParticipation(p, v)
      PROVE  RoundMove
  BY <1>4, <1>a DEF SetParticipation, roundVars, RoundMove, Quiet
<1>5. ASSUME NEW p \in Players, Kill(p) PROVE RoundMove
  <2>1. EndRound("humandead") \/ UNCHANGED roundVars
    BY <1>5 DEF Kill
  <2> QED
    BY <1>5, <2>1, <1>a, <1>b DEF Kill, roundVars, RoundMove, Quiet
<1>6. ASSUME NEW p \in Players, Respawn(p) PROVE RoundMove
  BY <1>6, ToSpectatorMove DEF Respawn
<1>7. ASSUME NEW p \in Players, PunishInactivity(p) PROVE RoundMove
  <2>1. p \in Active /\ UNCHANGED <<conn, begun>>
    BY <1>7 DEF PunishInactivity, CanInactivityPunish
  <2>2. (~inRoundEnd /\ team[p] = "zm" /\ ReplaceZM(p)) \/ ChangeTeam(p, "spectator")
    BY <1>7 DEF PunishInactivity
  <2> QED
    BY <2>1, <2>2, ReplaceMove, ToSpectatorMove
<1>8. ASSUME NEW p \in Players, CallVote(p) PROVE RoundMove
  BY <1>8, <1>a DEF CallVote, playerVars, roundVars, RoundMove, Quiet
<1>9. CASE RoundRestart
  BY <1>9, <1>b DEF RoundRestart, playerVars
<1>10. ASSUME NEW r \in Reasons, MapVerdict(r) PROVE RoundMove
  BY <1>10, <1>b DEF MapVerdict, playerVars
<1>11. CASE VoteGoesOn
  BY <1>11, <1>a DEF VoteGoesOn, playerVars, roundVars, RoundMove, Quiet
<1>12. CASE ExecuteVote
  BY <1>12, <1>b DEF ExecuteVote, playerVars
<1>13. CASE ResetWorld
  <2>1. CASE \E z \in ZMCandidates : BeginRound(z)
    <3>1. PICK z \in Connected : BeginRound(z)
      BY <2>1 DEF ZMCandidates
    <3> QED
      BY <1>13, <3>1, BeginMove DEF ResetWorld, RoundMove
  <2>2. CASE Connected = {} /\ BeginRound(Nobody)
    <3>1. Active' = {} /\ ZMs' = {}
      BY <2>2 DEF BeginRound, ZMs, Members, Connected, Active
    <3> QED
      BY <1>13, <2>2, <3>1 DEF ResetWorld, BeginRound, RoundMove, Begins
  <2> QED
    BY <1>13, <2>1, <2>2 DEF ResetWorld
<1>14. CASE MapTimeUp
  BY <1>14, <1>a DEF MapTimeUp, playerVars, RoundMove, Stops
<1>15. CASE GraceEnds
  BY <1>15, <1>a DEF GraceEnds, playerVars, roundVars, RoundMove, Quiet
<1>16. CASE RestartTimeUp
  BY <1>16, <1>a DEF RestartTimeUp, playerVars, RoundMove, Quiet
<1>17. CASE UNCHANGED vars
  BY <1>17, <1>a DEF vars, RoundMove, Quiet
<1> QED
  BY <1>1, <1>2, <1>3, <1>4, <1>5, <1>6, <1>7, <1>8, <1>9, <1>10, <1>11, <1>12, <1>13,
     <1>14, <1>15, <1>16, <1>17 DEF Next, PlayerStep, RulesStep

\* Every step leaves the slots without a client on no team.
LEMMA FreeStep == OfficeInv /\ [Next]_vars => FreeUnassigned'
<1> SUFFICES ASSUME OfficeInv, [Next]_vars, NEW q \in Players, conn'[q] = "free"
             PROVE  team'[q] = "unassigned"
  BY DEF FreeUnassigned
<1> USE DEF OfficeInv, TypeOK, FreeUnassigned
<1>a. ASSUME UNCHANGED <<conn, team>> PROVE team'[q] = "unassigned"
  BY <1>a
<1>b. ASSUME NEW p \in Active, ChangeTeam(p, "spectator"), UNCHANGED conn
      PROVE  team'[q] = "unassigned"
  BY <1>b DEF ChangeTeam, Active
<1>1. ASSUME NEW p \in Players, ClientPutInServer(p) PROVE team'[q] = "unassigned"
  BY <1>1 DEF ClientPutInServer
<1>2. ASSUME NEW p \in Players, ClientActive(p) PROVE team'[q] = "unassigned"
  BY <1>2 DEF ClientActive
<1>3. ASSUME NEW p \in Players, Disconnect(p) PROVE team'[q] = "unassigned"
  BY <1>3 DEF Disconnect
<1>4. ASSUME NEW p \in Players, Respawn(p) PROVE team'[q] = "unassigned"
  BY <1>4, <1>b DEF Respawn
<1>5. ASSUME NEW p \in Players, PunishInactivity(p) PROVE team'[q] = "unassigned"
  <2>1. p \in Active /\ UNCHANGED conn
    BY <1>5 DEF PunishInactivity, CanInactivityPunish
  <2>2. CASE ChangeTeam(p, "spectator")
    BY <2>1, <2>2, <1>b
  <2>3. ASSUME NEW c \in ReplacementsOf(p),
               team' = [team EXCEPT ![c] = "zm", ![p] = "spectator"]
        PROVE  team'[q] = "unassigned"
    BY <2>1, <2>3 DEF ReplacementsOf, Connected, Active
  <2> QED
    BY <1>5, <2>2, <2>3 DEF PunishInactivity, ReplaceZM
<1>6. CASE ResetWorld
  <2>1. PICK z : BeginRound(z)
    BY <1>6 DEF ResetWorld
  <2> QED
    BY <2>1 DEF BeginRound, Moves, Connected
<1> QED
  BY <1>a, <1>1, <1>2, <1>3, <1>4, <1>5, <1>6
  DEF Next, PlayerStep, RulesStep, SetParticipation, Kill, CallVote, RoundRestart, MapVerdict,
      VoteGoesOn, ExecuteVote, RestartTimeUp, MapTimeUp, GraceEnds, vars, playerVars

\* The first player to get in the game finds a master or ends the round.
LEMMA ActiveStep ==
  OfficeInv /\ [Next]_vars /\ Active = {} /\ Active' # {} => inRoundEnd' \/ ZMs' # {}
<1> SUFFICES ASSUME OfficeInv, [Next]_vars, Active = {}, NEW p \in Players, conn'[p] = "active"
             PROVE  inRoundEnd' \/ ZMs' # {}
  BY DEF Active
<1>1. conn[p] # "active"
  BY DEF Active
<1>2. ClientActive(p)
  BY <1>1 DEF OfficeInv, TypeOK, Next, PlayerStep, RulesStep, ClientPutInServer, ClientActive,
      Disconnect, SetParticipation, Kill, Respawn, PunishInactivity, CallVote, RoundRestart,
      MapVerdict, VoteGoesOn, ExecuteVote, ResetWorld, BeginRound, RestartTimeUp, MapTimeUp,
      GraceEnds, vars, playerVars
<1>3. CASE inRoundEnd \/ NeedsNewRound(ShouldLateSpawn(p, SpawnTeam(p)))
  <2>1. EndRound("gamebegin") \/ (inRoundEnd /\ UNCHANGED roundVars)
    BY <1>2, <1>3 DEF ClientActive, NeedsNewRound
  <2> QED
    BY <2>1 DEF EndRound, Conclude, roundVars
<1>4. CASE ~inRoundEnd /\ ~NeedsNewRound(ShouldLateSpawn(p, SpawnTeam(p)))
  <2>1. ZMs # {}
    BY <1>4 DEF NeedsNewRound
  <2>2. ZMs' = ZMs
    BY <1>2 DEF ClientActive, SpawnTeam, ShouldLateSpawn, ZMs, Members, Connected,
                OfficeInv, TypeOK
  <2> QED
    BY <2>1, <2>2
<1> QED
  BY <1>3, <1>4

\* The invariant of the office is inductive.
LEMMA OfficeStep == OfficeInv /\ [Next]_vars => OfficeInv'
<1> SUFFICES ASSUME OfficeInv, [Next]_vars PROVE OfficeInv'
  OBVIOUS
<1>1. RoundMove
  BY StepMove
<1>2. AtMostOneZM'
  BY <1>1 DEF RoundMove, Quiet, Ends, Begins, Stops, OfficeInv, AtMostOneZM
<1>3. RunningRoundHasZM'
  <2>1. CASE Active = {}
    BY <2>1, ActiveStep DEF RunningRoundHasZM
  <2>2. CASE Active # {}
    <3>1. CASE Quiet
      BY <2>2, <3>1 DEF Quiet, OfficeInv, RunningRoundHasZM
    <3>2. CASE Ends
      BY <3>2 DEF Ends, Conclude, RunningRoundHasZM
    <3>3. CASE Begins
      BY <3>3 DEF Begins, RunningRoundHasZM
    <3>4. CASE Stops
      BY <3>4 DEF Stops, RunningRoundHasZM
    <3> QED
      BY <1>1, <3>1, <3>2, <3>3, <3>4 DEF RoundMove
  <2> QED
    BY <2>1, <2>2
<1> QED
  BY <1>2, <1>3, TypeStep, FreeStep DEF OfficeInv

\* The strengthened invariant about the master's office holds throughout.
LEMMA OfficeInvariant == Spec => []OfficeInv
<1>1. Init => OfficeInv
  BY RoundTypeInit DEF Init, OfficeInv, FreeUnassigned, AtMostOneZM, RunningRoundHasZM, ZMs,
                           Members, Connected, Active
<1> QED
  BY <1>1, OfficeStep, PTL DEF Spec

\* There is at most one master in every reachable state, for any number of slots.
\* The strengthening: a slot without a client is on no team.
THEOREM SingleMaster == Spec => []AtMostOneZM
BY OfficeInvariant, PTL DEF OfficeInv

\* A running round with somebody in the game has a master, for any number of slots.
THEOREM MasterInOffice == Spec => []RunningRoundHasZM
BY OfficeInvariant, PTL DEF OfficeInv

-----------------------------------------------------------------------------
(* The restart timer *)

\* The timer to the next round is set in a round end, and only there.
RestartTimed == inRoundEnd <=> restart # "off"

\* Every step sets the timer with the round end and clears it with the round.
LEMMA TimerStep == RestartTimed /\ [Next]_vars => RestartTimed'
<1> SUFFICES ASSUME RestartTimed, [Next]_vars PROVE RestartTimed'
  OBVIOUS
<1>a. ASSUME UNCHANGED <<inRoundEnd, restart>> PROVE RestartTimed'
  BY <1>a DEF RestartTimed
<1>b. ASSUME \/ \E r \in Reasons : EndRound(r)
             \/ UNCHANGED roundVars
      PROVE  RestartTimed'
  BY <1>a, <1>b DEF EndRound, Conclude, StartRestart, RestartTimed, roundVars
<1>1. ASSUME NEW p \in Players, PlayerStep(p) PROVE RestartTimed'
  <2>1. \/ EndRound("gamebegin") \/ EndRound("zmsubmit") \/ EndRound("humandead")
        \/ UNCHANGED roundVars
    BY <1>1 DEF PlayerStep, ClientPutInServer, ClientActive, Disconnect, SetParticipation, Kill,
                Respawn, PunishInactivity, ChangeTeam, ReplaceZM, CallVote
  <2> QED
    BY <1>b, <2>1
<1>2. ASSUME NEW r \in Reasons, MapVerdict(r) PROVE RestartTimed'
  BY <1>2, <1>b DEF MapVerdict
<1>3. CASE RoundRestart \/ ExecuteVote
  BY <1>3, <1>b DEF RoundRestart, ExecuteVote
<1>4. CASE RestartTimeUp
  BY <1>4 DEF RestartTimeUp, RestartTimed
<1>5. CASE ResetWorld
  BY <1>5 DEF ResetWorld, BeginRound, RestartTimed
<1> QED
  BY <1>a, <1>1, <1>2, <1>3, <1>4, <1>5
  DEF Next, RulesStep, VoteGoesOn, MapTimeUp, GraceEnds, vars, roundVars

\* No round end is left without a timer to the next round, whichever of death, leaving,
\* vote, map and change of team ends a round, and no running round keeps an old one:
\* what NextRoundComes rests on.
THEOREM TimerNeverLost == Spec => []RestartTimed
<1>1. Init => RestartTimed
  BY DEF Init, RestartTimed
<1> QED
  BY <1>1, TimerStep, PTL DEF Spec

-----------------------------------------------------------------------------
(* Rounds and their number *)

CountInv == RoundsAreCounted /\ RoundLimitIsExact

\* The four moves keep the count, and the limit.
LEMMA CountStep == OfficeInv /\ CountInv /\ [Next]_vars => CountInv'
<1> SUFFICES ASSUME OfficeInv, CountInv, [Next]_vars PROVE CountInv'
  OBVIOUS
<1> USE DEF CountInv, RoundsAreCounted, RoundLimitIsExact, OfficeInv, TypeOK
<1>1. CASE Quiet
  BY <1>1 DEF Quiet
<1>2. CASE Ends
  <2>1. ~inRoundEnd /\ inRoundEnd' /\ rounds' = rounds + 1 /\ begun' = begun
    BY <1>2 DEF Ends, Conclude
  <2>2. gameOver' <=> gameOver \/ PastLimit(rounds + 1)
    BY <1>2 DEF Ends, Conclude
  <2> QED
    BY <2>1, <2>2 DEF PastLimit
<1>3. CASE Begins
  BY <1>3 DEF Begins, RestartDue
<1>4. CASE Stops
  BY <1>4 DEF Stops
<1> QED
  BY StepMove, <1>1, <1>2, <1>3, <1>4 DEF RoundMove

\* The strengthened invariant about the count of rounds holds throughout.
LEMMA CountInvariant == Spec => []CountInv
<1>1. Init => CountInv
  BY DEF Init, CountInv, RoundsAreCounted, RoundLimitIsExact
<1> QED
  BY <1>1, OfficeInvariant, CountStep, PTL DEF Spec

\* m_nRounds counts each round once, whatever asks for its end.
THEOREM RoundCount == Spec => []RoundsAreCounted
BY CountInvariant, PTL DEF CountInv

\* Exactly the rounds of the limit are played, for every limit.
THEOREM RoundLimitKept == Spec => []RoundLimitIsExact
BY CountInvariant, PTL DEF CountInv

-----------------------------------------------------------------------------
(* The rules implement the office *)

\* Every move of the rules is a move of the office, or none.
LEMMA OfficeMove ==
  OfficeInv /\ CountInv /\ RoundMove => [Office!Next]_(Office!officeVars)
<1> SUFFICES ASSUME OfficeInv, CountInv, RoundMove
             PROVE  Office!Next \/ UNCHANGED Office!officeVars
  OBVIOUS
<1> USE DEF CountInv, RoundsAreCounted, RoundLimitIsExact, OfficeInv, TypeOK, Office!Next
<1>0. ZMs \subseteq Players
  BY DEF ZMs, Members, Connected
<1>1. CASE Quiet
  <2>1. CASE ZMs' = ZMs
    BY <1>1, <2>1 DEF Quiet, Office!officeVars
  <2>2. CASE ZMs' # ZMs /\ ZMs' \subseteq ZMs /\ (inRoundEnd \/ gameOver)
    <3>1. ZMs # {} /\ ZMs' = {}
      BY <2>2 DEF AtMostOneZM
    <3> QED
      BY <1>1, <2>2, <3>1 DEF Quiet, Office!Vacate
  <2>3. CASE ~inRoundEnd /\ ZMs # {} /\ \E c \in Players \ ZMs : ZMs' = {c}
    BY <1>1, <2>3 DEF Quiet, Office!Handover
  <2> QED
    BY <1>1, <2>1, <2>2, <2>3 DEF Quiet
<1>2. CASE Ends
  <2>1. ~inRoundEnd /\ inRoundEnd' /\ begun' = begun /\ ZMs' \in SUBSET ZMs
    BY <1>2 DEF Ends, Conclude
  <2>2. gameOver' \in BOOLEAN /\ (gameOver' <=> gameOver \/ PastLimit(rounds + 1))
    BY <1>2, Zenon DEF Ends, Conclude
  <2>3. PastLimit(rounds + 1) <=> RoundLimit > 0 /\ begun + 1 > RoundLimit
    BY <2>1 DEF PastLimit
  <2>4. Office!Close
    <3>1. gameOver => gameOver'
      BY <2>2
    <3>2. RoundLimit > 0 /\ begun = RoundLimit => gameOver'
      BY <2>2, <2>3
    <3> QED
      BY <2>1, <2>2, <3>1, <3>2, Zenon DEF Office!Close
  <2> QED
    BY <2>4
<1>3. CASE Begins
  BY <1>3 DEF Begins, RestartDue, Office!Open, Office!Holders
<1>4. CASE Stops
  BY <1>4 DEF Stops, Office!CloseMap
<1> QED
  BY <1>1, <1>2, <1>3, <1>4 DEF RoundMove

\* The rules of rounds implement the abstract office of the master.
THEOREM ImplementsOffice == Spec => OfficeSpec
<1>1. Init => Office!Init
  BY DEF Init, Office!Init, ZMs, Members, Connected
<1>2. OfficeInv /\ CountInv /\ [Next]_vars => [Office!Next]_(Office!officeVars)
  BY StepMove, OfficeMove
<1> QED
  BY <1>1, <1>2, OfficeInvariant, CountInvariant, PTL DEF Spec, OfficeSpec, Office!Spec

-----------------------------------------------------------------------------
(* The office goes round *)

\* The others in the game that are picked before p, or on a par with p.
Ahead(p) == {q \in Connected \ {p} : priority[q] >= priority[p]}

\* A player passed over has waited no longer than the priority shows, and each
\* round of waiting has removed one from those ahead.
Placed(p) ==
  /\ conn[p] = "free" => waited[p] = 0
  /\ waited[p] <= priority[p]
  /\ waited[p] + Cardinality(Ahead(p)) < Cardinality(Players)

FairInv == TypeOK /\ \A p \in Players : Placed(p)

\* There are fewer players ahead than slots.
LEMMA AheadBound ==
  ASSUME NEW p \in Players, NEW S \in SUBSET (Players \ {p})
  PROVE  IsFiniteSet(S) /\ Cardinality(S) \in Nat /\ Cardinality(S) < Cardinality(Players)
<1>1. IsFiniteSet(Players \ {p}) /\ Cardinality(Players \ {p}) = Cardinality(Players) - 1
  BY FS_RemoveElement
<1>2. IsFiniteSet(S) /\ Cardinality(S) <= Cardinality(Players \ {p})
  BY <1>1, FS_Subset
<1>3. Cardinality(S) \in Nat /\ Cardinality(Players) \in Nat
  BY <1>2, FS_CardinalityType
<1> QED
  BY <1>1, <1>2, <1>3

\* Nobody new gets ahead of one who waits no longer than before.
LEMMA StillPlaced ==
  ASSUME FairInv, TypeOK', NEW p \in Players,
         conn'[p] = "free" => waited'[p] = 0,
         waited'[p] <= priority'[p],
         waited'[p] = 0 \/ (waited'[p] = waited[p] /\ Ahead(p)' \subseteq Ahead(p))
  PROVE  Placed(p)'
<1>1. Ahead(p) \in SUBSET (Players \ {p}) /\ Ahead(p)' \in SUBSET (Players \ {p})
  BY DEF Ahead, Connected
<1>2. Cardinality(Ahead(p)) \in Nat /\ Cardinality(Ahead(p)') \in Nat
  BY <1>1, AheadBound
<1>3. waited'[p] + Cardinality(Ahead(p)') < Cardinality(Players)
  <2>1. CASE waited'[p] = 0
    BY <1>1, <1>2, <2>1, AheadBound
  <2>2. CASE waited'[p] = waited[p] /\ Ahead(p)' \subseteq Ahead(p)
    <3>1. Cardinality(Ahead(p)') <= Cardinality(Ahead(p))
      BY <1>1, <2>2, AheadBound, FS_Subset
    <3>2. Cardinality(Players) \in Nat /\ waited[p] \in Nat
      BY FS_CardinalityType DEF FairInv, TypeOK
    <3> QED
      BY <1>2, <2>2, <3>1, <3>2 DEF FairInv, Placed
  <2> QED
    BY <2>1, <2>2
<1> QED
  BY <1>3 DEF Placed

\* The master of the new round was ahead of every willing player, and is no more.
LEMMA BeginPlaces ==
  ASSUME FairInv, NEW z \in ZMCandidates, BeginRound(z), NEW p \in Players
  PROVE  Placed(p)'
<1>0. TypeOK' /\ TypeOK
  BY BeginRoundTyped DEF FairInv
<1>1. CASE p \notin Connected \/ p = z \/ part[p] # "allowzm"
  BY <1>0, <1>1, StillPlaced DEF BeginRound, RoundPriority, TypeOK
<1>2. CASE p \in Connected /\ p # z /\ part[p] = "allowzm"
  <2>1. z \in Connected /\ priority[z] >= priority[p]
    BY <1>2 DEF ZMCandidates
  <2>2. z \in Ahead(p)
    BY <1>2, <2>1 DEF Ahead
  <2>3. waited'[p] = waited[p] + 1 /\ priority'[p] = priority[p] + 1
    BY <1>2 DEF BeginRound, RoundPriority
  <2>4. Ahead(p)' \subseteq Ahead(p) \ {z}
    <3> SUFFICES ASSUME NEW q \in Connected \ {p}, priority'[q] >= priority'[p]
                 PROVE  q # z /\ priority[q] >= priority[p]
      BY DEF BeginRound, Ahead, Connected
    <3>1. q \in Players /\ priority'[q] = IF q = z THEN 0 ELSE priority[q] + 1
      BY DEF BeginRound, RoundPriority, Connected
    <3> QED
      BY <1>0, <2>3, <3>1 DEF TypeOK
  <2>5. Ahead(p) \in SUBSET (Players \ {p}) /\ IsFiniteSet(Ahead(p))
        /\ Cardinality(Ahead(p)) \in Nat
    BY AheadBound DEF Ahead, Connected
  <2>6. IsFiniteSet(Ahead(p) \ {z}) /\ Cardinality(Ahead(p) \ {z}) = Cardinality(Ahead(p)) - 1
    BY <2>2, <2>5, FS_RemoveElement
  <2>7. Cardinality(Ahead(p)') <= Cardinality(Ahead(p)) - 1
    BY <2>4, <2>6, FS_Subset
  <2>8. Cardinality(Ahead(p)') \in Nat /\ Cardinality(Players) \in Nat
    BY <2>4, <2>5, <2>6, FS_Subset, FS_CardinalityType
  <2> QED
    BY <1>0, <1>2, <2>3, <2>5, <2>7, <2>8 DEF FairInv, Placed, TypeOK, BeginRound, Connected
<1> QED
  BY <1>1, <1>2

\* A step that begins no round puts nobody ahead of one who waits.
LEMMA FairStep == FairInv /\ [Next]_vars => FairInv'
<1> SUFFICES ASSUME FairInv, [Next]_vars, NEW p \in Players PROVE Placed(p)'
  BY TypeStep DEF FairInv
<1>0. TypeOK /\ TypeOK' /\ Placed(p)
  BY TypeStep DEF FairInv
<1>a. ASSUME UNCHANGED <<priority, waited>>,
             \A q \in Players : conn'[q] = "free" <=> conn[q] = "free"
      PROVE  Placed(p)'
  <2>1. Ahead(p)' = Ahead(p)
    BY <1>a DEF Ahead, Connected
  <2> QED
    BY <1>0, <1>a, <2>1, StillPlaced DEF Placed
<1>1. ASSUME NEW q \in Players, ClientPutInServer(q) PROVE Placed(p)'
  <2>1. CASE waited[p] = 0
    BY <1>0, <1>1, <2>1, StillPlaced DEF ClientPutInServer, TypeOK
  <2>2. CASE waited[p] # 0
    <3>1. p # q /\ priority[p] > 0
      BY <1>0, <1>1, <2>2 DEF ClientPutInServer, Placed, TypeOK
    <3>2. Ahead(p)' \subseteq Ahead(p)
      BY <1>0, <1>1, <3>1 DEF Ahead, Connected, ClientPutInServer, TypeOK
    <3> QED
      BY <1>0, <1>1, <3>1, <3>2, StillPlaced DEF ClientPutInServer, Placed, TypeOK
  <2> QED
    BY <2>1, <2>2
<1>2. ASSUME NEW q \in Players, ClientActive(q) PROVE Placed(p)'
  BY <1>0, <1>2, <1>a DEF ClientActive, TypeOK
<1>3. ASSUME NEW q \in Players, Disconnect(q) PROVE Placed(p)'
  <2>1. CASE p = q
    BY <1>0, <1>3, <2>1, StillPlaced DEF Disconnect, TypeOK
  <2>2. CASE p # q
    <3>1. Ahead(p)' \subseteq Ahead(p)
      BY <1>0, <1>3, <2>2 DEF Ahead, Connected, Disconnect, TypeOK
    <3> QED
      BY <1>0, <1>3, <2>2, <3>1, StillPlaced DEF Disconnect, Placed, TypeOK
  <2> QED
    BY <2>1, <2>2
<1>4. ASSUME NEW q \in Players, NEW v \in Participations, SetParticipation(q, v)
      PROVE  Placed(p)'
  <2>1. Ahead(p)' = Ahead(p)
    BY <1>4 DEF Ahead, Connected, SetParticipation
  <2> QED
    BY <1>0, <1>4, <2>1, StillPlaced DEF SetParticipation, Placed, TypeOK
<1>5. CASE ResetWorld
  <2>1. CASE \E z \in ZMCandidates : BeginRound(z)
    BY <2>1, BeginPlaces
  <2>2. CASE Connected = {} /\ BeginRound(Nobody)
    BY <1>0, <2>2, StillPlaced DEF BeginRound, TypeOK, Connected
  <2> QED
    BY <1>5, <2>1, <2>2 DEF ResetWorld
<1> QED
  BY <1>a, <1>1, <1>2, <1>3, <1>4, <1>5
  DEF Next, PlayerStep, RulesStep, Kill, Respawn, PunishInactivity, CallVote, RoundRestart,
      MapVerdict, VoteGoesOn, ExecuteVote, RestartTimeUp, MapTimeUp, GraceEnds, vars,
      playerVars

\* For any number of slots, nobody willing is passed over in as many rounds as
\* there are slots.  Each round of waiting takes one player out of those ahead.
THEOREM PickGoesRound == Spec => []PickIsFair
<1>1. Init => FairInv
  <2>1. Init => TypeOK
    BY RoundTypeInit
  <2>2. ASSUME Init, NEW p \in Players PROVE Placed(p)
    BY <2>2, AheadBound DEF Init, Placed, Ahead, Connected
  <2> QED
    BY <2>1, <2>2 DEF FairInv
<1>2. FairInv => PickIsFair
  <2> SUFFICES ASSUME FairInv, NEW p \in Players PROVE waited[p] < Cardinality(Players)
    BY DEF PickIsFair
  <2>1. Cardinality(Ahead(p)) \in Nat /\ Cardinality(Players) \in Nat
    BY AheadBound, FS_CardinalityType DEF Ahead, Connected
  <2> QED
    BY <2>1 DEF FairInv, Placed, TypeOK
<1> QED
  BY <1>1, <1>2, FairStep, PTL DEF Spec
=============================================================================
