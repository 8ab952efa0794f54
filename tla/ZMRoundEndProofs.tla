-------------------------- MODULE ZMRoundEndProofs --------------------------
(* Proofs about the survivors: how the last of them ends the round, and who  *)
(* may come to life in it, for any number of client slots.                   *)
EXTENDS ZMRoundProofs

USE RoundAssumption DEF RoundAssumption, Teams, Playing, Reasons

-----------------------------------------------------------------------------
(* What a step does to the survivors *)

\* A client that is still loading is no dead survivor: nothing kills it, and spawning
\* does not bring anyone back.
LoadingAlive == \A p \in Players : conn[p] = "loading" /\ team[p] = "human" => alive[p]

\* Nobody has been paid for the end of a round that runs.
NotYetAwarded == ~inRoundEnd => awarded = {}

SurvivorInv == OfficeInv /\ LoadingAlive /\ NotYetAwarded

\* No defeat is declared in this step.
NoDefeat == endReason' = "humandead" => endReason = "humandead"

\* The survivors stay who they are.
Stays == Humans' = Humans /\ AliveHumans' = AliveHumans /\ NoDefeat

\* One joins late.
Joins ==
  grace /\ Humans \subseteq Humans' /\ AliveHumans \subseteq AliveHumans' /\ NoDefeat

\* One dies.  The last one loses the round.
Dies(p) ==
  /\ p \in AliveHumans
  /\ Humans' = Humans /\ AliveHumans' = AliveHumans \ {p}
  /\ IF AliveHumans = {p} THEN EndRound("humandead") ELSE UNCHANGED roundVars

\* One leaves the team.  The last one ends the round.
Leaves(p) ==
  /\ p \in Humans
  /\ Humans' = Humans \ {p} /\ AliveHumans' = AliveHumans \ {p}
  /\ IF Humans = {p} /\ ~gameOver THEN inRoundEnd' ELSE NoDefeat

\* One becomes the master.
Promoted(p) ==
  /\ p \in Humans
  /\ Humans' = Humans \ {p} /\ AliveHumans' = AliveHumans \ {p}
  /\ ZMs' = {p} /\ NoDefeat

\* A round begins.
BeginsAgain == inRoundEnd /\ ~inRoundEnd' /\ NoDefeat

SurvivorMove ==
  \/ Stays \/ Joins \/ BeginsAgain
  \/ \E p \in Players : Dies(p) \/ Leaves(p) \/ Promoted(p)

\* Any end of the round but one is no defeat.
LEMMA OtherEnds ==
  ASSUME NEW r \in Reasons \ {"humandead"}, EndRound(r) \/ UNCHANGED roundVars
  PROVE  NoDefeat
BY DEF EndRound, Conclude, roundVars, NoDefeat

\* A request for the end leaves a round end behind.
LEMMA EndsIt ==
  ASSUME NEW r \in Reasons, EndRound(r)
  PROVE  inRoundEnd'
BY DEF EndRound, Conclude, roundVars

\* A set that counts one at most, and has p, has nobody else.
LEMMA OnlyOne ==
  ASSUME NEW S \in SUBSET Players, NEW p \in S, Cardinality(S) <= 1
  PROVE  S = {p}
<1>1. IsFiniteSet(S) /\ IsFiniteSet(S \ {p}) /\ Cardinality(S \ {p}) = Cardinality(S) - 1
  BY FS_Subset, FS_RemoveElement
<1>2. Cardinality(S) \in Nat /\ Cardinality(S \ {p}) \in Nat
  BY <1>1, FS_CardinalityType
<1>3. Cardinality(S \ {p}) = 0
  BY <1>1, <1>2
<1> QED
  BY <1>1, <1>3, FS_EmptySet

\* One put among the spectators leaves the team of survivors, if he was on it.
LEMMA ToSpectatorLeaves ==
  ASSUME SurvivorInv, NEW p \in Active, ChangeTeam(p, "spectator"), UNCHANGED conn
  PROVE  Stays \/ Leaves(p)
<1>0. TypeOK /\ p \in Connected /\ p \in Players
  BY DEF SurvivorInv, OfficeInv, Active, Connected
<1>1. Humans' = Humans \ {p} /\ AliveHumans' = AliveHumans \ {p}
  BY <1>0 DEF ChangeTeam, Humans, AliveHumans, Members, Connected, TypeOK
<1>2. NoDefeat
  BY OtherEnds DEF ChangeTeam
<1>3. CASE p \notin Humans
  BY <1>1, <1>2, <1>3 DEF Stays, AliveHumans
<1>4. CASE p \in Humans
  <2>1. Humans = {p} => inRoundEnd'
    <3> SUFFICES ASSUME Humans = {p} PROVE inRoundEnd'
      OBVIOUS
    <3>1. team[p] = "human" /\ \A q \in Connected : team'[q] # "human"
      BY <1>0, <1>1, <1>4 DEF ChangeTeam, Humans, Members, Connected, TypeOK
    <3>2. EndRound("gamebegin")
      BY <3>1 DEF ChangeTeam, Drains
    <3> QED
      BY <3>2, EndsIt
  <2> QED
    BY <1>1, <1>2, <1>4, <2>1 DEF Leaves
<1> QED
  BY <1>3, <1>4

\* The successor of the master leaves the survivors for the office.
LEMMA ReplaceLeaves ==
  ASSUME SurvivorInv, ~inRoundEnd, NEW z \in Active, team[z] = "zm", ReplaceZM(z), UNCHANGED conn
  PROVE  SurvivorMove
<1>0. TypeOK /\ z \in Players
  BY DEF SurvivorInv, OfficeInv, Active
<1>1. CASE ReplacementsOf(z) = {} /\ ChangeTeam(z, "spectator")
  BY <1>0, <1>1, ToSpectatorLeaves DEF SurvivorMove
<1>2. ASSUME NEW c \in ReplacementsOf(z),
             team'  = [team  EXCEPT ![c] = "zm", ![z] = "spectator"],
             alive' = [alive EXCEPT ![c] = TRUE, ![z] = FALSE],
             UNCHANGED roundVars
      PROVE  SurvivorMove
  <2>1. c \in Connected /\ c \in Players /\ c # z
    BY DEF ReplacementsOf, Connected
  <2>2. ZMs' = {c}
    <3>1. ZMs = {z}
      BY DEF SurvivorInv, OfficeInv, AtMostOneZM, ZMs, Members, Connected, Active
    <3> QED
      BY <1>0, <1>2, <2>1, <3>1 DEF ZMs, Members, Connected, TypeOK, Active
  <2>3. Humans' = Humans \ {c} /\ AliveHumans' = AliveHumans \ {c}
    BY <1>0, <1>2, <2>1 DEF Humans, AliveHumans, Members, Connected, TypeOK
  <2>4. NoDefeat
    BY <1>2 DEF NoDefeat, roundVars
  <2>5. CASE c \in Humans
    BY <2>1, <2>2, <2>3, <2>4, <2>5 DEF SurvivorMove, Promoted
  <2>6. CASE c \notin Humans
    BY <2>3, <2>4, <2>6 DEF SurvivorMove, Stays, AliveHumans
  <2> QED
    BY <2>5, <2>6
<1> QED
  BY <1>1, <1>2 DEF ReplaceZM

\* One who gets in the game joins the survivors only in the time for it.
LEMMA ActiveJoins ==
  ASSUME SurvivorInv, NEW p \in Players, ClientActive(p)
  PROVE  Stays \/ Joins
<1>0. TypeOK /\ LoadingAlive
  BY DEF SurvivorInv, OfficeInv
<1>1. NoDefeat
  BY OtherEnds DEF ClientActive
<1>2. CASE ShouldLateSpawn(p, SpawnTeam(p))
  <2>1. Humans \subseteq Humans' /\ AliveHumans \subseteq AliveHumans'
    BY <1>0, <1>2 DEF ClientActive, Humans, AliveHumans, Members, Connected, SpawnTeam,
                      ShouldLateSpawn, TypeOK
  <2> QED
    BY <1>1, <1>2, <2>1 DEF Joins, ShouldLateSpawn
<1>3. CASE ~ShouldLateSpawn(p, SpawnTeam(p))
  <2>1. /\ conn[p] = "loading" /\ conn' = [conn EXCEPT ![p] = "active"]
        /\ team' = [team EXCEPT ![p] = SpawnTeam(p)]
        /\ alive' = [alive EXCEPT ![p] = SpawnTeam(p) # "spectator"]
    BY <1>3 DEF ClientActive
  <2>2. Humans' = Humans /\ AliveHumans' = AliveHumans
    BY <1>0, <2>1 DEF Humans, AliveHumans, Members, Connected, SpawnTeam, TypeOK, LoadingAlive
  <2> QED
    BY <1>1, <2>2 DEF Stays
<1> QED
  BY <1>2, <1>3

\* One who disconnects leaves the team he is on.
LEMMA DisconnectLeaves ==
  ASSUME SurvivorInv, NEW p \in Players, Disconnect(p)
  PROVE  Stays \/ Leaves(p)
<1>0. TypeOK
  BY DEF SurvivorInv, OfficeInv
<1>1. Humans' = Humans \ {p} /\ AliveHumans' = AliveHumans \ {p}
  BY <1>0 DEF Disconnect, Humans, AliveHumans, Members, Connected, TypeOK
<1>2. CASE p \in Humans
  <2>1. team[p] = "human" /\ Members(team[p]) = Humans
    BY <1>2 DEF Humans, Members
  <2>2. CASE Humans = {p} /\ ~gameOver
    <3>1. EndRound("humandead")
      BY <2>1, <2>2 DEF Disconnect, LastOfTeam
    <3>2. inRoundEnd'
      BY <3>1, EndsIt
    <3> QED
      BY <1>1, <1>2, <2>2, <3>2 DEF Leaves
  <2>3. CASE ~(Humans = {p} /\ ~gameOver)
    <3>1. UNCHANGED roundVars
      BY <2>1, <2>3 DEF Disconnect, LastOfTeam
    <3> QED
      BY <1>1, <1>2, <2>3, <3>1 DEF Leaves, NoDefeat, roundVars
  <2> QED
    BY <2>2, <2>3
<1>3. CASE p \notin Humans
  <2>1. LastOfTeam(p) => team[p] = "zm"
    BY <1>3 DEF LastOfTeam, Humans, Members, Disconnect, Connected
  <2>2. EndRound("zmsubmit") \/ UNCHANGED roundVars
    BY <2>1 DEF Disconnect
  <2> QED
    BY <1>1, <1>3, <2>2, OtherEnds DEF Stays, AliveHumans
<1> QED
  BY <1>2, <1>3

\* Every step is one of the moves.
LEMMA SurvivorStep == SurvivorInv /\ [Next]_vars => SurvivorMove
<1> SUFFICES ASSUME SurvivorInv, [Next]_vars PROVE SurvivorMove
  OBVIOUS
<1>0. TypeOK
  BY DEF SurvivorInv, OfficeInv
<1>a. ASSUME UNCHANGED <<conn, team, alive>>, NoDefeat PROVE SurvivorMove
  BY <1>a DEF SurvivorMove, Stays, Humans, AliveHumans, Members, Connected
<1>b. ASSUME UNCHANGED playerVars, NEW r \in Reasons \ {"humandead"}, EndRound(r)
      PROVE  SurvivorMove
  BY <1>a, <1>b, OtherEnds DEF playerVars
<1>1. ASSUME NEW p \in Players, ClientPutInServer(p) PROVE SurvivorMove
  <2>1. Humans' = Humans /\ AliveHumans' = AliveHumans
    BY <1>0, <1>1 DEF ClientPutInServer, SurvivorInv, OfficeInv, FreeUnassigned, Humans,
                      AliveHumans, Members, Connected, TypeOK
  <2> QED
    BY <1>1, <2>1 DEF ClientPutInServer, roundVars, NoDefeat, Stays, SurvivorMove
<1>2. ASSUME NEW p \in Players, ClientActive(p) PROVE SurvivorMove
  BY <1>2, ActiveJoins DEF SurvivorMove
<1>3. ASSUME NEW p \in Players, Disconnect(p) PROVE SurvivorMove
  BY <1>3, DisconnectLeaves DEF SurvivorMove
<1>4. ASSUME NEW p \in Players, Kill(p) PROVE SurvivorMove
  <2>1. p \in AliveHumans /\ AliveHumans \in SUBSET Players
    BY <1>4 DEF Kill, AliveHumans, Humans, Members, Connected
  <2>2. LastAlive(p) <=> AliveHumans = {p}
    <3>1. Cardinality({p}) = 1
      BY FS_Singleton
    <3> QED
      BY <2>1, <3>1, OnlyOne DEF LastAlive
  <2>3. Humans' = Humans /\ AliveHumans' = AliveHumans \ {p}
    BY <1>0, <1>4 DEF Kill, Humans, AliveHumans, Members, Connected, TypeOK
  <2> QED
    BY <1>4, <2>1, <2>2, <2>3 DEF Kill, Dies, SurvivorMove
<1>5. ASSUME NEW p \in Players, Respawn(p) PROVE SurvivorMove
  BY <1>5, ToSpectatorLeaves DEF Respawn, SurvivorMove
<1>6. ASSUME NEW p \in Players, PunishInactivity(p) PROVE SurvivorMove
  <2>1. p \in Active /\ UNCHANGED conn
    BY <1>6 DEF PunishInactivity, CanInactivityPunish
  <2>2. (~inRoundEnd /\ team[p] = "zm" /\ ReplaceZM(p)) \/ ChangeTeam(p, "spectator")
    BY <1>6 DEF PunishInactivity
  <2> QED
    BY <2>1, <2>2, ReplaceLeaves, ToSpectatorLeaves DEF SurvivorMove
<1>7. ASSUME NEW r \in Reasons, MapVerdict(r) PROVE SurvivorMove
  BY <1>7, <1>b DEF MapVerdict
<1>8. CASE RoundRestart \/ ExecuteVote
  BY <1>8, <1>b DEF RoundRestart, ExecuteVote
<1>9. CASE ResetWorld
  <2>1. PICK z : BeginRound(z)
    BY <1>9 DEF ResetWorld
  <2> QED
    BY <1>9, <2>1 DEF ResetWorld, RestartDue, BeginRound, BeginsAgain, NoDefeat, SurvivorMove
<1>10. CASE UNCHANGED <<conn, team, alive, endReason>>
  BY <1>10, <1>a DEF NoDefeat
<1> QED
  BY <1>1, <1>2, <1>3, <1>4, <1>5, <1>6, <1>7, <1>8, <1>9, <1>10
  DEF Next, PlayerStep, RulesStep, SetParticipation, CallVote, VoteGoesOn, RestartTimeUp, MapTimeUp,
      GraceEnds, vars, playerVars, roundVars

-----------------------------------------------------------------------------
(* The invariant *)

\* Every step leaves the loading clients alive.
LEMMA LoadingStep == SurvivorInv /\ [Next]_vars => LoadingAlive'
<1> SUFFICES ASSUME SurvivorInv, [Next]_vars, NEW q \in Players,
                    conn'[q] = "loading", team'[q] = "human"
             PROVE  alive'[q]
  BY DEF LoadingAlive
<1> USE DEF SurvivorInv, OfficeInv, TypeOK, LoadingAlive
<1>a. ASSUME UNCHANGED <<conn, team, alive>> PROVE alive'[q]
  BY <1>a
<1>b. ASSUME NEW p \in Active, ChangeTeam(p, "spectator"), UNCHANGED conn PROVE alive'[q]
  BY <1>b DEF ChangeTeam, Active
<1>1. ASSUME NEW p \in Players, ClientPutInServer(p) PROVE alive'[q]
  BY <1>1 DEF ClientPutInServer
<1>2. ASSUME NEW p \in Players, ClientActive(p) PROVE alive'[q]
  BY <1>2 DEF ClientActive
<1>3. ASSUME NEW p \in Players, Disconnect(p) PROVE alive'[q]
  BY <1>3 DEF Disconnect
<1>4. ASSUME NEW p \in Players, Kill(p) PROVE alive'[q]
  BY <1>4 DEF Kill, Active
<1>5. ASSUME NEW p \in Players, Respawn(p) PROVE alive'[q]
  BY <1>5, <1>b DEF Respawn
<1>6. ASSUME NEW p \in Players, PunishInactivity(p) PROVE alive'[q]
  <2>1. p \in Active /\ UNCHANGED conn
    BY <1>6 DEF PunishInactivity, CanInactivityPunish
  <2>2. CASE ChangeTeam(p, "spectator")
    BY <2>1, <2>2, <1>b
  <2>3. ASSUME NEW c \in ReplacementsOf(p),
               team'  = [team  EXCEPT ![c] = "zm", ![p] = "spectator"],
               alive' = [alive EXCEPT ![c] = TRUE, ![p] = FALSE]
        PROVE  alive'[q]
    BY <2>1, <2>3 DEF ReplacementsOf, Connected, Active
  <2> QED
    BY <1>6, <2>2, <2>3 DEF PunishInactivity, ReplaceZM
<1>7. CASE ResetWorld
  <2>1. PICK z : BeginRound(z)
    BY <1>7 DEF ResetWorld
  <2> QED
    BY <2>1 DEF BeginRound, Moves, Connected, RoundTeam
<1> QED
  BY <1>a, <1>1, <1>2, <1>3, <1>4, <1>5, <1>6, <1>7
  DEF Next, PlayerStep, RulesStep, SetParticipation, CallVote, RoundRestart, MapVerdict,
      VoteGoesOn, ExecuteVote, RestartTimeUp, MapTimeUp, GraceEnds, vars, playerVars

\* The awards are given by the end of a round, and forgotten by the next.
LEMMA AwardStep == SurvivorInv /\ [Next]_vars => NotYetAwarded'
<1> SUFFICES ASSUME SurvivorInv, [Next]_vars PROVE NotYetAwarded'
  OBVIOUS
<1>a. ASSUME UNCHANGED <<inRoundEnd, awarded>> PROVE NotYetAwarded'
  BY <1>a DEF SurvivorInv, NotYetAwarded
<1>b. ASSUME \/ \E r \in Reasons : EndRound(r)
             \/ UNCHANGED roundVars
      PROVE  NotYetAwarded'
  BY <1>a, <1>b, EndsIt DEF NotYetAwarded, roundVars
<1>1. ASSUME NEW p \in Players, PlayerStep(p) PROVE NotYetAwarded'
  <2>1. \/ EndRound("gamebegin") \/ EndRound("zmsubmit") \/ EndRound("humandead")
        \/ UNCHANGED roundVars
    BY <1>1 DEF PlayerStep, ClientPutInServer, ClientActive, Disconnect, SetParticipation, Kill,
                Respawn, PunishInactivity, ChangeTeam, ReplaceZM, CallVote
  <2> QED
    BY <1>b, <2>1
<1>2. ASSUME NEW r \in Reasons, MapVerdict(r) PROVE NotYetAwarded'
  BY <1>2, <1>b DEF MapVerdict
<1>3. CASE RoundRestart \/ ExecuteVote
  BY <1>3, <1>b DEF RoundRestart, ExecuteVote
<1>4. CASE ResetWorld
  BY <1>4 DEF ResetWorld, BeginRound, NotYetAwarded
<1> QED
  BY <1>a, <1>1, <1>2, <1>3, <1>4
  DEF Next, RulesStep, VoteGoesOn, RestartTimeUp, MapTimeUp, GraceEnds, vars, roundVars

\* The strengthened invariant about the survivors holds throughout.
LEMMA SurvivorInvariant == Spec => []SurvivorInv
<1>1. Init => SurvivorInv
  <2>1. Init => LoadingAlive /\ NotYetAwarded
    BY DEF Init, LoadingAlive, NotYetAwarded
  <2>2. Init => OfficeInv
    BY RoundTypeInit DEF Init, OfficeInv, FreeUnassigned, AtMostOneZM, RunningRoundHasZM, ZMs,
                             Members, Connected, Active
  <2> QED
    BY <2>1, <2>2 DEF SurvivorInv
<1>2. SurvivorInv /\ [Next]_vars => SurvivorInv'
  BY OfficeStep, LoadingStep, AwardStep DEF SurvivorInv
<1> QED
  BY <1>1, <1>2, PTL DEF Spec

-----------------------------------------------------------------------------
(* Theorems *)

\* For any number of slots, the survivors lose a round only when none of them lives.
THEOREM DefeatIsTotal == Spec => DefeatMeansNoneAlive
<1>1. SurvivorInv /\ [Next]_vars =>
        [endReason' = "humandead" /\ endReason # "humandead" => AliveHumans' = {}]_vars
  <2> SUFFICES ASSUME SurvivorInv, [Next]_vars, ~NoDefeat PROVE AliveHumans' = {}
    BY DEF NoDefeat
  <2> QED
    BY SurvivorStep DEF SurvivorMove, Stays, Joins, BeginsAgain, Dies, Leaves, Promoted, NoDefeat,
                        AliveHumans, roundVars
<1> QED
  BY <1>1, SurvivorInvariant, PTL DEF Spec, DefeatMeansNoneAlive

\* The death of the last living survivor ends a running round at once, and it is the
\* master who is paid.
THEOREM LastDeathCounts == Spec => LastDeathPaysMaster
<1> DEFINE A == \A p \in Players :
                  ~inRoundEnd /\ AliveHumans = {p} /\ Humans' = Humans /\ AliveHumans' = {}
                    => inRoundEnd' /\ endReason' = "humandead" /\ awarded' = ZMs
<1>1. SurvivorInv /\ [Next]_vars => [A]_vars
  <2> SUFFICES ASSUME SurvivorInv, [Next]_vars, NEW p \in Players, ~inRoundEnd,
                      AliveHumans = {p}, Humans' = Humans, AliveHumans' = {}
               PROVE  inRoundEnd' /\ endReason' = "humandead" /\ awarded' = ZMs
    OBVIOUS
  <2>1. SurvivorMove
    BY SurvivorStep
  <2>2. PICK q \in Players : Dies(q)
    BY <2>1 DEF SurvivorMove, Stays, Joins, BeginsAgain, Leaves, Promoted
  <2> QED
    BY <2>2 DEF Dies, EndRound, Conclude, Rewarded, SurvivorInv, NotYetAwarded
<1> QED
  BY <1>1, SurvivorInvariant, PTL DEF Spec, LastDeathPaysMaster

\* A running round never goes on without survivors, but for the one who became the master.
THEOREM LastSurvivorCounts == Spec => LastSurvivorLeavesEndsRound
<1>1. SurvivorInv /\ [Next]_vars =>
        [~inRoundEnd /\ ~gameOver /\ Humans # {} /\ Humans' = {}
           => inRoundEnd' \/ ZMs' = Humans]_vars
  <2> SUFFICES ASSUME SurvivorInv, [Next]_vars, ~inRoundEnd, ~gameOver, Humans # {}, Humans' = {}
               PROVE  inRoundEnd' \/ ZMs' = Humans
    OBVIOUS
  <2> QED
    BY SurvivorStep DEF SurvivorMove, Stays, Joins, BeginsAgain, Dies, Leaves, Promoted
<1> QED
  BY <1>1, SurvivorInvariant, PTL DEF Spec, LastSurvivorLeavesEndsRound

\* After the time for late joining nobody comes to life as a survivor in the round.
THEOREM NobodyComesLate == Spec => NoLateSurvivors
<1>1. SurvivorInv /\ [Next]_vars =>
        [~inRoundEnd /\ ~inRoundEnd' /\ ~grace => AliveHumans' \subseteq AliveHumans]_vars
  <2> SUFFICES ASSUME SurvivorInv, [Next]_vars, ~inRoundEnd, ~grace
               PROVE  AliveHumans' \subseteq AliveHumans
    OBVIOUS
  <2> QED
    BY SurvivorStep DEF SurvivorMove, Stays, Joins, BeginsAgain, Dies, Leaves, Promoted
<1> QED
  BY <1>1, SurvivorInvariant, PTL DEF Spec, NoLateSurvivors
=============================================================================
