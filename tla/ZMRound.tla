------------------------------ MODULE ZMRound ------------------------------
(***************************************************************************)
(* The round and team rules of Zombie Master: Reborn: who is on which      *)
(* team, who is alive, and when a round ends and the next one begins.      *)
(*                                                                         *)
(* The game rules object (CZMRules, shared/zmr/zmr_gamerules.cpp) and the  *)
(* player class (CZMPlayer, server/zmr/zmr_player.cpp) run in one thread:  *)
(* every action is one callback of the engine, run to completion.  What    *)
(* interleaves is the order of the callbacks of different players, of the  *)
(* console commands, of map entities and of the timers.                    *)
(***************************************************************************)
EXTENDS Integers, FiniteSets

CONSTANTS
  Players,        \* client slots 1..maxClients
  Bots,           \* the slots of fake clients, which are never AFK
  Participations, \* values of the client setting zm_cl_participation in use
  NoHumansOnly,   \* ZMPARTFLAG_NOHUMANSONLY: "only human" is not honoured
  NoSpecOnly,     \* ZMPARTFLAG_NOSPECONLY: "only spectate" is not honoured
  ReplaceAFK,     \* zm_sv_antiafk_replacezm
  AFKPunish,      \* zm_sv_antiafk_punish: "nothing", "spectate" or "kick"
  RoundLimit,     \* zm_mp_roundlimit, 0 = no limit
  TimeLimit,      \* does the map have a time limit (mp_timelimit)?
  NoRestart,      \* zm_sv_norestartround
  Nobody          \* ChooseZM's nullptr

ASSUME RoundAssumption ==
  /\ Players # {} /\ IsFiniteSet(Players)
  /\ Bots \subseteq Players
  /\ Participations \subseteq {"allowzm", "onlyhuman", "onlyspec"}
  /\ "allowzm" \in Participations
  /\ NoHumansOnly \in BOOLEAN /\ NoSpecOnly \in BOOLEAN
  /\ ReplaceAFK \in BOOLEAN
  /\ AFKPunish \in {"nothing", "spectate", "kick"}
  /\ RoundLimit \in Nat
  /\ TimeLimit \in BOOLEAN /\ NoRestart \in BOOLEAN
  /\ Nobody \notin Players

VARIABLES
  conn,       \* the slot: "free", "loading" (entity created), "active" (in game)
  team,       \* GetTeamNumber()
  alive,      \* m_lifeState = LIFE_ALIVE
  part,       \* the client's participation setting
  priority,   \* GetPickPriority()
  inRoundEnd, \* m_bInRoundEnd
  restart,    \* m_flRoundRestartTime: "off" (zero), "running", "elapsed" (it is past)
  rounds,     \* m_nRounds
  gameOver,   \* g_fGameOver
  grace,      \* curtime < GetRoundStartTime() + zm_sv_joingrace
  vote,       \* the round restart vote: the phase of the ballot, module ZMBallot
  endReason,  \* reason of the last round_end_post event, "none" once a round runs
  awarded,    \* who got frag points for the end of this round
  begun,      \* history: calls of BeginRound
  waited      \* history: rounds in a row a willing player was passed over as ZM

playerVars  == <<conn, team, alive, part, priority, waited>>
roundVars   == <<inRoundEnd, restart, rounds, gameOver, endReason, awarded>>
vars == <<conn, team, alive, part, priority, inRoundEnd, restart, rounds, gameOver, grace,
          vote, endReason, awarded, begun, waited>>

Teams   == {"unassigned", "spectator", "human", "zm"}
Playing == {"human", "zm"}                        \* > ZMTEAM_SPECTATOR
Reasons == {"humandead", "humanwin", "humanlose", "zmsubmit", "gamebegin",
            "voterestart"}

Connected   == {p \in Players : conn[p] # "free"}
Active      == {p \in Players : conn[p] = "active"}
Members(t)  == {p \in Connected : team[p] = t}     \* the CTeam's player list
ZMs         == Members("zm")
Humans      == Members("human")
AliveHumans == {p \in Humans : alive[p]}           \* GetNumAliveHumans()
Observer(p) == team[p] = "spectator"               \* IsObserver()

\* The vote controller, as module ZMVote implements it.
Ballot == INSTANCE ZMBallot WITH phase <- vote

-----------------------------------------------------------------------------
(* Ending a round *)

\* RewardPoints: who is paid when the round ends for the reason.
Rewarded(reason) ==
  CASE reason \in {"humandead", "humanlose"} -> ZMs
    [] reason = "humanwin"                   -> AliveHumans
    [] OTHER                                 -> {}

\* Mutant: the limit is compared as if the start of the map were no round end.
PastLimitEarly(n) == RoundLimit > 0 /\ n >= RoundLimit

\* The map is over when the n-th round end has come.
PastLimit(n) == RoundLimit > 0 /\ n > RoundLimit

\* Mutant: the timer is started only when somebody is in the game.
StartRestartPlayed == restart' = IF Active # {} THEN "running" ELSE "off"

\* The time until the next round begins to run.
StartRestart == restart' = "running"

Conclude(reason) ==
  /\ inRoundEnd' = TRUE
  /\ StartRestart
  /\ awarded' = awarded \cup Rewarded(reason)
  /\ rounds' = rounds + 1
  /\ gameOver' = (gameOver \/ PastLimit(rounds + 1))
  /\ endReason' = reason

\* Mutant: every request ends the round once more.
EndRoundAgain(reason) == Conclude(reason)

\* EndRound: only a running round ends, it is counted, and past the round limit
\* the game goes to intermission.
EndRound(reason) == IF inRoundEnd THEN UNCHANGED roundVars ELSE Conclude(reason)

\* Mutant: only the loss of the master restarts the round.
DrainsZMOnly(old, new, newTeam) ==
  old = "zm" /\ new \notin Playing /\ \A q \in Connected : newTeam[q] # old

\* The end of ChangeTeam: a running round restarts when the player left the empty
\* team old for none of the playing ones.  newTeam is the assignment after the move.
Drains(old, new, newTeam) ==
  /\ old \in Playing /\ new \notin Playing
  /\ \A q \in Connected : newTeam[q] # old

\* ChangeTeam(t) of one player.  A player moved to a playing team spawns, one
\* moved to the spectators becomes an observer, which is dead.
ChangeTeam(p, t) ==
  /\ team'  = [team  EXCEPT ![p] = t]
  /\ alive' = [alive EXCEPT ![p] = t # "spectator"]
  /\ IF Drains(team[p], t, team') THEN EndRound("gamebegin") ELSE UNCHANGED roundVars

-----------------------------------------------------------------------------
(* Players coming and going *)

\* ClientPutInServer: the player entity is created, on no team.
ClientPutInServer(p) ==
  /\ conn[p] = "free"
  /\ conn' = [conn EXCEPT ![p] = "loading"]
  /\ alive' = [alive EXCEPT ![p] = TRUE]
  /\ \E v \in IF p \in Bots THEN {"allowzm"} ELSE Participations :
       part' = [part EXCEPT ![p] = v]
  /\ priority' = [priority EXCEPT ![p] = 0]
  /\ UNCHANGED <<team, waited, roundVars, grace, vote, begun>>

\* The team a loading player has after Spawn: PickDefaultSpawnTeam.
SpawnTeam(p) == IF team[p] = "unassigned" THEN "spectator" ELSE team[p]

\* Mutant: a newcomer joins whatever time the round has run.
ShouldLateSpawnAlways(p, t) == t = "spectator" /\ (part[p] = "onlyspec" => NoSpecOnly)

\* ShouldLateSpawn of a player that has just spawned on team t.
ShouldLateSpawn(p, t) ==
  /\ t = "spectator"
  /\ part[p] = "onlyspec" => NoSpecOnly
  /\ grace

\* Mutant: a new round only when both teams are empty.
NeedsNewRoundBoth(late) == ZMs = {} /\ Humans = {} /\ ~late

\* OnClientFinishedPutInServer: no round can run without a master, nor without
\* survivors when the newcomer does not become one.
NeedsNewRound(late) == ZMs = {} \/ (Humans = {} /\ ~late)

\* ClientActive: Spawn, then the rules decide whether the newcomer joins the
\* round, waits as a spectator, or triggers a new round.
ClientActive(p) ==
  LET t    == SpawnTeam(p)
      late == ~inRoundEnd /\ ShouldLateSpawn(p, t)
      new  == ~inRoundEnd /\ NeedsNewRound(late)
      join == late /\ ~new
  IN  /\ conn[p] = "loading"
      /\ conn'  = [conn  EXCEPT ![p] = "active"]
      /\ team'  = [team  EXCEPT ![p] = IF join THEN "human" ELSE t]
      /\ alive' = [alive EXCEPT ![p] = join \/ t # "spectator"]
      /\ IF new THEN EndRound("gamebegin") ELSE UNCHANGED roundVars
      /\ UNCHANGED <<part, priority, waited, grace, vote, begun>>

\* Mutants: the count is taken as if the leaver had left the team, or were yet to.
LastOfTeamAfter(p)  == team[p] \in Playing /\ Cardinality(Members(team[p])) < 1
LastOfTeamBefore(p) == team[p] \in Playing /\ Cardinality(Members(team[p])) <= 2

\* ClientDisconnected: is the leaver the last of a playing team?
LastOfTeam(p) == team[p] \in Playing /\ Members(team[p]) = {p}

\* ClientDisconnected, and the removal of the entity that follows it.  The count
\* still includes the leaver, and the dead that have not become spectators yet.
Disconnect(p) ==
  /\ conn[p] # "free"
  /\ IF LastOfTeam(p) /\ ~gameOver
       THEN EndRound(IF team[p] = "zm" THEN "zmsubmit" ELSE "humandead")
       ELSE UNCHANGED roundVars
  /\ conn'  = [conn  EXCEPT ![p] = "free"]
  /\ team'  = [team  EXCEPT ![p] = "unassigned"]
  /\ alive' = [alive EXCEPT ![p] = FALSE]
  /\ part'  = [part  EXCEPT ![p] = "allowzm"]
  /\ priority' = [priority EXCEPT ![p] = 0]
  /\ waited'   = [waited EXCEPT ![p] = 0]
  /\ UNCHANGED <<grace, vote, begun>>

\* The client changes zm_cl_participation.
SetParticipation(p, v) ==
  /\ p \in Active \ Bots
  /\ v # part[p]
  /\ part' = [part EXCEPT ![p] = v]
  /\ waited' = [waited EXCEPT ![p] = 0]
  /\ UNCHANGED <<conn, team, alive, priority, roundVars, grace, vote, begun>>

-----------------------------------------------------------------------------
(* Death, inactivity *)

\* Mutant: the team is counted, in which the dead are until they spectate.
LastOnTeam(p) == Cardinality(Humans) <= 1

\* PlayerKilled: is the victim the last survivor alive?
LastAlive(p) == Cardinality(AliveHumans) <= 1

\* Event_Killed: the rules are told while the victim still counts as alive.
Kill(p) ==
  /\ p \in Active \cap AliveHumans
  /\ IF LastAlive(p) THEN EndRound("humandead") ELSE UNCHANGED roundVars
  /\ alive' = [alive EXCEPT ![p] = FALSE]
  /\ UNCHANGED <<conn, team, part, priority, waited, grace, vote, begun>>

\* respawn: after the death animation the dead survivor becomes a spectator.
Respawn(p) ==
  /\ p \in Active \cap (Humans \ AliveHumans)
  /\ ~gameOver
  /\ ChangeTeam(p, "spectator")
  /\ UNCHANGED <<conn, part, priority, waited, grace, vote, begun>>

\* CanInactivityPunish
CanInactivityPunish(p) ==
  /\ p \in Active \ Bots
  /\ \/ team[p] = "zm" /\ ReplaceAFK
     \/ AFKPunish = "spectate" /\ ~Observer(p)
     \/ AFKPunish = "kick"

\* ReplaceZM: those that may take over from the master z, the idle ones first.
ReplacementsOf(z) ==
  LET willing == {p \in Connected \ ZMs : p # z /\ part[p] = "allowzm"}
      idle    == {p \in willing : Observer(p) \/ ~alive[p]}
  IN  IF idle # {} THEN idle ELSE willing

\* ReplaceZM: the successor takes office before the master leaves it, so that the
\* round ends only when there is no successor.
ReplaceZM(z) ==
  \/ \E c \in ReplacementsOf(z) :
       /\ team'  = [team  EXCEPT ![c] = "zm", ![z] = "spectator"]
       /\ alive' = [alive EXCEPT ![c] = TRUE, ![z] = FALSE]
       /\ UNCHANGED roundVars
  \/ ReplacementsOf(z) = {} /\ ChangeTeam(z, "spectator")

\* PunishInactivity.  A kick goes through the console, as a later Disconnect.
PunishInactivity(p) ==
  /\ CanInactivityPunish(p)
  /\ IF ReplaceAFK /\ team[p] = "zm" /\ ~inRoundEnd /\ Cardinality(ZMs) <= 1
       THEN ReplaceZM(p)
       ELSE /\ AFKPunish = "spectate" /\ ~Observer(p)
            /\ ChangeTeam(p, "spectator")
  /\ UNCHANGED <<conn, part, priority, waited, grace, vote, begun>>

-----------------------------------------------------------------------------
(* Requests to end the round *)

\* The console command roundrestart of the master or of the server's operator.
RoundRestart ==
  EndRound("zmsubmit") /\ UNCHANGED <<playerVars, grace, vote, begun>>

\* The inputs Win and Lose of func_win.
MapVerdict(reason) ==
  /\ reason \in {"humanwin", "humanlose"}
  /\ EndRound(reason)
  /\ UNCHANGED <<playerVars, grace, vote, begun>>

\* callvote: a restart vote opens while a round runs, for a player not the master.
CallVote(p) ==
  /\ p \in Active \ Bots /\ team[p] # "zm"
  /\ ~inRoundEnd
  /\ Ballot!Open
  /\ UNCHANGED <<playerVars, roundVars, grace, begun>>

\* VoteControllerThink and TryCastVote: the ballots are counted, a late one has them
\* counted again, the vote is closed.
VoteGoesOn ==
  /\ Ballot!Count \/ Ballot!Reopen \/ Ballot!Close
  /\ UNCHANGED <<playerVars, roundVars, grace, begun>>

\* ExecuteCommand of a vote that passed, which may be in another round by now.
ExecuteVote ==
  /\ Ballot!Execute
  /\ EndRound("voterestart")
  /\ UNCHANGED <<playerVars, grace, begun>>

-----------------------------------------------------------------------------
(* The next round *)

\* ChooseZM: the willing player passed over longest, else one the server's
\* settings make play along, else anyone.
ZMCandidates ==
  LET willing == {p \in Connected : part[p] = "allowzm"}
      forced  == {p \in Connected : \/ part[p] = "onlyhuman" /\ NoHumansOnly
                                    \/ part[p] = "onlyspec"  /\ NoSpecOnly}
  IN  IF willing # {} THEN {p \in willing : \A q \in willing : priority[q] <= priority[p]}
      ELSE IF forced # {} THEN forced
      ELSE Connected

\* BeginRound: the team of each connected player under the master z.
RoundTeam(p, z) ==
  IF p = z THEN "zm"
  ELSE IF part[p] = "onlyspec" /\ ~NoSpecOnly THEN "spectator"
  ELSE "human"

\* Mutant: only those who play are put on a team.
MovesPlaying(p, z) == p \in Connected /\ RoundTeam(p, z) # "spectator"

\* Is the player put on that team?  Not one that already watches.
Moves(p, z) == p \in Connected /\ (RoundTeam(p, z) # "spectator" \/ ~Observer(p))

\* Mutants: no reset for the master, or a reset to the start value of the search.
RoundPriorityGrows(p, z)   == priority[p] + 1
RoundPriorityMinus(p, z) == IF p = z THEN -1 ELSE priority[p] + 1

\* The player's pick priority once z is the master of the round.
RoundPriority(p, z) == IF p = z THEN 0 ELSE priority[p] + 1

\* BeginRound with the master z, and the rest of ResetWorld.
BeginRound(z) ==
  /\ team'  = [p \in Players |-> IF Moves(p, z) THEN RoundTeam(p, z) ELSE team[p]]
  /\ alive' = [p \in Players |-> IF Moves(p, z) THEN RoundTeam(p, z) # "spectator"
                                                ELSE alive[p]]
  /\ priority' = [p \in Players |-> IF p \in Connected THEN RoundPriority(p, z)
                                                       ELSE priority[p]]
  /\ waited' = [p \in Players |-> IF p \in Connected \ {z} /\ part[p] = "allowzm"
                                    THEN waited[p] + 1 ELSE 0]
  /\ begun' = begun + 1
  /\ grace' = TRUE
  /\ inRoundEnd' = FALSE /\ restart' = "off"
  /\ endReason' = "none" /\ awarded' = {}
  /\ UNCHANGED <<conn, part, rounds, gameOver, vote>>

\* The time until the next round has passed.  Nobody looks at it in the intermission.
RestartTimeUp ==
  /\ ~gameOver
  /\ restart = "running" /\ restart' = "elapsed"
  /\ UNCHANGED <<playerVars, inRoundEnd, rounds, gameOver, endReason, awarded, grace, vote,
                 begun>>

\* Think: the round restarts when it has ended and its timer has been set and is
\* past, unless the server holds it.
RestartDue == ~gameOver /\ inRoundEnd /\ restart = "elapsed" /\ ~NoRestart

ResetWorld ==
  /\ RestartDue
  /\ \/ \E z \in ZMCandidates : BeginRound(z)
     \/ Connected = {} /\ BeginRound(Nobody)

\* Think: the map's time is up.
MapTimeUp ==
  /\ TimeLimit /\ ~gameOver
  /\ gameOver' = TRUE
  /\ UNCHANGED <<playerVars, inRoundEnd, restart, rounds, endReason, awarded, grace, vote,
                 begun>>

\* The time for late joining passes.
GraceEnds ==
  /\ grace /\ grace' = FALSE
  /\ UNCHANGED <<playerVars, roundVars, vote, begun>>

-----------------------------------------------------------------------------
Init ==
  /\ conn = [p \in Players |-> "free"]
  /\ team = [p \in Players |-> "unassigned"]
  /\ alive = [p \in Players |-> FALSE]
  /\ part = [p \in Players |-> "allowzm"]
  /\ priority = [p \in Players |-> 0]
  /\ inRoundEnd = FALSE /\ restart = "off" /\ rounds = 0 /\ gameOver = FALSE
  /\ grace = TRUE
  /\ vote = "none"
  /\ endReason = "none" /\ awarded = {}
  /\ begun = 0
  /\ waited = [p \in Players |-> 0]

PlayerStep(p) ==
  \/ ClientPutInServer(p)
  \/ ClientActive(p)
  \/ Disconnect(p)
  \/ \E v \in Participations : SetParticipation(p, v)
  \/ Kill(p)
  \/ Respawn(p)
  \/ PunishInactivity(p)
  \/ CallVote(p)

RulesStep ==
  \/ RoundRestart
  \/ \E r \in Reasons : MapVerdict(r)
  \/ VoteGoesOn
  \/ ExecuteVote
  \/ RestartTimeUp
  \/ ResetWorld
  \/ MapTimeUp
  \/ GraceEnds

Next == (\E p \in Players : PlayerStep(p)) \/ RulesStep

Spec == Init /\ [][Next]_vars

-----------------------------------------------------------------------------
(* Invariants *)

TypeOK ==
  /\ conn \in [Players -> {"free", "loading", "active"}]
  /\ team \in [Players -> Teams]
  /\ alive \in [Players -> BOOLEAN]
  /\ part \in [Players -> {"allowzm", "onlyhuman", "onlyspec"}]
  /\ priority \in [Players -> Nat]
  /\ inRoundEnd \in BOOLEAN
  /\ restart \in {"off", "running", "elapsed"}
  /\ rounds \in Nat
  /\ gameOver \in BOOLEAN
  /\ grace \in BOOLEAN
  /\ vote \in Ballot!Phases
  /\ endReason \in Reasons \cup {"none"}
  /\ awarded \in SUBSET Players
  /\ begun \in Nat
  /\ waited \in [Players -> Nat]

\* There is never a second Zombie Master, whatever joins, leaves, restarts and
\* handovers of the office happen in whatever order.
AtMostOneZM == \A p, q \in ZMs : p = q

\* Until intermission, a running round has a master as soon as one player is in
\* the game: every way the master can go (leave, be replaced, be made a spectator)
\* hands the office over or ends the round.
RunningRoundHasZM == ~inRoundEnd /\ ~gameOver /\ Active # {} => ZMs # {}

\* Nobody willing to be the master is passed over in as many rounds in a row as
\* there are slots: the pick priorities make the office go round, whoever joins,
\* leaves or changes their mind in the meantime.
PickIsFair == \A p \in Players : waited[p] < Cardinality(Players)

\* Each EndRound is counted once, however many events ask for the end of the same
\* round: m_nRounds is the number of rounds begun, and one more in a round end
\* (for the start of the map, which is no round).
RoundsAreCounted == rounds = IF inRoundEnd THEN begun + 1 ELSE begun

\* With a round limit, exactly that many rounds are played before intermission.
RoundLimitIsExact ==
  RoundLimit > 0 => /\ begun <= RoundLimit
                    /\ inRoundEnd /\ begun = RoundLimit => gameOver
                    /\ gameOver => begun = RoundLimit \/ TimeLimit

-----------------------------------------------------------------------------
(* Action properties *)

\* A round is lost by the survivors only when none of them lives any more.
DefeatMeansNoneAlive ==
  [][endReason' = "humandead" /\ endReason # "humandead" => AliveHumans' = {}]_vars

\* The death of the last living survivor in a running round ends it at once, and
\* the master is paid, although the victim still counts in the team and as alive
\* while the rules look.
LastDeathPaysMaster ==
  [][\A p \in Players :
       ~inRoundEnd /\ AliveHumans = {p} /\ Humans' = Humans /\ AliveHumans' = {}
         => inRoundEnd' /\ endReason' = "humandead" /\ awarded' = ZMs]_vars

\* Until intermission a running round never loses its last survivor (dead ones
\* awaiting to become spectators included) without ending, unless that one becomes
\* the master.
LastSurvivorLeavesEndsRound ==
  [][~inRoundEnd /\ ~gameOver /\ Humans # {} /\ Humans' = {}
       => inRoundEnd' \/ ZMs' = Humans]_vars

\* In a running round nobody comes to life as a survivor after the time for late
\* joining: not a dead one, not a spectator, not one who reconnects.
NoLateSurvivors ==
  [][~inRoundEnd /\ ~inRoundEnd' /\ ~grace => AliveHumans' \subseteq AliveHumans]_vars

-----------------------------------------------------------------------------
(* Liveness *)

\* Time goes by and the rules think every tick; the dead think with the commands
\* their clients send.
Fairness ==
  /\ WF_vars(RestartTimeUp)
  /\ WF_vars(ResetWorld)
  /\ \A p \in Players : WF_vars(Respawn(p))

FairSpec == Spec /\ Fairness

\* Unless the server is set not to restart, another round comes after each one, or the
\* intermission: whichever way a round ends, its restart timer has been started, and
\* nothing that players, votes or the map do in the round end loses it.
NextRoundComes == ~NoRestart => (inRoundEnd ~> ~inRoundEnd \/ gameOver)

\* A running round in which survivors are left but all of them dead does not go
\* on like that: it ends, or somebody joins it late, or, with automatic
\* replacement, one of the dead becomes the master.
DeadRoundEnds ==
  ~inRoundEnd /\ Humans # {} /\ AliveHumans = {}
    ~> inRoundEnd \/ AliveHumans # {} \/ gameOver \/ (ReplaceAFK /\ Humans = {})

-----------------------------------------------------------------------------
(* What a round promises about the office of the master: module ZMOffice *)

Office == INSTANCE ZMOffice WITH
  running <- ~inRoundEnd, closed <- gameOver, office <- ZMs, played <- begun

\* The rules implement the office: within a round it passes from one player to
\* the next without a vacancy, at most one holds it, a round ends before the next
\* one begins, and no more rounds begin than the limit allows.
OfficeSpec == Office!Spec
=============================================================================
