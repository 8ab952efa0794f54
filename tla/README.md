# Zombie Master: Reborn - TLA+ verification project

Zombie Master: Reborn is an asymmetric multiplayer mod on Valve's Source SDK: one player, the
*Zombie Master* (ZM), spends resources on zombies and traps against the other players, the
*survivors*. The mod's own code lives in `src/mp/src/game/{server,shared,client}/zmr`; the rest of
the tree is Valve's SDK. This project models the mod's server-side game logic: TLA+ modules, TLC
runs on small instances, and TLAPS proofs for every instance. Paths below are relative to
`src/mp/src/game`.

## 1. Inventory

The server is one thread. The engine calls the mod back (a client connects, loads, sends a command,
disconnects; an entity thinks; the map fires an input; the frame ends), and each callback runs to
completion. What is hard is the *order* of callbacks, the state that survives from one to a later one
(an entity pointer, player index or count kept over seconds; a queue; a timer), and the nesting of
callbacks in one another (`ChangeTeam` inside `ReplaceZM`, `EndRound` inside `ChangeTeam`, a
destructor that changes a counter or removes another entity in the middle of the cleanup).

| Component | Code | State | Operations | What makes it correct |
|---|---|---|---|---|
| Rounds, teams, the office | `shared/zmr/zmr_gamerules.cpp`, `server/zmr/zmr_player.cpp`, `zmr_client.cpp` | team, life, participation, pick priority of each player; `m_bInRoundEnd`, `m_nRounds`, restart timer, `g_fGameOver` | connect, load, disconnect, die, respawn, idle punishment, `ReplaceZM`, `EndRound`, votes, `ResetWorld` (`ChooseZM`, `BeginRound`) | at most one master, never none in a running round; a round ends exactly once and for the right reason; the office goes round |
| The vote on restarting the round | `server/zmr/zmr_voting.h` on `server/vote_controller.cpp` | ballots by slot, option counters, the voters expected; three timers (accepting ballots, execution, reset); lockout after a failure | call, cast, count, execute, reset | each slot is counted once; a majority and a quorum pass; every vote ends |
| Spawn queues, population, resources | `server/zmr/zmr_entities.cpp` (`info_zombiespawn`, `func_giveresources`), `zmr_zm_commands.cpp`, `npcs/zmr_zombiebase.cpp`, `shared/zmr/zmr_player_shared.cpp` | spawn queue with the orderer's index, active flag, next think; `m_nZombiePop`; resources | queue, clear, `SpawnThink`, toggle/hide/unhide, zombie created / dies / deleted, hidden spawn, income, rewards | the count is exact, the limit holds, everything is paid, the queue moves |
| Traps | `server/zmr/zmr_entities.cpp` (`info_manipulate`, `info_manipulate_trigger`) | raw pointers trap -> triggers, handle trigger -> trap, active flag, resources | press, create trigger, scan, remove, cleanup | no dangling pointer, no orphan, fires as configured, is paid |
| Commanding the horde | `zmr_zm_commands.cpp`, `npcs/zmr_zombiebase.cpp`, `zmr_entities.cpp` (`info_ambush_trigger`) | selector index, mode, ambush handle of each zombie; number of zombies of each ambush trigger | select, set mode, create ambush, spring, ceiling, delete | counts agree with handles, nobody waits for nothing |
| Zombie AI | `server/zmr/npcs/` | schedules, conditions, routes | Valve's AI framework | geometry and animation |
| Weapons | `shared/zmr/weapons/`, `server/zmr/zmr_player.cpp`, `zmr_concommands.cpp`, `zmr_ammo.cpp` | owned weapons and slot flags of each player; owner, clip, reserve, reload and throw state of each weapon; boxes of ammunition | switch, pick up, drop, attack, reload, throw, die, strip, late deletion | slots agree with what is owned; no ammunition is made; a throw that is interrupted leaves no half-thrown bottle |
| Loadouts | `server/zmr/zmr_entities.cpp` from line 1262 | remaining weapons of each class | distribute at round start, late spawn | never gives what it does not have |
| Counting triggers | `server/zmr/zmr_entities.cpp` from line 958 | entities touching, fraction required | touch, leave, think | fires when the fraction is reached |
| Objectives | `server/zmr/zmr_obj_manager.cpp`, `zmr_objectives.cpp` | loaded file, lines of text, default entities of each team | load, show, update | a failed load shows nothing |
| Carrying, movement, animation; bots; user interface; web | see `PROJECT.json` | - | - | continuous, I/O, or test code: not modelled |

How they interact. The rules decide who is master; spawners, traps and commands ask only that. The
round restart (`ResetWorld` -> `RestoreMap`) deletes every entity but the players and gives the
initial resources, so it is an action of each module. A vote that passes ends a round by `EndRound`; weapons
are given as a player enters a round and taken as he leaves it. Population, purse and office are shared by all
spawners and by the hidden zombies. Zombies that die or are deleted act back on population
(`~CZMBaseZombie`) and on ambush triggers (`RemoveFromAmbush`). Removal is deferred: `UTIL_Remove` only
marks, and `CleanupDeleteList` runs before and after the thinks of a frame
(`server/gameinterface.cpp:1219`, `:1250`), so marked entities go on answering for a while; and one
destructor may mark another entity *during* the cleanup, which is then deleted in the same run.

The hazards this gives are listed, each at its line, in `PROJECT.json`.

## 2. Modules

| Module | Models | Proofs |
|---|---|---|
| `ZMOffice` | abstract: what rounds promise about the master's office | refinement in `ZMRoundProofs` |
| `ZMBallot` | abstract: what the vote controller promises | refinement in `ZMVoteProofs` |
| `ZMRound` | rounds, teams, the office; composed with `ZMBallot` | `ZMRoundProofs`, `ZMRoundEndProofs` |
| `ZMVote` | the vote controller with the mod's issue | `ZMVoteProofs` |
| `ZMSpawn` | resources, queues, population | `ZMSpawnProofs` |
| `ZMTrap` | traps and triggers | `ZMTrapProofs` |
| `ZMHorde` | selection, modes, ambushes, ceiling | `ZMHordeProofs` |
| `ZMArms` | weapons, ammunition, loadouts | `ZMArmsProofs` |
| `ZMTotal` | sums of what a set of things costs or holds, for `ZMSpawn` and `ZMArms` | lemmas in `ZMTotalProofs` |
| `MCRound`, `MCVote`, `MCSpawn`, `MCTrap`, `MCHorde`, `MCArms` | constants and symmetry of the runs | |

Each module is parameterised by the entities and by the console variables it depends on, with a named
assumption about them; one action is one callback, all of its calls included. Operators marked
*Mutant* are plausible bugs of the definition that follows them; they are used by no specification.

### ZMRound

`conn` is the state of a client slot: `ClientPutInServer` creates the entity (*loading*),
`ClientActive` spawns it (*active*). `team`, `alive`, `part` and `priority` are the player's; the team's
player list is `Members(t)`, which is what `CTeam` counts, loading players included.
`inRoundEnd`, `rounds`, `gameOver` are `m_bInRoundEnd`, `m_nRounds`, `g_fGameOver`. `endReason` and
`awarded` are what the last `round_end_post` said and whom it paid. `begun` and `waited` are history.

Timers are abstracted to the order of what they allow. `restart` is `m_flRoundRestartTime`: `"off"` when it is zero,
`"running"` from `EndRound` on (`StartRestart`), `"elapsed"` once the clock is past it (`RestartTimeUp`, any time later), and off again with
`BeginRound`. `ResetWorld` has the guard of `Think` (`RestartDue`): the game is not over, the round has ended, its timer has been
set and is past, and `zm_sv_norestartround` (`NoRestart`) is off. A time that is set is taken to be different from zero, the code's
mark for none, as the clock of a server that runs and an intermission that is not negative make it. During the intermission `Think` returns
before it looks at the timer, which therefore does not move on. `GraceEnds` comes any time after a round start.

The nesting is kept. `ChangeTeam` ends with the check of `zmr_player.cpp:338` (`Drains`), which may end
the round from wherever `ChangeTeam` is called. `EndRound` is ignored in a round end. `Kill` calls the
rules *before* the victim stops to count as alive, as `Event_Killed` does. A dead survivor stays on
his team until `Respawn`. `Disconnect` counts the leaver himself. `ReplaceZM` promotes before it
demotes, so that only when there is no successor does the demotion end the round.

The restart vote is the phase of `ZMBallot`: ZMRound's `CallVote`, `VoteGoesOn` and `ExecuteVote` are its steps
joined to those of the rules, and `ZMVote` is shown to implement it, so rounds are checked against every
ballot the controller can run. A vote that has passed executes later, possibly in another round, and
`EndRound` ignores it in a round end.

### ZMVote

A `Frame` is half a second, the step of the controller's think; `accept`, `execute` and `reset` are its three
timers, counted in frames, with `Off` (-1) for one that is not started. The order in a frame is that of the code: count before reset
(`VoteControllerThink`), execution after (`FrameUpdatePostEntityThink`). Bots have no vote and cast none. `yes` and `no` are the
option counters, `cast` the marks of the slots: the controller is not told of leavers, so mark and counter outlive
them, and the next client of the slot finds that it has voted. `TryCastVote` asks whether a result waits to be executed, not whether the
ballots have been counted, so a ballot that comes between the count and the reset may have the vote counted once more
(`Reopen` of `ZMBallot`). `CallVote` contains the caller's own ballot. `ChangeTeam`, `Leave` and `RoundTurns` are what ZMRound does to the
voters, any time. The ratio of the quorum is a fraction, compared by multiplication.

### ZMSpawn

`queue` holds what to spawn and the *index* of who ordered it: the entry outlives its orderer, and
`SpawnThinkCreates` charges whoever has the slot then. `armed` says that a think is scheduled. The
entity inputs Toggle, Hide and Unhide run the base class' handlers (`Switch`), not the spawner's.
A zombie counts from its constructor (`Create`) to its destructor (`Delete`), also when it finds no place
and is removed at once (`SpawnThinkFails`, `CreateHidden` with `ok = FALSE`). `Raised` is `IncResources`
with and without its limit. `PhysExp` is a physics explosion: the purse is checked first and charged last, the failures
in between charge nothing; what it does to objects is not modelled. `Hosts` are the slots
whose commands count as the server admin's. The office only moves here; who gets it is ZMRound's.

### ZMTrap

`phase` separates commands, which run between the frames, from thinks and inputs, which run in it;
`FrameBegins` and `FrameEnds` are the two cleanups. `list` is the trap's vector of raw
pointers, `owner` the trigger's handle. A trap or trigger that is `"doomed"` is marked and still answers. `Forget` is what
the two destructors do to the lists; `Due` includes the triggers that a trap's destructor marks during the cleanup.

### ZMHorde

`handle` is a zombie's handle of its ambush trigger, which reads as null once the trigger is deleted;
`count` is all the trigger knows of its zombies. Every way out of an ambush is there: another mode, another ambush, the
destructor (not death: a corpse keeps its handle until it has faded, and stays selected), the spring.
The loops of `ZM_Cmd_CreateAmbush` and of the mode command visit one zombie after the other; no other code runs
in between, and as each visit only subtracts one from a count, the model takes all of them at once (`Left`, `Emptied`).
The ceiling order reaches every banshee of the map and every selected zombie (`zmr_zm_commands.cpp:865` has `&&` where `||` may
be meant); nothing documents the intention, so it is modelled as it is.

### ZMArms

A player has a `list` of weapons, the `active` one, slot `flags` and a `pool` of ammunition by class; a weapon has an `owner`
that outlives its place in the list: `Strip` (`RemoveAllItems`) empties the list at once, but the weapons are only marked
(`here` is `"doomed"`), keep their owner and block his slots until `Gone`, their destructor, frees the flag. `Bump`,
`DropWeapon`, `UsedUp`, `Die`, `Strip`, `Disconnect` and `NewRound` are all the ways a weapon changes hands.
With its reserve (`zm_sv_weaponreserveammo` at its default of 1) a dropped gun takes its owner's ammunition along
(`LetGo`: `pool` to `stash`) and gives it to the next (`Bump`).

`reload` combines `m_bInReload` with the `m_iReloadState` of the guns that load round by round: `"start"`
is the state before the first round, `"loading"` the state in which rounds go in, `"stopped"` a reload that was interrupted by a shot:
`m_bInReload` is false but `m_iReloadState` stays, until holster or finish. Dropping does not holster. `throw` follows the
animation events of the molotov; `CanHolster` is what keeps a burning bottle in hand. `Draws` is
what the loadout entity may give: one of what is left, or one of each category, the categories being the slots.

Fists and the empty hands of a carrier are one value, `Hands`. Delays between shots, the pump after a shot (a delay too), spread and damage,
melee weapons and the molotov's ammo marker are left out. A player out of the round comes back with the next one
(`NewRound`); the debug and cheat commands that change that are not modelled.

## 3. Runs

| Run | Instance | Question |
|---|---|---|
| `round` | 3 clients, all participation settings, "only human" overridden, idle master replaced, 2 rounds | is there one master, and none missing; is each round counted once, ended for the right reason and paid; can nobody come to life late; do the rules implement `ZMOffice` |
| `round_live` | a bot and 2 willing clients, a time limit, 3 rounds, fair | is nobody willing passed over too long; does every round end start the timer that leads to a new round; does a round of dead survivors end |
| `vote` | 4 slots, one of them a bot's, times of 1 or 2 frames, a quorum of 3/5, fair | do counters agree with marks, timers with each other; does only a majority pass; is `ZMBallot` implemented; can ballots prolong a vote; does every vote end |
| `vote_late` | 3 clients | finding, see section 6 |
| `spawn` | 2 clients, 1 spawner, 3 zombies of 2 classes, queue of 2, population 3 | are queue, count, payment and think kept under every order |
| `spawn_live` | 1 client who is the host, 2 spawners, 3 zombies, queues of 1, population 2, rewards over the maximum, fair | do spawners that share purse and limit keep the limit; is nothing lost; do queued units come out |
| `spawn_unhide` | 2 clients, 1 spawner, 2 zombies | finding |
| `trap` | 2 traps, one of which activates once, 3 trigger slots, 2 survivors | are raw pointers and handles safe, is the limit kept, are prices paid |
| `trap_once` | 1 trap that is to activate once, 2 survivors near its trigger | finding |
| `horde` | 2 clients, a banshee and a shambler, 3 trigger slots | do ambush counts agree with handles, and is nobody left waiting |
| `arms` | 2 players, a shotgun (clip of 2) and a machine pistol (clip of 1) that share a slot, a molotov, one box of 2 shells | do slots agree with owned weapons; is ammunition neither made nor lost; is a molotov thrown at most once |
| `arms_refuse` | 1 player, the same guns | finding |

Why the bounds are enough. Rules on rounds compare a team's size with 0 and 1 and pick one successor,
so three slots give a master, a survivor and one that comes and goes; `RoundLimit` bounds `rounds` and `begun`
(intermission ends play), and three rounds are the fewest in which a willing player could be passed over as often as there are
slots, which is what `PickIsFair` forbids. In `vote`, a bot and three voters give ties, a majority short of the
quorum, late ballots, and a newcomer in a slot that has voted; a delay of one frame and a reset after two are the shortest that keep their
order, and vote times of one and two let votes be counted before and after a late ballot. `QueueCap = 2` lets an order be cut, be served
and leave one behind; two classes with
costs 1 and 2 make "one fits, two do not" and "cheap fits, dear does not" happen for both population and
purse; `ResBound` stops gifts above it, above `ResMax`, so that a stash over the maximum is reached.
A trap needs one trigger that fires and one that is removed by it, and a limit of 2 with 3 slots makes a
third one refused and a slot reused while another is marked. `FiredBound` bounds the history of firings:
1 is enough to see a first firing, and 2, in `trap_once`, to see one look of a trigger fire twice. In `horde`, two
zombies and three triggers give an ambush that is emptied one by one, one that is taken over by another, and one that is marked while
a new one is set up. In `arms`, two guns for one slot make a pick-up be refused and an exchange happen, a clip of two is half loaded
when a reload is interrupted, and `AmmoBound` stops boxes of the map (the loadout adds its own rounds). Symmetry is used only in runs without liveness properties.

### Fairness

* `RestartTimeUp`: game time goes by, so that a timer that has been set is past some time.
* `ResetWorld`: the rules think every frame (`CZMRules::Think`). That a round end has a timer is not assumed: it is what `NextRoundComes` asks.
  The run has `NoRestart` off: a server that is set not to restart stays in the round end, as it should.
* `Respawn(p)`: `server/hl2/hl2_player.cpp:732` runs the death think with the commands a client sends, each frame.
* `Frame` (of `ZMVote`): game time goes by, the vote controller thinks and the game system runs at the end of each frame.
* `FrameEnd`, `SpawnThinkStops`, `Income(p)`: the engine ends frames and runs scheduled thinks; income comes by an interval of the master's think.
* Strong fairness of `SpawnThinkCreates(s)`: the think repeats; that one of its tries finds a place is an
  assumption about the map, without which no zombie would ever have to appear. It is strong because the purse and
  the limit may close in between.

Nothing is assumed of what players or the map do.

## 4. Proofs

All theorems hold for every set of slots, entities and every value of the console variables that the
named assumptions allow (`RoundAssumption`: finitely many slots, at least one; `SpawnAssumption`,
`TrapAssumption`, `HordeAssumption`: natural costs and limits, finitely many entities; `VoteAssumption`: the delay of the execution is
shorter than that of the reset, as the bounds of its console variable make it; `ArmsAssumption`: each gun class has a clip of at
least one, boxes are not empty).

* **Office** (`SingleMaster`, `MasterInOffice`). `RunningRoundHasZM` and `AtMostOneZM` are not inductive:
  a free slot that kept team "zm" would make a master when it is taken again. `OfficeInv` adds the types and `FreeUnassigned`. Every step is then
  shown to be one of four *moves* (`StepMove`): quiet, ends, begins, stops; the rest of the argument looks only at moves.
* **Restart timer** (`TimerNeverLost`): in every round end the timer is set, and in no running round, whatever ended or began it
  (`RestartTimed`). This is the safety half of `NextRoundComes`: with it only the clock and the think are left to wait for.
* **Count** (`RoundCount`, `RoundLimitKept`): `CountInv` is preserved by each move.
* **Refinement** (`ImplementsOffice`): each move is a step of `ZMOffice` or a stutter (`OfficeMove`).
* **Fair pick** (`PickGoesRound`): a rank. The players *ahead* of a willing player p are those with a
  higher priority or p's own; a round that passes p over takes one of them to the back, so rounds waited and players ahead
  together stay below the number of slots (`Placed`). Priorities only grow together, so nobody gets ahead.
* **Survivors** (`DefeatIsTotal`, `LastDeathCounts`, `LastSurvivorCounts`, `NobodyComesLate`, in `ZMRoundEndProofs`): again by moves,
  now of the survivors: they stay, one joins late, dies, leaves or is promoted, or a round begins (`SurvivorStep`). Two facts
  strengthen `OfficeInv`: a loading client on the survivors' team is alive (`LoadingAlive`), or his spawn would bring a dead one back;
  and nobody has been paid while a round runs (`NotYetAwarded`).
* **Spawning** (`SpawnTypeCorrect`, `QueuesBounded`, `FullPrice`, `SpawnersKeepThinking`, `NobodyIsRobbed`): the types say
  that resources are never negative, which rests on the check before each payment (`RaisedPays`, `RaisedGives`); `FullPrice` and
  `NobodyIsRobbed` follow for each step from the types.
* **Population** (`PopulationIsSum`, `BoughtFit`, `PopulationNat`): to the horde a step does nothing, adds one zombie to it,
  or deletes a set of zombies (`HordeSteps`); `WeightKept`, `WeightCreated` and `WeightDeleted` say what each does to a sum of costs. That what is bought fits
  rests on the sum being exact (`Counted`): the check before a purchase asks the counter, and those bought are part of the horde it counts. The
  counter is declared as any integer; that it is never negative follows.
* **Traps** (`TrapTypeCorrect`, `ListsAreSafe`, `TriggersHaveTraps`, `TriggerLimit`, `EverythingHasItsPrice`): lists and handles
  must agree in both directions for either direction to survive a cleanup that deletes a trap and its triggers together.
* **Ambushes** (`HordeTypeCorrect`, `CountsAreExact`, `NobodyForgotten`, `AllReleased`): `AmbushCounted` speaks
  only of triggers that scan. A marked trigger is still left by the corpses of its zombies, and a free slot
  is used again, so `Kept` says for each state of a trigger what its count may be: no zombies for a free slot, no
  more than the count for a marked one. `LeaveCounts`, about one set of zombies leaving at once, is what every way out of
  an ambush rests on; `FreeIdle` keeps a new zombie from inheriting the ambush of its slot.
* **Votes** (`VoteTypeCorrect`, `TimersAgree`, `ImplementsBallot`, `BallotsCounted`, `MajorityPasses`): `TimersExclude` is inductive
  as it stands, and the refinement rests on it: while the execution waits no ballot is taken, so *passed* can only
  become *counted*. `BallotsAgree` needs `CountInv`, that an idle controller has no marks;
  each ballot adds one member to one of two disjoint finite sets. `MajorityPasses` is then a matter of the one step that counts.
* **Length of a vote** (`VotesRunOut`): what can be proved of `VoteEnds` without fairness. `FramesLeft` is a variant: a frame takes one from it
  (`FrameTakesOne`), and a late ballot, which may start a second count and a second reset, takes one slot from those that may vote, whose share in
  `FramesLeft` is one reset (`BallotGivesNothing`). With frames going by a vote therefore ends, after at most its time and one reset for each slot. It needs
  that a reset timer is never found ended (`ResetAhead`).
* **Arms** (`ArmsTypeCorrect`, `SlotsAreExact`, `ThrownIsThrown`): the slot flags agree with *owners*, not with lists, so
  `Owning` relates the two: a listed weapon is owned and the active one is listed (`OwnedLists`), a free entity slot is as new
  (`FreeIsNew`), and one who waits for the round owns nothing (`WaitingEmpty`), without which the loadout could give a second
  weapon for a slot. `BurningHeld` says that a bottle that burns is in the hand of its owner, from which `ThrownOnce` follows step by step.
  What a drop does is proved once (`LetGoTypes`, `LetGoOwns`, `LetGoKeeps`) and used by dropping, throwing and dying.
* **Ammunition** (`AmmunitionKept`): `RoundsKept` is not a consequence of the types: it needs `Pocketed`, that the reserve of a gun in
  somebody's hands, or of a free entity slot, is empty, or `LetGo` would overwrite rounds and a new weapon bring some along. Rounds are split into those in guns, in pockets and in boxes
  (`Loose`, `Pockets`, `Boxed`); a step changes at most one gun, one pocket and the boxes, or several guns of which none gains.
* **Sums** (`ZMTotalProofs`): `Total(f)` is the size of a finite set with f[x] units for each x. So the facts of the
  library about unions and products of finite sets say what a sum is of one thing, of two disjoint parts, and after a change at one
  argument (`TotalOne`, `TotalSplit`, `TotalChange`, `TotalMonotone`), without the induction over the set that the prover
  cannot do. TLC compares `Total` with the community modules' sum on all small functions (`TotalIsSum` in `MCSpawn`).

Model-checked only: liveness, that is everything under fairness (`NextRoundComes`, `DeadRoundEnds`, `OrdersServed`, `VoteEnds`),
which is out of this prover's reach; of `NextRoundComes` the timer's part is proved. Every invariant and every action property of the passing runs, and both refinements, are theorems. The types of `ZMVote`
are a theorem (`VoteTypeCorrect`) and in no run: the run's invariants bound every counter and timer.

## 5. Not modelled

Where a zombie is placed (spawn nodes, rally points), movement orders, paths, schedules and animation:
geometry. What physics explosions and barricades do: physics; an explosion's payment is in ZMSpawn.
Costs that the server changes in the middle of a round (`zmr_zombiebase.cpp:144` subtracts the cost of
the moment, so the count drifts then). Chat, models, voice, fun commands, spectating, client interface.
The counting triggers compare what stands in a volume with a fraction, once a second or on an input: their state is one switch, and what
matters is the geometry. The objectives are lines of text that the map or a file sets and clients show; no rule reads them. Of weapons, the pump after a shot, melee
swings, damage and recoil. Kick and map votes: the mod does not register them. A kick takes effect as a later
`Disconnect`. Wall-clock times are abstracted to the order of events, in ZMVote to half seconds.

## 6. Findings

* `UnhideResumes` (`spawn_unhide`): the spawner's handlers of Hide, Unhide and Toggle are never
  called; a queue that stopped while hidden is stuck after Unhide until something is queued. The traps' handlers of
  these inputs share the defect.
* `ActivateOnce` (`trap_once`): a trap with "Activate Once" fires once for each survivor in range when its trigger looks: `ScanThink` goes on
  with its loop, and the trap it has fired is marked for deletion but still answers. In the trace two survivors make one scan
  fire it twice.
* `FailureLocks` (`vote_late`): a ballot cast after the count but before the reset has the vote counted again, so that a vote that
  has just failed passes, while `sv_vote_failure_timer` says that a failed vote cannot even be submitted again. By the same way a vote that
  passed may be executed a second time. Nor is the number of voters expected corrected when clients come or go, so
  a vote may close before everyone present has been able to answer.
* `EmptyMayPickUp` (`arms_refuse`): a gun that loads round by round whose reload was interrupted by a shot, or that lost its
  reserve before the first round went in, counts as reloading until it is holstered or loaded: its owner,
  out of ammunition, is refused any ("Don't allow ammo pickup when reloading").

## 7. Plan

Done: all modules of section 2 and the proofs of section 4. What is left, in the order of its worth:

1. Costs changed in a round (`zm_sv_popcost_*`), as a variable of ZMSpawn, with the drift as a finding.
2. The objectives manager and the counting triggers, the latter composed with the teams of ZMRound
   (`trigger_playercount` counts the dead in the team's size).
3. Spawn nodes as entities of their own (raw pointers that outlive a removed node).
4. A composition of ZMArms with ZMRound, in place of the three values of `life`.
