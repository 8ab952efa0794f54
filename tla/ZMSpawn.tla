------------------------------ MODULE ZMSpawn ------------------------------
(***************************************************************************)
(* The horde's economy: the Zombie Master's resources, the queues of the   *)
(* zombie spawners (info_zombiespawn, server/zmr/zmr_entities.cpp), the    *)
(* zombies and the population count that limits them.                      *)
(*                                                                         *)
(* One action is one callback: a console command of a player, a think of a *)
(* spawner, an input fired by the map, a death, the end of a frame.  Who   *)
(* is the master is decided by ZMRound; here the office only moves.        *)
(***************************************************************************)
EXTENDS Integers, Sequences, FiniteSets, ZMTotal

CONSTANTS
  Players,     \* client slots (entity indices of players)
  Hosts,       \* slots whose commands count as issued by the server's admin
  Spawners,    \* the map's info_zombiespawn entities
  MapActive,   \* their key value "Active"
  CanSpawn,    \* the classes each of them may spawn (zombieflags)
  Zombies,     \* entity slots zombies can have
  Classes,     \* zombie classes
  Shambler,    \* the class hidden zombies have
  Cost,        \* zm_sv_cost_*
  PopCost,     \* zm_sv_popcost_*
  HiddenCost,  \* zm_sv_cost_hiddenshambler
  PhysExpCost, \* zm_sv_physexp_cost
  QueueCap,    \* capacity of a spawn queue: 10 in the code
  PopMax,      \* zm_sv_zombiemax
  ResInit,     \* zm_sv_resource_init
  ResMax,      \* zm_sv_resource_max
  Refills,     \* what one interval of income can bring
  Rewards,     \* zm_sv_reward_zombiekill, zm_sv_reward_kill
  Grants,      \* values of func_giveresources inputs, negative to take
  ResBound,    \* bound: nothing is given to a master who has that much
  Nobody       \* no player, no class

ASSUME SpawnAssumption ==
  /\ Hosts \subseteq Players /\ Nobody \notin Players
  /\ MapActive \in [Spawners -> BOOLEAN]
  /\ CanSpawn \in [Spawners -> SUBSET Classes]
  /\ Shambler \in Classes /\ Nobody \notin Classes
  /\ Cost \in [Classes -> Nat] /\ PopCost \in [Classes -> Nat] /\ HiddenCost \in Nat
  /\ PhysExpCost \in Nat
  /\ QueueCap \in Nat \ {0} /\ PopMax \in Nat
  /\ ResInit \in Nat /\ ResMax \in Nat /\ ResBound \in Nat
  /\ Refills \subseteq Nat /\ Rewards \subseteq Nat /\ Grants \subseteq Int
  /\ IsFiniteSet(Zombies)

VARIABLES
  present,  \* slots that have a player entity
  master,   \* the slot that is the Zombie Master, or Nobody
  res,      \* m_nResources of the players
  active,   \* m_bActive of the spawners
  queue,    \* m_vSpawnQueue: what to spawn and the index of who ordered it
  armed,    \* is a SpawnThink scheduled?
  class,    \* class of the zombie in an entity slot, Nobody in a free slot
  bought,   \* history: zombies that came out of a queue or were hidden
  doomed,   \* zombies marked for deletion at the end of the frame
  pop       \* m_nZombiePop

playerVars  == <<present, master, res>>
spawnerVars == <<active, queue, armed>>
zombieVars  == <<class, bought, doomed, pop>>
vars == <<present, master, res, active, queue, armed, class, bought, doomed, pop>>

Orders  == [class : Classes, by : Players]
Horde   == {z \in Zombies : class[z] # Nobody}   \* g_pZombies
Free    == Zombies \ Horde
Weight(S) == Total([z \in S |-> PopCost[class[z]]])

-----------------------------------------------------------------------------
(* Resources *)

\* Mutant: a price above what the player has leaves a debt.
SetDebt(n) == n

\* SetResources.
Clamped(n) == IF n < 0 THEN 0 ELSE n

\* Mutant: the limit cuts to the maximum also what exceeded it before.
RaisedCut(r, n, limit) ==
  Clamped(IF limit /\ r + n > ResMax THEN ResMax ELSE r + n)

\* IncResources: under the limit nothing lifts a player above the maximum, and
\* one who is above it keeps what he has.
Raised(r, n, limit) ==
  IF limit /\ r + n > ResMax
  THEN IF r < ResMax THEN ResMax ELSE r
  ELSE Clamped(r + n)

\* Mutant: nobody checks the price.
HasEnoughResAlways(p, n) == TRUE

HasEnoughRes(p, n) == res[p] >= n

\* The interval of income of the master has passed (PlayerThink).
Income(p) ==
  /\ p = master /\ res[p] < ResMax
  /\ \E n \in Refills : res' = [res EXCEPT ![p] = Raised(res[p], n, TRUE)]
  /\ UNCHANGED <<present, master>> /\ UNCHANGED <<spawnerVars, zombieVars>>

\* RewardResources: every master gets them.
RewardResources(n, limit) ==
  /\ master # Nobody /\ (n > 0 => res[master] < ResBound)
  /\ res' = [res EXCEPT ![master] = Raised(res[master], n, limit)]
  /\ UNCHANGED <<present, master>> /\ UNCHANGED <<spawnerVars, zombieVars>>

\* A survivor dies: killed by a zombie or otherwise.
SurvivorKilled == \E n \in Rewards : RewardResources(n, FALSE)

\* The map's func_giveresources, with or without "Limit To Max".
GiveResources == \E n \in Grants, limit \in BOOLEAN : RewardResources(n, limit)

-----------------------------------------------------------------------------
(* Spawners *)

\* Mutant: an order of several units is queued whole.
QueuedWhole(q, order, n) == q \o [i \in 1..n |-> order]

\* The queue after an order of n units: what does not fit is dropped.
Queued(q, order, n) ==
  q \o [i \in 1 .. (IF n > QueueCap - Len(q) THEN QueueCap - Len(q) ELSE n) |-> order]

\* ZM_Cmd_Queue, QueueUnit (active or not: the spawner starts to think).
QueueUnit(p, s, c, n) ==
  /\ p \in present /\ p = master
  /\ Len(queue[s]) < QueueCap
  /\ c \in CanSpawn[s]
  /\ queue' = [queue EXCEPT ![s] = Queued(@, [class |-> c, by |-> p], n)]
  /\ armed' = [armed EXCEPT ![s] = TRUE]
  /\ UNCHANGED active /\ UNCHANGED <<playerVars, zombieVars>>

\* What QueueClear leaves (positions from 1; 0 stands for "last", as the command
\* passes it, and amounts below 1 for everything from there).
Cleared(q, amount, pos) ==
  LET first == IF pos < 1 \/ pos > Len(q) THEN Len(q) ELSE pos
      last  == IF amount < 1 \/ first + amount - 1 > Len(q) THEN Len(q)
               ELSE first + amount - 1
  IN  SubSeq(q, 1, first - 1) \o SubSeq(q, last + 1, Len(q))

\* ZM_Cmd_QueueClear, QueueClear.
QueueClear(p, s, amount, pos) ==
  /\ p \in present /\ p = master
  /\ queue[s] # <<>>
  /\ queue' = [queue EXCEPT ![s] = Cleared(@, amount, pos)]
  /\ UNCHANGED <<active, armed>> /\ UNCHANGED <<playerVars, zombieVars>>

\* The map's inputs Toggle, Hide and Unhide.  The engine calls the handlers of
\* CZMEntBaseUsable: those of the spawner, which would start and stop the think,
\* are not virtual and not in its data description.
Switch(s, on) ==
  /\ active' = [active EXCEPT ![s] = on]
  /\ UNCHANGED <<queue, armed>> /\ UNCHANGED <<playerVars, zombieVars>>

Toggle(s) == Switch(s, ~active[s])
Hide(s)   == active[s] /\ Switch(s, FALSE)
Unhide(s) == ~active[s] /\ Switch(s, TRUE)

\* Mutant: the limit is checked before the new zombie counts.
HasEnoughPopBefore(c) == pop <= PopMax

HasEnoughPopToSpawn(c) == pop + PopCost[c] <= PopMax

\* Mutant: the think that creates a zombie is the last one.
IdleAfter(s) == armed' = [armed EXCEPT ![s] = FALSE]

\* SetNextSpawnThink at the end of SpawnThink.
Rearm(s) == armed' = [armed EXCEPT ![s] = TRUE]

\* The head of the queue can be had: its orderer is gone or can pay, and there
\* is room for it.
Affordable(s) ==
  LET order == Head(queue[s])
  IN  /\ order.by \in present => HasEnoughRes(order.by, Cost[order.class])
      /\ HasEnoughPopToSpawn(order.class)

\* The entity is created: its class' constructor counts it.
Create(z, c) ==
  /\ z \in Free
  /\ class' = [class EXCEPT ![z] = c]
  /\ pop' = pop + PopCost[c]

\* SpawnThink with nothing to do.
SpawnThinkStops(s) ==
  /\ armed[s] /\ (queue[s] = <<>> \/ ~active[s])
  /\ armed' = [armed EXCEPT ![s] = FALSE]
  /\ UNCHANGED <<active, queue>> /\ UNCHANGED <<playerVars, zombieVars>>

\* SpawnThink that creates the zombie and charges whoever has the orderer's slot.
SpawnThinkCreates(s) ==
  LET order == Head(queue[s])
  IN  /\ armed[s] /\ queue[s] # <<>> /\ active[s] /\ Affordable(s)
      /\ \E z \in Zombies : Create(z, order.class) /\ bought' = bought \cup {z}
      /\ queue' = [queue EXCEPT ![s] = Tail(@)]
      /\ res' = IF order.by \in present
                THEN [res EXCEPT ![order.by] = Raised(@, -Cost[order.class], FALSE)]
                ELSE res
      /\ Rearm(s)
      /\ UNCHANGED <<present, master, active, doomed>>

\* SpawnThink that finds no place for the new entity.  (One that cannot pay or
\* has no entity slot only thinks again: no change.)
SpawnThinkFails(s) ==
  /\ armed[s] /\ queue[s] # <<>> /\ active[s] /\ Affordable(s)
  /\ \E z \in Zombies : Create(z, Head(queue[s]).class) /\ doomed' = doomed \cup {z}
  /\ Rearm(s)
  /\ UNCHANGED <<active, queue, bought>> /\ UNCHANGED playerVars

-----------------------------------------------------------------------------
(* Zombies *)

\* ZM_Cmd_CreateHidden where no survivor sees it; ok: is the spot valid?
CreateHidden(p, ok) ==
  /\ p \in present /\ (p = master \/ p \in Hosts)
  /\ HasEnoughPopToSpawn(Shambler) /\ HasEnoughRes(p, HiddenCost)
  /\ \E z \in Zombies :
       /\ Create(z, Shambler)
       /\ IF ok THEN bought' = bought \cup {z} /\ UNCHANGED doomed
                ELSE doomed' = doomed \cup {z} /\ UNCHANGED bought
  /\ res' = IF ok THEN [res EXCEPT ![p] = Raised(@, -HiddenCost, FALSE)] ELSE res
  /\ UNCHANGED <<present, master>> /\ UNCHANGED spawnerVars

\* ZM_Cmd_PhysExp at a spot that is neither solid nor blocked: an explosion is set
\* up, which is paid last.
PhysExp(p) ==
  /\ p \in present /\ p = master
  /\ HasEnoughRes(p, PhysExpCost)
  /\ res' = [res EXCEPT ![p] = Raised(@, -PhysExpCost, FALSE)]
  /\ UNCHANGED <<present, master>> /\ UNCHANGED <<spawnerVars, zombieVars>>

\* The map places a zombie (template, maker): no limit is asked.
MapZombie(c) ==
  /\ \E z \in Zombies : Create(z, c)
  /\ UNCHANGED <<bought, doomed>> /\ UNCHANGED <<playerVars, spawnerVars>>

\* A zombie dies and fades, or is removed by an admin or the map.
ZombieGone(z) ==
  /\ z \in Horde \ doomed
  /\ doomed' = doomed \cup {z}
  /\ UNCHANGED <<class, bought, pop>> /\ UNCHANGED <<playerVars, spawnerVars>>

\* Mutant: only zombies that had been placed are taken off the count.
DeletePlaced(S) ==
  /\ class' = [z \in Zombies |-> IF z \in S THEN Nobody ELSE class[z]]
  /\ bought' = bought \ S
  /\ doomed' = doomed \ S
  /\ pop' = pop - Weight(S \cap bought)

\* Deletion of a set of entities: each destructor takes its cost off the count.
Delete(S) ==
  /\ class' = [z \in Zombies |-> IF z \in S THEN Nobody ELSE class[z]]
  /\ bought' = bought \ S
  /\ doomed' = doomed \ S
  /\ pop' = pop - Weight(S)

\* The end of a frame (CleanupDeleteList).
FrameEnd ==
  /\ doomed # {}
  /\ Delete(doomed)
  /\ UNCHANGED <<playerVars, spawnerVars>>

-----------------------------------------------------------------------------
(* Players and rounds *)

\* A client's player entity is created: its constructor gives it nothing.
Join(p) ==
  /\ p \notin present
  /\ present' = present \cup {p}
  /\ res' = [res EXCEPT ![p] = 0]
  /\ UNCHANGED master /\ UNCHANGED <<spawnerVars, zombieVars>>

Leave(p) ==
  /\ p \in present
  /\ present' = present \ {p}
  /\ master' = IF p = master THEN Nobody ELSE master
  /\ UNCHANGED res /\ UNCHANGED <<spawnerVars, zombieVars>>

\* The master becomes a spectator or a survivor, without a successor.
Resign(p) ==
  /\ p \in present /\ p = master
  /\ master' = Nobody
  /\ UNCHANGED <<present, res>> /\ UNCHANGED <<spawnerVars, zombieVars>>

\* The rules give the office to another player within a round.
Handover(p) ==
  /\ p \in present /\ p # master
  /\ master' = p
  /\ UNCHANGED <<present, res>> /\ UNCHANGED <<spawnerVars, zombieVars>>

\* The constructor and Spawn of the recreated spawners.
FreshQueues ==
  /\ queue' = [s \in Spawners |-> <<>>]
  /\ armed' = [s \in Spawners |-> FALSE]

\* ResetWorld: RestoreMap deletes every entity but the players and recreates the
\* map's, then BeginRound gives everybody the initial resources and one the office.
NewRound ==
  /\ Delete(Horde)
  /\ active' = MapActive
  /\ FreshQueues
  /\ master' \in present \cup {Nobody}
  /\ res' = [p \in Players |-> IF p \in present THEN ResInit ELSE res[p]]
  /\ UNCHANGED present

-----------------------------------------------------------------------------
(* The specification *)

Init ==
  /\ present = {} /\ master = Nobody
  /\ res = [p \in Players |-> 0]
  /\ active = MapActive
  /\ queue = [s \in Spawners |-> <<>>]
  /\ armed = [s \in Spawners |-> FALSE]
  /\ class = [z \in Zombies |-> Nobody]
  /\ bought = {} /\ doomed = {} /\ pop = 0

SpawnerNext(s) ==
  \/ \E p \in Players, c \in Classes, n \in 1..QueueCap + 1 : QueueUnit(p, s, c, n)
  \/ \E p \in Players, amount, pos \in 0..QueueCap + 1 : QueueClear(p, s, amount, pos)
  \/ Toggle(s) \/ Hide(s) \/ Unhide(s)
  \/ SpawnThinkStops(s) \/ SpawnThinkCreates(s) \/ SpawnThinkFails(s)

PlayerNext(p) ==
  \/ Join(p) \/ Leave(p) \/ Resign(p) \/ Handover(p) \/ Income(p) \/ PhysExp(p)
  \/ \E ok \in BOOLEAN : CreateHidden(p, ok)

Next ==
  \/ \E s \in Spawners : SpawnerNext(s)
  \/ \E p \in Players : PlayerNext(p)
  \/ \E c \in Classes : MapZombie(c)
  \/ \E z \in Zombies : ZombieGone(z)
  \/ SurvivorKilled \/ GiveResources \/ FrameEnd \/ NewRound

Spec == Init /\ [][Next]_vars

-----------------------------------------------------------------------------
(* Invariants *)

\* The types; that of pop follows from PopIsSum.
TypeOK ==
  /\ present \in SUBSET Players
  /\ master \in present \cup {Nobody}
  /\ res \in [Players -> Nat]
  /\ active \in [Spawners -> BOOLEAN]
  /\ queue \in [Spawners -> Seq(Orders)]
  /\ armed \in [Spawners -> BOOLEAN]
  /\ class \in [Zombies -> Classes \cup {Nobody}]
  /\ bought \in SUBSET Horde
  /\ doomed \in SUBSET Horde

\* No spawner has more units queued than its menu shows, whatever amounts the
\* master orders when.
QueueBounded == \A s \in Spawners : Len(queue[s]) <= QueueCap

\* The population count is what the existing zombies cost, those included that
\* found no place and wait for their deletion: created, killed, removed, deleted
\* by a restart, each is counted up and down once.
PopIsSum == pop = Weight(Horde)

\* All the zombies a master has bought fit into the limit together, although
\* several spawners think, hidden ones come between, the map adds its own
\* without asking, and failed ones inflate the count for a while.
BoughtWithinLimit == Weight(bought) <= PopMax

\* A spawner that is switched on and has units queued is thinking: the handler
\* CZMEntZombieSpawn::InputUnhide says StartSpawning().  The code violates it.
UnhideResumes == \A s \in Spawners : active[s] /\ queue[s] # <<>> => armed[s]

-----------------------------------------------------------------------------
(* Action properties *)

\* A zombie that comes out of a queue costs the one who ordered it its whole
\* price, never less because his resources were gone in the meantime, unless his
\* slot is empty; one that is hidden costs its creator the whole price.
PaidInFull ==
  [][bought' \ bought # {} =>
       \/ \E s \in Spawners :
            LET order == Head(queue[s])
            IN  /\ queue[s] # <<>> /\ queue'[s] = Tail(queue[s])
                /\ IF order.by \in present
                   THEN res' = [res EXCEPT ![order.by] = @ - Cost[order.class]]
                   ELSE res' = res
       \/ \E p \in present : res' = [res EXCEPT ![p] = @ - HiddenCost]]_vars

\* Nobody loses resources but by a purchase at its price, when the map takes them from the
\* master, or with the new round: no gift and no income, limited or not, cuts a
\* stash that rewards have lifted above the maximum.
NothingLost ==
  [][\A p \in present \cap present' : res'[p] < res[p] =>
       \/ bought' \ bought # {}
       \/ p = master /\ res'[p] = res[p] - PhysExpCost
       \/ p = master /\ \E n \in Grants : n < 0 /\ res'[p] = Clamped(res[p] + n)
       \/ Horde' = {} /\ res'[p] = ResInit]_vars

\* A spawner stops to think only when it has nothing queued or is switched off.
ThinkKept ==
  [][\A s \in Spawners :
       armed[s] /\ ~armed'[s] => queue'[s] = <<>> \/ ~active[s]]_vars

-----------------------------------------------------------------------------
(* Liveness *)

\* Scheduled thinks happen and frames end; the master's income comes at its
\* intervals; and a spawner that keeps trying finds a place at last.
Fairness ==
  /\ WF_vars(FrameEnd)
  /\ \A p \in Players : WF_vars(Income(p))
  /\ \A s \in Spawners : WF_vars(SpawnThinkStops(s)) /\ SF_vars(SpawnThinkCreates(s))

FairSpec == Spec /\ Fairness

\* What holds up the head of the queue of a spawner other than a lack of money.
HeldUp(s) ==
  \/ ~active[s] \/ Free = {}
  \/ ~HasEnoughPopToSpawn(Head(queue[s]).class)
  \/ Head(queue[s]).by \in present \ {master}

\* The units a thinking spawner has queued come out in the end, or are cleared,
\* unless the spawner is switched off, the population is full, or the orderer is
\* still in the game without being the master (no income pays for his order).
OrdersServed ==
  \A s \in Spawners : armed[s] /\ queue[s] # <<>> ~> queue[s] = <<>> \/ HeldUp(s)
=============================================================================
