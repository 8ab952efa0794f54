------------------------------- MODULE ZMTrap -------------------------------
(***************************************************************************)
(* Traps: the map's info_manipulate entities, which the Zombie Master can  *)
(* press, and the triggers he puts down to have survivors press them       *)
(* (server/zmr/zmr_entities.cpp).                                          *)
(*                                                                         *)
(* A trap keeps raw pointers to its triggers, a trigger a handle of its    *)
(* trap.  UTIL_Remove only marks an entity: it still answers commands and  *)
(* thinks until the delete list is cleaned up, which the engine does       *)
(* before and after the thinks of a frame (GameFrame).                     *)
(***************************************************************************)
EXTENDS Integers, FiniteSets

CONSTANTS
  Traps,           \* the map's info_manipulate entities
  Triggers,        \* entity slots triggers can have
  MapActive,       \* their key value "Active"
  RemoveOnTrigger, \* their key value "Activate Once"
  Cost,            \* their cost to press
  TrapCost,        \* their cost of a trigger
  MaxTriggers,     \* zm_sv_maxtraptriggers
  Survivors,       \* how many living survivors can be in range of a trigger
  ResBound,        \* bound: the master earns no more than that
  FiredBound,      \* bound: firings are counted up to that
  NoTrap           \* owner of a free slot

ASSUME TrapAssumption ==
  /\ NoTrap \notin Traps
  /\ IsFiniteSet(Triggers)
  /\ MapActive \in [Traps -> BOOLEAN] /\ RemoveOnTrigger \in [Traps -> BOOLEAN]
  /\ Cost \in [Traps -> Nat] /\ TrapCost \in [Traps -> Nat]
  /\ MaxTriggers \in Nat /\ Survivors \in Nat /\ ResBound \in Nat /\ FiredBound \in Nat

VARIABLES
  phase,   \* "commands" between the frames, "frame" while entities think
  trap,    \* the trap entity: "there", "doomed" (marked for deletion), "gone"
  active,  \* m_bActive
  list,    \* m_vTriggers
  trigger, \* the trigger entity: "free" slot, "there", "doomed", or "spent":
           \* doomed and has done its last think
  owner,   \* GetOwnerEntity() of the trigger
  res,     \* resources of the master
  fired    \* history: firings of m_OnPressed of this trap entity

vars == <<phase, trap, active, list, trigger, owner, res, fired>>

Existing(t) == trap[t] # "gone"
Taken == {g \in Triggers : trigger[g] # "free"}

-----------------------------------------------------------------------------
(* Removing triggers and traps *)

\* UTIL_Remove of a trigger: a marked one stays as it is.
Doomed(state) == IF state = "there" THEN "doomed" ELSE state

\* The triggers after RemoveTriggers of trap t.
Removed(t) == [g \in Triggers |-> IF g \in list[t] THEN Doomed(trigger[g]) ELSE trigger[g]]

\* Mutant: the destructor of a trigger does not tell its trap.
ForgetOnlyDoomed(S) == list' = [t \in Traps |-> IF trap[t] = "doomed" THEN {} ELSE list[t]]

\* The destructors: a trap lets go of its triggers, a trigger leaves its trap's list.
Forget(S) == list' = [t \in Traps |-> IF trap[t] = "doomed" THEN {} ELSE list[t] \ S]

\* Triggers whose deletion is due: the marked ones, and those whose trap is deleted
\* (the destructor of a trap marks its triggers in the middle of the cleanup).
Due == {g \in Taken : \/ trigger[g] \in {"doomed", "spent"}
                      \/ \E t \in Traps : trap[t] = "doomed" /\ g \in list[t]}

\* CleanupDeleteList.
Cleanup ==
  /\ Forget(Due)
  /\ trap' = [t \in Traps |-> IF trap[t] = "doomed" THEN "gone" ELSE trap[t]]
  /\ trigger' = [g \in Triggers |-> IF g \in Due THEN "free" ELSE trigger[g]]
  /\ owner' = [g \in Triggers |-> IF g \in Due THEN NoTrap ELSE owner[g]]
  /\ UNCHANGED <<active, res, fired>>

\* GameFrame begins: what the commands removed is deleted before anything thinks.
FrameBegins == phase = "commands" /\ phase' = "frame" /\ Cleanup

\* GameFrame ends: what the thinks removed is deleted.
FrameEnds == phase = "frame" /\ phase' = "commands" /\ Cleanup

-----------------------------------------------------------------------------
(* Firing *)

Counted(n) == IF n > FiredBound THEN FiredBound ELSE n

\* The active trap t fires n times: m_OnPressed, RemoveTriggers, and the trap itself
\* is removed if it is to activate once.
Fire(t, n) ==
  /\ fired' = [fired EXCEPT ![t] = Counted(@ + n)]
  /\ list' = [list EXCEPT ![t] = {}]
  /\ trap' = [trap EXCEPT ![t] = IF RemoveOnTrigger[t] THEN "doomed" ELSE @]

\* Mutants: nobody checks what the master has, and a debt is cut or not.
PaysAnyway(price) == res' = IF res < price THEN 0 ELSE res - price
PaysDebt(price) == res' = res - price

\* HasEnoughRes, IncResources( -price ).
Pays(price) == res >= price /\ res' = res - price

\* ZM_Cmd_Trigger: the master presses an active trap.
Press(t) ==
  /\ phase = "commands" /\ Existing(t) /\ active[t]
  /\ Pays(Cost[t])
  /\ Fire(t, 1)
  /\ trigger' = Removed(t)
  /\ UNCHANGED <<phase, active, owner>>

\* The map's input Press.
InputPress(t) ==
  /\ phase = "frame" /\ Existing(t) /\ active[t]
  /\ Fire(t, 1)
  /\ trigger' = Removed(t)
  /\ UNCHANGED <<phase, active, owner, res>>

\* ScanThink of a trigger with n > 0 living survivors in range: the loop goes on
\* after the first, and the trap and the trigger, marked or not, answer each time.
\* A trigger without trap, or with nobody in range, only thinks again: no change.
Scan(g, n) ==
  LET t == owner[g]
  IN  /\ phase = "frame" /\ trigger[g] \in {"there", "doomed"}
      /\ t \in Traps /\ Existing(t)
      /\ IF active[t]
         THEN Fire(t, n) /\ trigger' = [Removed(t) EXCEPT ![g] = "spent"]
         ELSE trigger' = [trigger EXCEPT ![g] = "spent"] /\ UNCHANGED <<fired, list, trap>>
      /\ UNCHANGED <<phase, active, owner, res>>

-----------------------------------------------------------------------------
(* Triggers, inputs, money and rounds *)

\* Mutant: the limit allows for one more.
HasRoomForMore(t) == Cardinality(list[t]) <= MaxTriggers

HasRoom(t) == Cardinality(list[t]) < MaxTriggers

\* Mutant: the owner is set when the trigger has been listed nowhere.
Unlisted(t, g) == owner' = [owner EXCEPT ![g] = t] /\ UNCHANGED list

\* CreateTrigger's SetOwnerEntity and AddToTail.
Link(t, g) ==
  /\ owner' = [owner EXCEPT ![g] = t]
  /\ list' = [list EXCEPT ![t] = @ \cup {g}]

\* ZM_Cmd_CreateTrigger, of a hidden trap too.
CreateTrigger(t) ==
  /\ phase = "commands" /\ Existing(t)
  /\ HasRoom(t)
  /\ Pays(TrapCost[t])
  /\ \E g \in Triggers \ Taken : Link(t, g) /\ trigger' = [trigger EXCEPT ![g] = "there"]
  /\ UNCHANGED <<phase, trap, active, fired>>

\* The map's inputs Toggle, Hide and Unhide.  The engine calls the handlers of
\* CZMEntBaseUsable: those of the trap, which would remove the triggers, are not
\* virtual and not in its data description.
Switch(t) ==
  /\ phase = "frame" /\ Existing(t)
  /\ active' = [active EXCEPT ![t] = ~@]
  /\ UNCHANGED <<phase, trap, list, trigger, owner, res, fired>>

\* The map removes a trap (input Kill).
Kill(t) ==
  /\ phase = "frame" /\ trap[t] = "there"
  /\ trap' = [trap EXCEPT ![t] = "doomed"]
  /\ UNCHANGED <<phase, active, list, trigger, owner, res, fired>>

\* The master gets resources (module ZMSpawn).
Earn ==
  /\ phase = "frame" /\ res < ResBound
  /\ res' = res + 1
  /\ UNCHANGED <<phase, trap, active, list, trigger, owner, fired>>

Fresh(value) ==
  /\ trap' = [t \in Traps |-> "there"]
  /\ active' = MapActive
  /\ list' = [t \in Traps |-> {}]
  /\ trigger' = [g \in Triggers |-> "free"]
  /\ owner' = [g \in Triggers |-> NoTrap]
  /\ fired' = [t \in Traps |-> 0]
  /\ res' = value

\* RestoreMap deletes all entities and recreates those of the map; the next round
\* begins with the initial resources.
NewRound == phase = "frame" /\ Fresh(ResBound) /\ UNCHANGED phase

-----------------------------------------------------------------------------
(* The specification *)

Init ==
  /\ phase = "commands"
  /\ trap = [t \in Traps |-> "there"]
  /\ active = MapActive
  /\ list = [t \in Traps |-> {}]
  /\ trigger = [g \in Triggers |-> "free"]
  /\ owner = [g \in Triggers |-> NoTrap]
  /\ res = ResBound
  /\ fired = [t \in Traps |-> 0]

TrapNext(t) ==
  Press(t) \/ InputPress(t) \/ CreateTrigger(t) \/ Switch(t) \/ Kill(t)

Next ==
  \/ \E t \in Traps : TrapNext(t)
  \/ \E g \in Triggers, n \in 1..Survivors : Scan(g, n)
  \/ FrameBegins \/ FrameEnds \/ Earn \/ NewRound

Spec == Init /\ [][Next]_vars

-----------------------------------------------------------------------------
(* Invariants *)

TypeOK ==
  /\ phase \in {"commands", "frame"}
  /\ trap \in [Traps -> {"there", "doomed", "gone"}]
  /\ active \in [Traps -> BOOLEAN]
  /\ list \in [Traps -> SUBSET Triggers]
  /\ trigger \in [Triggers -> {"free", "there", "doomed", "spent"}]
  /\ owner \in [Triggers -> Traps \cup {NoTrap}]
  /\ res \in Nat
  /\ fired \in [Traps -> Nat]

\* The raw pointers in a trap's list are never left dangling: they point to trigger
\* entities that exist and are its own, whatever fires, is removed and is deleted in
\* whatever order within a frame.
NoDanglingTrigger ==
  \A t \in Traps : \A g \in list[t] : Existing(t) /\ trigger[g] # "free" /\ owner[g] = t

\* A trigger that is to think again belongs to a trap that knows it: removing or
\* firing the trap leaves no trigger behind that would scan for nothing for ever.
NoOrphanTrigger ==
  \A g \in Triggers : trigger[g] = "there" =>
    owner[g] \in Traps /\ Existing(owner[g]) /\ g \in list[owner[g]]

\* A trap has at most as many triggers as the server allows.
TriggersLimited == \A t \in Traps : Cardinality(list[t]) <= MaxTriggers

-----------------------------------------------------------------------------
(* Action properties *)

\* The master gets nothing for free: a press that fires the trap and a trigger that
\* is put down cost exactly their price.
NothingForFree ==
  [][/\ \A t \in Traps : phase = "commands" /\ fired'[t] > fired[t] => res' = res - Cost[t]
     /\ \A t \in Traps : list'[t] \ list[t] # {} => res' = res - TrapCost[t]]_vars

\* What the mapper's manual promises of a trap that is to "Activate Once", of a single
\* look of its trigger: it fires once, however many survivors stand in range.  The code
\* violates it: ScanThink goes on with its loop, and the marked trap answers each time.
ActivateOnce ==
  [][\A t \in Traps : RemoveOnTrigger[t] => fired'[t] <= fired[t] + 1]_vars
=============================================================================
