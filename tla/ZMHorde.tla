------------------------------- MODULE ZMHorde -------------------------------
(***************************************************************************)
(* The master's hold over his zombies: selection, modes, ambushes and the  *)
(* ceiling order (server/zmr/zmr_zm_commands.cpp), with the zombies        *)
(* (server/zmr/npcs/zmr_zombiebase.cpp) and the ambush triggers            *)
(* (server/zmr/zmr_entities.cpp).                                          *)
(*                                                                         *)
(* A zombie has a handle of its ambush trigger, which reads as null once   *)
(* the trigger is deleted; the trigger only counts its zombies.  Commands  *)
(* run between the frames; the delete list is cleaned up before and after  *)
(* the thinks of a frame.                                                  *)
(***************************************************************************)
EXTENDS Integers, FiniteSets

CONSTANTS
  Players,   \* client slots
  Zombies,   \* entity slots zombies can have
  Banshees,  \* those among them that banshees have
  Triggers,  \* entity slots ambush triggers can have
  Nobody,    \* no player
  NoTrigger  \* the null handle

ASSUME HordeAssumption ==
  /\ Nobody \notin Players /\ NoTrigger \notin Triggers
  /\ Banshees \subseteq Zombies
  /\ IsFiniteSet(Zombies)

VARIABLES
  phase,    \* "commands" between the frames, "frame" while entities think
  present,  \* slots that have a player entity
  master,   \* the slot that is the Zombie Master, or Nobody
  zombie,   \* "free" slot, "alive", "dead" (it is fading), or "leaving":
            \* alive, but marked for deletion
  selector, \* m_iSelectorIndex
  mode,     \* m_iMode
  handle,   \* m_hAmbushEnt
  ceiling,  \* zombies that follow an order to jump to and cling on the ceiling
  trigger,  \* the ambush trigger: "free" slot, "there", or "doomed" (marked)
  count     \* m_nAmbushZombies

playerVars == <<present, master>>
zombieVars == <<zombie, selector, mode, handle, ceiling>>
vars == <<phase, present, master, zombie, selector, mode, handle, ceiling, trigger, count>>

Modes == {"offensive", "defend", "ambush"}

Horde     == {z \in Zombies : zombie[z] # "free"}   \* g_pZombies
Living    == {z \in Zombies : zombie[z] \in {"alive", "leaving"}}
Waiting(t) == {z \in Zombies : handle[z] = t}

\* GetSelector() is the player in the slot the zombie remembers.
Selected(p) == {z \in Horde : selector[z] = p}

\* What a console command of the Zombie Master asks first.
Commands(p) == phase = "commands" /\ p \in present /\ p = master

-----------------------------------------------------------------------------
(* Ambushes *)

\* What remains of the counts when the zombies of S leave their ambushes.
Left(S) == [t \in Triggers |-> count[t] - Cardinality(S \cap Waiting(t))]

\* RemoveZombieFromAmbush: a trigger whose count comes to zero is removed.
Emptied(S) ==
  {t \in Triggers : trigger[t] = "there" /\ S \cap Waiting(t) # {} /\ Left(S)[t] <= 0}

Without(T) == [t \in Triggers |-> IF t \in T THEN "doomed" ELSE trigger[t]]

\* Mutant: the mode changes and the ambush remains.
ModeOnly(S, m) ==
  /\ mode' = [z \in Zombies |-> IF z \in S THEN m ELSE mode[z]]
  /\ UNCHANGED <<handle, trigger, count>>

\* SetZombieMode of the zombies of S: any mode but ambush takes them out of theirs.
SetZombieMode(S, m) ==
  /\ mode' = [z \in Zombies |-> IF z \in S THEN m ELSE mode[z]]
  /\ IF m = "ambush"
     THEN UNCHANGED <<handle, trigger, count>>
     ELSE /\ handle' = [z \in Zombies |-> IF z \in S THEN NoTrigger ELSE handle[z]]
          /\ count' = Left(S) /\ trigger' = Without(Emptied(S))

\* ZM_Cmd_SetZombieMode.
ZombieMode(p, m) ==
  /\ Commands(p)
  /\ SetZombieMode(Selected(p), m)
  /\ UNCHANGED <<phase, zombie, selector, ceiling>> /\ UNCHANGED playerVars

\* Mutant: only living zombies are counted.
CountedAlive(S) == Cardinality(S \cap Living)

\* The argument of SetAmbushZombies: corpses that were selected count, too.
Counted(S) == Cardinality(S)

\* Mutant: a zombie is taken out of its ambush when it has been put into the new one,
\* whose count is still zero.
EnterLate(S, t) ==
  /\ count' = [count EXCEPT ![t] = Counted(S)]
  /\ trigger' = [trigger EXCEPT ![t] = "doomed"]

\* The triggers when the zombies of S go from their ambushes to the new one of t.
Enter(S, t) ==
  /\ count' = [Left(S) EXCEPT ![t] = Counted(S)]
  /\ trigger' = [Without(Emptied(S)) EXCEPT ![t] = "there"]

\* ZM_Cmd_CreateAmbush.
CreateAmbush(p) ==
  LET S == Selected(p)
  IN  /\ Commands(p) /\ S # {}
      /\ \E t \in Triggers :
           /\ trigger[t] = "free"
           /\ Enter(S, t)
           /\ handle' = [z \in Zombies |-> IF z \in S THEN t ELSE handle[z]]
      /\ mode' = [z \in Zombies |-> IF z \in S THEN "ambush" ELSE mode[z]]
      /\ ceiling' = ceiling \ S
      /\ UNCHANGED <<phase, zombie, selector>> /\ UNCHANGED playerVars

\* The zombies Trigger releases: corpses keep the handle.
Sprung(t) == Waiting(t) \cap Living

\* ScanThink with a living survivor in range; the trigger does not think again.
Spring(t) ==
  /\ phase = "frame" /\ trigger[t] \in {"there", "doomed"}
  /\ handle' = [z \in Zombies |-> IF z \in Sprung(t) THEN NoTrigger ELSE handle[z]]
  /\ mode' = [z \in Zombies |-> IF z \in Sprung(t) THEN "offensive" ELSE mode[z]]
  /\ trigger' = [trigger EXCEPT ![t] = "doomed"]
  /\ UNCHANGED <<phase, zombie, selector, ceiling, count>> /\ UNCHANGED playerVars

-----------------------------------------------------------------------------
(* Selection and the ceiling *)

\* Select, SelectMult, SelectAll: the zombies of S, added to those selected before
\* if sticky; the index of an entity that is no zombie is skipped.
Select(p, S, sticky) ==
  /\ Commands(p) /\ S \subseteq Horde
  /\ selector' = [z \in Zombies |->
       IF z \in S THEN p
       ELSE IF ~sticky /\ z \in Selected(p) THEN Nobody ELSE selector[z]]
  /\ UNCHANGED <<phase, zombie, mode, handle, ceiling, trigger, count>>
  /\ UNCHANGED playerVars

\* ZM_Cmd_SetBansheeCeil: skipped are zombies that are neither selected nor banshees.
CeilingOrdered(p) == {z \in Horde : selector[z] = p \/ z \in Banshees}

SetBansheeCeil(p) ==
  /\ Commands(p)
  /\ ceiling' = ceiling \cup CeilingOrdered(p)
  /\ UNCHANGED <<phase, zombie, selector, mode, handle, trigger, count>>
  /\ UNCHANGED playerVars

\* The schedule of a zombie ends, fails or is interrupted.
ScheduleEnds(z) ==
  /\ phase = "frame" /\ z \in ceiling
  /\ ceiling' = ceiling \ {z}
  /\ UNCHANGED <<phase, zombie, selector, mode, handle, trigger, count>>
  /\ UNCHANGED playerVars

-----------------------------------------------------------------------------
(* Zombies come and go *)

\* A zombie is created; failed: it finds no place and is removed at once.
Appear(z, failed) ==
  /\ zombie[z] = "free"
  /\ zombie' = [zombie EXCEPT ![z] = IF failed THEN "leaving" ELSE "alive"]
  /\ UNCHANGED <<phase, selector, mode, handle, ceiling, trigger, count>>
  /\ UNCHANGED playerVars

\* A zombie is killed, or removed by the map.
Gone(z, state) ==
  /\ phase = "frame" /\ zombie[z] = "alive"
  /\ zombie' = [zombie EXCEPT ![z] = state]
  /\ ceiling' = IF state = "dead" THEN ceiling \ {z} ELSE ceiling
  /\ UNCHANGED <<phase, selector, mode, handle, trigger, count>>
  /\ UNCHANGED playerVars

\* ZM_Cmd_DeleteZombies: the selected ones die.
DeleteZombies(p) ==
  LET S == {z \in Selected(p) : zombie[z] = "alive"}
  IN  /\ Commands(p)
      /\ zombie' = [z \in Zombies |-> IF z \in S THEN "dead" ELSE zombie[z]]
      /\ ceiling' = ceiling \ S
      /\ UNCHANGED <<phase, selector, mode, handle, trigger, count>>
      /\ UNCHANGED playerVars

\* CleanupDeleteList with the marked zombies and the corpses that have faded: their
\* destructors leave the ambushes, a trigger that the last of them leaves is deleted
\* in the same run, and the handles of deleted triggers become null.
Cleanup(faded) ==
  LET S    == faded \cup {z \in Zombies : zombie[z] = "leaving"}
      gone == Emptied(S) \cup {t \in Triggers : trigger[t] = "doomed"}
  IN  /\ zombie' = [z \in Zombies |-> IF z \in S THEN "free" ELSE zombie[z]]
      /\ selector' = [z \in Zombies |-> IF z \in S THEN Nobody ELSE selector[z]]
      /\ mode' = [z \in Zombies |-> IF z \in S THEN "offensive" ELSE mode[z]]
      /\ handle' = [z \in Zombies |->
                      IF z \in S \/ handle[z] \in gone THEN NoTrigger ELSE handle[z]]
      /\ ceiling' = ceiling \ S
      /\ trigger' = [t \in Triggers |-> IF t \in gone THEN "free" ELSE trigger[t]]
      /\ count' = [t \in Triggers |-> IF t \in gone THEN 0 ELSE Left(S)[t]]
      /\ UNCHANGED playerVars

Corpses == {z \in Zombies : zombie[z] = "dead"}

FrameBegins ==
  /\ phase = "commands" /\ phase' = "frame"
  /\ \E faded \in SUBSET Corpses : Cleanup(faded)

FrameEnds ==
  /\ phase = "frame" /\ phase' = "commands"
  /\ \E faded \in SUBSET Corpses : Cleanup(faded)

-----------------------------------------------------------------------------
(* Players and rounds *)

\* A client comes.
Join(p) ==
  /\ p \notin present
  /\ present' = present \cup {p}
  /\ UNCHANGED <<phase, master, trigger, count>> /\ UNCHANGED zombieVars

\* A client leaves: the zombies remember his slot.
Leave(p) ==
  /\ p \in present
  /\ present' = present \ {p}
  /\ master' = IF p = master THEN Nobody ELSE master
  /\ UNCHANGED <<phase, trigger, count>> /\ UNCHANGED zombieVars

\* The office is given up, or goes to another player within a round.
Handover(p) ==
  /\ p \in present \cup {Nobody} /\ p # master
  /\ master' = p
  /\ UNCHANGED <<phase, present, trigger, count>> /\ UNCHANGED zombieVars

\* ResetWorld: every zombie and every ambush trigger is deleted.
NewRound ==
  /\ phase = "frame"
  /\ zombie' = [z \in Zombies |-> "free"]
  /\ selector' = [z \in Zombies |-> Nobody]
  /\ mode' = [z \in Zombies |-> "offensive"]
  /\ handle' = [z \in Zombies |-> NoTrigger]
  /\ ceiling' = {}
  /\ trigger' = [t \in Triggers |-> "free"]
  /\ count' = [t \in Triggers |-> 0]
  /\ master' \in present \cup {Nobody}
  /\ UNCHANGED <<phase, present>>

-----------------------------------------------------------------------------
(* The specification *)

Init ==
  /\ phase = "commands" /\ present = {} /\ master = Nobody
  /\ zombie = [z \in Zombies |-> "free"]
  /\ selector = [z \in Zombies |-> Nobody]
  /\ mode = [z \in Zombies |-> "offensive"]
  /\ handle = [z \in Zombies |-> NoTrigger]
  /\ ceiling = {}
  /\ trigger = [t \in Triggers |-> "free"]
  /\ count = [t \in Triggers |-> 0]

PlayerNext(p) ==
  \/ \E m \in Modes : ZombieMode(p, m)
  \/ \E S \in SUBSET Zombies, sticky \in BOOLEAN : Select(p, S, sticky)
  \/ CreateAmbush(p) \/ SetBansheeCeil(p) \/ DeleteZombies(p)
  \/ Join(p) \/ Leave(p)

ZombieNext(z) ==
  \/ \E failed \in BOOLEAN : Appear(z, failed)
  \/ \E state \in {"dead", "leaving"} : Gone(z, state)
  \/ ScheduleEnds(z)

Next ==
  \/ \E p \in Players : PlayerNext(p)
  \/ \E z \in Zombies : ZombieNext(z)
  \/ \E t \in Triggers : Spring(t)
  \/ \E p \in Players \cup {Nobody} : Handover(p)
  \/ FrameBegins \/ FrameEnds \/ NewRound

Spec == Init /\ [][Next]_vars

-----------------------------------------------------------------------------
(* Invariants *)

\* The types.  That counts are natural numbers says that no trigger is left by more
\* zombies than it was set up with.
TypeOK ==
  /\ phase \in {"commands", "frame"}
  /\ present \in SUBSET Players
  /\ master \in present \cup {Nobody}
  /\ zombie \in [Zombies -> {"free", "alive", "dead", "leaving"}]
  /\ selector \in [Zombies -> Players \cup {Nobody}]
  /\ mode \in [Zombies -> Modes]
  /\ handle \in [Zombies -> Triggers \cup {NoTrigger}]
  /\ ceiling \in SUBSET Horde
  /\ trigger \in [Triggers -> {"free", "there", "doomed"}]
  /\ count \in [Triggers -> Nat]

\* An ambush trigger knows how many zombies wait for it, and there is at least one:
\* created, sent elsewhere, killed, faded, put into another ambush of any master, each
\* is counted once.  One too few and the ambush would dissolve under those who still
\* wait; one too many and its trigger would stay for ever.
AmbushCounted ==
  \A t \in Triggers : trigger[t] = "there" =>
    count[t] >= 1 /\ count[t] = Cardinality(Waiting(t))

\* A living zombie with a trigger waits in ambush for one that still scans: none waits
\* for a trigger that has sprung or was removed.
NoForgottenAmbusher ==
  \A z \in Living : handle[z] # NoTrigger =>
    mode[z] = "ambush" /\ trigger[handle[z]] = "there"

-----------------------------------------------------------------------------
(* Action properties *)

\* A living zombie loses its trigger only by being released to another mode: it is
\* never left in ambush mode, in which it stays put, with no trigger to spring it.
AmbushersReleased ==
  [][\A z \in Zombies :
       z \in Living /\ z \in Living' /\ handle[z] # NoTrigger /\ handle'[z] = NoTrigger
         => mode'[z] # "ambush"]_vars
=============================================================================
