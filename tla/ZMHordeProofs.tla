---------------------------- MODULE ZMHordeProofs ----------------------------
(***************************************************************************)
(* Theorems about ambushes, for every number of players, zombies and       *)
(* triggers.                                                               *)
(***************************************************************************)
EXTENDS ZMHorde, FiniteSetTheorems, TLAPS

\* The count of a trigger in each of its states: a free slot has no zombies; a marked
\* trigger may be left by all that still have its handle without a negative count.
Kept(t) ==
  /\ trigger[t] = "free"   => Waiting(t) = {}
  /\ trigger[t] = "doomed" => Cardinality(Waiting(t)) <= count[t]
  /\ trigger[t] = "there"  => count[t] >= 1 /\ count[t] = Cardinality(Waiting(t))

\* A free slot remembers no ambush.
FreeIdle == \A z \in Zombies : zombie[z] = "free" => handle[z] = NoTrigger

\* The inductive invariant.
Inv ==
  /\ TypeOK
  /\ \A t \in Triggers : Kept(t)
  /\ FreeIdle
  /\ NoForgottenAmbusher

-----------------------------------------------------------------------------
(* Parts of the steps *)

\* What leaving does to the count of one trigger.
LEMMA LeaveCounts ==
  ASSUME Inv, NEW S \in SUBSET Zombies, NEW t \in Triggers
  PROVE  /\ Left(S)[t] \in Nat
         /\ Cardinality(Waiting(t) \ S) <= Left(S)[t]
         /\ trigger[t] = "there" => Left(S)[t] = Cardinality(Waiting(t) \ S)
         /\ t \in Emptied(S) => Waiting(t) \subseteq S
         /\ trigger[t] = "there" /\ t \notin Emptied(S) => Left(S)[t] >= 1
<1> DEFINE W == Waiting(t)
<1>0. count[t] \in Nat /\ Kept(t) /\ trigger[t] \in {"free", "there", "doomed"}
  BY DEF Inv, TypeOK
<1>1. IsFiniteSet(W) /\ IsFiniteSet(W \ S) /\ IsFiniteSet(S \cap W)
  BY HordeAssumption, FS_Subset DEF Waiting, HordeAssumption
<1>2. Cardinality(W) \in Nat /\ Cardinality(W \ S) \in Nat /\ Cardinality(S \cap W) \in Nat
  BY <1>1, FS_CardinalityType
<1>3. Cardinality(W \ S) = Cardinality(W) - Cardinality(S \cap W)
  <2>1. W \cap S = S \cap W
    OBVIOUS
  <2> QED BY <1>1, <2>1, FS_Difference
<1>4. Cardinality(W) <= count[t]
  BY <1>0, <1>1, FS_EmptySet DEF Kept
<1>5. Left(S)[t] = count[t] - Cardinality(S \cap W)
  BY DEF Left
<1>6. /\ Left(S)[t] \in Nat
      /\ Cardinality(W \ S) <= Left(S)[t]
      /\ trigger[t] = "there" => Left(S)[t] = Cardinality(W \ S)
  <2>1. trigger[t] = "there" => count[t] = Cardinality(W)
    BY <1>0 DEF Kept
  <2> HIDE DEF W
  <2> QED BY <1>0, <1>2, <1>3, <1>4, <1>5, <2>1
<1>7. ASSUME t \in Emptied(S) PROVE W \subseteq S
  <2>1. Left(S)[t] <= 0 /\ trigger[t] = "there"
    BY <1>7 DEF Emptied
  <2>2. Cardinality(W \ S) = 0
    BY <1>6, <2>1, <1>2
  <2>3. W \ S = {}
    BY <2>2, <1>1, FS_EmptySet
  <2> QED BY <2>3
<1>8. ASSUME trigger[t] = "there", t \notin Emptied(S) PROVE Left(S)[t] >= 1
  <2>1. CASE S \cap W = {}
    <3>1. Cardinality(S \cap W) = 0
      BY <2>1, FS_EmptySet
    <3> QED BY <3>1, <1>0, <1>5, <1>8 DEF Kept
  <2>2. CASE S \cap W # {}
    BY <2>2, <1>8, <1>6 DEF Emptied
  <2> QED BY <2>1, <2>2
<1> QED BY <1>6, <1>7, <1>8

\* A living zombie that does not leave keeps its trigger from being emptied.
LEMMA WaitingHolds ==
  ASSUME Inv, NEW S \in SUBSET Zombies, NEW z \in Living \ S, handle[z] # NoTrigger
  PROVE  /\ handle[z] \in Triggers /\ handle[z] \notin Emptied(S)
         /\ mode[z] = "ambush" /\ trigger[handle[z]] = "there"
<1>1. z \in Zombies /\ handle[z] \in Triggers
  BY DEF Living, Inv, TypeOK
<1>2. z \in Waiting(handle[z])
  BY <1>1 DEF Waiting
<1> QED BY <1>1, <1>2, LeaveCounts DEF Inv, NoForgottenAmbusher

\* Steps that leave ambushes and modes alone.
LEMMA Steady ==
  ASSUME Inv, TypeOK', UNCHANGED <<mode, handle, trigger, count>>,
         \A z \in Zombies : zombie'[z] = "free" => handle[z] = NoTrigger,
         \A z \in Living' : z \in Living \/ handle[z] = NoTrigger
  PROVE  Inv'
<1>1. \A t \in Triggers : Kept(t)'
  BY DEF Inv, Kept, Waiting
<1>2. FreeIdle'
  BY DEF FreeIdle
<1>3. NoForgottenAmbusher'
  BY DEF Inv, NoForgottenAmbusher
<1> QED BY <1>1, <1>2, <1>3 DEF Inv

-----------------------------------------------------------------------------
(* The steps that change ambushes *)

\* Zombies that get a mode other than ambush leave.
LEMMA ModeStep ==
  ASSUME Inv, NEW S \in SUBSET Zombies, NEW m \in Modes, SetZombieMode(S, m),
         UNCHANGED <<phase, present, master, zombie, selector, ceiling>>
  PROVE  Inv'
<1>0. TypeOK /\ FreeIdle /\ NoForgottenAmbusher /\ \A t \in Triggers : Kept(t)
  BY DEF Inv
<1>1. Living' = Living /\ Horde' = Horde
  BY DEF Living, Horde
<1>2. mode' \in [Zombies -> Modes]
  BY <1>0 DEF SetZombieMode, TypeOK
<1>3. CASE m = "ambush"
  <2>1. UNCHANGED <<handle, trigger, count>>
    BY <1>3 DEF SetZombieMode
  <2>2. TypeOK'
    BY <1>0, <1>1, <1>2, <2>1 DEF TypeOK
  <2>3. \A t \in Triggers : Kept(t)'
    BY <1>0, <2>1 DEF Kept, Waiting
  <2>4. FreeIdle'
    BY <1>0, <2>1 DEF FreeIdle
  <2>5. NoForgottenAmbusher'
    <3> SUFFICES ASSUME NEW z \in Living, handle[z] # NoTrigger
                 PROVE  mode'[z] = "ambush" /\ trigger[handle[z]] = "there"
      BY <1>1, <2>1 DEF NoForgottenAmbusher
    <3> QED BY <1>0, <1>3 DEF NoForgottenAmbusher, SetZombieMode, Living
  <2> QED BY <2>2, <2>3, <2>4, <2>5 DEF Inv
<1>4. CASE m # "ambush"
  <2>1. /\ handle' = [z \in Zombies |-> IF z \in S THEN NoTrigger ELSE handle[z]]
        /\ count' = Left(S) /\ trigger' = Without(Emptied(S))
    BY <1>4 DEF SetZombieMode
  <2>2. \A t \in Triggers : Waiting(t)' = Waiting(t) \ S
    BY <2>1, HordeAssumption DEF Waiting, HordeAssumption
  <2>3. TypeOK'
    <3>1. count' \in [Triggers -> Nat]
      <4>1. \A t \in Triggers : Left(S)[t] \in Nat
        BY LeaveCounts
      <4> QED BY <4>1, <2>1 DEF Left
    <3>2. trigger' \in [Triggers -> {"free", "there", "doomed"}]
          /\ handle' \in [Zombies -> Triggers \cup {NoTrigger}]
      BY <1>0, <2>1 DEF Without, TypeOK
    <3> QED BY <1>0, <1>1, <1>2, <3>1, <3>2 DEF TypeOK
  <2>4. ASSUME NEW t \in Triggers PROVE Kept(t)'
    <3>1. Waiting(t)' = Waiting(t) \ S /\ count'[t] = Left(S)[t]
      BY <2>1, <2>2
    <3>2. trigger'[t] = IF t \in Emptied(S) THEN "doomed" ELSE trigger[t]
      BY <2>1 DEF Without
    <3> QED BY <1>0, <3>1, <3>2, LeaveCounts DEF Kept
  <2>5. FreeIdle'
    BY <1>0, <2>1 DEF FreeIdle
  <2>6. NoForgottenAmbusher'
    <3> SUFFICES ASSUME NEW z \in Living, handle'[z] # NoTrigger
                 PROVE  mode'[z] = "ambush" /\ trigger'[handle'[z]] = "there"
      BY <1>1 DEF NoForgottenAmbusher
    <3>1. z \in Zombies /\ z \notin S /\ handle'[z] = handle[z]
      BY <2>1 DEF Living
    <3>2. mode'[z] = mode[z]
      BY <3>1 DEF SetZombieMode
    <3> QED BY <3>1, <3>2, <2>1, WaitingHolds DEF Without
  <2> QED BY <2>3, <2>4, <2>5, <2>6 DEF Inv
<1> QED BY <1>3, <1>4

\* The selected zombies go to the ambush of a new trigger.
LEMMA AmbushStep ==
  ASSUME Inv, NEW p \in Players, CreateAmbush(p)
  PROVE  Inv'
<1> DEFINE S == Selected(p)
<1>0. TypeOK /\ FreeIdle /\ NoForgottenAmbusher /\ \A t \in Triggers : Kept(t)
  BY DEF Inv
<1>1. S \in SUBSET Zombies /\ S \subseteq Horde /\ S # {}
  BY DEF CreateAmbush, Selected, Horde
<1>2. PICK t \in Triggers :
        /\ trigger[t] = "free"
        /\ Enter(S, t)
        /\ handle' = [z \in Zombies |-> IF z \in S THEN t ELSE handle[z]]
  BY DEF CreateAmbush
<1>3. /\ mode' = [z \in Zombies |-> IF z \in S THEN "ambush" ELSE mode[z]]
      /\ ceiling' = ceiling \ S
      /\ UNCHANGED <<phase, zombie, selector, present, master>>
  BY DEF CreateAmbush, playerVars
<1>4. Living' = Living /\ Horde' = Horde
  BY <1>3 DEF Living, Horde
<1> HIDE DEF S
<1>5. IsFiniteSet(S) /\ Cardinality(S) \in Nat /\ Cardinality(S) >= 1
  <2>1. IsFiniteSet(S)
    BY <1>1, HordeAssumption, FS_Subset DEF HordeAssumption
  <2>2. Cardinality(S) \in Nat /\ Cardinality(S) # 0
    BY <2>1, <1>1, FS_CardinalityType, FS_EmptySet
  <2> QED BY <2>1, <2>2
<1>6. \A u \in Triggers : Left(S)[u] \in Nat
  BY <1>1, LeaveCounts
<1>7. /\ count' = [Left(S) EXCEPT ![t] = Cardinality(S)]
      /\ trigger' = [Without(Emptied(S)) EXCEPT ![t] = "there"]
  BY <1>2 DEF Enter, Counted
<1>8. TypeOK'
  <2>1. count' \in [Triggers -> Nat]
    BY <1>5, <1>6, <1>7 DEF Left
  <2>2. trigger' \in [Triggers -> {"free", "there", "doomed"}]
        /\ handle' \in [Zombies -> Triggers \cup {NoTrigger}]
    BY <1>0, <1>2, <1>7 DEF Without, TypeOK
  <2>3. mode' \in [Zombies -> Modes] /\ ceiling' \in SUBSET Horde
    BY <1>0, <1>3 DEF TypeOK, Modes
  <2> QED BY <1>0, <1>3, <1>4, <2>1, <2>2, <2>3 DEF TypeOK
<1>9. ASSUME NEW u \in Triggers PROVE Kept(u)'
  <2>1. CASE u = t
    <3>1. Waiting(t) = {}
      BY <1>0, <1>2 DEF Kept
    <3>2. Waiting(t)' = S
      <4>1. \A z \in Zombies : handle'[z] = t <=> z \in S \/ z \in Waiting(t)
        BY <1>2 DEF Waiting
      <4> QED BY <4>1, <3>1, <1>1 DEF Waiting
    <3>3. trigger'[t] = "there" /\ count'[t] = Cardinality(S)
      BY <1>7 DEF Without, Left
    <3> QED BY <2>1, <3>2, <3>3, <1>5 DEF Kept
  <2>2. CASE u # t
    <3>1. Waiting(u)' = Waiting(u) \ S /\ count'[u] = Left(S)[u]
      BY <1>2, <1>7, <2>2 DEF Waiting, Left
    <3>2. trigger'[u] = IF u \in Emptied(S) THEN "doomed" ELSE trigger[u]
      BY <1>7, <2>2 DEF Without
    <3> QED BY <1>0, <1>1, <3>1, <3>2, LeaveCounts DEF Kept
  <2> QED BY <2>1, <2>2
<1>10. FreeIdle'
  BY <1>0, <1>1, <1>2, <1>3 DEF FreeIdle, Horde
<1>11. NoForgottenAmbusher'
  <2> SUFFICES ASSUME NEW z \in Living, handle'[z] # NoTrigger
               PROVE  mode'[z] = "ambush" /\ trigger'[handle'[z]] = "there"
    BY <1>4 DEF NoForgottenAmbusher
  <2>0. z \in Zombies
    BY DEF Living
  <2>1. CASE z \in S
    BY <2>0, <2>1, <1>2, <1>3, <1>7 DEF Without
  <2>2. CASE z \notin S
    <3>1. handle'[z] = handle[z] /\ mode'[z] = mode[z]
      BY <2>0, <2>2, <1>2, <1>3
    <3>2. handle[z] \in Triggers /\ handle[z] \notin Emptied(S)
          /\ mode[z] = "ambush" /\ trigger[handle[z]] = "there"
      BY <1>1, <2>2, <3>1, WaitingHolds
    <3> QED BY <1>7, <3>1, <3>2 DEF Without
  <2> QED BY <2>1, <2>2
<1> QED BY <1>8, <1>9, <1>10, <1>11 DEF Inv

\* The trigger springs: the living leave, and the corpses still have a place in its count.
LEMMA SpringStep ==
  ASSUME Inv, NEW t \in Triggers, Spring(t)
  PROVE  Inv'
<1>0. TypeOK /\ FreeIdle /\ NoForgottenAmbusher /\ \A u \in Triggers : Kept(u)
  BY DEF Inv
<1>1. /\ trigger[t] \in {"there", "doomed"}
      /\ handle' = [z \in Zombies |-> IF z \in Sprung(t) THEN NoTrigger ELSE handle[z]]
      /\ mode' = [z \in Zombies |-> IF z \in Sprung(t) THEN "offensive" ELSE mode[z]]
      /\ trigger' = [trigger EXCEPT ![t] = "doomed"]
      /\ UNCHANGED <<phase, zombie, selector, ceiling, count, present, master>>
  BY DEF Spring, playerVars
<1>2. Living' = Living /\ Horde' = Horde
  BY <1>1 DEF Living, Horde
<1>3. TypeOK'
  BY <1>0, <1>1, <1>2 DEF TypeOK, Modes
<1>4. ASSUME NEW u \in Triggers PROVE Kept(u)'
  <2>1. CASE u = t
    <3>1. Waiting(t)' \subseteq Waiting(t)
      BY <1>1, HordeAssumption DEF Waiting, HordeAssumption
    <3>2. IsFiniteSet(Waiting(t))
      BY HordeAssumption, FS_Subset DEF Waiting, HordeAssumption
    <3>3. IsFiniteSet(Waiting(t)') /\ Cardinality(Waiting(t)') <= Cardinality(Waiting(t))
      BY <3>1, <3>2, FS_Subset
    <3>4. Cardinality(Waiting(t)) \in Nat /\ Cardinality(Waiting(t)') \in Nat
      BY <3>2, <3>3, FS_CardinalityType
    <3>5. Cardinality(Waiting(t)) <= count[t]
      BY <1>0, <1>1, <3>4 DEF Kept
    <3>6. trigger'[t] = "doomed" /\ count'[t] = count[t] /\ count[t] \in Nat
      BY <1>0, <1>1 DEF TypeOK
    <3> QED BY <2>1, <3>3, <3>4, <3>5, <3>6 DEF Kept
  <2>2. CASE u # t
    <3>1. Waiting(u)' = Waiting(u)
      BY <1>1, <2>2, HordeAssumption DEF Waiting, Sprung, HordeAssumption
    <3>2. trigger'[u] = trigger[u] /\ count'[u] = count[u]
      BY <1>1, <2>2
    <3> QED BY <1>0, <3>1, <3>2 DEF Kept
  <2> QED BY <2>1, <2>2
<1>5. FreeIdle'
  BY <1>0, <1>1 DEF FreeIdle
<1>6. NoForgottenAmbusher'
  <2> SUFFICES ASSUME NEW z \in Living, handle'[z] # NoTrigger
               PROVE  mode'[z] = "ambush" /\ trigger'[handle'[z]] = "there"
    BY <1>2 DEF NoForgottenAmbusher
  <2>1. z \in Zombies /\ z \notin Sprung(t) /\ handle'[z] = handle[z] /\ mode'[z] = mode[z]
    BY <1>1 DEF Living
  <2>2. handle[z] # t
    BY <2>1 DEF Sprung, Waiting
  <2> QED BY <1>0, <1>1, <2>1, <2>2 DEF NoForgottenAmbusher, TypeOK
<1> QED BY <1>3, <1>4, <1>5, <1>6 DEF Inv

\* The cleanup: destructors leave ambushes, and the emptied triggers go with them.
LEMMA CleanupStep ==
  ASSUME Inv, NEW faded \in SUBSET Corpses, Cleanup(faded), phase' \in {"commands", "frame"}
  PROVE  Inv'
<1> DEFINE S == faded \cup {z \in Zombies : zombie[z] = "leaving"}
           gone == Emptied(S) \cup {t \in Triggers : trigger[t] = "doomed"}
<1>0. TypeOK /\ FreeIdle /\ NoForgottenAmbusher /\ \A u \in Triggers : Kept(u)
  BY DEF Inv
<1>1. /\ zombie' = [z \in Zombies |-> IF z \in S THEN "free" ELSE zombie[z]]
      /\ selector' = [z \in Zombies |-> IF z \in S THEN Nobody ELSE selector[z]]
      /\ mode' = [z \in Zombies |-> IF z \in S THEN "offensive" ELSE mode[z]]
      /\ handle' = [z \in Zombies |->
                      IF z \in S \/ handle[z] \in gone THEN NoTrigger ELSE handle[z]]
      /\ ceiling' = ceiling \ S
      /\ trigger' = [t \in Triggers |-> IF t \in gone THEN "free" ELSE trigger[t]]
      /\ count' = [t \in Triggers |-> IF t \in gone THEN 0 ELSE Left(S)[t]]
      /\ UNCHANGED <<present, master>>
  BY DEF Cleanup, playerVars
<1>2. S \in SUBSET Zombies /\ \A z \in Zombies \ S : zombie[z] # "leaving"
  BY DEF Corpses
<1>3. gone \subseteq Triggers /\ \A t \in Triggers \ gone : t \notin Emptied(S) /\ trigger[t] # "doomed"
  BY DEF Emptied
<1>4. \A t \in gone : t \in Emptied(S) \/ trigger[t] = "doomed"
  OBVIOUS
<1> HIDE DEF S, gone
<1>5. TypeOK'
  <2>1. count' \in [Triggers -> Nat]
    <3>1. \A t \in Triggers : Left(S)[t] \in Nat
      BY <1>2, LeaveCounts
    <3> QED BY <3>1, <1>1
  <2>2. /\ zombie' \in [Zombies -> {"free", "alive", "dead", "leaving"}]
        /\ selector' \in [Zombies -> Players \cup {Nobody}]
        /\ mode' \in [Zombies -> Modes]
        /\ handle' \in [Zombies -> Triggers \cup {NoTrigger}]
        /\ trigger' \in [Triggers -> {"free", "there", "doomed"}]
    BY <1>0, <1>1 DEF TypeOK, Modes
  <2>3. ceiling' \in SUBSET Horde'
    BY <1>0, <1>1 DEF TypeOK, Horde
  <2> QED BY <1>0, <1>1, <2>1, <2>2, <2>3 DEF TypeOK
<1>6. ASSUME NEW t \in Triggers PROVE Kept(t)'
  <2>1. CASE t \in gone
    <3>1. Waiting(t)' = {} /\ trigger'[t] = "free"
      BY <1>1, <2>1, HordeAssumption DEF Waiting, HordeAssumption
    <3> QED BY <3>1 DEF Kept
  <2>2. CASE t \notin gone
    <3>1. Waiting(t)' = Waiting(t) \ S
      BY <1>1, <2>2, HordeAssumption DEF Waiting, HordeAssumption
    <3>2. trigger'[t] = trigger[t] /\ count'[t] = Left(S)[t]
      BY <1>1, <2>2
    <3>3. t \notin Emptied(S) /\ trigger[t] # "doomed"
      BY <1>3, <2>2
    <3> QED BY <1>0, <1>2, <3>1, <3>2, <3>3, LeaveCounts DEF Kept
  <2> QED BY <2>1, <2>2
<1>7. FreeIdle'
  BY <1>0, <1>1 DEF FreeIdle
<1>8. NoForgottenAmbusher'
  <2> SUFFICES ASSUME NEW z \in Living', handle'[z] # NoTrigger
               PROVE  mode'[z] = "ambush" /\ trigger'[handle'[z]] = "there"
    BY DEF NoForgottenAmbusher
  <2>1. z \in Living \ S /\ handle'[z] = handle[z] /\ mode'[z] = mode[z] /\ handle[z] \notin gone
    BY <1>1 DEF Living
  <2>2. handle[z] \in Triggers /\ mode[z] = "ambush" /\ trigger[handle[z]] = "there"
    BY <1>2, <2>1, WaitingHolds
  <2> QED BY <1>1, <2>1, <2>2
<1> QED BY <1>5, <1>6, <1>7, <1>8 DEF Inv

\* A new round has no ambushes.
LEMMA RoundStep == ASSUME Inv, NewRound PROVE Inv'
<1>0. TypeOK
  BY DEF Inv
<1>1. TypeOK'
  BY <1>0 DEF NewRound, TypeOK, Modes, Horde
<1>2. \A t \in Triggers : Kept(t)'
  BY HordeAssumption DEF NewRound, Kept, Waiting, HordeAssumption
<1>3. FreeIdle' /\ NoForgottenAmbusher'
  BY DEF NewRound, FreeIdle, NoForgottenAmbusher, Living
<1> QED BY <1>1, <1>2, <1>3 DEF Inv

-----------------------------------------------------------------------------
(* Every step *)

\* The steps that leave ambushes alone keep the invariant.
LEMMA OtherSteps ==
  ASSUME Inv,
         \/ \E p \in Players, S \in SUBSET Zombies, sticky \in BOOLEAN : Select(p, S, sticky)
         \/ \E p \in Players : SetBansheeCeil(p) \/ DeleteZombies(p) \/ Join(p) \/ Leave(p)
         \/ \E z \in Zombies : ZombieNext(z)
         \/ \E p \in Players \cup {Nobody} : Handover(p)
         \/ UNCHANGED vars
  PROVE  Inv'
<1> USE DEF playerVars, zombieVars
<1>0. TypeOK /\ FreeIdle
  BY DEF Inv
<1>1. CASE \E p \in Players, S \in SUBSET Zombies, sticky \in BOOLEAN : Select(p, S, sticky)
  <2>1. PICK p \in Players, S \in SUBSET Zombies, sticky \in BOOLEAN : Select(p, S, sticky)
    BY <1>1
  <2>2. TypeOK'
    BY <2>1, <1>0 DEF Select, TypeOK, Horde
  <2> QED BY <2>1, <2>2, <1>0, Steady DEF Select, FreeIdle, Living
<1>2. ASSUME NEW p \in Players, SetBansheeCeil(p) PROVE Inv'
  <2>1. TypeOK'
    BY <1>2, <1>0 DEF SetBansheeCeil, CeilingOrdered, TypeOK, Horde
  <2> QED BY <1>2, <2>1, <1>0, Steady DEF SetBansheeCeil, FreeIdle, Living
<1>3. ASSUME NEW p \in Players, DeleteZombies(p) PROVE Inv'
  <2>1. TypeOK'
    BY <1>3, <1>0 DEF DeleteZombies, TypeOK, Horde
  <2> QED BY <1>3, <2>1, <1>0, Steady DEF DeleteZombies, FreeIdle, Living
<1>4. ASSUME NEW p \in Players, Join(p) \/ Leave(p) PROVE Inv'
  <2>1. TypeOK'
    BY <1>4, <1>0 DEF Join, Leave, TypeOK, Horde
  <2> QED BY <1>4, <2>1, <1>0, Steady DEF Join, Leave, FreeIdle, Living
<1>5. ASSUME NEW z \in Zombies, NEW failed \in BOOLEAN, Appear(z, failed) PROVE Inv'
  <2>1. TypeOK'
    BY <1>5, <1>0 DEF Appear, TypeOK, Horde
  <2> QED BY <1>5, <2>1, <1>0, Steady DEF Appear, FreeIdle, Living, TypeOK
<1>6. ASSUME NEW z \in Zombies, NEW state \in {"dead", "leaving"}, Gone(z, state) PROVE Inv'
  <2>1. TypeOK'
    BY <1>6, <1>0 DEF Gone, TypeOK, Horde
  <2> QED BY <1>6, <2>1, <1>0, Steady DEF Gone, FreeIdle, Living, TypeOK
<1>7. ASSUME NEW z \in Zombies, ScheduleEnds(z) PROVE Inv'
  <2>1. TypeOK'
    BY <1>7, <1>0 DEF ScheduleEnds, TypeOK, Horde
  <2> QED BY <1>7, <2>1, <1>0, Steady DEF ScheduleEnds, FreeIdle, Living
<1>8. ASSUME NEW p \in Players \cup {Nobody}, Handover(p) PROVE Inv'
  <2>1. TypeOK'
    BY <1>8, <1>0 DEF Handover, TypeOK, Horde
  <2> QED BY <1>8, <2>1, <1>0, Steady DEF Handover, FreeIdle, Living
<1>9. CASE UNCHANGED vars
  <2>1. TypeOK'
    BY <1>9, <1>0 DEF vars, TypeOK, Horde
  <2> QED BY <1>9, <2>1, <1>0, Steady DEF vars, FreeIdle, Living
<1> QED BY <1>1, <1>2, <1>3, <1>4, <1>5, <1>6, <1>7, <1>8, <1>9 DEF ZombieNext

\* Every step keeps the invariant.
LEMMA InvStep == Inv /\ [Next]_vars => Inv'
<1> SUFFICES ASSUME Inv, [Next]_vars PROVE Inv'
  OBVIOUS
<1>1. ASSUME NEW p \in Players, NEW m \in Modes, ZombieMode(p, m) PROVE Inv'
  <2>1. Selected(p) \in SUBSET Zombies
    BY DEF Selected, Horde
  <2> QED BY <1>1, <2>1, ModeStep DEF ZombieMode, playerVars
<1>2. ASSUME NEW p \in Players, CreateAmbush(p) PROVE Inv'
  BY <1>2, AmbushStep
<1>3. ASSUME NEW t \in Triggers, Spring(t) PROVE Inv'
  BY <1>3, SpringStep
<1>4. CASE FrameBegins \/ FrameEnds
  BY <1>4, CleanupStep DEF FrameBegins, FrameEnds
<1>5. CASE NewRound
  BY <1>5, RoundStep
<1> QED BY <1>1, <1>2, <1>3, <1>4, <1>5, OtherSteps DEF Next, PlayerNext

\* The invariant holds in every state.
LEMMA Invariant == Spec => []Inv
<1>1. Init => Inv
  <2> SUFFICES ASSUME Init PROVE Inv
    OBVIOUS
  <2>1. TypeOK
    BY DEF Init, TypeOK, Modes, Horde
  <2>2. \A t \in Triggers : Kept(t)
    BY HordeAssumption DEF Init, Kept, Waiting, HordeAssumption
  <2>3. FreeIdle /\ NoForgottenAmbusher
    BY DEF Init, FreeIdle, NoForgottenAmbusher, Living
  <2> QED BY <2>1, <2>2, <2>3 DEF Inv
<1> QED BY <1>1, InvStep, PTL DEF Spec

-----------------------------------------------------------------------------
(* The theorems *)

\* The types of all variables; that counts are natural numbers says that no trigger is
\* ever left by more zombies than it knows.
THEOREM HordeTypeCorrect == Spec => []TypeOK
BY Invariant, PTL DEF Inv

\* Every ambush trigger that scans knows the number of its zombies, which is not zero,
\* for any number of zombies, masters and ambushes.
THEOREM CountsAreExact == Spec => []AmbushCounted
<1>1. Inv => AmbushCounted
  BY DEF Inv, Kept, AmbushCounted
<1> QED BY <1>1, Invariant, PTL

\* No living zombie waits for a trigger that has sprung or was removed.
THEOREM NobodyForgotten == Spec => []NoForgottenAmbusher
BY Invariant, PTL DEF Inv

\* A living zombie that loses its trigger is out of ambush mode in the same step.
THEOREM AllReleased == Spec => AmbushersReleased
<1> DEFINE A == \A z \in Zombies :
                  z \in Living /\ z \in Living' /\ handle[z] # NoTrigger /\ handle'[z] = NoTrigger
                    => mode'[z] # "ambush"
<1>1. ASSUME Inv, [Next]_vars PROVE [A]_vars
  <2> SUFFICES ASSUME NEW z \in Zombies, z \in Living, z \in Living', handle[z] # NoTrigger,
                      handle'[z] = NoTrigger, Next
               PROVE  mode'[z] # "ambush"
    BY <1>1
  <2>1. ASSUME NEW p \in Players, NEW m \in Modes, ZombieMode(p, m) PROVE mode'[z] # "ambush"
    BY <2>1 DEF ZombieMode, SetZombieMode
  <2>2. ASSUME NEW p \in Players, CreateAmbush(p) PROVE FALSE
    BY <2>2, HordeAssumption DEF CreateAmbush, HordeAssumption
  <2>3. ASSUME NEW t \in Triggers, Spring(t) PROVE mode'[z] # "ambush"
    BY <2>3 DEF Spring
  <2>4. ASSUME NEW faded \in SUBSET Corpses, Cleanup(faded) PROVE FALSE
    <3> DEFINE S == faded \cup {y \in Zombies : zombie[y] = "leaving"}
               gone == Emptied(S) \cup {t \in Triggers : trigger[t] = "doomed"}
    <3>1. zombie' = [y \in Zombies |-> IF y \in S THEN "free" ELSE zombie[y]]
          /\ handle' = [y \in Zombies |->
                          IF y \in S \/ handle[y] \in gone THEN NoTrigger ELSE handle[y]]
      BY <2>4 DEF Cleanup
    <3>2. S \in SUBSET Zombies
      BY DEF Corpses
    <3>3. z \notin S
      BY <3>1 DEF Living
    <3>4. handle[z] \notin Emptied(S) /\ trigger[handle[z]] = "there"
      BY <1>1, <3>2, <3>3, WaitingHolds
    <3> QED BY <3>1, <3>3, <3>4
  <2>5. CASE NewRound
    BY <2>5 DEF NewRound
  <2>6. CASE \/ \E p \in Players : \/ \E S \in SUBSET Zombies, sticky \in BOOLEAN : Select(p, S, sticky)
                                   \/ SetBansheeCeil(p) \/ DeleteZombies(p) \/ Join(p) \/ Leave(p)
             \/ \E y \in Zombies : ZombieNext(y)
             \/ \E p \in Players \cup {Nobody} : Handover(p)
    <3>1. handle' = handle
      BY <2>6 DEF Select, SetBansheeCeil, DeleteZombies, Join, Leave, ZombieNext, Appear, Gone,
                  ScheduleEnds, Handover, zombieVars
    <3> QED BY <3>1
  <2> QED BY <2>1, <2>2, <2>3, <2>4, <2>5, <2>6 DEF Next, PlayerNext, FrameBegins, FrameEnds
<1>2. Spec => [][A]_vars
  BY <1>1, Invariant, PTL DEF Spec
<1> QED BY <1>2 DEF AmbushersReleased
=============================================================================
