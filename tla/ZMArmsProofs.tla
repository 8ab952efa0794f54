---------------------------- MODULE ZMArmsProofs ----------------------------
(***************************************************************************)
(* Theorems about weapons and slots, for every number of players and       *)
(* weapons, every choice of classes and slots and every loadout.           *)
(***************************************************************************)
EXTENDS ZMArms, ZMTotalProofs, TLAPS

\* A player has only weapons that he owns, one of them or none active.
OwnedLists ==
  \A p \in Players : list[p] \subseteq Owned(p) /\ active[p] \in list[p] \cup {Hands}

\* A free entity slot remembers nothing; who waits for the round owns nothing.
FreeIsNew ==
  \A w \in Weapons : here[w] = "none" => owner[w] = Nobody /\ (w \in Molotovs => throw[w] = "idle")
WaitingEmpty == \A p \in Players : life[p] = "waiting" => Owned(p) = {}

\* A molotov that burns is the active weapon of its owner.
BurningHeld ==
  \A m \in Molotovs : here[m] = "there" /\ ~CanHolster(m) =>
    \E p \in Players : owner[m] = p /\ active[p] = m

\* The inductive invariant.
Owning == SlotsAgree /\ OwnedLists /\ FreeIsNew /\ WaitingEmpty
Inv == TypeOK /\ Owning /\ BurningHeld

-----------------------------------------------------------------------------
(* Facts about the operators *)

LEMMA Kinds ==
  /\ \A w \in Weapons : ClassOf[w] \in Classes /\ Slot(w) \in {SlotOf[c] : c \in Classes}
  /\ \A g \in Guns : g \notin Molotovs /\ g \in Weapons
  /\ Hands \notin Weapons /\ Nobody \notin Players
BY ArmsAssumption DEF ArmsAssumption, Weapons, Slot

\* A weapon in use is owned by who uses it.
LEMMA UsedIsOwned ==
  ASSUME OwnedLists, NEW p \in Players, NEW w \in Weapons, active[p] = w
  PROVE  w \in list[p] /\ owner[w] = p
BY Kinds DEF OwnedLists, Owned

\* What a player is given has one weapon for a slot.
LEMMA DrawsApart ==
  ASSUME NEW D \in Draws, NEW c \in D, NEW d \in D, SlotOf[c] = SlotOf[d]
  PROVE  c = d
BY DEF Draws

LEMMA DrawsLeft ==
  ASSUME NEW D \in Draws
  PROVE  \A c \in D : c \in Classes /\ loadout[c] > 0
BY DEF Draws

\* Letting go keeps the types.
LEMMA LetGoTypes ==
  ASSUME TypeOK, NEW p \in Players, NEW w \in Weapons, LetGo(p, w)
  PROVE  /\ list' \in [Players -> SUBSET Weapons]
         /\ owner' \in [Weapons -> Players \cup {Nobody}]
         /\ flags' \in [Players -> SUBSET {SlotOf[c] : c \in Classes}]
         /\ pool' \in [Players -> [Classes -> Nat]]
         /\ stash' \in [Guns -> Nat]
         /\ list'[p] \subseteq Weapons
<1> USE DEF TypeOK, LetGo
<1>1. pool' \in [Players -> [Classes -> Nat]]
  <2>1. CASE w \in Guns
    <3>1. pool' = [pool EXCEPT ![p][ClassOf[w]] = 0]
      BY <2>1 DEF Saved
    <3>2. pool[p] \in [Classes -> Nat] /\ ClassOf[w] \in Classes
      BY Kinds
    <3> HIDE DEF LetGo
    <3> QED BY <3>1, <3>2
  <2> QED BY <2>1
<1>2. stash' \in [Guns -> Nat]
  BY Kinds
<1> QED BY <1>1, <1>2

\* Letting go of a weapon in the list keeps slots and lists in order.
LEMMA LetGoOwns ==
  ASSUME TypeOK, Owning, NEW p \in Players, NEW w \in list[p], LetGo(p, w)
  PROVE  /\ SlotsAgree'
         /\ \A q \in Players : list'[q] \subseteq Owned(q)' /\ Owned(q)' \subseteq Owned(q)
         /\ \A q \in Players \ {p} : list'[q] = list[q]
         /\ w \in Weapons /\ owner'[w] = Nobody
         /\ \A v \in Weapons \ {w} : owner'[v] = owner[v]
<1>1. w \in Weapons /\ owner[w] = p
  BY DEF TypeOK, Owning, OwnedLists, Owned
<1>2. owner'[w] = Nobody /\ \A v \in Weapons \ {w} : owner'[v] = owner[v]
  BY <1>1 DEF LetGo, TypeOK
<1>3. Owned(p)' = Owned(p) \ {w} /\ \A q \in Players \ {p} : Owned(q)' = Owned(q)
  BY <1>1, <1>2, Kinds DEF Owned
<1>4. /\ flags'[p] = flags[p] \ {Slot(w)} /\ list'[p] = list[p] \ {w}
      /\ \A q \in Players \ {p} : flags'[q] = flags[q] /\ list'[q] = list[q]
  BY DEF LetGo, TypeOK
<1>5. \A q \in Players : list'[q] \subseteq Owned(q)' /\ Owned(q)' \subseteq Owned(q)
  BY <1>3, <1>4 DEF Owning, OwnedLists
<1>6. SlotsAgree'
  <2> SUFFICES ASSUME NEW q \in Players
               PROVE  /\ flags'[q] = {Slot(v) : v \in Owned(q)'}
                      /\ \A u, v \in Owned(q)' : Slot(u) = Slot(v) => u = v
    BY DEF SlotsAgree, Slot
  <2>1. /\ flags[q] = {Slot(v) : v \in Owned(q)}
        /\ \A u, v \in Owned(q) : Slot(u) = Slot(v) => u = v
    BY DEF Owning, SlotsAgree
  <2>2. CASE q = p
    <3>1. w \in Owned(p)
      BY <1>1 DEF Owned
    <3>2. {Slot(v) : v \in Owned(p) \ {w}} = {Slot(v) : v \in Owned(p)} \ {Slot(w)}
      BY <2>1, <2>2, <3>1
    <3> QED BY <1>3, <1>4, <2>1, <2>2, <3>2
  <2>3. CASE q # p
    BY <1>3, <1>4, <2>1, <2>3
  <2> QED BY <2>2, <2>3
<1> QED BY <1>1, <1>2, <1>4, <1>5, <1>6

-----------------------------------------------------------------------------
(* The types *)

LEMMA GunTypes ==
  ASSUME TypeOK, OwnedLists, NEW p \in Players, NEW g \in Guns, GunNext(p, g)
  PROVE  TypeOK'
<1> DEFINE c == ClassOf[g]
<1>0. /\ c \in Classes /\ pool[p][c] \in Nat /\ pool[p] \in [Classes -> Nat] /\ clip[g] \in Nat
      /\ MaxClip[c] \in Nat /\ clip[g] <= MaxClip[c]
      /\ BoxSize[c] \in Nat /\ boxes[c] \in Nat /\ Reserve(g) \in Nat
      /\ Holds(p, g) => Reserve(g) = pool[p][c]
  BY Kinds, UsedIsOwned, ArmsAssumption DEF TypeOK, ArmsAssumption, Reserve, Holds
<1> HIDE DEF c
<1>1. CASE DropAmmo(p, g)
  <2>1. pool[p][c] >= BoxSize[c] /\ pool' = [pool EXCEPT ![p][c] = pool[p][c] - BoxSize[c]]
    BY <1>1 DEF DropAmmo, c
  <2>2. pool' \in [Players -> [Classes -> Nat]]
    BY <1>0, <2>1 DEF TypeOK
  <2> QED BY <1>0, <1>1, <2>2 DEF TypeOK, DropAmmo, c, weaponVars, gunVars
<1>2. CASE Fire(p, g)
  BY <1>0, <1>2 DEF TypeOK, Fire, playerVars, worldVars, c
<1>3. CASE Reload(p, g)
  BY <1>0, <1>3 DEF TypeOK, Reload, playerVars, worldVars
<1>4. CASE StartLoading(p, g)
  BY <1>0, <1>4 DEF TypeOK, StartLoading, playerVars, worldVars
<1>5. CASE LoadRound(p, g)
  <2>1. pool[p][c] > 0 /\ clip[g] < MaxClip[c] /\ pool' = [pool EXCEPT ![p][c] = pool[p][c] - 1]
    BY <1>0, <1>5 DEF LoadRound, CanLoad, c
  <2>2. pool' \in [Players -> [Classes -> Nat]]
    BY <1>0, <2>1 DEF TypeOK
  <2>3. clip' \in [Guns -> Nat] /\ \A h \in Guns : clip'[h] <= MaxClip[ClassOf[h]]
    <3>1. CASE clip' = [clip EXCEPT ![g] = clip[g] + 1]
      <4>1. clip' \in [Guns -> Nat] /\ \A h \in Guns \ {g} : clip'[h] = clip[h]
        BY <1>0, <3>1 DEF TypeOK
      <4>2. clip'[g] <= MaxClip[ClassOf[g]]
        BY <1>0, <2>1, <3>1 DEF TypeOK, c
      <4> QED BY <4>1, <4>2 DEF TypeOK
    <3>2. CASE UNCHANGED clip
      BY <3>2 DEF TypeOK
    <3> QED BY <1>5, <3>1, <3>2 DEF LoadRound
  <2> QED BY <1>5, <2>2, <2>3 DEF TypeOK, LoadRound, worldVars
<1>6. CASE Interrupt(p, g)
  BY <1>0, <1>6 DEF TypeOK, Interrupt, playerVars, worldVars, c
<1>7. CASE FinishReload(p, g)
  <2> DEFINE room == MaxClip[c] - clip[g]
             rest == IF room < pool[p][c] THEN room ELSE pool[p][c]
  <2>1. /\ clip' = [clip EXCEPT ![g] = clip[g] + rest]
        /\ pool' = [pool EXCEPT ![p][c] = pool[p][c] - rest]
        /\ reload' = [reload EXCEPT ![g] = "none"]
        /\ UNCHANGED <<life, list, active, flags, here, owner, stash, throw, worldVars>>
    BY <1>0, <1>7 DEF FinishReload, c
  <2>2. rest \in Nat /\ rest <= pool[p][c] /\ clip[g] + rest <= MaxClip[c]
    BY <1>0
  <2> HIDE DEF rest
  <2>3. pool' \in [Players -> [Classes -> Nat]]
    BY <1>0, <2>1, <2>2 DEF TypeOK
  <2>4. clip' \in [Guns -> Nat] /\ \A h \in Guns : clip'[h] <= MaxClip[ClassOf[h]]
    <3>1. clip' \in [Guns -> Nat]
      BY <1>0, <2>1, <2>2 DEF TypeOK
    <3>2. \A h \in Guns \ {g} : clip'[h] = clip[h]
      BY <2>1 DEF TypeOK
    <3>3. clip'[g] <= MaxClip[ClassOf[g]]
      BY <2>1, <2>2 DEF TypeOK, c
    <3> QED BY <3>1, <3>2, <3>3 DEF TypeOK
  <2> QED BY <2>1, <2>3, <2>4 DEF TypeOK, worldVars
<1> QED BY <1>1, <1>2, <1>3, <1>4, <1>5, <1>6, <1>7 DEF GunNext

\* The actions of a player that are not of a gun in his hands.
LEMMA PlayerTypes ==
  ASSUME TypeOK, OwnedLists, NEW p \in Players, PlayerNext(p)
  PROVE  TypeOK'
<1>1. ASSUME NEW w \in Weapons \cup {Hands}, Switch(p, w) PROVE TypeOK'
  BY <1>1 DEF TypeOK, OwnedLists, Switch, Holstered, Deployed, worldVars
<1>2. ASSUME NEW w \in Weapons, Bump(p, w) PROVE TypeOK'
  <2>1. pool' \in [Players -> [Classes -> Nat]] /\ stash' \in [Guns -> Nat]
    <3>1. CASE w \in Guns
      <4>1. /\ pool' = [pool EXCEPT ![p][ClassOf[w]] = pool[p][ClassOf[w]] + stash[w]]
            /\ stash' = [stash EXCEPT ![w] = 0]
        BY <1>2, <3>1 DEF Bump
      <4>2. /\ pool[p] \in [Classes -> Nat] /\ ClassOf[w] \in Classes
            /\ pool[p][ClassOf[w]] + stash[w] \in Nat
        BY <3>1, Kinds DEF TypeOK
      <4> QED BY <4>1, <4>2, <3>1 DEF TypeOK
    <3>2. CASE w \notin Guns
      BY <1>2, <3>2 DEF Bump, TypeOK
    <3> QED BY <3>1, <3>2
  <2>2. /\ active' \in [Players -> Weapons \cup {Hands}]
        /\ reload' \in [Guns -> {"none", "start", "loading", "stopped"}]
        /\ throw' \in [Molotovs -> {"idle", "lighting", "drawback", "ready", "thrown"}]
    <3>1. \/ UNCHANGED <<active, reload, throw>>
          \/ /\ active' = [active EXCEPT ![p] = w]
             /\ reload' = Holstered(active[p])
             /\ throw' = Deployed(w)
      BY <1>2 DEF Bump
    <3> QED BY <3>1 DEF TypeOK, Holstered, Deployed
  <2> QED BY <1>2, <2>1, <2>2, Kinds DEF TypeOK, Bump, worldVars
<1>3. ASSUME NEW w \in Weapons, DropWeapon(p, w) PROVE TypeOK'
  <2>1. /\ active' \in [Players -> Weapons \cup {Hands}]
        /\ throw' \in [Molotovs -> {"idle", "lighting", "drawback", "ready", "thrown"}]
    BY <1>3, LetGoTypes DEF TypeOK, DropWeapon, Deployed
  <2> QED BY <1>3, <2>1, LetGoTypes DEF TypeOK, DropWeapon, worldVars
<1>4. ASSUME NEW m \in Molotovs, Burns(p, m) PROVE TypeOK'
  BY <1>4 DEF TypeOK, Burns, playerVars, gunVars, worldVars
<1>5. ASSUME NEW m \in Molotovs, UsedUp(p, m) PROVE TypeOK'
  <2>1. m \in Weapons
    BY DEF Weapons
  <2>2. /\ active' \in [Players -> Weapons \cup {Hands}]
        /\ throw' \in [Molotovs -> {"idle", "lighting", "drawback", "ready", "thrown"}]
    BY <1>5, <2>1, LetGoTypes DEF TypeOK, UsedUp, Deployed
  <2> QED BY <1>5, <2>1, <2>2, LetGoTypes DEF TypeOK, UsedUp, worldVars
<1>6. ASSUME NEW c \in GunClasses, TakeBox(p, c) PROVE TypeOK'
  <2> DEFINE room == MaxCarry[c] - pool[p][c]
             sum == IF BoxSize[c] < room THEN pool[p][c] + BoxSize[c] ELSE MaxCarry[c]
  <2>0. c \in Classes
    BY Kinds DEF GunClasses
  <2>1. sum \in Nat /\ boxes[c] - 1 \in Nat /\ pool[p] \in [Classes -> Nat]
    <3>1. pool[p] \in [Classes -> Nat] /\ pool[p][c] \in Nat
      BY <2>0 DEF TypeOK
    <3>2. MaxCarry[c] \in Nat /\ BoxSize[c] \in Nat
      BY <2>0, ArmsAssumption DEF ArmsAssumption
    <3>3. boxes[c] \in Nat /\ boxes[c] > 0
      BY <1>6, <2>0 DEF TypeOK, TakeBox
    <3> QED BY <3>1, <3>2, <3>3
  <2>2. pool' = [pool EXCEPT ![p][c] = sum] /\ boxes' = [boxes EXCEPT ![c] = boxes[c] - 1]
    BY <1>6 DEF TakeBox
  <2> HIDE DEF sum
  <2>3. pool' \in [Players -> [Classes -> Nat]] /\ boxes' \in [Classes -> Nat]
    BY <2>0, <2>1, <2>2 DEF TypeOK
  <2> QED BY <1>6, <2>3 DEF TypeOK, TakeBox, weaponVars, gunVars
<1>7. ASSUME NEW l \in {"alive", "out"}, Strip(p, l) PROVE TypeOK'
  <2>1. pool' \in [Players -> [Classes -> Nat]] /\ here' \in [Weapons -> {"none", "there", "doomed"}]
    BY <1>7 DEF TypeOK, Strip
  <2>2. /\ life' \in [Players -> {"waiting", "alive", "out"}]
        /\ list' \in [Players -> SUBSET Weapons]
        /\ active' \in [Players -> Weapons \cup {Hands}]
        /\ reload' \in [Guns -> {"none", "start", "loading", "stopped"}]
    BY <1>7 DEF TypeOK, Strip, Holstered
  <2> QED BY <1>7, <2>1, <2>2 DEF TypeOK, Strip, worldVars
<1>8. CASE Die(p)
  <2>1. active[p] # Hands => active[p] \in Weapons
    BY DEF TypeOK
  <2>2. /\ list' \in [Players -> SUBSET Weapons]
        /\ owner' \in [Weapons -> Players \cup {Nobody}]
        /\ flags' \in [Players -> SUBSET {SlotOf[c] : c \in Classes}]
        /\ pool' \in [Players -> [Classes -> Nat]]
        /\ stash' \in [Guns -> Nat]
    <3>1. CASE active[p] = Hands
      BY <1>8, <3>1 DEF Die, TypeOK
    <3>2. CASE active[p] # Hands
      BY <1>8, <2>1, <3>2, LetGoTypes DEF Die
    <3> QED BY <3>1, <3>2
  <2>3. here' \in [Weapons -> {"none", "there", "doomed"}]
    BY <1>8 DEF TypeOK, Die
  <2> QED BY <1>8, <2>2, <2>3 DEF TypeOK, Die, Holstered, worldVars
<1>9. CASE Disconnect(p)
  BY <1>9 DEF TypeOK, Disconnect, gunVars, worldVars
<1>10. CASE Spawn(p)
  <2> PICK D \in Draws, G \in SUBSET Free :
         /\ {ClassOf[w] : w \in G} = D
         /\ loadout' = [c \in Classes |-> IF c \in D THEN loadout[c] - 1 ELSE loadout[c]]
         /\ here' = [w \in Weapons |-> IF w \in G THEN "there" ELSE here[w]]
         /\ owner' = [w \in Weapons |-> IF w \in G THEN p ELSE owner[w]]
         /\ list' = [list EXCEPT ![p] = G]
         /\ flags' = [flags EXCEPT ![p] = @ \cup {Slot(w) : w \in G}]
         /\ pool' = [pool EXCEPT ![p] = [c \in Classes |-> IF c \in D \cap GunClasses THEN MaxClip[c] ELSE 0]]
         /\ \E best \in G \cup {Hands} : active' = [active EXCEPT ![p] = best]
    BY <1>10 DEF Spawn
  <2>1. G \subseteq Weapons
    BY DEF Free
  <2>2. loadout' \in [Classes -> Nat]
    BY DrawsLeft DEF TypeOK
  <2>3. pool' \in [Players -> [Classes -> Nat]]
    BY ArmsAssumption DEF TypeOK, ArmsAssumption
  <2>4. flags' \in [Players -> SUBSET {SlotOf[c] : c \in Classes}]
    BY <2>1, Kinds DEF TypeOK
  <2>5. active' \in [Players -> Weapons \cup {Hands}] /\ list' \in [Players -> SUBSET Weapons]
    BY <2>1 DEF TypeOK
  <2> QED BY <1>10, <2>2, <2>3, <2>4, <2>5 DEF TypeOK, Spawn, gunVars
<1> QED BY <1>1, <1>2, <1>3, <1>4, <1>5, <1>6, <1>7, <1>8, <1>9, <1>10, GunTypes DEF PlayerNext

LEMMA TypesStep ==
  ASSUME TypeOK, OwnedLists, [Next]_vars
  PROVE  TypeOK'
<1>1. ASSUME NEW p \in Players, PlayerNext(p) PROVE TypeOK'
  BY <1>1, PlayerTypes
<1>2. ASSUME NEW w \in Weapons, WeaponAppears(w) \/ RemoveWeapon(w) PROVE TypeOK'
  BY <1>2 DEF TypeOK, WeaponAppears, RemoveWeapon, playerVars, gunVars, worldVars
<1>3. ASSUME NEW w \in Weapons, Gone(w) PROVE TypeOK'
  <2>1. flags' \in [Players -> SUBSET {SlotOf[c] : c \in Classes}]
    BY <1>3 DEF Gone, Freed, TypeOK
  <2>2. clip' \in [Guns -> Nat] /\ \A g \in Guns : clip'[g] <= MaxClip[ClassOf[g]]
    BY <1>3, Kinds, ArmsAssumption DEF Gone, TypeOK, ArmsAssumption
  <2> QED BY <1>3, <2>1, <2>2 DEF TypeOK, Gone, Holstered, Deployed, worldVars
<1>4. ASSUME NEW c \in GunClasses, BoxAppears(c) PROVE TypeOK'
  BY <1>4, Kinds, ArmsAssumption
     DEF TypeOK, BoxAppears, GunClasses, playerVars, weaponVars, gunVars, ArmsAssumption
<1>5. CASE NewRound
  <2>1. \A g \in Guns : clip'[g] <= MaxClip[ClassOf[g]]
    BY <1>5, Kinds, ArmsAssumption DEF NewRound, ArmsAssumption
  <2> QED BY <1>5, <2>1, ArmsAssumption DEF TypeOK, NewRound, ArmsAssumption
<1>6. CASE UNCHANGED vars
  BY <1>6 DEF TypeOK, vars, playerVars, weaponVars, gunVars, worldVars
<1> QED BY <1>1, <1>2, <1>3, <1>4, <1>5, <1>6 DEF Next

-----------------------------------------------------------------------------
(* Slots, owners and lists *)

\* SlotsAgree depends on flags and owners only.
LEMMA SlotsFrame ==
  ASSUME SlotsAgree, UNCHANGED <<flags, owner>>
  PROVE  SlotsAgree'
BY DEF SlotsAgree, Owned, Slot

\* A step that takes and gives no weapon.
LEMMA NoneTaken ==
  ASSUME Owning, UNCHANGED <<life, list, flags, owner>>,
         \A p \in Players : active'[p] \in list[p] \cup {Hands},
         \A w \in Weapons : here'[w] = "none" => here[w] = "none",
         \A m \in Molotovs : here'[m] = "none" => throw'[m] \in {"idle", throw[m]}
  PROVE  Owning'
<1>1. SlotsAgree'
  BY SlotsFrame DEF Owning
<1>2. OwnedLists' /\ WaitingEmpty'
  BY DEF Owning, OwnedLists, WaitingEmpty, Owned
<1>3. FreeIsNew'
  BY DEF Owning, FreeIsNew, Weapons
<1> QED BY <1>1, <1>2, <1>3 DEF Owning

\* A player lets go of his active weapon, which stays in the map or is removed.
LEMMA LetGoKeeps ==
  ASSUME TypeOK, Owning, NEW p \in Players, NEW w \in list[p], LetGo(p, w),
         life[p] # "waiting",
         \A q \in Players : life'[q] = "waiting" => life[q] = "waiting",
         active[p] = w,
         NEW next \in list'[p] \cup {Hands},
         active' = [active EXCEPT ![p] = next],
         \A v \in Weapons : here'[v] = "none" => here[v] = "none",
         \A m \in Molotovs : throw'[m] \in {"idle", throw[m]}
  PROVE  Owning'
<1>1. SlotsAgree'
  BY LetGoOwns
<1>2. OwnedLists'
  <2> SUFFICES ASSUME NEW q \in Players
               PROVE  list'[q] \subseteq Owned(q)' /\ active'[q] \in list'[q] \cup {Hands}
    BY DEF OwnedLists
  <2>1. CASE q = p
    BY <2>1, LetGoOwns DEF TypeOK
  <2>2. CASE q # p
    <3>1. list'[q] = list[q] /\ active'[q] = active[q]
      BY <2>2, LetGoOwns DEF TypeOK
    <3> QED BY <3>1, LetGoOwns DEF Owning, OwnedLists
  <2> QED BY <2>1, <2>2
<1>3. FreeIsNew'
  BY LetGoOwns DEF Owning, FreeIsNew, Weapons
<1>4. WaitingEmpty'
  BY LetGoOwns DEF Owning, WaitingEmpty
<1> QED BY <1>1, <1>2, <1>3, <1>4 DEF Owning

LEMMA PlayerOwns ==
  ASSUME TypeOK, Owning, NEW p \in Players, PlayerNext(p)
  PROVE  Owning'
<1>0. OwnedLists /\ FreeIsNew /\ WaitingEmpty /\ SlotsAgree
  BY DEF Owning
<1>1. ASSUME NEW w \in Weapons \cup {Hands}, Switch(p, w) PROVE Owning'
  BY <1>0, <1>1, NoneTaken DEF Switch, OwnedLists, TypeOK, Deployed
<1>2. ASSUME NEW w \in Weapons, Bump(p, w) PROVE Owning'
  <2>0. /\ here[w] = "there" /\ owner[w] = Nobody /\ Slot(w) \notin flags[p]
        /\ life[p] = "alive" /\ UNCHANGED <<life, here>>
        /\ flags' = [flags EXCEPT ![p] = @ \cup {Slot(w)}]
        /\ list' = [list EXCEPT ![p] = @ \cup {w}]
    BY <1>2 DEF Bump, MayTake
  <2>1. owner'[w] = p /\ \A v \in Weapons \ {w} : owner'[v] = owner[v]
    BY <1>2 DEF Bump, TypeOK
  <2>2. Owned(p)' = Owned(p) \cup {w} /\ \A q \in Players \ {p} : Owned(q)' = Owned(q)
    BY <2>0, <2>1, Kinds DEF Owned
  <2>3. SlotsAgree'
    <3> SUFFICES ASSUME NEW q \in Players
                 PROVE  /\ flags'[q] = {Slot(v) : v \in Owned(q)'}
                        /\ \A u, v \in Owned(q)' : Slot(u) = Slot(v) => u = v
      BY DEF SlotsAgree, Slot
    <3>1. /\ flags[q] = {Slot(v) : v \in Owned(q)}
          /\ \A u, v \in Owned(q) : Slot(u) = Slot(v) => u = v
      BY <1>0 DEF SlotsAgree
    <3>2. CASE q = p
      <4>1. flags'[p] = flags[p] \cup {Slot(w)}
        BY <2>0 DEF TypeOK
      <4>2. \A v \in Owned(p) : Slot(v) # Slot(w)
        BY <2>0, <3>1, <3>2
      <4> QED BY <2>2, <3>1, <3>2, <4>1, <4>2
    <3>3. CASE q # p
      BY <2>0, <2>2, <3>1, <3>3 DEF TypeOK
    <3> QED BY <3>2, <3>3
  <2>4. OwnedLists'
    <3> SUFFICES ASSUME NEW q \in Players
                 PROVE  list'[q] \subseteq Owned(q)' /\ active'[q] \in list'[q] \cup {Hands}
      BY DEF OwnedLists
    <3>1. active'[q] = active[q] \/ (q = p /\ active'[q] = w)
      BY <1>2 DEF Bump, TypeOK
    <3>2. list'[q] = IF q = p THEN list[q] \cup {w} ELSE list[q]
      BY <2>0 DEF TypeOK
    <3> QED BY <1>0, <2>2, <3>1, <3>2 DEF OwnedLists
  <2>5. FreeIsNew'
    BY <1>0, <1>2, <2>0, <2>1 DEF FreeIsNew, Bump, Deployed, Weapons, TypeOK
  <2>6. WaitingEmpty'
    BY <1>0, <2>0, <2>2 DEF WaitingEmpty
  <2> QED BY <2>3, <2>4, <2>5, <2>6 DEF Owning
<1>3. ASSUME NEW w \in Weapons, DropWeapon(p, w) PROVE Owning'
  <2>1. w \in list[p] /\ active[p] = w /\ life[p] = "alive"
    BY <1>0, <1>3, UsedIsOwned DEF DropWeapon, Holds
  <2>2. PICK next \in list'[p] \cup {Hands} :
          active' = [active EXCEPT ![p] = next] /\ throw' = Deployed(next)
    BY <1>3 DEF DropWeapon
  <2> QED BY <1>3, <2>1, <2>2, LetGoKeeps DEF DropWeapon, Deployed
<1>4. ASSUME NEW m \in Molotovs, Burns(p, m) PROVE Owning'
  <2>1. owner[m] = p /\ m \in Weapons
    BY <1>0, <1>4, UsedIsOwned DEF Burns, Holds, Weapons
  <2>2. here[m] # "none"
    BY <1>0, <2>1, Kinds DEF FreeIsNew
  <2>3. \A n \in Molotovs \ {m} : throw'[n] = throw[n]
    BY <1>4 DEF Burns, TypeOK
  <2> QED BY <1>0, <1>4, <2>2, <2>3, NoneTaken DEF Burns, OwnedLists, playerVars
<1>5. ASSUME NEW m \in Molotovs, UsedUp(p, m) PROVE Owning'
  <2>1. m \in list[p] /\ active[p] = m /\ life[p] = "alive" /\ m \in Weapons
    BY <1>0, <1>5, UsedIsOwned DEF UsedUp, Holds, Weapons
  <2>2. PICK next \in list'[p] \cup {Hands} :
          active' = [active EXCEPT ![p] = next] /\ throw' = Deployed(next)
    BY <1>5 DEF UsedUp
  <2>3. \A v \in Weapons : here'[v] = "none" => here[v] = "none"
    BY <1>5 DEF UsedUp, TypeOK
  <2> QED BY <1>5, <2>1, <2>2, <2>3, LetGoKeeps DEF UsedUp, Deployed
<1>6. ASSUME NEW c \in GunClasses, TakeBox(p, c) PROVE Owning'
  BY <1>0, <1>6, NoneTaken DEF TakeBox, OwnedLists, weaponVars
<1>7. ASSUME NEW l \in {"alive", "out"}, Strip(p, l) PROVE Owning'
  <2>1. SlotsAgree'
    BY <1>0, <1>7, SlotsFrame DEF Strip
  <2>2. OwnedLists'
    BY <1>0, <1>7 DEF Strip, OwnedLists, Owned, TypeOK
  <2>3. FreeIsNew'
    BY <1>0, <1>7 DEF Strip, FreeIsNew, Weapons
  <2>4. WaitingEmpty'
    BY <1>0, <1>7 DEF Strip, WaitingEmpty, Owned, TypeOK
  <2> QED BY <2>1, <2>2, <2>3, <2>4 DEF Owning
<1>8. CASE Die(p)
  <2>1. CASE active[p] = Hands
    <3>1. CanHolster(Hands)
      BY Kinds DEF CanHolster, Weapons
    <3>2. SlotsAgree'
      BY <1>0, <1>8, <2>1, SlotsFrame DEF Die
    <3>3. OwnedLists'
      BY <1>0, <1>8, <2>1 DEF Die, OwnedLists, Owned, TypeOK
    <3>4. FreeIsNew'
      BY <1>0, <1>8, <2>1, <3>1 DEF Die, FreeIsNew
    <3>5. WaitingEmpty'
      BY <1>0, <1>8, <2>1 DEF Die, WaitingEmpty, Owned, TypeOK
    <3> QED BY <3>2, <3>3, <3>4, <3>5 DEF Owning
  <2>2. CASE active[p] # Hands
    <3>1. active[p] \in list[p] /\ active[p] \in Weapons /\ LetGo(p, active[p]) /\ life[p] = "alive"
      BY <1>0, <1>8, <2>2 DEF Die, OwnedLists, TypeOK
    <3>2. \A q \in Players : life'[q] = "waiting" => life[q] = "waiting"
      BY <1>8 DEF Die, TypeOK
    <3>3. \A v \in Weapons : here'[v] = "none" => here[v] = "none"
      BY <1>8 DEF Die, TypeOK
    <3>4. active' = [active EXCEPT ![p] = Hands] /\ UNCHANGED throw /\ Hands \in list'[p] \cup {Hands}
      BY <1>8 DEF Die
    <3> QED BY <3>1, <3>2, <3>3, <3>4, LetGoKeeps
  <2> QED BY <2>1, <2>2
<1>9. CASE Disconnect(p)
  <2>1. Owned(p)' = {} /\ \A q \in Players \ {p} : Owned(q)' = Owned(q)
    BY <1>9, Kinds DEF Disconnect, Owned
  <2>2. SlotsAgree'
    <3> SUFFICES ASSUME NEW q \in Players
                 PROVE  /\ flags'[q] = {Slot(v) : v \in Owned(q)'}
                        /\ \A u, v \in Owned(q)' : Slot(u) = Slot(v) => u = v
      BY DEF SlotsAgree, Slot
    <3> QED BY <1>0, <1>9, <2>1 DEF Disconnect, SlotsAgree, TypeOK
  <2>3. OwnedLists'
    BY <1>0, <1>9, <2>1 DEF Disconnect, OwnedLists, TypeOK
  <2>4. FreeIsNew'
    BY <1>0, <1>9 DEF Disconnect, FreeIsNew
  <2>5. WaitingEmpty'
    BY <1>0, <1>9, <2>1 DEF Disconnect, WaitingEmpty, TypeOK
  <2> QED BY <2>2, <2>3, <2>4, <2>5 DEF Owning
<1>10. CASE Spawn(p)
  <2> PICK D \in Draws, G \in SUBSET Free :
         /\ {ClassOf[w] : w \in G} = D
         /\ \A v, w \in G : ClassOf[v] = ClassOf[w] => v = w
         /\ here' = [w \in Weapons |-> IF w \in G THEN "there" ELSE here[w]]
         /\ owner' = [w \in Weapons |-> IF w \in G THEN p ELSE owner[w]]
         /\ list' = [list EXCEPT ![p] = G]
         /\ flags' = [flags EXCEPT ![p] = @ \cup {Slot(w) : w \in G}]
         /\ \E best \in G \cup {Hands} : active' = [active EXCEPT ![p] = best]
    BY <1>10 DEF Spawn
  <2>0. life[p] = "waiting" /\ life' = [life EXCEPT ![p] = "alive"] /\ UNCHANGED throw
    BY <1>10 DEF Spawn
  <2>1. \A w \in G : w \in Weapons /\ here[w] = "none" /\ owner[w] = Nobody
    BY <1>0 DEF Free, FreeIsNew
  <2>2. Owned(p) = {}
    BY <1>0, <2>0 DEF WaitingEmpty
  <2>3. Owned(p)' = G /\ \A q \in Players \ {p} : Owned(q)' = Owned(q)
    BY <2>1, <2>2, Kinds DEF Owned
  <2>4. SlotsAgree'
    <3> SUFFICES ASSUME NEW q \in Players
                 PROVE  /\ flags'[q] = {Slot(v) : v \in Owned(q)'}
                        /\ \A u, v \in Owned(q)' : Slot(u) = Slot(v) => u = v
      BY DEF SlotsAgree, Slot
    <3>1. CASE q = p
      <4>1. flags[p] = {}
        BY <1>0, <2>2 DEF SlotsAgree
      <4>2. flags'[p] = {Slot(w) : w \in G}
        BY <4>1 DEF TypeOK
      <4>3. \A u, v \in G : Slot(u) = Slot(v) => u = v
        <5> SUFFICES ASSUME NEW u \in G, NEW v \in G, Slot(u) = Slot(v) PROVE u = v
          OBVIOUS
        <5>1. ClassOf[u] \in D /\ ClassOf[v] \in D /\ SlotOf[ClassOf[u]] = SlotOf[ClassOf[v]]
          BY DEF Slot
        <5>2. ClassOf[u] = ClassOf[v]
          BY <5>1, DrawsApart
        <5> QED BY <5>2
      <4> QED BY <2>3, <3>1, <4>2, <4>3
    <3>2. CASE q # p
      BY <1>0, <2>3, <3>2 DEF SlotsAgree, TypeOK
    <3> QED BY <3>1, <3>2
  <2>5. OwnedLists'
    <3> SUFFICES ASSUME NEW q \in Players
                 PROVE  list'[q] \subseteq Owned(q)' /\ active'[q] \in list'[q] \cup {Hands}
      BY DEF OwnedLists
    <3>1. CASE q = p
      BY <2>3, <3>1 DEF TypeOK
    <3>2. CASE q # p
      BY <1>0, <2>3, <3>2 DEF OwnedLists, TypeOK
    <3> QED BY <3>1, <3>2
  <2>6. FreeIsNew'
    BY <1>0, <2>0 DEF FreeIsNew
  <2>7. WaitingEmpty'
    BY <1>0, <2>0, <2>3 DEF WaitingEmpty, TypeOK
  <2> QED BY <2>4, <2>5, <2>6, <2>7 DEF Owning
<1>11. ASSUME NEW g \in Guns, GunNext(p, g) PROVE Owning'
  <2>1. UNCHANGED <<life, list, active, flags, here, owner, throw>>
    BY <1>11 DEF GunNext, DropAmmo, Fire, Reload, StartLoading, LoadRound, Interrupt, FinishReload,
                 playerVars, weaponVars
  <2> QED BY <1>0, <2>1, NoneTaken DEF OwnedLists
<1> QED BY <1>1, <1>2, <1>3, <1>4, <1>5, <1>6, <1>7, <1>8, <1>9, <1>10, <1>11 DEF PlayerNext

\* Owners lose the weapons that are deleted, and their slots.
LEMMA GoneOwns ==
  ASSUME TypeOK, Owning, NEW w \in Weapons, Gone(w)
  PROVE  Owning'
<1>0. OwnedLists /\ FreeIsNew /\ WaitingEmpty /\ SlotsAgree
  BY DEF Owning
<1>1. owner'[w] = Nobody /\ \A v \in Weapons \ {w} : owner'[v] = owner[v]
  BY DEF Gone, TypeOK
<1>2. \A q \in Players : Owned(q)' = Owned(q) \ {w}
  BY <1>1, Kinds DEF Owned
<1>3. SlotsAgree'
  <2> SUFFICES ASSUME NEW q \in Players
               PROVE  /\ flags'[q] = {Slot(v) : v \in Owned(q)'}
                      /\ \A u, v \in Owned(q)' : Slot(u) = Slot(v) => u = v
    BY DEF SlotsAgree, Slot
  <2>1. /\ flags[q] = {Slot(v) : v \in Owned(q)}
        /\ \A u, v \in Owned(q) : Slot(u) = Slot(v) => u = v
    BY <1>0 DEF SlotsAgree
  <2>2. CASE owner[w] = q
    <3>1. flags'[q] = flags[q] \ {Slot(w)} /\ w \in Owned(q)
      BY <2>2, Kinds DEF Gone, Freed, Owned, TypeOK
    <3>2. {Slot(v) : v \in Owned(q) \ {w}} = {Slot(v) : v \in Owned(q)} \ {Slot(w)}
      BY <2>1, <3>1
    <3> QED BY <1>2, <2>1, <3>1, <3>2
  <2>3. CASE owner[w] # q
    <3>1. flags'[q] = flags[q] /\ w \notin Owned(q)
      BY <2>3 DEF Gone, Freed, Owned, TypeOK
    <3> QED BY <1>2, <2>1, <3>1
  <2> QED BY <2>2, <2>3
<1>4. OwnedLists'
  BY <1>0, <1>2 DEF Gone, OwnedLists
<1>5. FreeIsNew'
  BY <1>0, <1>1 DEF Gone, FreeIsNew, Deployed, TypeOK
<1>6. WaitingEmpty'
  BY <1>0, <1>2 DEF Gone, WaitingEmpty
<1> QED BY <1>3, <1>4, <1>5, <1>6 DEF Owning

LEMMA OwnsStep ==
  ASSUME TypeOK, Owning, [Next]_vars
  PROVE  Owning'
<1>1. ASSUME NEW p \in Players, PlayerNext(p) PROVE Owning'
  BY <1>1, PlayerOwns
<1>2. ASSUME NEW w \in Weapons, WeaponAppears(w) PROVE Owning'
  BY <1>2, NoneTaken DEF WeaponAppears, playerVars, Owning, OwnedLists, TypeOK
<1>3. ASSUME NEW w \in Weapons, RemoveWeapon(w) PROVE Owning'
  BY <1>3, NoneTaken DEF RemoveWeapon, playerVars, Owning, OwnedLists, TypeOK
<1>4. ASSUME NEW w \in Weapons, Gone(w) PROVE Owning'
  BY <1>4, GoneOwns
<1>5. ASSUME NEW c \in GunClasses, BoxAppears(c) PROVE Owning'
  BY <1>5, NoneTaken DEF BoxAppears, playerVars, weaponVars, Owning, OwnedLists
<1>6. CASE NewRound
  <2>1. \A p \in Players : flags'[p] = {} /\ Owned(p)' = {}
    BY <1>6, Kinds DEF NewRound, Owning, SlotsAgree, Owned
  <2>2. SlotsAgree'
    BY <2>1 DEF SlotsAgree
  <2>3. OwnedLists' /\ WaitingEmpty'
    BY <1>6, <2>1 DEF NewRound, OwnedLists, WaitingEmpty
  <2>4. FreeIsNew'
    BY <1>6 DEF NewRound, FreeIsNew
  <2> QED BY <2>2, <2>3, <2>4 DEF Owning
<1>7. CASE UNCHANGED vars
  BY <1>7, NoneTaken DEF vars, playerVars, weaponVars, Owning, OwnedLists
<1> QED BY <1>1, <1>2, <1>3, <1>4, <1>5, <1>6, <1>7 DEF Next

-----------------------------------------------------------------------------
(* Molotovs that burn *)

\* One that burns or was thrown stays as it is in the hands of its owner, or is removed.
LEMMA BurnsOn ==
  ASSUME Inv, [Next]_vars, NEW m \in Molotovs, here[m] = "there", ~CanHolster(m), here'[m] = "there"
  PROVE  \E p \in Players : /\ owner[m] = p /\ active[p] = m /\ owner'[m] = p /\ active'[p] = m
                            /\ throw[m] = "thrown" => throw'[m] = "thrown"
<1>0. TypeOK /\ OwnedLists /\ m \in Weapons
  BY DEF Inv, Owning, Weapons
<1>1. PICK p \in Players : owner[m] = p /\ active[p] = m
  BY DEF Inv, BurningHeld
<1>2. \A q \in Players : active[q] = m => q = p
  BY <1>0, <1>1, UsedIsOwned
<1> DEFINE Stays == owner'[m] = p /\ active'[p] = m /\ (throw[m] = "thrown" => throw'[m] = "thrown")
<1>3. SUFFICES Stays
  BY <1>1
<1>4. ASSUME NEW q \in Players, NEW w \in Weapons \cup {Hands}, Switch(q, w) PROVE Stays
  <2>1. q # p
    BY <1>1, <1>4 DEF Switch
  <2>2. w # m
    BY <1>0, <1>1, <1>4, <2>1, Kinds DEF Switch, OwnedLists, Owned
  <2> QED BY <1>0, <1>1, <1>4, <2>1, <2>2 DEF Switch, Deployed, TypeOK
<1>5. ASSUME NEW q \in Players, NEW w \in Weapons, Bump(q, w) PROVE Stays
  <2>1. w # m
    BY <1>1, <1>5, Kinds DEF Bump, MayTake
  <2>2. owner'[m] = p
    BY <1>0, <1>1, <1>5, <2>1 DEF Bump, TypeOK
  <2>3. CASE UNCHANGED <<active, reload, throw>>
    BY <1>1, <2>2, <2>3
  <2>4. CASE CanHolster(active[q]) /\ active' = [active EXCEPT ![q] = w] /\ throw' = Deployed(w)
    BY <1>0, <1>1, <2>1, <2>2, <2>4 DEF Deployed, TypeOK
  <2> QED BY <1>5, <2>3, <2>4 DEF Bump
<1>6. ASSUME NEW q \in Players, NEW w \in Weapons, DropWeapon(q, w) PROVE Stays
  <2>1. q # p /\ w # m
    BY <1>1, <1>2, <1>6 DEF DropWeapon, Holds
  <2>2. w \in list[q]
    BY <1>0, <1>6, UsedIsOwned DEF DropWeapon, Holds
  <2>3. PICK next \in list'[q] \cup {Hands} :
          active' = [active EXCEPT ![q] = next] /\ throw' = Deployed(next)
    BY <1>6 DEF DropWeapon
  <2>4. next # m
    BY <1>0, <1>1, <1>6, <2>1, Kinds DEF DropWeapon, LetGo, OwnedLists, Owned, TypeOK
  <2>5. owner'[m] = p
    BY <1>0, <1>1, <1>6, <2>1 DEF DropWeapon, LetGo, TypeOK
  <2> QED BY <1>0, <1>1, <2>1, <2>3, <2>4, <2>5 DEF Deployed, TypeOK
<1>7. ASSUME NEW q \in Players, NEW n \in Molotovs, UsedUp(q, n) PROVE Stays
  <2>1. n # m
    BY <1>0, <1>7 DEF UsedUp, TypeOK
  <2>2. q # p
    BY <1>1, <1>7, <2>1 DEF UsedUp, Holds
  <2>3. PICK next \in list'[q] \cup {Hands} :
          active' = [active EXCEPT ![q] = next] /\ throw' = Deployed(next)
    BY <1>7 DEF UsedUp
  <2>4. next # m
    BY <1>0, <1>1, <1>7, <2>2, Kinds DEF UsedUp, LetGo, OwnedLists, Owned, TypeOK
  <2>5. owner'[m] = p
    BY <1>0, <1>1, <1>7, <2>1 DEF UsedUp, LetGo, TypeOK
  <2> QED BY <1>0, <1>1, <2>2, <2>3, <2>4, <2>5 DEF Deployed, TypeOK
<1>8. ASSUME NEW q \in Players, NEW n \in Molotovs, Burns(q, n) PROVE Stays
  BY <1>0, <1>1, <1>8 DEF Burns, playerVars, TypeOK
<1>9. ASSUME NEW q \in Players, NEW l \in {"alive", "out"}, Strip(q, l) PROVE Stays
  <2>1. m \in list[p]
    BY <1>0, <1>1, UsedIsOwned
  <2>2. q # p
    BY <1>0, <1>9, <2>1 DEF Strip
  <2> QED BY <1>0, <1>1, <1>9, <2>2 DEF Strip, TypeOK
<1>10. ASSUME NEW q \in Players, Die(q) PROVE Stays
  <2>1. q # p
    BY <1>0, <1>1, <1>10 DEF Die, TypeOK
  <2>2. active[q] # m
    BY <1>2, <2>1
  <2>3. owner'[m] = p
    BY <1>0, <1>1, <1>10, <2>2 DEF Die, LetGo, TypeOK
  <2> QED BY <1>0, <1>1, <1>10, <2>1, <2>3 DEF Die, TypeOK
<1>11. ASSUME NEW q \in Players, Disconnect(q) PROVE Stays
  BY <1>0, <1>1, <1>11 DEF Disconnect, TypeOK
<1>12. ASSUME NEW q \in Players, Spawn(q) PROVE Stays
  <2>1. q # p
    BY <1>1, <1>0, <1>12 DEF Spawn, Inv, Owning, WaitingEmpty, Owned
  <2>2. owner'[m] = p
    BY <1>0, <1>1, <1>12 DEF Spawn, Free
  <2> QED BY <1>0, <1>1, <1>12, <2>1, <2>2 DEF Spawn, TypeOK
<1>13. ASSUME NEW q \in Players, NEW c \in GunClasses, TakeBox(q, c) PROVE Stays
  BY <1>1, <1>13 DEF TakeBox, weaponVars
<1>14. ASSUME NEW q \in Players, NEW g \in Guns, GunNext(q, g) PROVE Stays
  <2>1. UNCHANGED <<active, owner, throw>>
    BY <1>14 DEF GunNext, DropAmmo, Fire, Reload, StartLoading, LoadRound, Interrupt, FinishReload,
                 playerVars, weaponVars
  <2> QED BY <1>1, <2>1
<1>15. ASSUME NEW w \in Weapons, WeaponAppears(w) \/ RemoveWeapon(w) PROVE Stays
  BY <1>1, <1>15 DEF WeaponAppears, RemoveWeapon, playerVars
<1>16. ASSUME NEW w \in Weapons, Gone(w) PROVE Stays
  <2>1. w # m
    BY <1>16 DEF Gone
  <2> QED BY <1>0, <1>1, <1>16, <2>1 DEF Gone, Deployed, TypeOK
<1>17. ASSUME NEW c \in GunClasses, BoxAppears(c) PROVE Stays
  BY <1>1, <1>17 DEF BoxAppears, playerVars, weaponVars
<1>18. CASE NewRound
  BY <1>0, <1>18 DEF NewRound
<1>19. CASE UNCHANGED vars
  BY <1>1, <1>19 DEF vars, playerVars, weaponVars
<1> QED BY <1>4, <1>5, <1>6, <1>7, <1>8, <1>9, <1>10, <1>11, <1>12, <1>13, <1>14, <1>15, <1>16,
           <1>17, <1>18, <1>19 DEF Next, PlayerNext

\* A molotov comes to burn in the hands of its owner only.
LEMMA OnlyHeldBurn ==
  ASSUME TypeOK, Owning, [Next]_vars, NEW m \in Molotovs
  PROVE  \/ throw'[m] \in {"idle", throw[m]}
         \/ \E p \in Players : owner'[m] = p /\ active'[p] = m
<1> DEFINE Quiet == throw'[m] \in {"idle", throw[m]}
<1>1. ASSUME NEW p \in Players, PlayerNext(p)
      PROVE  Quiet \/ \E q \in Players : owner'[m] = q /\ active'[q] = m
  <2>1. ASSUME NEW n \in Molotovs, Burns(p, n)
        PROVE  Quiet \/ (owner'[m] = p /\ active'[p] = m)
    <3>1. CASE n = m
      BY <2>1, <3>1, UsedIsOwned DEF Burns, Holds, playerVars, Owning, Weapons
    <3>2. CASE n # m
      BY <2>1, <3>2 DEF Burns, TypeOK
    <3> QED BY <3>1, <3>2
  <2>2. ASSUME NEW w \in Weapons \cup {Hands}, Switch(p, w) PROVE Quiet
    BY <2>2 DEF Switch, Deployed
  <2>3. ASSUME NEW w \in Weapons, Bump(p, w) \/ DropWeapon(p, w) PROVE Quiet
    BY <2>3 DEF Bump, DropWeapon, Deployed
  <2>4. ASSUME NEW n \in Molotovs, UsedUp(p, n) PROVE Quiet
    BY <2>4 DEF UsedUp, Deployed
  <2>5. ASSUME NEW g \in Guns, GunNext(p, g) PROVE Quiet
    BY <2>5 DEF GunNext, DropAmmo, Fire, Reload, StartLoading, LoadRound, Interrupt, FinishReload,
                weaponVars
  <2>6. ASSUME NEW c \in GunClasses, TakeBox(p, c) PROVE Quiet
    BY <2>6 DEF TakeBox, weaponVars
  <2>7. ASSUME NEW l \in {"alive", "out"}, Strip(p, l) PROVE Quiet
    BY <2>7 DEF Strip
  <2>8. CASE Die(p) \/ Disconnect(p) \/ Spawn(p)
    BY <2>8 DEF Die, Disconnect, Spawn
  <2> QED BY <1>1, <2>1, <2>2, <2>3, <2>4, <2>5, <2>6, <2>7, <2>8 DEF PlayerNext
<1>2. ASSUME NEW w \in Weapons, WeaponAppears(w) \/ RemoveWeapon(w) \/ Gone(w) PROVE Quiet
  BY <1>2 DEF WeaponAppears, RemoveWeapon, Gone, Deployed
<1>3. CASE NewRound \/ UNCHANGED vars \/ \E c \in GunClasses : BoxAppears(c)
  BY <1>3 DEF NewRound, BoxAppears, vars, weaponVars
<1> QED BY <1>1, <1>2, <1>3 DEF Next

\* A weapon comes into the map from a free entity slot.
LEMMA AppearsFromFree ==
  ASSUME TypeOK, [Next]_vars, NEW m \in Molotovs, here[m] # "there", here'[m] = "there"
  PROVE  here[m] = "none"
<1>0. m \in Weapons
  BY DEF Weapons
<1>1. ASSUME NEW p \in Players, PlayerNext(p) PROVE here[m] = "none"
  <2>1. CASE Spawn(p)
    BY <1>0, <2>1 DEF Spawn, Free
  <2>2. CASE ~Spawn(p)
    BY <1>0, <1>1, <2>2
       DEF PlayerNext, Switch, Bump, DropWeapon, GunNext, DropAmmo, Fire, Reload, StartLoading,
           LoadRound, Interrupt, FinishReload, Burns, UsedUp, TakeBox, Strip, Die, Disconnect,
           weaponVars, TypeOK
  <2> QED BY <2>1, <2>2
<1>2. ASSUME NEW w \in Weapons, WeaponAppears(w) \/ RemoveWeapon(w) \/ Gone(w) PROVE here[m] = "none"
  BY <1>0, <1>2 DEF WeaponAppears, RemoveWeapon, Gone, Free, TypeOK
<1>3. CASE NewRound \/ UNCHANGED vars \/ \E c \in GunClasses : BoxAppears(c)
  BY <1>0, <1>3 DEF NewRound, BoxAppears, vars, weaponVars
<1> QED BY <1>1, <1>2, <1>3 DEF Next

LEMMA BurningStep ==
  ASSUME Inv, [Next]_vars
  PROVE  BurningHeld'
<1> SUFFICES ASSUME NEW m \in Molotovs, here'[m] = "there", ~CanHolster(m)'
             PROVE  \E p \in Players : owner'[m] = p /\ active'[p] = m
  BY DEF BurningHeld
<1>0. m \in Weapons /\ throw'[m] \notin {"idle", "lighting"}
  BY DEF CanHolster, Weapons
<1>1. CASE here[m] = "there" /\ ~CanHolster(m)
  BY <1>1, BurnsOn
<1>2. CASE here[m] = "there" /\ CanHolster(m)
  BY <1>0, <1>2, OnlyHeldBurn DEF Inv, CanHolster
<1>3. CASE here[m] # "there"
  <2>1. throw[m] = "idle"
    BY <1>0, <1>3, AppearsFromFree DEF Inv, Owning, FreeIsNew
  <2> QED BY <1>0, <2>1, OnlyHeldBurn DEF Inv
<1> QED BY <1>1, <1>2, <1>3

-----------------------------------------------------------------------------
(* Theorems *)

LEMMA Initially == Init => Inv
<1> SUFFICES ASSUME Init PROVE Inv
  OBVIOUS
<1>1. \A g \in Guns : clip[g] <= MaxClip[ClassOf[g]]
  BY Kinds, ArmsAssumption DEF Init, ArmsAssumption
<1>2. TypeOK
  BY <1>1, ArmsAssumption DEF Init, TypeOK, ArmsAssumption
<1>3. \A p \in Players : Owned(p) = {}
  BY Kinds DEF Init, Owned
<1>4. Owning
  BY <1>3 DEF Init, Owning, SlotsAgree, OwnedLists, FreeIsNew, WaitingEmpty
<1>5. BurningHeld
  BY DEF Init, BurningHeld, Weapons
<1> QED BY <1>2, <1>4, <1>5 DEF Inv

LEMMA InvStep == Inv /\ [Next]_vars => Inv'
BY TypesStep, OwnsStep, BurningStep DEF Inv, Owning

LEMMA Invariance == Spec => []Inv
BY Initially, InvStep, PTL DEF Spec

\* The types: ammunition in pockets, guns and boxes is never negative, clips are never
\* overfull, the loadout never gives what it does not have (the inventory and ammunition
\* of shared/zmr/weapons and server/zmr/zmr_entities.cpp).
THEOREM ArmsTypeCorrect == Spec => []TypeOK
BY Invariance, PTL DEF Inv

\* The slot flags agree with what a player owns, and no two weapons share a slot
\* (CZMPlayer::BumpWeapon, CZMBaseWeapon::FreeWeaponSlot).
THEOREM SlotsAreExact == Spec => []SlotsAgree
<1>1. Inv => SlotsAgree
  BY DEF Inv, Owning
<1> QED BY <1>1, Invariance, PTL

\* A thrown molotov is nobody else's weapon (CZMWeaponMolotov::ItemPostFrame).
THEOREM ThrownIsThrown == Spec => ThrownOnce
<1> DEFINE Once == \A m \in Molotovs :
                     throw[m] = "thrown" /\ here[m] = "there" =>
                       here'[m] # "there" \/ (throw'[m] = "thrown" /\ owner'[m] = owner[m])
<1>1. Inv /\ [Next]_vars => [Once]_vars
  <2> SUFFICES ASSUME Inv, [Next]_vars, NEW m \in Molotovs, throw[m] = "thrown", here[m] = "there",
                      here'[m] = "there"
               PROVE  throw'[m] = "thrown" /\ owner'[m] = owner[m]
    OBVIOUS
  <2>1. ~CanHolster(m)
    BY DEF CanHolster
  <2> QED BY <2>1, BurnsOn
<1> QED BY <1>1, Invariance, PTL DEF Spec, ThrownOnce

-----------------------------------------------------------------------------
(* Ammunition *)

\* What a gun has in reserve is in the pocket of its owner; a new entity has none.
Pocketed == \A g \in Guns : owner[g] # Nobody \/ here[g] = "none" => stash[g] = 0

\* The parts of Rounds.
Loose(c)   == Total([g \in {h \in Guns : ClassOf[h] = c} |-> clip[g] + stash[g]])
Pockets(c) == Total([p \in Players |-> pool[p][c]])
Boxed(c)   == BoxSize[c] * boxes[c]

LEMMA RoundsParts ==
  ASSUME NEW c
  PROVE  /\ Rounds(c) = Loose(c) + Pockets(c) + Boxed(c)
         /\ Rounds(c)' = Loose(c)' + Pockets(c)' + Boxed(c)'
BY DEF Rounds, Loose, Pockets, Boxed

\* They are sums of natural numbers.
LEMMA PartsNat ==
  ASSUME TypeOK, NEW c \in Classes
  PROVE  /\ IsFiniteSet({h \in Guns : ClassOf[h] = c}) /\ IsFiniteSet(Players)
         /\ [g \in {h \in Guns : ClassOf[h] = c} |-> clip[g] + stash[g]]
              \in [{h \in Guns : ClassOf[h] = c} -> Nat]
         /\ [p \in Players |-> pool[p][c]] \in [Players -> Nat]
         /\ BoxSize[c] \in Nat /\ boxes[c] \in Nat
         /\ Loose(c) \in Nat /\ Pockets(c) \in Nat /\ Boxed(c) \in Nat
<1> DEFINE G == {h \in Guns : ClassOf[h] = c}
           f == [g \in G |-> clip[g] + stash[g]]
           q == [p \in Players |-> pool[p][c]]
<1>1. IsFiniteSet(G) /\ IsFiniteSet(Players)
  <2>1. IsFiniteSet(Guns) /\ IsFiniteSet(Players) /\ G \in SUBSET Guns
    BY ArmsAssumption DEF ArmsAssumption
  <2> HIDE DEF G
  <2> QED BY <2>1, FS_Subset
<1>2. f \in [G -> Nat]
  BY DEF TypeOK
<1>3. q \in [Players -> Nat]
  BY DEF TypeOK
<1>4. BoxSize[c] \in Nat /\ boxes[c] \in Nat
  BY ArmsAssumption DEF TypeOK, ArmsAssumption
<1>5. Boxed(c) \in Nat
  <2>1. \A m, n \in Nat : m * n \in Nat
    OBVIOUS
  <2> QED BY <1>4, <2>1 DEF Boxed
<1>6. Loose(c) \in Nat
  <2>1. Loose(c) = Total(f)
    BY DEF Loose
  <2> HIDE DEF G, f
  <2> QED BY <1>1, <1>2, <2>1, TotalNat
<1>7. Pockets(c) \in Nat
  <2>1. Pockets(c) = Total(q)
    BY DEF Pockets
  <2> HIDE DEF q
  <2> QED BY <1>1, <1>3, <2>1, TotalNat
<1> QED BY <1>1, <1>2, <1>3, <1>4, <1>5, <1>6, <1>7

LEMMA RoundsNat ==
  ASSUME TypeOK, NEW c \in Classes
  PROVE  Rounds(c) \in Nat
<1>1. Loose(c) \in Nat /\ Pockets(c) \in Nat /\ Boxed(c) \in Nat
  BY PartsNat
<1> QED BY <1>1, RoundsParts

\* The same of the next state.
LEMMA PartsNatNext ==
  ASSUME TypeOK', NEW c \in Classes
  PROVE  /\ [g \in {h \in Guns : ClassOf[h] = c} |-> clip'[g] + stash'[g]]
              \in [{h \in Guns : ClassOf[h] = c} -> Nat]
         /\ [p \in Players |-> pool'[p][c]] \in [Players -> Nat]
         /\ boxes'[c] \in Nat
BY DEF TypeOK

\* One gun is loaded, shot, filled or emptied.
LEMMA GunChanges ==
  ASSUME TypeOK, TypeOK', NEW c \in Classes, NEW g \in Guns,
         \A h \in Guns \ {g} : clip'[h] = clip[h] /\ stash'[h] = stash[h]
  PROVE  Loose(c)' = IF ClassOf[g] = c
                     THEN Loose(c) - (clip[g] + stash[g]) + (clip'[g] + stash'[g])
                     ELSE Loose(c)
<1> DEFINE G == {h \in Guns : ClassOf[h] = c}
           f == [h \in G |-> clip[h] + stash[h]]
           n == [h \in G |-> clip'[h] + stash'[h]]
<1>1. IsFiniteSet(G) /\ f \in [G -> Nat] /\ n \in [G -> Nat]
  BY PartsNat, PartsNatNext
<1>2. Loose(c) = Total(f) /\ Loose(c)' = Total(n)
  BY DEF Loose
<1>3. CASE ClassOf[g] = c
  <2>1. g \in G /\ f[g] = clip[g] + stash[g] /\ n[g] = clip'[g] + stash'[g]
    BY <1>3
  <2>2. \A h \in G \ {g} : n[h] = f[h]
    OBVIOUS
  <2> HIDE DEF G, f, n
  <2>3. Total(n) = Total(f) - f[g] + n[g]
    BY <1>1, <2>1, <2>2, TotalChange
  <2> QED BY <1>2, <1>3, <2>1, <2>3
<1>4. CASE ClassOf[g] # c
  <2>1. n = f
    BY <1>4
  <2> QED BY <1>2, <1>4, <2>1
<1> QED BY <1>3, <1>4

\* No gun gets any round.
LEMMA GunsLose ==
  ASSUME TypeOK, TypeOK', NEW c \in Classes,
         \A h \in Guns : clip'[h] + stash'[h] <= clip[h] + stash[h]
  PROVE  Loose(c)' <= Loose(c)
<1> DEFINE G == {h \in Guns : ClassOf[h] = c}
           f == [h \in G |-> clip[h] + stash[h]]
           n == [h \in G |-> clip'[h] + stash'[h]]
<1>1. IsFiniteSet(G) /\ f \in [G -> Nat] /\ n \in [G -> Nat]
  BY PartsNat, PartsNatNext
<1>2. Loose(c) = Total(f) /\ Loose(c)' = Total(n)
  BY DEF Loose
<1>3. \A h \in G : n[h] <= f[h]
  OBVIOUS
<1> HIDE DEF G, f, n
<1> QED BY <1>1, <1>2, <1>3, TotalMonotone

\* One player gets or spends ammunition.
LEMMA PocketChanges ==
  ASSUME TypeOK, TypeOK', NEW c \in Classes, NEW p \in Players,
         \A q \in Players \ {p} : pool'[q][c] = pool[q][c]
  PROVE  Pockets(c)' = Pockets(c) - pool[p][c] + pool'[p][c]
<1> DEFINE f == [q \in Players |-> pool[q][c]]
           n == [q \in Players |-> pool'[q][c]]
<1>1. IsFiniteSet(Players) /\ f \in [Players -> Nat] /\ n \in [Players -> Nat]
  BY PartsNat, PartsNatNext
<1>2. Pockets(c) = Total(f) /\ Pockets(c)' = Total(n)
  BY DEF Pockets
<1>3. \A q \in Players \ {p} : n[q] = f[q]
  OBVIOUS
<1>4. f[p] = pool[p][c] /\ n[p] = pool'[p][c]
  OBVIOUS
<1> HIDE DEF f, n
<1>5. Total(n) = Total(f) - f[p] + n[p]
  BY <1>1, <1>3, TotalChange
<1> QED BY <1>2, <1>4, <1>5

\* No player gets any round.
LEMMA PocketsLose ==
  ASSUME TypeOK, TypeOK', NEW c \in Classes,
         \A q \in Players : pool'[q][c] <= pool[q][c]
  PROVE  Pockets(c)' <= Pockets(c)
<1> DEFINE f == [q \in Players |-> pool[q][c]]
           n == [q \in Players |-> pool'[q][c]]
<1>1. IsFiniteSet(Players) /\ f \in [Players -> Nat] /\ n \in [Players -> Nat]
  BY PartsNat, PartsNatNext
<1>2. Pockets(c) = Total(f) /\ Pockets(c)' = Total(n)
  BY DEF Pockets
<1>3. \A q \in Players : n[q] <= f[q]
  OBVIOUS
<1> HIDE DEF f, n
<1> QED BY <1>1, <1>2, <1>3, TotalMonotone

\* Boxes come and go one by one, or all go.
LEMMA BoxesChange ==
  ASSUME TypeOK, NEW c \in Classes
  PROVE  /\ boxes'[c] = boxes[c] => Boxed(c)' = Boxed(c)
         /\ boxes'[c] = boxes[c] + 1 => Boxed(c)' = Boxed(c) + BoxSize[c]
         /\ boxes'[c] = boxes[c] - 1 => Boxed(c)' = Boxed(c) - BoxSize[c]
         /\ boxes'[c] = 0 => Boxed(c)' = 0
<1>1. BoxSize[c] \in Nat /\ boxes[c] \in Nat
  BY PartsNat
<1>2. \A k, n \in Nat : /\ k * (n + 1) = k * n + k
                        /\ k * (n - 1) = k * n - k
                        /\ k * 0 = 0
  OBVIOUS
<1> QED BY <1>1, <1>2 DEF Boxed

\* A gun that is let go takes its rounds along, and none is in reserve before; a new
\* weapon has none.
LEMMA PocketedStep ==
  ASSUME Inv, Pocketed, [Next]_vars
  PROVE  Pocketed'
<1>0. TypeOK /\ Owning /\ OwnedLists
  BY DEF Inv, Owning
<1>a. ASSUME UNCHANGED <<here, owner, stash>> PROVE Pocketed'
  BY <1>a DEF Pocketed
<1>b. ASSUME NEW p \in Players, NEW w \in list[p], LetGo(p, w),
             \A v \in Weapons : here'[v] = "none" => here[v] = "none" /\ v # w
      PROVE  Pocketed'
  <2>1. owner'[w] = Nobody /\ \A v \in Weapons \ {w} : owner'[v] = owner[v]
    BY <1>0, <1>b, LetGoOwns
  <2>2. \A g \in Guns \ {w} : stash'[g] = stash[g]
    BY <1>0, <1>b DEF LetGo, TypeOK
  <2> QED BY <1>b, <2>1, <2>2, Kinds DEF Pocketed
<1>1. ASSUME NEW p \in Players, NEW w \in Weapons \cup {Hands}, Switch(p, w) PROVE Pocketed'
  BY <1>1, <1>a DEF Switch
<1>2. ASSUME NEW p \in Players, NEW w \in Weapons, Bump(p, w) PROVE Pocketed'
  <2>1. here' = here /\ \A v \in Weapons \ {w} : owner'[v] = owner[v]
    BY <1>0, <1>2 DEF Bump, TypeOK
  <2>2. \A g \in Guns : stash'[g] = IF g = w THEN 0 ELSE stash[g]
    BY <1>0, <1>2 DEF Bump, TypeOK
  <2> QED BY <2>1, <2>2, Kinds DEF Pocketed
<1>3. ASSUME NEW p \in Players, NEW w \in Weapons, DropWeapon(p, w) PROVE Pocketed'
  <2>1. w \in list[p] /\ owner[w] = p
    BY <1>0, <1>3, UsedIsOwned DEF DropWeapon, Holds
  <2>2. here[w] # "none" /\ here' = here
    BY <1>0, <1>3, <2>1, Kinds DEF DropWeapon, Owning, FreeIsNew
  <2> QED BY <1>3, <1>b, <2>1, <2>2 DEF DropWeapon
<1>4. ASSUME NEW p \in Players, NEW m \in Molotovs, Burns(p, m) PROVE Pocketed'
  BY <1>4, <1>a DEF Burns, gunVars
<1>5. ASSUME NEW p \in Players, NEW m \in Molotovs, UsedUp(p, m) PROVE Pocketed'
  <2>1. m \in Weapons /\ m \in list[p]
    BY <1>0, <1>5, UsedIsOwned DEF UsedUp, Holds, Weapons
  <2>2. \A v \in Weapons : here'[v] = "none" => here[v] = "none" /\ v # m
    BY <1>0, <1>5, <2>1 DEF UsedUp, TypeOK
  <2> QED BY <1>5, <1>b, <2>1, <2>2 DEF UsedUp
<1>6. ASSUME NEW p \in Players, NEW g \in Guns, GunNext(p, g) PROVE Pocketed'
  BY <1>6, <1>a DEF GunNext, DropAmmo, Fire, Reload, StartLoading, LoadRound, Interrupt,
                    FinishReload, weaponVars, gunVars
<1>7. ASSUME NEW p \in Players, NEW c \in GunClasses, TakeBox(p, c) PROVE Pocketed'
  BY <1>7, <1>a DEF TakeBox, weaponVars, gunVars
<1>8. ASSUME NEW p \in Players, NEW l \in {"alive", "out"}, Strip(p, l) PROVE Pocketed'
  <2>1. \A w \in Weapons : here'[w] = "none" => here[w] = "none"
    BY <1>8 DEF Strip
  <2> QED BY <1>8, <2>1, Kinds DEF Strip, Pocketed
<1>9. ASSUME NEW p \in Players, Die(p) PROVE Pocketed'
  <2>1. CASE active[p] = Hands
    <3>1. CanHolster(Hands)
      BY Kinds DEF CanHolster, Weapons
    <3> QED BY <1>9, <1>a, <2>1, <3>1 DEF Die
  <2>2. CASE active[p] # Hands
    <3>1. active[p] \in list[p] /\ active[p] \in Weapons /\ LetGo(p, active[p])
      BY <1>0, <1>9, <2>2 DEF Die, OwnedLists, TypeOK
    <3>2. here[active[p]] # "none"
      BY <1>0, <3>1, UsedIsOwned, Kinds DEF Owning, FreeIsNew
    <3>3. \A v \in Weapons : here'[v] = "none" => here[v] = "none" /\ v # active[p]
      BY <1>0, <1>9, <3>2 DEF Die, TypeOK
    <3> QED BY <1>b, <3>1, <3>3
  <2> QED BY <2>1, <2>2
<1>10. ASSUME NEW p \in Players, Disconnect(p) PROVE Pocketed'
  <2>1. \A w \in Weapons : /\ owner'[w] # Nobody => owner[w] # Nobody
                           /\ here'[w] = "none" => here[w] = "none"
    BY <1>10 DEF Disconnect
  <2> QED BY <1>10, <2>1, Kinds DEF Disconnect, gunVars, Pocketed
<1>11. ASSUME NEW p \in Players, Spawn(p) PROVE Pocketed'
  <2>1. \A w \in Weapons : \/ here[w] = "none"
                           \/ owner'[w] = owner[w] /\ here'[w] = here[w]
    BY <1>11 DEF Spawn, Free
  <2> QED BY <1>11, <2>1, Kinds DEF Spawn, gunVars, Pocketed
<1>12. ASSUME NEW w \in Weapons, WeaponAppears(w) \/ RemoveWeapon(w) PROVE Pocketed'
  <2>1. \A v \in Weapons : here'[v] = "none" => here[v] = "none"
    BY <1>0, <1>12 DEF WeaponAppears, RemoveWeapon, TypeOK
  <2> QED BY <1>12, <2>1, Kinds DEF WeaponAppears, RemoveWeapon, gunVars, Pocketed
<1>13. ASSUME NEW w \in Weapons, Gone(w) PROVE Pocketed'
  <2>1. \A v \in Weapons \ {w} : owner'[v] = owner[v] /\ here'[v] = here[v]
    BY <1>0, <1>13 DEF Gone, TypeOK
  <2>2. \A g \in Guns : stash'[g] = IF g = w THEN 0 ELSE stash[g]
    BY <1>13 DEF Gone
  <2> QED BY <2>1, <2>2, Kinds DEF Pocketed
<1>14. ASSUME NEW c \in GunClasses, BoxAppears(c) PROVE Pocketed'
  BY <1>14, <1>a DEF BoxAppears, weaponVars, gunVars
<1>15. CASE NewRound
  BY <1>15 DEF NewRound, Pocketed
<1>16. CASE UNCHANGED vars
  BY <1>16, <1>a DEF vars, weaponVars, gunVars
<1> QED BY <1>1, <1>2, <1>3, <1>4, <1>5, <1>6, <1>7, <1>8, <1>9, <1>10, <1>11, <1>12, <1>13,
           <1>14, <1>15, <1>16 DEF Next, PlayerNext

\* Nothing happens to the ammunition.
LEMMA NoAmmo ==
  ASSUME UNCHANGED <<clip, stash, pool, boxes>>, NEW c
  PROVE  Rounds(c)' = Rounds(c)
BY DEF Rounds

\* Ammunition only goes.
LEMMA AmmoGoes ==
  ASSUME TypeOK, TypeOK', NEW c \in Classes,
         \A g \in Guns : clip'[g] <= clip[g] /\ stash'[g] <= stash[g],
         \A p \in Players : pool'[p][c] <= pool[p][c],
         boxes'[c] \in {0, boxes[c]}
  PROVE  Rounds(c)' <= Rounds(c)
<1>1. \A g \in Guns : clip'[g] + stash'[g] <= clip[g] + stash[g]
  BY DEF TypeOK
<1>2. Loose(c)' <= Loose(c) /\ Pockets(c)' <= Pockets(c)
  BY <1>1, GunsLose, PocketsLose
<1>3. Boxed(c)' = Boxed(c) \/ Boxed(c)' = 0
  BY BoxesChange
<1>4. /\ Loose(c) \in Nat /\ Pockets(c) \in Nat /\ Boxed(c) \in Nat
      /\ Loose(c)' \in Nat /\ Pockets(c)' \in Nat
  <2>1. Loose(c) \in Nat /\ Pockets(c) \in Nat /\ Boxed(c) \in Nat
    BY PartsNat
  <2>2. Loose(c)' \in Nat /\ Pockets(c)' \in Nat
    BY PartsNat, PartsNatNext, TotalNat DEF Loose, Pockets
  <2> QED BY <2>1, <2>2
<1> QED BY <1>2, <1>3, <1>4, RoundsParts

\* The rounds of a gun and those of a player, of its class, change together.
LEMMA AmmoMoves ==
  ASSUME TypeOK, TypeOK', NEW c \in Classes, NEW p \in Players, NEW g \in Guns, c = ClassOf[g],
         \A h \in Guns \ {g} : clip'[h] = clip[h] /\ stash'[h] = stash[h],
         \A q \in Players \ {p} : pool'[q][c] = pool[q][c],
         boxes'[c] = boxes[c]
  PROVE  Rounds(c)' = Rounds(c) + (clip'[g] + stash'[g] + pool'[p][c])
                                - (clip[g] + stash[g] + pool[p][c])
<1>1. Loose(c)' = Loose(c) - (clip[g] + stash[g]) + (clip'[g] + stash'[g])
  BY GunChanges
<1>2. Pockets(c)' = Pockets(c) - pool[p][c] + pool'[p][c]
  BY PocketChanges
<1>3. Boxed(c)' = Boxed(c)
  BY BoxesChange
<1>4. /\ Loose(c) \in Nat /\ Pockets(c) \in Nat /\ Boxed(c) \in Nat
      /\ clip[g] \in Nat /\ stash[g] \in Nat /\ pool[p][c] \in Nat
      /\ clip'[g] \in Nat /\ stash'[g] \in Nat /\ pool'[p][c] \in Nat
  <2>1. Loose(c) \in Nat /\ Pockets(c) \in Nat /\ Boxed(c) \in Nat
    BY PartsNat
  <2>2. clip[g] \in Nat /\ stash[g] \in Nat /\ pool[p][c] \in Nat
    BY DEF TypeOK
  <2>3. clip'[g] \in Nat /\ stash'[g] \in Nat /\ pool'[p][c] \in Nat
    BY DEF TypeOK
  <2> QED BY <2>1, <2>2, <2>3
<1> QED BY <1>1, <1>2, <1>3, <1>4, RoundsParts

\* What happens to the ammunition of one class leaves the others alone.
LEMMA OtherAmmo ==
  ASSUME NEW c,
         \A g \in Guns : ClassOf[g] = c => clip'[g] = clip[g] /\ stash'[g] = stash[g],
         \A p \in Players : pool'[p][c] = pool[p][c],
         boxes'[c] = boxes[c]
  PROVE  Rounds(c)' = Rounds(c)
<1> DEFINE G == {h \in Guns : ClassOf[h] = c}
<1>1. [g \in G |-> clip'[g] + stash'[g]] = [g \in G |-> clip[g] + stash[g]]
  OBVIOUS
<1>2. [p \in Players |-> pool'[p][c]] = [p \in Players |-> pool[p][c]]
  OBVIOUS
<1> QED BY <1>1, <1>2 DEF Rounds

\* A weapon takes all the rounds of its owner along when it is let go, and has had none.
LEMMA LetGoRounds ==
  ASSUME Inv, TypeOK', Pocketed, NEW p \in Players, NEW w \in list[p], LetGo(p, w),
         UNCHANGED <<clip, boxes>>, NEW c \in Classes
  PROVE  Rounds(c)' = Rounds(c)
<1>0. TypeOK /\ w \in Weapons /\ owner[w] = p
  BY DEF Inv, Owning, OwnedLists, Owned, TypeOK
<1>1. CASE w \notin Guns
  BY <1>1, NoAmmo DEF LetGo
<1>2. CASE w \in Guns
  <2>1. /\ pool' = [pool EXCEPT ![p][ClassOf[w]] = 0] /\ stash' = [stash EXCEPT ![w] = pool[p][ClassOf[w]]]
        /\ stash[w] = 0 /\ ClassOf[w] \in Classes
    BY <1>0, <1>2, Kinds DEF LetGo, Saved, Pocketed
  <2>2. \A h \in Guns \ {w} : clip'[h] = clip[h] /\ stash'[h] = stash[h]
    BY <1>0, <2>1 DEF TypeOK
  <2>3. \A q \in Players \ {p} : pool'[q][c] = pool[q][c]
    BY <1>0, <2>1 DEF TypeOK
  <2>4. CASE c = ClassOf[w]
    <3>1. /\ stash'[w] = pool[p][c] /\ clip'[w] = clip[w] /\ pool'[p][c] = 0
          /\ pool[p][c] \in Nat /\ clip[w] \in Nat
      BY <1>0, <1>2, <2>1, <2>4 DEF TypeOK
    <3>2. Rounds(c)' = Rounds(c) + (clip'[w] + stash'[w] + pool'[p][c])
                                 - (clip[w] + stash[w] + pool[p][c])
      BY <1>0, <1>2, <2>2, <2>3, <2>4, AmmoMoves
    <3>3. Rounds(c) \in Nat
      BY <1>0, RoundsNat
    <3> QED BY <2>1, <3>1, <3>2, <3>3
  <2>5. CASE c # ClassOf[w]
    <3>1. pool'[p][c] = pool[p][c]
      BY <1>0, <2>1, <2>5 DEF TypeOK
    <3> QED BY <2>2, <2>3, <2>5, <3>1, OtherAmmo
  <2> QED BY <2>4, <2>5
<1> QED BY <1>1, <1>2

\* Rounds go from a pocket into a box or, some of them, back.
LEMMA BoxRounds ==
  ASSUME TypeOK, TypeOK', UNCHANGED <<clip, stash>>, NEW p \in Players, NEW d \in Classes,
         \A q \in Players, c \in Classes : q # p \/ c # d => pool'[q][c] = pool[q][c],
         \A c \in Classes \ {d} : boxes'[c] = boxes[c],
         \/ boxes'[d] = boxes[d] + 1 /\ pool'[p][d] + BoxSize[d] <= pool[p][d]
         \/ boxes'[d] = boxes[d] - 1 /\ pool'[p][d] <= pool[p][d] + BoxSize[d],
         NEW c \in Classes
  PROVE  Rounds(c)' <= Rounds(c)
<1>1. CASE c # d
  <2>1. Rounds(c)' = Rounds(c)
    BY <1>1, OtherAmmo
  <2> QED BY <2>1, RoundsNat
<1>2. CASE c = d
  <2>1. Loose(c)' = Loose(c)
    BY DEF Loose
  <2>2. Pockets(c)' = Pockets(c) - pool[p][c] + pool'[p][c]
    BY <1>2, PocketChanges
  <2>3. /\ Loose(c) \in Nat /\ Pockets(c) \in Nat /\ Boxed(c) \in Nat
        /\ BoxSize[c] \in Nat /\ boxes[c] \in Nat
    BY PartsNat
  <2>4. pool[p][c] \in Nat /\ pool'[p][c] \in Nat
    BY DEF TypeOK
  <2>5. CASE boxes'[c] = boxes[c] + 1 /\ pool'[p][c] + BoxSize[c] <= pool[p][c]
    <3>1. Boxed(c)' = Boxed(c) + BoxSize[c]
      BY <2>5, BoxesChange
    <3> QED BY <2>1, <2>2, <2>3, <2>4, <2>5, <3>1, RoundsParts
  <2>6. CASE boxes'[c] = boxes[c] - 1 /\ pool'[p][c] <= pool[p][c] + BoxSize[c]
    <3>1. Boxed(c)' = Boxed(c) - BoxSize[c]
      BY <2>6, BoxesChange
    <3> QED BY <2>1, <2>2, <2>3, <2>4, <2>6, <3>1, RoundsParts
  <2> QED BY <1>2, <2>5, <2>6
<1> QED BY <1>1, <1>2

\* A gun and its owner neither gain nor lose together, but for what is shot.
LEMMA GunRounds ==
  ASSUME Inv, TypeOK', NEW p \in Players, NEW g \in Guns, GunNext(p, g), NEW c \in Classes
  PROVE  Rounds(c)' <= Rounds(c)
<1> DEFINE d == ClassOf[g]
<1>0. /\ TypeOK /\ d \in Classes /\ pool[p][d] \in Nat /\ clip[g] \in Nat /\ stash[g] \in Nat
      /\ MaxClip[d] \in Nat /\ clip[g] <= MaxClip[d] /\ BoxSize[d] \in Nat
      /\ Rounds(c) \in Nat
      /\ Holds(p, g) => Reserve(g) = pool[p][d]
  <2>1. TypeOK /\ OwnedLists /\ d \in Classes /\ g \in Weapons
    BY Kinds DEF Inv, Owning
  <2>2. Holds(p, g) => Reserve(g) = pool[p][d]
    BY <2>1, UsedIsOwned, Kinds DEF Reserve, Holds
  <2>3. /\ pool[p][d] \in Nat /\ clip[g] \in Nat /\ stash[g] \in Nat
        /\ MaxClip[d] \in Nat /\ clip[g] <= MaxClip[d] /\ BoxSize[d] \in Nat
    BY <2>1, ArmsAssumption DEF TypeOK, ArmsAssumption
  <2> QED BY <2>1, <2>2, <2>3, RoundsNat
<1> HIDE DEF d
<1>a. ASSUME NEW k \in Nat, NEW n \in Nat, k <= n, n <= pool[p][d],
             clip' = [clip EXCEPT ![g] = clip[g] + k],
             pool' = [pool EXCEPT ![p][d] = pool[p][d] - n],
             UNCHANGED <<stash, boxes>>
      PROVE  Rounds(c)' <= Rounds(c)
  <2>1. /\ clip'[g] = clip[g] + k /\ pool'[p][d] = pool[p][d] - n
        /\ \A h \in Guns \ {g} : clip'[h] = clip[h]
        /\ \A q \in Players, b \in Classes : q # p \/ b # d => pool'[q][b] = pool[q][b]
    BY <1>0, <1>a DEF TypeOK
  <2>2. CASE c = d
    <3>1. Rounds(c)' = Rounds(c) + (clip'[g] + stash'[g] + pool'[p][c])
                                 - (clip[g] + stash[g] + pool[p][c])
      BY <1>0, <1>a, <2>1, <2>2, AmmoMoves DEF d
    <3> QED BY <1>0, <1>a, <2>1, <2>2, <3>1
  <2>3. CASE c # d
    <3>1. Rounds(c)' = Rounds(c)
      BY <1>a, <2>1, <2>3, OtherAmmo DEF d
    <3> QED BY <1>0, <3>1
  <2> QED BY <2>2, <2>3
<1>b. ASSUME UNCHANGED <<stash, pool, boxes>>, NEW k \in {0, 1}, clip' = [clip EXCEPT ![g] = clip[g] - k]
      PROVE  Rounds(c)' <= Rounds(c)
  <2>1. \A h \in Guns : clip'[h] <= clip[h] /\ stash'[h] <= stash[h]
    BY <1>0, <1>b DEF TypeOK
  <2>2. \A q \in Players : pool'[q][c] <= pool[q][c]
    BY <1>0, <1>b DEF TypeOK
  <2> QED BY <1>0, <1>b, <2>1, <2>2, AmmoGoes
<1>1. CASE DropAmmo(p, g)
  <2>1. /\ pool' = [pool EXCEPT ![p][d] = pool[p][d] - BoxSize[d]] /\ BoxSize[d] <= pool[p][d]
        /\ boxes' = [boxes EXCEPT ![d] = boxes[d] + 1]
        /\ UNCHANGED <<clip, stash>>
    BY <1>1 DEF DropAmmo, weaponVars, gunVars, d
  <2>2. /\ pool'[p][d] = pool[p][d] - BoxSize[d]
        /\ \A q \in Players, b \in Classes : q # p \/ b # d => pool'[q][b] = pool[q][b]
        /\ boxes'[d] = boxes[d] + 1 /\ \A b \in Classes \ {d} : boxes'[b] = boxes[b]
    BY <1>0, <2>1 DEF TypeOK
  <2>3. pool'[p][d] + BoxSize[d] <= pool[p][d]
    BY <1>0, <2>2
  <2> QED BY <1>0, <2>1, <2>2, <2>3, BoxRounds
<1>2. CASE Fire(p, g)
  BY <1>2, <1>b DEF Fire, playerVars, worldVars
<1>3. CASE Reload(p, g) \/ StartLoading(p, g)
  BY <1>0, <1>3, NoAmmo DEF Reload, StartLoading, playerVars, worldVars
<1>4. CASE LoadRound(p, g)
  <2>1. pool[p][d] > 0 /\ pool' = [pool EXCEPT ![p][d] = pool[p][d] - 1] /\ UNCHANGED <<stash, boxes>>
    BY <1>0, <1>4 DEF LoadRound, CanLoad, worldVars, d
  <2>2. PICK k \in {0, 1} : clip' = [clip EXCEPT ![g] = clip[g] + k]
    <3>1. clip = [clip EXCEPT ![g] = clip[g] + 0]
      BY <1>0 DEF TypeOK
    <3> QED BY <1>4, <3>1 DEF LoadRound
  <2>3. k \in Nat /\ 1 \in Nat /\ k <= 1 /\ 1 <= pool[p][d]
    BY <1>0, <2>1
  <2> QED BY <1>a, <2>1, <2>2, <2>3
<1>5. CASE Interrupt(p, g)
  <2>1. PICK k \in {0, 1} : clip' = [clip EXCEPT ![g] = clip[g] - k]
    BY <1>5 DEF Interrupt
  <2> QED BY <1>5, <1>b, <2>1 DEF Interrupt, playerVars, worldVars
<1>6. CASE FinishReload(p, g)
  <2> DEFINE room == MaxClip[d] - clip[g]
             rest == IF room < pool[p][d] THEN room ELSE pool[p][d]
  <2>1. /\ clip' = [clip EXCEPT ![g] = clip[g] + rest]
        /\ pool' = [pool EXCEPT ![p][d] = pool[p][d] - rest]
        /\ UNCHANGED <<stash, boxes>>
    BY <1>0, <1>6 DEF FinishReload, worldVars, d
  <2>2. rest \in Nat /\ rest <= rest /\ rest <= pool[p][d]
    BY <1>0
  <2> HIDE DEF rest
  <2> QED BY <1>a, <2>1, <2>2
<1> QED BY <1>1, <1>2, <1>3, <1>4, <1>5, <1>6 DEF GunNext

\* What a player does, or is done to him: ammunition goes from one place to another, or is
\* lost without a weapon changing hands, or comes from the loadout.
LEMMA PlayerRounds ==
  ASSUME Inv, TypeOK', Pocketed, NEW p \in Players, PlayerNext(p), NEW c \in GunClasses
  PROVE  \/ Rounds(c)' = Rounds(c)
         \/ Rounds(c)' <= Rounds(c) /\ ~ChangesHands
         \/ loadout' # loadout /\ ~ChangesHands
<1> DEFINE Same  == Rounds(c)' = Rounds(c)
           Fewer == Rounds(c)' <= Rounds(c) /\ ~ChangesHands
<1>0. TypeOK /\ OwnedLists /\ Owning /\ c \in Classes
  BY Kinds DEF Inv, Owning, GunClasses
<1>1. ASSUME NEW w \in Weapons \cup {Hands}, Switch(p, w) PROVE Same
  BY <1>1, NoAmmo DEF Switch, worldVars
<1>2. ASSUME NEW w \in Weapons, Bump(p, w) PROVE Same
  <2>1. CASE w \notin Guns
    BY <1>2, <2>1, NoAmmo DEF Bump, worldVars
  <2>2. CASE w \in Guns
    <3> DEFINE d == ClassOf[w]
    <3>1. /\ pool' = [pool EXCEPT ![p][d] = pool[p][d] + stash[w]] /\ stash' = [stash EXCEPT ![w] = 0]
          /\ UNCHANGED <<clip, boxes>> /\ d \in Classes
      BY <1>2, <2>2, Kinds DEF Bump, worldVars
    <3> HIDE DEF d
    <3>2. /\ \A h \in Guns \ {w} : clip'[h] = clip[h] /\ stash'[h] = stash[h]
          /\ \A q \in Players, b \in Classes : q # p \/ b # d => pool'[q][b] = pool[q][b]
      BY <1>0, <3>1 DEF TypeOK
    <3>3. CASE c = d
      <4>1. Rounds(c)' = Rounds(c) + (clip'[w] + stash'[w] + pool'[p][c])
                                   - (clip[w] + stash[w] + pool[p][c])
        BY <1>0, <2>2, <3>1, <3>2, <3>3, AmmoMoves DEF d
      <4>2. /\ clip'[w] = clip[w] /\ stash'[w] = 0 /\ pool'[p][c] = pool[p][c] + stash[w]
            /\ clip[w] \in Nat /\ stash[w] \in Nat /\ pool[p][c] \in Nat
        BY <1>0, <2>2, <3>1, <3>3 DEF TypeOK
      <4>3. Rounds(c) \in Nat
        BY <1>0, RoundsNat
      <4> QED BY <4>1, <4>2, <4>3
    <3>4. CASE c # d
      BY <1>0, <3>1, <3>2, <3>4, OtherAmmo DEF d
    <3> QED BY <3>3, <3>4
  <2> QED BY <2>1, <2>2
<1>3. ASSUME NEW w \in Weapons, DropWeapon(p, w) PROVE Same
  <2>1. w \in list[p]
    BY <1>0, <1>3, UsedIsOwned DEF DropWeapon, Holds
  <2> QED BY <1>0, <1>3, <2>1, LetGoRounds DEF DropWeapon, worldVars
<1>4. ASSUME NEW g \in Guns, GunNext(p, g) PROVE Fewer
  <2>1. UNCHANGED owner
    BY <1>4 DEF GunNext, DropAmmo, Fire, Reload, StartLoading, LoadRound, Interrupt, FinishReload,
                weaponVars
  <2> QED BY <1>0, <1>4, <2>1, GunRounds DEF ChangesHands
<1>5. ASSUME NEW m \in Molotovs, Burns(p, m) PROVE Same
  BY <1>5, NoAmmo DEF Burns, playerVars, gunVars, worldVars
<1>6. ASSUME NEW m \in Molotovs, UsedUp(p, m) PROVE Same
  <2>1. m \in list[p]
    BY <1>0, <1>6, UsedIsOwned DEF UsedUp, Holds, Weapons
  <2> QED BY <1>0, <1>6, <2>1, LetGoRounds DEF UsedUp, worldVars
<1>7. ASSUME NEW d \in GunClasses, TakeBox(p, d) PROVE Fewer
  <2> DEFINE sum == IF BoxSize[d] < MaxCarry[d] - pool[p][d] THEN pool[p][d] + BoxSize[d] ELSE MaxCarry[d]
  <2>1. /\ pool' = [pool EXCEPT ![p][d] = sum] /\ boxes' = [boxes EXCEPT ![d] = boxes[d] - 1]
        /\ UNCHANGED <<clip, stash, owner>> /\ d \in Classes
    BY <1>7, Kinds DEF TakeBox, weaponVars, gunVars, GunClasses
  <2>2. sum <= pool[p][d] + BoxSize[d]
    <3>1. pool[p][d] \in Nat
      BY <1>0, <2>1 DEF TypeOK
    <3>2. BoxSize[d] \in Nat /\ MaxCarry[d] \in Nat
      BY <2>1, ArmsAssumption DEF ArmsAssumption
    <3> QED BY <3>1, <3>2
  <2> HIDE DEF sum
  <2>3. /\ pool'[p][d] <= pool[p][d] + BoxSize[d]
        /\ \A q \in Players, b \in Classes : q # p \/ b # d => pool'[q][b] = pool[q][b]
        /\ boxes'[d] = boxes[d] - 1 /\ \A b \in Classes \ {d} : boxes'[b] = boxes[b]
    BY <1>0, <2>1, <2>2 DEF TypeOK
  <2>4. Rounds(c)' <= Rounds(c)
    BY <1>0, <2>1, <2>3, BoxRounds
  <2> QED BY <2>1, <2>4 DEF ChangesHands
<1>8. ASSUME NEW l \in {"alive", "out"}, Strip(p, l) PROVE Fewer
  <2>1. \A q \in Players : pool'[q][c] <= pool[q][c]
    BY <1>0, <1>8 DEF Strip, TypeOK
  <2>2. \A g \in Guns : clip'[g] <= clip[g] /\ stash'[g] <= stash[g]
    BY <1>0, <1>8 DEF Strip, TypeOK
  <2>3. Rounds(c)' <= Rounds(c)
    BY <1>0, <1>8, <2>1, <2>2, AmmoGoes DEF Strip, worldVars
  <2> QED BY <1>8, <2>3 DEF Strip, ChangesHands
<1>9. CASE Die(p)
  <2>1. CASE active[p] = Hands
    BY <1>9, <2>1, NoAmmo DEF Die, worldVars
  <2>2. CASE active[p] # Hands
    <3>1. active[p] \in list[p] /\ LetGo(p, active[p])
      BY <1>0, <1>9, <2>2 DEF Die, OwnedLists
    <3> QED BY <1>0, <1>9, <3>1, LetGoRounds DEF Die, worldVars
  <2> QED BY <2>1, <2>2
<1>10. CASE Disconnect(p)
  <2>1. \A q \in Players : pool'[q][c] <= pool[q][c]
    BY <1>0, <1>10 DEF Disconnect, TypeOK
  <2>2. \A g \in Guns : clip'[g] <= clip[g] /\ stash'[g] <= stash[g]
    BY <1>0, <1>10 DEF Disconnect, gunVars, TypeOK
  <2>3. Rounds(c)' <= Rounds(c)
    BY <1>0, <1>10, <2>1, <2>2, AmmoGoes DEF Disconnect, worldVars
  <2> QED BY <1>10, <2>3 DEF Disconnect, ChangesHands
<1>11. CASE Spawn(p)
  <2> PICK D \in Draws, G \in SUBSET Free :
         /\ loadout' = [d \in Classes |-> IF d \in D THEN loadout[d] - 1 ELSE loadout[d]]
         /\ here' = [w \in Weapons |-> IF w \in G THEN "there" ELSE here[w]]
         /\ owner' = [w \in Weapons |-> IF w \in G THEN p ELSE owner[w]]
         /\ pool' = [pool EXCEPT ![p] = [d \in Classes |-> IF d \in D \cap GunClasses
                                                           THEN MaxClip[d] ELSE 0]]
    BY <1>11 DEF Spawn
  <2>1. ~ChangesHands
    BY DEF ChangesHands, Free
  <2>2. ASSUME NEW d \in D PROVE loadout' # loadout
    <3>1. d \in Classes /\ loadout[d] \in Nat /\ loadout'[d] = loadout[d] - 1
      BY <1>0, DrawsLeft DEF TypeOK
    <3> QED BY <3>1
  <2>3. CASE D = {}
    <3>1. \A q \in Players : pool'[q][c] <= pool[q][c]
      BY <1>0, <2>3 DEF TypeOK
    <3>2. \A g \in Guns : clip'[g] <= clip[g] /\ stash'[g] <= stash[g]
      BY <1>0, <1>11 DEF Spawn, gunVars, TypeOK
    <3>3. boxes' = boxes
      BY <1>11 DEF Spawn
    <3> QED BY <1>0, <2>1, <3>1, <3>2, <3>3, AmmoGoes
  <2> QED BY <2>1, <2>2, <2>3
<1> QED BY <1>1, <1>2, <1>3, <1>4, <1>5, <1>6, <1>7, <1>8, <1>9, <1>10, <1>11 DEF PlayerNext

\* Every step of the system.
LEMMA RoundsStep ==
  ASSUME Inv, Pocketed, [Next]_vars, NEW c \in GunClasses
  PROVE  \/ Rounds(c)' = Rounds(c)
         \/ Rounds(c)' <= Rounds(c) /\ ~ChangesHands
         \/ (BoxAppears(c) \/ loadout' # loadout) /\ ~ChangesHands
<1>0. TypeOK /\ TypeOK' /\ c \in Classes
  BY InvStep, Kinds DEF Inv, GunClasses
<1>1. ASSUME NEW p \in Players, PlayerNext(p)
      PROVE  \/ Rounds(c)' = Rounds(c)
             \/ Rounds(c)' <= Rounds(c) /\ ~ChangesHands
             \/ loadout' # loadout /\ ~ChangesHands
  BY <1>0, <1>1, PlayerRounds
<1>2. ASSUME NEW w \in Weapons, WeaponAppears(w) \/ RemoveWeapon(w) PROVE Rounds(c)' = Rounds(c)
  BY <1>2, NoAmmo DEF WeaponAppears, RemoveWeapon, playerVars, gunVars, worldVars
<1>3. ASSUME NEW w \in Weapons, Gone(w) PROVE Rounds(c)' <= Rounds(c) /\ ~ChangesHands
  <2>1. \A g \in Guns : clip'[g] <= clip[g] /\ stash'[g] <= stash[g]
    BY <1>0, <1>3 DEF Gone, TypeOK
  <2>2. \A q \in Players : pool'[q][c] <= pool[q][c]
    BY <1>0, <1>3 DEF Gone, TypeOK
  <2>3. Rounds(c)' <= Rounds(c)
    BY <1>0, <1>3, <2>1, <2>2, AmmoGoes DEF Gone, worldVars
  <2> QED BY <1>0, <1>3, <2>3 DEF Gone, ChangesHands, TypeOK
<1>4. ASSUME NEW d \in GunClasses, BoxAppears(d)
      PROVE  Rounds(c)' = Rounds(c) \/ (BoxAppears(c) /\ ~ChangesHands)
  <2>1. UNCHANGED <<clip, stash, pool, owner>> /\ boxes' = [boxes EXCEPT ![d] = @ + 1]
    BY <1>4 DEF BoxAppears, playerVars, weaponVars, gunVars
  <2>2. CASE c = d
    BY <1>4, <2>1, <2>2 DEF ChangesHands
  <2>3. CASE c # d
    <3>1. boxes'[c] = boxes[c]
      BY <1>0, <2>1, <2>3 DEF TypeOK
    <3> QED BY <2>1, <3>1, OtherAmmo
  <2> QED BY <2>2, <2>3
<1>5. CASE NewRound
  <2>1. \A g \in Guns : clip'[g] <= clip[g] /\ stash'[g] <= stash[g]
    BY <1>0, <1>5 DEF NewRound, TypeOK
  <2>2. \A q \in Players : pool'[q][c] <= pool[q][c]
    BY <1>0, <1>5 DEF NewRound, TypeOK
  <2>3. Rounds(c)' <= Rounds(c)
    BY <1>0, <1>5, <2>1, <2>2, AmmoGoes DEF NewRound
  <2> QED BY <1>5, <2>3 DEF NewRound, ChangesHands
<1>6. CASE UNCHANGED vars
  BY <1>6, NoAmmo DEF vars, playerVars, weaponVars, gunVars, worldVars
<1> QED BY <1>1, <1>2, <1>3, <1>4, <1>5, <1>6 DEF Next

LEMMA PocketedAlways == Spec => [](Inv /\ Pocketed)
<1>1. Init => Inv /\ Pocketed
  BY Initially DEF Init, Pocketed
<1>2. Inv /\ Pocketed /\ [Next]_vars => (Inv /\ Pocketed)'
  BY InvStep, PocketedStep
<1> QED BY <1>1, <1>2, PTL DEF Spec

\* Ammunition is neither made nor, with a weapon that changes hands, lost: whatever the
\* sizes of clips, pockets and boxes (SaveReserveAmmo, Weapon_Drop, CZMAmmo::MyTouch,
\* FinishReload and CheckReload of the guns).
THEOREM AmmunitionKept == Spec => RoundsKept
<1> DEFINE Kept == \A c \in GunClasses :
                     /\ Rounds(c)' > Rounds(c) => BoxAppears(c) \/ loadout' # loadout
                     /\ ChangesHands => Rounds(c)' = Rounds(c)
<1>1. Inv /\ Pocketed /\ [Next]_vars => [Kept]_vars
  <2> SUFFICES ASSUME Inv, Pocketed, [Next]_vars, NEW c \in GunClasses
               PROVE  /\ Rounds(c)' > Rounds(c) => BoxAppears(c) \/ loadout' # loadout
                      /\ ChangesHands => Rounds(c)' = Rounds(c)
    OBVIOUS
  <2>1. Rounds(c) \in Nat /\ Rounds(c)' \in Nat
    <3>1. TypeOK /\ TypeOK' /\ c \in Classes
      BY InvStep, Kinds DEF Inv, GunClasses
    <3>2. Loose(c)' \in Nat /\ Pockets(c)' \in Nat
      BY <3>1, PartsNat, PartsNatNext, TotalNat DEF Loose, Pockets
    <3>3. Boxed(c)' \in Nat
      <4>1. BoxSize[c] \in Nat /\ boxes'[c] \in Nat
        BY <3>1, PartsNat, PartsNatNext
      <4>2. \A m, n \in Nat : m * n \in Nat
        OBVIOUS
      <4> QED BY <4>1, <4>2 DEF Boxed
    <3> QED BY <3>1, <3>2, <3>3, RoundsNat, RoundsParts
  <2> QED BY <2>1, RoundsStep
<1> QED BY <1>1, PocketedAlways, PTL DEF Spec, RoundsKept
=============================================================================
