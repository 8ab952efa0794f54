------------------------------- MODULE ZMArms -------------------------------
(***************************************************************************)
(* The survivors' weapons: slots, ammunition, the reloading of guns, the   *)
(* throwing of molotovs, and the loadouts                                  *)
(* (shared/zmr/weapons/, server/zmr/zmr_player.cpp, zmr_concommands.cpp,   *)
(* zmr_ammo.cpp and the loadout of zmr_entities.cpp, with the inventory of *)
(* the SDK's combat character).                                            *)
(*                                                                         *)
(* Fists and the carrying hands, which have neither slot nor ammunition,   *)
(* are the same: Hands.  A shot, a shell, a switch may come as soon as the *)
(* code's conditions but the times allow it.                               *)
(***************************************************************************)
EXTENDS Integers, FiniteSets, ZMTotal

CONSTANTS
  Players,      \* client slots
  Guns,         \* entity slots of guns
  Molotovs,     \* entity slots of molotovs
  Classes,      \* weapon classes, each with ammunition of its own
  ClassOf,      \* the class of each entity
  SlotOf,       \* the weapon slot of each class (m_iSlotFlag)
  Singly,       \* classes that reload one round after the other (CZMBasePumpWeapon)
  Configured,   \* m_iCounts: how many of each class the loadout entity has
  OneOfAll,     \* LOMETHOD_RANDOM, not LOMETHOD_CATEGORY
  MaxClip,      \* rounds in a full clip of each class
  MaxCarry,     \* rounds a player carries of a class
  BoxSize,      \* rounds in a box of its ammunition (GetDropAmmoAmount)
  AmmoBound,    \* model bound: no more boxes of the map above it
  Hands, Nobody

Weapons == Guns \cup Molotovs

ASSUME ArmsAssumption ==
  /\ IsFiniteSet(Players) /\ IsFiniteSet(Guns) /\ IsFiniteSet(Molotovs)
  /\ Guns \cap Molotovs = {} /\ Hands \notin Guns \cup Molotovs /\ Nobody \notin Players
  /\ ClassOf \in [Guns \cup Molotovs -> Classes] /\ Singly \subseteq Classes
  /\ \A g \in Guns, m \in Molotovs : ClassOf[g] # ClassOf[m]
  /\ DOMAIN SlotOf = Classes
  /\ Configured \in [Classes -> Nat] /\ OneOfAll \in BOOLEAN
  /\ MaxClip \in [Classes -> Nat \ {0}] /\ MaxCarry \in [Classes -> Nat]
  /\ \A c \in Classes : MaxClip[c] <= MaxCarry[c]
  /\ BoxSize \in [Classes -> Nat \ {0}] /\ AmmoBound \in Nat

VARIABLES
  life,     \* "waiting" for the round, "alive", or "out": dead, a spectator or the master
  list,     \* m_hMyWeapons
  active,   \* m_hActiveWeapon
  flags,    \* m_fWeaponSlotFlags, as a set of slots
  pool,     \* m_iAmmo
  here,     \* "none" for a free entity slot; "doomed": to be deleted soon
  owner,    \* m_hOwner, which outlives the place in the list
  clip,     \* m_iClip1
  stash,    \* m_nReserveAmmo
  reload,   \* m_iReloadState and m_bInReload, see IsInReload
  throw,    \* m_iThrowState
  boxes,    \* boxes of ammunition in the map
  loadout   \* what the loadout entity has left

playerVars == <<life, list, active, flags, pool>>
gunVars    == <<clip, stash, reload>>
weaponVars == <<here, owner, gunVars, throw>>
worldVars  == <<boxes, loadout>>
vars == <<playerVars, weaponVars, worldVars>>

GunClasses == {ClassOf[g] : g \in Guns}
Slot(w) == SlotOf[ClassOf[w]]
Owned(p) == {w \in Weapons : owner[w] = p}
Free == {w \in Weapons : here[w] = "none"}
Reserve(w) == IF owner[w] = Nobody THEN 0 ELSE pool[owner[w]][ClassOf[w]]

\* The gun g as the active weapon of a living survivor p.
Holds(p, g) == life[p] = "alive" /\ active[p] = g

-----------------------------------------------------------------------------
(* Switching weapons *)

\* Mutant: a molotov that burns can be put away.
CanHolsterAlways(w) == TRUE

\* CanHolster and CanBeDropped: a molotov that burns must be thrown.
CanHolster(w) == w \in Molotovs => throw[w] \in {"idle", "lighting"}

\* Holster ends a reload, Deploy puts out the rag.
Holstered(w) == [g \in Guns |-> IF g = w THEN "none" ELSE reload[g]]
Deployed(w)  == [m \in Molotovs |-> IF m = w THEN "idle" ELSE throw[m]]

\* Weapon_Switch, by the player or by the game.
Switch(p, w) ==
  /\ life[p] = "alive"
  /\ w \in list[p] \cup {Hands} /\ w # active[p]
  /\ CanHolster(active[p])
  /\ active' = [active EXCEPT ![p] = w]
  /\ reload' = Holstered(active[p])
  /\ throw' = Deployed(w)
  /\ UNCHANGED <<life, list, flags, pool, here, owner, clip, stash, worldVars>>

-----------------------------------------------------------------------------
(* Picking up and dropping *)

\* BumpWeapon, CanHavePlayerItem.
MayTake(p, w) ==
  /\ here[w] = "there" /\ owner[w] = Nobody
  /\ Slot(w) \notin flags[p]

\* Weapon_Equip: the player owns the weapon and its reserve, and may switch to it.
Bump(p, w) ==
  /\ life[p] = "alive"
  /\ MayTake(p, w)
  /\ list' = [list EXCEPT ![p] = @ \cup {w}]
  /\ owner' = [owner EXCEPT ![w] = p]
  /\ flags' = [flags EXCEPT ![p] = @ \cup {Slot(w)}]
  /\ IF w \in Guns
     THEN /\ pool' = [pool EXCEPT ![p][ClassOf[w]] = @ + stash[w]]
          /\ stash' = [stash EXCEPT ![w] = 0]
     ELSE UNCHANGED <<pool, stash>>
  /\ \/ UNCHANGED <<active, reload, throw>>
     \/ /\ CanHolster(active[p])
        /\ active' = [active EXCEPT ![p] = w]
        /\ reload' = Holstered(active[p])
        /\ throw' = Deployed(w)
  /\ UNCHANGED <<life, here, clip, worldVars>>

\* Mutant: the player keeps the ammunition too.
SavedTwice(p, c) == pool

\* SaveReserveAmmo takes the player's ammunition of the weapon.
Saved(p, c) == [pool EXCEPT ![p][c] = 0]

\* Weapon_Drop of p's active weapon w: it takes the ammunition along; one that cannot be
\* dropped is removed.  A reload is not ended.
LetGo(p, w) ==
  /\ list' = [list EXCEPT ![p] = @ \ {w}]
  /\ owner' = [owner EXCEPT ![w] = Nobody]
  /\ flags' = [flags EXCEPT ![p] = @ \ {Slot(w)}]
  /\ IF w \in Guns
     THEN /\ pool' = Saved(p, ClassOf[w])
          /\ stash' = [stash EXCEPT ![w] = pool[p][ClassOf[w]]]
     ELSE UNCHANGED <<pool, stash>>

\* dropweapon: the game switches to another weapon.
DropWeapon(p, w) ==
  /\ Holds(p, w) /\ CanHolster(w)
  /\ LetGo(p, w)
  /\ \E next \in list'[p] \cup {Hands} :
       /\ active' = [active EXCEPT ![p] = next]
       /\ throw' = Deployed(next)
  /\ UNCHANGED <<life, here, clip, reload, worldVars>>

\* dropammo: a box of it.
DropAmmo(p, g) ==
  /\ Holds(p, g)
  /\ pool[p][ClassOf[g]] >= BoxSize[ClassOf[g]]
  /\ boxes' = [boxes EXCEPT ![ClassOf[g]] = @ + 1]
  /\ pool' = [pool EXCEPT ![p][ClassOf[g]] = @ - BoxSize[ClassOf[g]]]
  /\ UNCHANGED <<life, list, active, flags, weaponVars, loadout>>

\* IsInReload of a gun that reloads singly: its m_iReloadState is START ("start") or
\* RELOADING, with m_bInReload ("loading") or without ("stopped").
IsInReload(g) == reload[g] # "none"

\* CanPickupAmmo of the active weapon.
CanPickupAmmo(w) == w \in Guns /\ ClassOf[w] \in Singly => ~IsInReload(w)

\* CZMAmmo::MyTouch, CanHaveAmmo: the box is removed, even if only a part was taken.
TakeBox(p, c) ==
  LET room == MaxCarry[c] - pool[p][c]
  IN  /\ life[p] = "alive" /\ boxes[c] > 0
      /\ \E g \in list[p] : ClassOf[g] = c
      /\ CanPickupAmmo(active[p])
      /\ 2 * room > BoxSize[c]
      /\ pool' = [pool EXCEPT ![p][c] = IF BoxSize[c] < room THEN @ + BoxSize[c] ELSE MaxCarry[c]]
      /\ boxes' = [boxes EXCEPT ![c] = @ - 1]
      /\ UNCHANGED <<life, list, active, flags, weaponVars, loadout>>

-----------------------------------------------------------------------------
(* Guns *)

CanLoad(g) == Reserve(g) > 0 /\ clip[g] < MaxClip[ClassOf[g]]

\* A shot, but while the gun is loading or about to.
Fire(p, g) ==
  /\ Holds(p, g) /\ clip[g] > 0
  /\ reload[g] \in {"none", "stopped"} \/ (reload[g] = "start" /\ ~CanLoad(g))
  /\ clip' = [clip EXCEPT ![g] = @ - 1]
  /\ UNCHANGED <<playerVars, here, owner, stash, reload, throw, worldVars>>

\* The reload key: a gun that reloads singly starts, or goes on where it was interrupted.
Reload(p, g) ==
  /\ Holds(p, g) /\ CanLoad(g)
  /\ reload[g] \in {"none", "stopped"}
  /\ reload' = [reload EXCEPT ![g] =
                  IF ClassOf[g] \in Singly /\ @ = "none" THEN "start" ELSE "loading"]
  /\ UNCHANGED <<playerVars, here, owner, clip, stash, throw, worldVars>>

\* ItemPostFrame: the gun that has started loads; if there is nothing to load any more,
\* it tries again each frame.
StartLoading(p, g) ==
  /\ Holds(p, g) /\ CanLoad(g)
  /\ reload[g] = "start"
  /\ reload' = [reload EXCEPT ![g] = "loading"]
  /\ UNCHANGED <<playerVars, here, owner, clip, stash, throw, worldVars>>

\* CheckReload of a gun that reloads singly: the next round.  If it was the last one and
\* the trigger is held, it is shot in the same frame.
LoadRound(p, g) ==
  /\ Holds(p, g) /\ CanLoad(g)
  /\ reload[g] = "loading" /\ ClassOf[g] \in Singly
  /\ pool' = [pool EXCEPT ![p][ClassOf[g]] = @ - 1]
  /\ \/ clip' = [clip EXCEPT ![g] = @ + 1]
     \/ /\ clip[g] = 0 /\ (Reserve(g) = 1 \/ MaxClip[ClassOf[g]] = 1)
        /\ UNCHANGED clip
  /\ UNCHANGED <<life, list, active, flags, here, owner, stash, reload, throw, worldVars>>

\* CheckReload with a trigger held: the reload stops, and the first trigger shoots.
\* m_iReloadState stays.
Interrupt(p, g) ==
  /\ Holds(p, g) /\ clip[g] > 0
  /\ reload[g] = "loading" /\ ClassOf[g] \in Singly
  /\ reload' = [reload EXCEPT ![g] = "stopped"]
  /\ \E shots \in {0, 1} : clip' = [clip EXCEPT ![g] = @ - shots]
  /\ UNCHANGED <<playerVars, here, owner, stash, throw, worldVars>>

\* FinishReload: the rest is loaded, for a gun that reloads singly there is none.
FinishReload(p, g) ==
  LET room == MaxClip[ClassOf[g]] - clip[g]
      rest == IF room < Reserve(g) THEN room ELSE Reserve(g)
  IN  /\ Holds(p, g) /\ reload[g] = "loading"
      /\ ClassOf[g] \in Singly => ~CanLoad(g)
      /\ clip' = [clip EXCEPT ![g] = @ + rest]
      /\ pool' = [pool EXCEPT ![p][ClassOf[g]] = @ - rest]
      /\ reload' = [reload EXCEPT ![g] = "none"]
      /\ UNCHANGED <<life, list, active, flags, here, owner, stash, throw, worldVars>>

-----------------------------------------------------------------------------
(* Molotovs *)

\* The steps from state to state: the attack lights the rag, the end of an animation
\* lights it again or draws back and is ready; when the trigger is let go it is thrown,
\* and the animation makes the grenade.
Burns(p, m) ==
  /\ Holds(p, m)
  /\ \/ throw[m] = "idle"     /\ throw' = [throw EXCEPT ![m] = "lighting"]
     \/ throw[m] = "lighting" /\ throw' = [throw EXCEPT ![m] = "drawback"]
     \/ throw[m] = "drawback" /\ throw' = [throw EXCEPT ![m] = "ready"]
     \/ throw[m] = "ready"    /\ throw' = [throw EXCEPT ![m] = "thrown"]
  /\ UNCHANGED <<playerVars, here, owner, gunVars, worldVars>>

\* ItemPostFrame after the animation: the weapon is dropped and removed.
UsedUp(p, m) ==
  /\ Holds(p, m) /\ throw[m] = "thrown"
  /\ LetGo(p, m)
  /\ here' = [here EXCEPT ![m] = "doomed"]
  /\ \E next \in list'[p] \cup {Hands} :
       /\ active' = [active EXCEPT ![p] = next]
       /\ throw' = Deployed(next)
  /\ UNCHANGED <<life, clip, reload, worldVars>>

-----------------------------------------------------------------------------
(* Lives, rounds and the map *)

\* Event_Killed: the active weapon is holstered and dropped.
Die(p) ==
  LET w == active[p]
  IN  /\ life[p] = "alive"
      /\ life' = [life EXCEPT ![p] = "out"]
      /\ IF w = Hands THEN UNCHANGED <<list, owner, flags, pool, stash>> ELSE LetGo(p, w)
      /\ here' = IF CanHolster(w) THEN here ELSE [here EXCEPT ![w] = "doomed"]
      /\ reload' = Holstered(w)
      /\ active' = [active EXCEPT ![p] = Hands]
      /\ UNCHANGED <<clip, throw, worldVars>>

\* RemoveAllItems, of the dead, by the map, or with a change of team: the weapons are
\* deleted a moment later, until when they keep their owner.
Strip(p, l) ==
  /\ life[p] \in {"alive", "out"} /\ l \in {life[p], "out"}
  /\ life' = [life EXCEPT ![p] = l]
  /\ list' = [list EXCEPT ![p] = {}]
  /\ active' = [active EXCEPT ![p] = Hands]
  /\ pool' = [pool EXCEPT ![p] = [c \in Classes |-> 0]]
  /\ here' = [w \in Weapons |-> IF w \in list[p] THEN "doomed" ELSE here[w]]
  /\ reload' = Holstered(active[p])
  /\ UNCHANGED <<flags, owner, clip, stash, throw, worldVars>>

\* A client disconnects: the entity of the player goes and with it his weapons.  The next
\* client in the slot waits.
Disconnect(p) ==
  /\ life' = [life EXCEPT ![p] = "waiting"]
  /\ list' = [list EXCEPT ![p] = {}]
  /\ active' = [active EXCEPT ![p] = Hands]
  /\ flags' = [flags EXCEPT ![p] = {}]
  /\ pool' = [pool EXCEPT ![p] = [c \in Classes |-> 0]]
  /\ here' = [w \in Weapons |-> IF owner[w] = p THEN "doomed" ELSE here[w]]
  /\ owner' = [w \in Weapons |-> IF owner[w] = p THEN Nobody ELSE owner[w]]
  /\ UNCHANGED <<gunVars, throw, worldVars>>

\* Mutant: an empty category is drawn from, too.
DrawsAny == {{c} : c \in Classes}

\* DistributeToPlayer: one of what is left, or one of each category that has some; the
\* categories are the slots.
Draws ==
  LET left == {c \in Classes : loadout[c] > 0}
  IN  IF ~OneOfAll
      THEN {D \in SUBSET left :
              \A c \in left : \E d \in D : /\ SlotOf[d] = SlotOf[c]
                                         /\ \A e \in D : SlotOf[e] = SlotOf[c] => e = d}
      ELSE IF left = {} THEN {{}} ELSE {{c} : c \in left}

\* GiveDefaultItems of one who enters the round: new weapons, and a clip for each gun,
\* whatever the slot flags say.
Spawn(p) ==
  /\ life[p] = "waiting"
  /\ \E D \in Draws, G \in SUBSET Free :
       /\ {ClassOf[w] : w \in G} = D
       /\ \A v, w \in G : ClassOf[v] = ClassOf[w] => v = w
       /\ loadout' = [c \in Classes |-> IF c \in D THEN loadout[c] - 1 ELSE loadout[c]]
       /\ here' = [w \in Weapons |-> IF w \in G THEN "there" ELSE here[w]]
       /\ owner' = [w \in Weapons |-> IF w \in G THEN p ELSE owner[w]]
       /\ list' = [list EXCEPT ![p] = G]
       /\ flags' = [flags EXCEPT ![p] = @ \cup {Slot(w) : w \in G}]
       /\ pool' = [pool EXCEPT ![p] = [c \in Classes |-> IF c \in D \cap GunClasses THEN MaxClip[c] ELSE 0]]
       /\ \E best \in G \cup {Hands} : active' = [active EXCEPT ![p] = best]
  /\ life' = [life EXCEPT ![p] = "alive"]
  /\ UNCHANGED <<gunVars, throw, boxes>>

\* The map places a weapon or a box; a weapon is removed (a kill input, an admin).
WeaponAppears(w) ==
  /\ w \in Free
  /\ here' = [here EXCEPT ![w] = "there"]
  /\ UNCHANGED <<playerVars, owner, gunVars, throw, worldVars>>

RemoveWeapon(w) ==
  /\ here[w] = "there"
  /\ here' = [here EXCEPT ![w] = "doomed"]
  /\ UNCHANGED <<playerVars, owner, gunVars, throw, worldVars>>

\* Mutant: the destructor leaves the slot taken.
FreedNever(p, w) == flags

\* FreeWeaponSlot.
Freed(p, w) == [flags EXCEPT ![p] = @ \ {Slot(w)}]

\* The destructor: the slot is freed, the handles read as null, and the entity slot is
\* as new.
Gone(w) ==
  LET p == owner[w]
  IN  /\ here[w] = "doomed"
      /\ here' = [here EXCEPT ![w] = "none"]
      /\ owner' = [owner EXCEPT ![w] = Nobody]
      /\ flags' = IF p = Nobody THEN flags ELSE Freed(p, w)
      /\ list' = [q \in Players |-> list[q] \ {w}]
      /\ active' = [q \in Players |-> IF active[q] = w THEN Hands ELSE active[q]]
      /\ clip' = [g \in Guns |-> IF g = w THEN 0 ELSE clip[g]]
      /\ stash' = [g \in Guns |-> IF g = w THEN 0 ELSE stash[g]]
      /\ reload' = Holstered(w)
      /\ throw' = Deployed(w)
      /\ UNCHANGED <<life, pool, worldVars>>

\* Rounds of a class in clips, reserves, pockets and boxes.
Rounds(c) ==
  Total([g \in {h \in Guns : ClassOf[h] = c} |-> clip[g] + stash[g]])
  + Total([p \in Players |-> pool[p][c]])
  + BoxSize[c] * boxes[c]

BoxAppears(c) ==
  /\ Total([d \in GunClasses |-> Rounds(d)]) + BoxSize[c] <= AmmoBound
  /\ boxes' = [boxes EXCEPT ![c] = @ + 1]
  /\ UNCHANGED <<playerVars, weaponVars, loadout>>

\* ResetWorld: RestoreMap deletes weapons and boxes, the loadout is refilled, everyone is
\* given new items.
NewRound ==
  /\ life' = [p \in Players |-> "waiting"]
  /\ list' = [p \in Players |-> {}]
  /\ active' = [p \in Players |-> Hands]
  /\ flags' = [p \in Players |-> flags[p] \ {Slot(w) : w \in Owned(p)}]
  /\ pool' = [p \in Players |-> [c \in Classes |-> 0]]
  /\ here' = [w \in Weapons |-> "none"] /\ owner' = [w \in Weapons |-> Nobody]
  /\ clip' = [g \in Guns |-> 0] /\ stash' = [g \in Guns |-> 0]
  /\ reload' = [g \in Guns |-> "none"] /\ throw' = [m \in Molotovs |-> "idle"]
  /\ boxes' = [c \in Classes |-> 0] /\ loadout' = Configured

-----------------------------------------------------------------------------
Init ==
  /\ life = [p \in Players |-> "waiting"]
  /\ list = [p \in Players |-> {}] /\ active = [p \in Players |-> Hands]
  /\ flags = [p \in Players |-> {}] /\ pool = [p \in Players |-> [c \in Classes |-> 0]]
  /\ here = [w \in Weapons |-> "none"] /\ owner = [w \in Weapons |-> Nobody]
  /\ clip = [g \in Guns |-> 0] /\ stash = [g \in Guns |-> 0]
  /\ reload = [g \in Guns |-> "none"] /\ throw = [m \in Molotovs |-> "idle"]
  /\ boxes = [c \in Classes |-> 0] /\ loadout = Configured

GunNext(p, g) ==
  \/ DropAmmo(p, g) \/ Fire(p, g) \/ Reload(p, g) \/ StartLoading(p, g)
  \/ LoadRound(p, g) \/ Interrupt(p, g) \/ FinishReload(p, g)

PlayerNext(p) ==
  \/ \E w \in Weapons \cup {Hands} : Switch(p, w)
  \/ \E w \in Weapons : Bump(p, w) \/ DropWeapon(p, w)
  \/ \E g \in Guns : GunNext(p, g)
  \/ \E m \in Molotovs : Burns(p, m) \/ UsedUp(p, m)
  \/ \E c \in GunClasses : TakeBox(p, c)
  \/ \E l \in {"alive", "out"} : Strip(p, l)
  \/ Die(p) \/ Disconnect(p) \/ Spawn(p)

Next ==
  \/ \E p \in Players : PlayerNext(p)
  \/ \E w \in Weapons : WeaponAppears(w) \/ RemoveWeapon(w) \/ Gone(w)
  \/ \E c \in GunClasses : BoxAppears(c)
  \/ NewRound

Spec == Init /\ [][Next]_vars

-----------------------------------------------------------------------------
(* Invariants *)

TypeOK ==
  /\ life \in [Players -> {"waiting", "alive", "out"}]
  /\ list \in [Players -> SUBSET Weapons]
  /\ active \in [Players -> Weapons \cup {Hands}]
  /\ flags \in [Players -> SUBSET {SlotOf[c] : c \in Classes}]
  /\ pool \in [Players -> [Classes -> Nat]]
  /\ here \in [Weapons -> {"none", "there", "doomed"}]
  /\ owner \in [Weapons -> Players \cup {Nobody}]
  /\ clip \in [Guns -> Nat] /\ \A g \in Guns : clip[g] <= MaxClip[ClassOf[g]]
  /\ stash \in [Guns -> Nat]
  /\ reload \in [Guns -> {"none", "start", "loading", "stopped"}]
  /\ throw \in [Molotovs -> {"idle", "lighting", "drawback", "ready", "thrown"}]
  /\ boxes \in [Classes -> Nat] /\ loadout \in [Classes -> Nat]

\* The slot flags of a player say exactly which weapons he owns, those that are about to
\* be deleted included, and he never owns two of a slot: however weapons are given,
\* picked up, dropped, stripped, removed and deleted late.
SlotsAgree ==
  \A p \in Players :
    /\ flags[p] = {Slot(w) : w \in Owned(p)}
    /\ \A v, w \in Owned(p) : Slot(v) = Slot(w) => v = w

\* "Don't allow ammo pickup when reloading": one whose gun is not loading, and who has
\* nothing left to load, is not refused ammunition.
EmptyMayPickUp ==
  \A p \in Players, g \in Guns :
    Holds(p, g) /\ Reserve(g) = 0 /\ reload[g] # "loading" => CanPickupAmmo(g)

-----------------------------------------------------------------------------
(* Action properties *)

\* A weapon that passes from one hand to another or to the floor.
ChangesHands ==
  \E w \in Weapons : here[w] = "there" /\ here'[w] = "there" /\ owner'[w] # owner[w]

\* No way of dropping, picking up, loading or giving away makes ammunition: only the
\* map and the loadout do; and none is lost with a weapon that changes hands, even in
\* death or in the middle of a reload.
RoundsKept ==
  [][\A c \in GunClasses :
       /\ Rounds(c)' > Rounds(c) => BoxAppears(c) \/ loadout' # loadout
       /\ ChangesHands => Rounds(c)' = Rounds(c)]_vars

\* A molotov that has been thrown stays with its thrower until it is removed: no switch,
\* drop, death or pick-up in between makes it a weapon again.
ThrownOnce ==
  [][\A m \in Molotovs :
       throw[m] = "thrown" /\ here[m] = "there" =>
         here'[m] # "there" \/ (throw'[m] = "thrown" /\ owner'[m] = owner[m])]_vars
=============================================================================
