--------------------------- MODULE ZMSpawnProofs ---------------------------
(***************************************************************************)
(* Theorems about the horde's economy, for every map, price list and       *)
(* population limit.                                                       *)
(***************************************************************************)
EXTENDS ZMSpawn, ZMTotalProofs, SequenceTheorems, TLAPS

-----------------------------------------------------------------------------
(* The operators *)

\* IncResources leaves a player with a natural number of resources.
LEMMA RaisedNat ==
  ASSUME NEW r \in Nat, NEW n \in Int, NEW limit \in BOOLEAN
  PROVE  Raised(r, n, limit) \in Nat
BY SpawnAssumption DEF Raised, Clamped, SpawnAssumption

\* A price that can be paid is taken whole.
LEMMA RaisedPays ==
  ASSUME NEW r \in Nat, NEW n \in Nat, r >= n
  PROVE  Raised(r, -n, FALSE) = r - n
BY DEF Raised, Clamped

\* Giving under the limit takes nothing away, above the maximum or below.
LEMMA RaisedGives ==
  ASSUME NEW r \in Nat, NEW n \in Nat, NEW limit \in BOOLEAN
  PROVE  Raised(r, n, limit) >= r
BY SpawnAssumption DEF Raised, Clamped, SpawnAssumption

\* An order lengthens a queue that is not full, up to its capacity.
LEMMA QueuedFits ==
  ASSUME NEW q \in Seq(Orders), NEW o \in Orders, NEW n \in Nat, Len(q) <= QueueCap
  PROVE  Queued(q, o, n) \in Seq(Orders) /\ Len(Queued(q, o, n)) <= QueueCap
<1> DEFINE k == IF n > QueueCap - Len(q) THEN QueueCap - Len(q) ELSE n
           added == [i \in 1..k |-> o]
<1>1. Len(q) \in Nat /\ QueueCap \in Nat
  BY LenProperties, SpawnAssumption DEF SpawnAssumption
<1>2. k \in Nat /\ Len(q) + k <= QueueCap
  BY <1>1
<1>3. added \in Seq(Orders) /\ Len(added) = k
  <2> HIDE DEF k
  <2>1. added \in [1..k -> Orders]
    OBVIOUS
  <2> QED BY <1>2, <2>1
<1> HIDE DEF added
<1>4. q \o added \in Seq(Orders) /\ Len(q \o added) = Len(q) + Len(added)
  BY <1>3, ConcatProperties
<1>5. Queued(q, o, n) = q \o added
  BY DEF Queued, added
<1> QED BY <1>2, <1>3, <1>4, <1>5

\* A clear leaves a shorter queue of the same orders.
LEMMA ClearedShorter ==
  ASSUME NEW q \in Seq(Orders), q # <<>>, NEW amount \in Nat, NEW pos \in Nat
  PROVE  Cleared(q, amount, pos) \in Seq(Orders) /\ Len(Cleared(q, amount, pos)) < Len(q)
<1> DEFINE first == IF pos < 1 \/ pos > Len(q) THEN Len(q) ELSE pos
           last == IF amount < 1 \/ first + amount - 1 > Len(q) THEN Len(q)
                   ELSE first + amount - 1
           front == SubSeq(q, 1, first - 1)
           rest == SubSeq(q, last + 1, Len(q))
<1>1. Len(q) \in Nat \ {0}
  BY EmptySeq
<1>2. first \in 1..Len(q) /\ last \in first..Len(q)
  BY <1>1
<1> HIDE DEF first, last
<1>3. \A i \in 1..Len(q) : q[i] \in Orders
  BY ElementOfSeq
<1>4. front \in Seq(Orders) /\ Len(front) = first - 1
  BY <1>1, <1>2, <1>3, SubSeqProperties
<1>5. rest \in Seq(Orders) /\ Len(rest) = Len(q) - last
  BY <1>1, <1>2, <1>3, SubSeqProperties
<1>6. Cleared(q, amount, pos) = front \o rest
  BY DEF Cleared, front, rest, first, last
<1> HIDE DEF front, rest
<1>7. front \o rest \in Seq(Orders) /\ Len(front \o rest) = Len(front) + Len(rest)
  BY <1>4, <1>5, ConcatProperties
<1> QED BY <1>1, <1>2, <1>4, <1>5, <1>6, <1>7

\* What a spawner takes from its queue leaves a shorter one.
LEMMA HeadTail ==
  ASSUME NEW q \in Seq(Orders), q # <<>>
  PROVE  /\ Head(q) \in Orders /\ Head(q).class \in Classes /\ Head(q).by \in Players
         /\ Tail(q) \in Seq(Orders) /\ Len(Tail(q)) < Len(q)
         /\ Len(q) \in Nat
<1>1. Head(q) \in Orders /\ Tail(q) \in Seq(Orders) /\ Len(Tail(q)) = Len(q) - 1
  BY HeadTailProperties
<1>2. Len(q) \in Nat
  BY LenProperties
<1> QED BY <1>1, <1>2 DEF Orders

\* A new entity joins the horde in a slot that was free.
LEMMA CreateHorde ==
  ASSUME TypeOK, NEW z \in Zombies, NEW c \in Classes, Create(z, c)
  PROVE  /\ class' \in [Zombies -> Classes \cup {Nobody}]
         /\ Horde' = Horde \cup {z} /\ z \notin Horde
BY SpawnAssumption DEF TypeOK, Create, Free, Horde, SpawnAssumption

\* Deletion leaves the rest of the horde as it was.
LEMMA DeleteHorde ==
  ASSUME TypeOK, NEW S \in SUBSET Horde, Delete(S)
  PROVE  /\ class' \in [Zombies -> Classes \cup {Nobody}]
         /\ Horde' = Horde \ S
         /\ bought' \in SUBSET Horde' /\ doomed' \in SUBSET Horde'
BY DEF TypeOK, Delete, Horde

-----------------------------------------------------------------------------
(* Type correctness and the bound of the queues *)

\* Both together are inductive: an order is only cut to fit a queue that fits.
Inv == TypeOK /\ QueueBounded

\* The invariant, by the part of the state it is about.
PlayersOK  == present \in SUBSET Players /\ master \in present \cup {Nobody}
              /\ res \in [Players -> Nat]
SpawnersOK == active \in [Spawners -> BOOLEAN] /\ queue \in [Spawners -> Seq(Orders)]
              /\ armed \in [Spawners -> BOOLEAN] /\ QueueBounded
HordeOK    == class \in [Zombies -> Classes \cup {Nobody}] /\ bought \in SUBSET Horde
              /\ doomed \in SUBSET Horde

\* The parts are the whole, now and in the next state.
LEMMA InvParts ==
  /\ Inv <=> PlayersOK /\ SpawnersOK /\ HordeOK
  /\ Inv' <=> PlayersOK' /\ SpawnersOK' /\ HordeOK'
BY DEF Inv, TypeOK, PlayersOK, SpawnersOK, HordeOK, QueueBounded, Horde

\* Every step keeps the part whose variables it leaves alone.
LEMMA PartsUntouched ==
  /\ PlayersOK /\ UNCHANGED playerVars => PlayersOK'
  /\ SpawnersOK /\ UNCHANGED spawnerVars => SpawnersOK'
  /\ HordeOK /\ UNCHANGED zombieVars => HordeOK'
BY DEF PlayersOK, SpawnersOK, HordeOK, QueueBounded, Horde, playerVars, spawnerVars,
       zombieVars

\* The server starts in the invariant.
LEMMA InitInv == Init => Inv
<1> SUFFICES ASSUME Init PROVE Inv
  OBVIOUS
<1>1. <<>> \in Seq(Orders) /\ Len(<<>>) = 0
  BY EmptySeq
<1> QED
  BY <1>1, SpawnAssumption
  DEF Init, Inv, TypeOK, QueueBounded, Horde, SpawnAssumption

\* A new entity that was bought or is to be deleted at once.
LEMMA CreateKeeps ==
  ASSUME Inv, NEW z \in Zombies, NEW c \in Classes, Create(z, c),
         bought' \in {bought, bought \cup {z}}, doomed' \in {doomed, doomed \cup {z}}
  PROVE  HordeOK'
<1>1. TypeOK
  BY DEF Inv
<1>2. class' \in [Zombies -> Classes \cup {Nobody}] /\ Horde' = Horde \cup {z}
  BY <1>1, CreateHorde
<1>3. bought \subseteq Horde /\ doomed \subseteq Horde
  BY <1>1 DEF TypeOK
<1>4. bought' \subseteq Horde' /\ doomed' \subseteq Horde'
  BY <1>2, <1>3
<1> QED BY <1>2, <1>4 DEF HordeOK, Horde

\* Whoever pays or is paid has a natural number of resources afterwards.
LEMMA PayKeeps ==
  ASSUME PlayersOK, NEW p \in Players, NEW n \in Int, NEW limit \in BOOLEAN,
         res' = [res EXCEPT ![p] = Raised(res[p], n, limit)],
         UNCHANGED <<present, master>>
  PROVE  PlayersOK'
<1>1. Raised(res[p], n, limit) \in Nat
  BY RaisedNat DEF PlayersOK
<1> QED BY <1>1 DEF PlayersOK

\* The spawner's steps.
LEMMA SpawnerInv ==
  ASSUME Inv, NEW s \in Spawners, SpawnerNext(s)
  PROVE  Inv'
<1>0. PlayersOK /\ SpawnersOK /\ HordeOK
  BY InvParts
<1>q. queue[s] \in Seq(Orders) /\ Len(queue[s]) <= QueueCap
  BY <1>0 DEF SpawnersOK, QueueBounded
<1>1. ASSUME NEW p \in Players, NEW c \in Classes, NEW n \in 1..QueueCap + 1,
             QueueUnit(p, s, c, n)
      PROVE  Inv'
  <2> DEFINE o == [class |-> c, by |-> p]
  <2>1. o \in Orders /\ n \in Nat
    BY SpawnAssumption DEF Orders, SpawnAssumption
  <2>2. Queued(queue[s], o, n) \in Seq(Orders) /\ Len(Queued(queue[s], o, n)) <= QueueCap
    BY <1>q, <2>1, QueuedFits
  <2>3. queue' = [queue EXCEPT ![s] = Queued(queue[s], o, n)] /\ UNCHANGED active
        /\ armed' = [armed EXCEPT ![s] = TRUE]
    BY <1>1 DEF QueueUnit
  <2>4. SpawnersOK'
    BY <1>0, <2>2, <2>3 DEF SpawnersOK, QueueBounded
  <2> QED BY <1>0, <1>1, <2>4, InvParts, PartsUntouched DEF QueueUnit
<1>2. ASSUME NEW p \in Players, NEW amount \in 0..QueueCap + 1, NEW pos \in 0..QueueCap + 1,
             QueueClear(p, s, amount, pos)
      PROVE  Inv'
  <2> DEFINE left == Cleared(queue[s], amount, pos)
  <2>1. amount \in Nat /\ pos \in Nat /\ QueueCap \in Nat
    BY SpawnAssumption DEF SpawnAssumption
  <2>2. left \in Seq(Orders) /\ Len(left) < Len(queue[s])
    BY <1>q, <1>2, <2>1, ClearedShorter DEF QueueClear
  <2>3. Len(left) \in Nat /\ Len(queue[s]) \in Nat
    BY <1>q, <2>2, LenProperties
  <2>4. queue' = [queue EXCEPT ![s] = left] /\ UNCHANGED <<active, armed>>
    BY <1>2 DEF QueueClear
  <2> HIDE DEF left
  <2>5. SpawnersOK'
    BY <1>0, <1>q, <2>1, <2>2, <2>3, <2>4 DEF SpawnersOK, QueueBounded
  <2> QED BY <1>0, <1>2, <2>5, InvParts, PartsUntouched DEF QueueClear
<1>3. ASSUME NEW on \in BOOLEAN, Switch(s, on) PROVE Inv'
  <2>1. SpawnersOK'
    BY <1>0, <1>3 DEF Switch, SpawnersOK, QueueBounded
  <2> QED BY <1>0, <1>3, <2>1, InvParts, PartsUntouched DEF Switch
<1>4. ASSUME SpawnThinkStops(s) PROVE Inv'
  <2>1. SpawnersOK'
    BY <1>0, <1>4 DEF SpawnThinkStops, SpawnersOK, QueueBounded
  <2> QED BY <1>0, <1>4, <2>1, InvParts, PartsUntouched DEF SpawnThinkStops
<1>5. ASSUME SpawnThinkCreates(s) PROVE Inv'
  <2> DEFINE order == Head(queue[s])
  <2>1. queue[s] # <<>>
    BY <1>5 DEF SpawnThinkCreates
  <2>2. /\ order.class \in Classes /\ order.by \in Players
        /\ Tail(queue[s]) \in Seq(Orders) /\ Len(Tail(queue[s])) <= QueueCap
    <3>1. Len(Tail(queue[s])) \in Nat /\ QueueCap \in Nat
      BY <1>q, <2>1, HeadTail, LenProperties, SpawnAssumption DEF SpawnAssumption
    <3> QED BY <1>q, <2>1, <3>1, HeadTail
  <2>3. queue' = [queue EXCEPT ![s] = Tail(queue[s])] /\ UNCHANGED active
        /\ armed' = [armed EXCEPT ![s] = TRUE]
    BY <1>5 DEF SpawnThinkCreates, Rearm
  <2>4. SpawnersOK'
    BY <1>0, <2>2, <2>3 DEF SpawnersOK, QueueBounded
  <2>5. PICK z \in Zombies : Create(z, order.class) /\ bought' = bought \cup {z}
    BY <1>5 DEF SpawnThinkCreates
  <2>6. HordeOK'
    BY <1>5, <2>2, <2>5, CreateKeeps DEF SpawnThinkCreates
  <2>7. PlayersOK'
    <3>1. -Cost[order.class] \in Int
      BY <2>2, SpawnAssumption DEF SpawnAssumption
    <3>2. CASE order.by \in present
      <4>1. res' = [res EXCEPT ![order.by] =
                      Raised(res[order.by], -Cost[order.class], FALSE)]
        BY <1>5, <3>2 DEF SpawnThinkCreates
      <4> QED BY <1>0, <1>5, <2>2, <3>1, <4>1, PayKeeps DEF SpawnThinkCreates
    <3>3. CASE order.by \notin present
      BY <1>0, <1>5, <3>3 DEF SpawnThinkCreates, PlayersOK
    <3> QED BY <3>2, <3>3
  <2> QED BY <2>4, <2>6, <2>7, InvParts
<1>6. ASSUME SpawnThinkFails(s) PROVE Inv'
  <2>1. Head(queue[s]).class \in Classes
    BY <1>q, <1>6, HeadTail DEF SpawnThinkFails
  <2>2. HordeOK'
    BY <1>6, <2>1, CreateKeeps DEF SpawnThinkFails
  <2>3. SpawnersOK'
    BY <1>0, <1>6 DEF SpawnThinkFails, Rearm, SpawnersOK, QueueBounded
  <2> QED BY <1>0, <1>6, <2>2, <2>3, InvParts, PartsUntouched DEF SpawnThinkFails
<1>7. ASSUME Toggle(s) \/ Hide(s) \/ Unhide(s) PROVE Inv'
  <2>1. \E on \in BOOLEAN : Switch(s, on)
    BY <1>0, <1>7 DEF Toggle, Hide, Unhide, SpawnersOK
  <2> QED BY <1>3, <2>1
<1> QED BY <1>1, <1>2, <1>4, <1>5, <1>6, <1>7 DEF SpawnerNext

\* The players' steps.
LEMMA PlayerInv ==
  ASSUME Inv, NEW p \in Players, PlayerNext(p)
  PROVE  Inv'
<1>0. PlayersOK /\ SpawnersOK /\ HordeOK
  BY InvParts
<1>1. CASE Join(p)
  <2>1. PlayersOK'
    BY <1>0, <1>1 DEF Join, PlayersOK
  <2> QED BY <1>0, <1>1, <2>1, InvParts, PartsUntouched DEF Join
<1>2. CASE Leave(p)
  <2>1. PlayersOK'
    BY <1>0, <1>2 DEF Leave, PlayersOK
  <2> QED BY <1>0, <1>2, <2>1, InvParts, PartsUntouched DEF Leave
<1>3. CASE Resign(p)
  <2>1. PlayersOK'
    BY <1>0, <1>3 DEF Resign, PlayersOK
  <2> QED BY <1>0, <1>3, <2>1, InvParts, PartsUntouched DEF Resign
<1>4. CASE Handover(p)
  <2>1. PlayersOK'
    BY <1>0, <1>4 DEF Handover, PlayersOK
  <2> QED BY <1>0, <1>4, <2>1, InvParts, PartsUntouched DEF Handover
<1>5. CASE Income(p)
  <2>1. PICK n \in Refills : res' = [res EXCEPT ![p] = Raised(res[p], n, TRUE)]
    BY <1>5 DEF Income
  <2>2. n \in Int
    BY SpawnAssumption DEF SpawnAssumption
  <2>3. PlayersOK'
    BY <1>0, <1>5, <2>1, <2>2, PayKeeps DEF Income
  <2> QED BY <1>0, <1>5, <2>3, InvParts, PartsUntouched DEF Income
<1>6. ASSUME NEW ok \in BOOLEAN, CreateHidden(p, ok) PROVE Inv'
  <2>1. PICK z \in Zombies :
          /\ Create(z, Shambler)
          /\ bought' \in {bought, bought \cup {z}} /\ doomed' \in {doomed, doomed \cup {z}}
    BY <1>6 DEF CreateHidden
  <2>2. HordeOK'
    BY <2>1, CreateKeeps, SpawnAssumption DEF SpawnAssumption
  <2>3. PlayersOK'
    <3>1. -HiddenCost \in Int
      BY SpawnAssumption DEF SpawnAssumption
    <3>2. CASE ok
      BY <1>0, <1>6, <3>1, <3>2, PayKeeps DEF CreateHidden
    <3>3. CASE ~ok
      BY <1>0, <1>6, <3>3 DEF CreateHidden, PlayersOK
    <3> QED BY <3>2, <3>3
  <2> QED BY <1>0, <1>6, <2>2, <2>3, InvParts, PartsUntouched DEF CreateHidden
<1>7. CASE PhysExp(p)
  <2>1. -PhysExpCost \in Int
    BY SpawnAssumption DEF SpawnAssumption
  <2>2. PlayersOK'
    BY <1>0, <1>7, <2>1, PayKeeps DEF PhysExp
  <2> QED BY <1>0, <1>7, <2>2, InvParts, PartsUntouched DEF PhysExp
<1> QED BY <1>1, <1>2, <1>3, <1>4, <1>5, <1>6, <1>7 DEF PlayerNext

\* The steps of the map, the zombies and the rules.
LEMMA WorldInv ==
  ASSUME Inv,
         \/ \E c \in Classes : MapZombie(c)
         \/ \E z \in Zombies : ZombieGone(z)
         \/ SurvivorKilled \/ GiveResources \/ FrameEnd \/ NewRound
  PROVE  Inv'
<1>0. PlayersOK /\ SpawnersOK /\ HordeOK /\ TypeOK
  BY InvParts DEF Inv
<1>1. ASSUME NEW c \in Classes, MapZombie(c) PROVE Inv'
  <2>1. HordeOK'
    BY <1>1, CreateKeeps DEF MapZombie
  <2> QED BY <1>0, <1>1, <2>1, InvParts, PartsUntouched DEF MapZombie
<1>2. ASSUME NEW z \in Zombies, ZombieGone(z) PROVE Inv'
  <2>1. HordeOK'
    BY <1>0, <1>2 DEF ZombieGone, HordeOK, Horde
  <2> QED BY <1>0, <1>2, <2>1, InvParts, PartsUntouched DEF ZombieGone
<1>3. ASSUME NEW n \in Int, NEW limit \in BOOLEAN, RewardResources(n, limit) PROVE Inv'
  <2>1. master \in Players
    BY <1>0, <1>3 DEF RewardResources, PlayersOK
  <2>2. PlayersOK'
    BY <1>0, <1>3, <2>1, PayKeeps DEF RewardResources
  <2> QED BY <1>0, <1>3, <2>2, InvParts, PartsUntouched DEF RewardResources
<1>4. CASE SurvivorKilled \/ GiveResources
  <2>1. Rewards \subseteq Int /\ Grants \subseteq Int
    BY SpawnAssumption DEF SpawnAssumption
  <2>2. PICK n \in Int, limit \in BOOLEAN : RewardResources(n, limit)
    BY <1>4, <2>1 DEF SurvivorKilled, GiveResources
  <2> QED BY <1>3, <2>2
<1>5. CASE FrameEnd
  <2>1. HordeOK'
    BY <1>0, <1>5, DeleteHorde DEF FrameEnd, TypeOK, HordeOK, Horde
  <2> QED BY <1>0, <1>5, <2>1, InvParts, PartsUntouched DEF FrameEnd
<1>6. CASE NewRound
  <2>1. HordeOK'
    BY <1>0, <1>6, DeleteHorde DEF NewRound, HordeOK, Horde
  <2>2. <<>> \in Seq(Orders) /\ Len(<<>>) = 0
    BY EmptySeq
  <2>3. SpawnersOK'
    BY <1>6, <2>2, SpawnAssumption
    DEF NewRound, FreshQueues, SpawnersOK, QueueBounded, SpawnAssumption
  <2>4. PlayersOK'
    BY <1>0, <1>6, SpawnAssumption DEF NewRound, PlayersOK, SpawnAssumption
  <2> QED BY <2>1, <2>3, <2>4, InvParts
<1> QED BY <1>1, <1>2, <1>4, <1>5, <1>6

\* Every step keeps both, whatever orders, thinks and restarts come when.
LEMMA InvStep == Inv /\ [Next]_vars => Inv'
<1> SUFFICES ASSUME Inv, [Next]_vars PROVE Inv'
  OBVIOUS
<1>1. CASE Next
  BY <1>1, SpawnerInv, PlayerInv, WorldInv DEF Next
<1>2. CASE UNCHANGED vars
  BY <1>2, InvParts, PartsUntouched DEF vars, playerVars, spawnerVars, zombieVars
<1> QED BY <1>1, <1>2

LEMMA InvAlways == Spec => []Inv
BY InitInv, InvStep, PTL DEF Spec

\* The variables keep their types: nobody's resources get negative, and what is
\* bought or to be deleted is a zombie that exists.
THEOREM SpawnTypeCorrect == Spec => []TypeOK
<1>1. Inv => TypeOK
  BY DEF Inv
<1> QED BY InvAlways, <1>1, PTL

\* No spawner ever has more units queued than the capacity, for any capacity.
THEOREM QueuesBounded == Spec => []QueueBounded
<1>1. Inv => QueueBounded
  BY DEF Inv
<1> QED BY InvAlways, <1>1, PTL

-----------------------------------------------------------------------------
(* What a zombie costs *)

\* A step that adds to the bought zombies is a spawner's or a hidden one's.
LEMMA WhoBuys ==
  ASSUME Inv, Next, bought' \ bought # {}
  PROVE  \/ \E s \in Spawners : SpawnThinkCreates(s)
         \/ \E p \in Players, ok \in BOOLEAN : CreateHidden(p, ok) /\ ok
<1>1. ASSUME NEW s \in Spawners, SpawnerNext(s) PROVE SpawnThinkCreates(s)
  BY <1>1 DEF SpawnerNext, QueueUnit, QueueClear, Toggle, Hide, Unhide, Switch,
              SpawnThinkStops, SpawnThinkFails, zombieVars
<1>2. ASSUME NEW p \in Players, PlayerNext(p)
      PROVE  \E ok \in BOOLEAN : CreateHidden(p, ok) /\ ok
  BY <1>2 DEF PlayerNext, Join, Leave, Resign, Handover, Income, PhysExp, CreateHidden, zombieVars
<1>3. ~(\E c \in Classes : MapZombie(c)) /\ ~(\E z \in Zombies : ZombieGone(z))
  BY DEF MapZombie, ZombieGone
<1>4. ~SurvivorKilled /\ ~GiveResources
  BY DEF SurvivorKilled, GiveResources, RewardResources, zombieVars
<1>5. ~FrameEnd /\ ~NewRound
  BY DEF FrameEnd, NewRound, Delete
<1> QED BY <1>1, <1>2, <1>3, <1>4, <1>5 DEF Next

\* Every zombie bought is paid in full: the check of the price and the payment
\* are in one callback, so that resources seen are still there when it is taken.
THEOREM FullPrice == Spec => PaidInFull
<1> DEFINE Paid ==
       bought' \ bought # {} =>
         \/ \E s \in Spawners :
              LET order == Head(queue[s])
              IN  /\ queue[s] # <<>> /\ queue'[s] = Tail(queue[s])
                  /\ IF order.by \in present
                     THEN res' = [res EXCEPT ![order.by] = @ - Cost[order.class]]
                     ELSE res' = res
         \/ \E p \in present : res' = [res EXCEPT ![p] = @ - HiddenCost]
<1>1. ASSUME Inv, Next, bought' \ bought # {} PROVE Paid
  <2>0. PlayersOK /\ SpawnersOK
    BY <1>1, InvParts
  <2>1. ASSUME NEW s \in Spawners, SpawnThinkCreates(s) PROVE Paid
    <3> DEFINE order == Head(queue[s])
    <3>1. queue[s] \in Seq(Orders) /\ queue[s] # <<>>
      BY <2>0, <2>1 DEF SpawnersOK, SpawnThinkCreates
    <3>2. order.class \in Classes /\ order.by \in Players
      BY <3>1, HeadTail
    <3>3. queue'[s] = Tail(queue[s])
      BY <2>0, <2>1 DEF SpawnThinkCreates, SpawnersOK
    <3>4. CASE order.by \in present
      <4>1. res[order.by] \in Nat /\ Cost[order.class] \in Nat
        BY <2>0, <3>2, SpawnAssumption DEF PlayersOK, SpawnAssumption
      <4>2. res[order.by] >= Cost[order.class]
        BY <2>1, <3>4 DEF SpawnThinkCreates, Affordable, HasEnoughRes
      <4>3. Raised(res[order.by], -Cost[order.class], FALSE)
              = res[order.by] - Cost[order.class]
        BY <4>1, <4>2, RaisedPays
      <4>4. res' = [res EXCEPT ![order.by] = @ - Cost[order.class]]
        BY <2>1, <3>4, <4>3 DEF SpawnThinkCreates
      <4> QED BY <3>1, <3>3, <3>4, <4>4
    <3>5. CASE order.by \notin present
      BY <2>1, <3>1, <3>3, <3>5 DEF SpawnThinkCreates
    <3> QED BY <3>4, <3>5
  <2>2. ASSUME NEW p \in Players, NEW ok \in BOOLEAN, CreateHidden(p, ok), ok PROVE Paid
    <3>1. res[p] \in Nat /\ HiddenCost \in Nat /\ res[p] >= HiddenCost /\ p \in present
      BY <2>0, <2>2, SpawnAssumption DEF PlayersOK, CreateHidden, HasEnoughRes, SpawnAssumption
    <3>2. Raised(res[p], -HiddenCost, FALSE) = res[p] - HiddenCost
      BY <3>1, RaisedPays
    <3>3. res' = [res EXCEPT ![p] = @ - HiddenCost]
      BY <2>2, <3>2 DEF CreateHidden
    <3> QED BY <3>1, <3>3
  <2> QED BY <1>1, <2>1, <2>2, WhoBuys
<1>2. Inv /\ [Next]_vars => [Paid]_vars
  BY <1>1 DEF vars
<1> QED BY InvAlways, <1>2, PTL DEF Spec, PaidInFull, Paid

-----------------------------------------------------------------------------
(* The thinks of the spawners *)

\* A spawner goes on thinking through every step until it has nothing queued or is
\* switched off.
THEOREM SpawnersKeepThinking == Spec => ThinkKept
<1> DEFINE Kept == \A s \in Spawners :
                     armed[s] /\ ~armed'[s] => queue'[s] = <<>> \/ ~active[s]
<1>1. ASSUME Inv, Next PROVE Kept
  <2>0. SpawnersOK
    BY <1>1, InvParts
  <2>1. ASSUME NEW s \in Spawners, SpawnerNext(s) PROVE Kept
    <3>1. CASE SpawnThinkStops(s)
      BY <2>0, <3>1 DEF SpawnThinkStops, SpawnersOK
    <3>2. CASE SpawnThinkCreates(s) \/ SpawnThinkFails(s)
      BY <2>0, <3>2 DEF SpawnThinkCreates, SpawnThinkFails, Rearm, SpawnersOK
    <3>3. CASE \E p \in Players, c \in Classes, n \in 1..QueueCap + 1 : QueueUnit(p, s, c, n)
      BY <2>0, <3>3 DEF QueueUnit, SpawnersOK
    <3>4. CASE \E p \in Players, amount, pos \in 0..QueueCap + 1 :
                 QueueClear(p, s, amount, pos)
      BY <2>0, <3>4 DEF QueueClear, SpawnersOK
    <3>5. CASE Toggle(s) \/ Hide(s) \/ Unhide(s)
      BY <2>0, <3>5 DEF Toggle, Hide, Unhide, Switch, SpawnersOK
    <3> QED BY <2>1, <3>1, <3>2, <3>3, <3>4, <3>5 DEF SpawnerNext
  <2>2. ASSUME NEW p \in Players, PlayerNext(p) PROVE Kept
    BY <2>2 DEF PlayerNext, Join, Leave, Resign, Handover, Income, PhysExp, CreateHidden, spawnerVars
  <2>3. CASE (\E c \in Classes : MapZombie(c)) \/ (\E z \in Zombies : ZombieGone(z))
    BY <2>3 DEF MapZombie, ZombieGone, spawnerVars
  <2>4. CASE SurvivorKilled \/ GiveResources \/ FrameEnd
    BY <2>4 DEF SurvivorKilled, GiveResources, RewardResources, FrameEnd, spawnerVars
  <2>5. CASE NewRound
    BY <2>5 DEF NewRound, FreshQueues
  <2> QED BY <1>1, <2>1, <2>2, <2>3, <2>4, <2>5 DEF Next
<1>2. Inv /\ [Next]_vars => [Kept]_vars
  BY <1>1
<1> QED BY InvAlways, <1>2, PTL DEF Spec, ThinkKept, Kept

-----------------------------------------------------------------------------
(* What players lose *)

\* Whatever the maximum, the incomes and the rewards: a player's resources shrink only by
\* a purchase, by what the map takes from the master, or with the new round.
THEOREM NobodyIsRobbed == Spec => NothingLost
<1> DEFINE Lost(p) == res'[p] < res[p]
           Reason(p) ==
             \/ bought' \ bought # {}
             \/ p = master /\ res'[p] = res[p] - PhysExpCost
             \/ p = master /\ \E n \in Grants : n < 0 /\ res'[p] = Clamped(res[p] + n)
             \/ Horde' = {} /\ res'[p] = ResInit
           Explained == \A p \in present \cap present' : Lost(p) => Reason(p)
<1>1. ASSUME Inv, Next PROVE Explained
  <2>0. PlayersOK /\ HordeOK /\ TypeOK
    BY <1>1, InvParts DEF Inv
  <2>a. ASSUME res' = res PROVE Explained
    BY <2>0, <2>a DEF PlayersOK
  <2>b. ASSUME NEW z \in Zombies, NEW c \in Classes, Create(z, c), bought' = bought \cup {z}
        PROVE  bought' \ bought # {}
    <3>1. z \notin bought
      BY <2>0, <2>b DEF Create, Free, HordeOK
    <3> QED BY <2>b, <3>1
  <2>c. ASSUME NEW q \in Players, NEW n \in Nat, NEW limit \in BOOLEAN,
               res' = [res EXCEPT ![q] = Raised(res[q], n, limit)]
        PROVE  Explained
    <3>1. Raised(res[q], n, limit) >= res[q]
      BY <2>0, RaisedGives DEF PlayersOK
    <3>2. Raised(res[q], n, limit) \in Nat
      BY <2>0, RaisedNat DEF PlayersOK
    <3>3. \A p \in Players : ~Lost(p)
      BY <2>0, <2>c, <3>1, <3>2 DEF PlayersOK
    <3> QED BY <2>0, <3>3 DEF PlayersOK
  <2>1. ASSUME NEW s \in Spawners, SpawnerNext(s) PROVE Explained
    <3>1. CASE SpawnThinkCreates(s)
      <4>1. queue[s] \in Seq(Orders) /\ queue[s] # <<>>
        BY <2>0, <3>1 DEF TypeOK, SpawnThinkCreates
      <4>2. Head(queue[s]).class \in Classes
        BY <4>1, HeadTail
      <4> QED BY <2>b, <3>1, <4>2 DEF SpawnThinkCreates
    <3>2. CASE ~SpawnThinkCreates(s)
      BY <2>1, <2>a, <3>2 DEF SpawnerNext, QueueUnit, QueueClear, Toggle, Hide, Unhide, Switch,
                              SpawnThinkStops, SpawnThinkFails, playerVars
    <3> QED BY <3>1, <3>2
  <2>2. ASSUME NEW p \in Players, Join(p) PROVE Explained
    BY <2>0, <2>2 DEF Join, PlayersOK
  <2>3. ASSUME NEW p \in Players, Income(p) PROVE Explained
    BY <2>3, <2>c, SpawnAssumption DEF Income, SpawnAssumption
  <2>4. ASSUME NEW p \in Players, NEW ok \in BOOLEAN, CreateHidden(p, ok) PROVE Explained
    BY <2>4, <2>a, <2>b, SpawnAssumption DEF CreateHidden, SpawnAssumption
  <2>5. ASSUME NEW p \in Players, PhysExp(p) PROVE Explained
    <3>1. res[p] \in Nat /\ PhysExpCost \in Nat /\ res[p] >= PhysExpCost /\ p = master
      BY <2>0, <2>5, SpawnAssumption DEF PlayersOK, PhysExp, HasEnoughRes, SpawnAssumption
    <3>2. res' = [res EXCEPT ![p] = res[p] - PhysExpCost]
      BY <2>5, <3>1, RaisedPays DEF PhysExp
    <3> QED BY <2>0, <3>1, <3>2 DEF PlayersOK
  <2>6. ASSUME NEW p \in Players, Leave(p) \/ Resign(p) \/ Handover(p) PROVE Explained
    BY <2>6, <2>a DEF Leave, Resign, Handover
  <2>7. CASE (\E c \in Classes : MapZombie(c)) \/ (\E z \in Zombies : ZombieGone(z)) \/ FrameEnd
    BY <2>7, <2>a DEF MapZombie, ZombieGone, FrameEnd, playerVars
  <2>8. ASSUME NEW n \in Int, NEW limit \in BOOLEAN, n < 0 => n \in Grants,
               RewardResources(n, limit)
        PROVE  Explained
    <3>1. master \in Players /\ res' = [res EXCEPT ![master] = Raised(res[master], n, limit)]
      BY <2>0, <2>8 DEF PlayersOK, RewardResources
    <3>2. CASE n \in Nat
      BY <2>c, <3>1, <3>2
    <3>3. CASE n < 0
      <4>1. res[master] \in Nat /\ ResMax \in Nat
        BY <2>0, <3>1, SpawnAssumption DEF PlayersOK, SpawnAssumption
      <4>2. \/ Raised(res[master], n, limit) = Clamped(res[master] + n)
            \/ Raised(res[master], n, limit) \in Nat /\ Raised(res[master], n, limit) >= res[master]
        BY <4>1, <3>3, <2>8 DEF Raised
      <4> QED BY <2>0, <2>8, <3>1, <3>3, <4>1, <4>2 DEF PlayersOK
    <3> QED BY <3>2, <3>3, <2>8
  <2>9. CASE SurvivorKilled \/ GiveResources
    <3> HIDE DEF Explained
    <3>1. ASSUME NEW n \in Rewards, RewardResources(n, FALSE) PROVE Explained
      <4>1. n \in Int /\ ~(n < 0)
        BY SpawnAssumption DEF SpawnAssumption
      <4> QED BY <2>8, <3>1, <4>1
    <3>2. ASSUME NEW n \in Grants, NEW limit \in BOOLEAN, RewardResources(n, limit) PROVE Explained
      <4>1. n \in Int
        BY SpawnAssumption DEF SpawnAssumption
      <4> QED BY <2>8, <3>2, <4>1
    <3> QED BY <2>9, <3>1, <3>2 DEF SurvivorKilled, GiveResources
  <2>10. CASE NewRound
    <3>1. Horde' = {}
      BY <2>0, <2>10, DeleteHorde DEF NewRound
    <3> QED BY <2>0, <2>10, <3>1 DEF NewRound, PlayersOK
  <2> QED BY <1>1, <2>1, <2>2, <2>3, <2>4, <2>5, <2>6, <2>7, <2>9, <2>10 DEF Next, PlayerNext
<1>2. ASSUME Inv, UNCHANGED vars PROVE Explained
  BY <1>2, InvParts DEF vars, PlayersOK
<1>3. Inv /\ [Next]_vars => [Explained]_vars
  BY <1>1, <1>2
<1> QED BY InvAlways, <1>3, PTL DEF Spec, NothingLost, Explained, Lost, Reason

-----------------------------------------------------------------------------
(* The population *)

\* Whatever part of the horde is weighed, it is finite and weighs a natural number.
LEMMA WeightNat ==
  ASSUME TypeOK, NEW S \in SUBSET Horde
  PROVE  /\ IsFiniteSet(S)
         /\ [z \in S |-> PopCost[class[z]]] \in [S -> Nat]
         /\ Weight(S) \in Nat
<1>1. IsFiniteSet(S)
  <2>1. S \in SUBSET Zombies /\ IsFiniteSet(Zombies)
    BY SpawnAssumption DEF Horde, SpawnAssumption
  <2> QED BY <2>1, FS_Subset
<1>2. \A z \in S : class[z] \in Classes
  BY DEF TypeOK, Horde
<1>3. [z \in S |-> PopCost[class[z]]] \in [S -> Nat]
  BY <1>2, SpawnAssumption DEF SpawnAssumption
<1> QED BY <1>1, <1>3, TotalNat DEF Weight

\* A part weighs no more than the whole, and what one part does not, the rest does.
LEMMA WeightParts ==
  ASSUME TypeOK, NEW S \in SUBSET Horde, NEW T \in SUBSET S
  PROVE  /\ Weight(S) = Weight(T) + Weight(S \ T)
         /\ Weight(T) <= Weight(S)
<1> DEFINE f == [z \in S |-> PopCost[class[z]]]
<1>1. IsFiniteSet(S) /\ f \in [S -> Nat]
  BY WeightNat
<1>2. /\ [z \in T |-> f[z]] = [z \in T |-> PopCost[class[z]]]
      /\ [z \in S \ T |-> f[z]] = [z \in S \ T |-> PopCost[class[z]]]
  OBVIOUS
<1>3. Total(f) = Total([z \in T |-> f[z]]) + Total([z \in S \ T |-> f[z]])
      /\ Total([z \in T |-> f[z]]) <= Total(f)
  <2> HIDE DEF f
  <2> QED BY <1>1, TotalSplit, TotalPart
<1> QED BY <1>2, <1>3 DEF Weight

\* What a set of zombies weighs after the step.
Weighed(S) == Total([z \in S |-> PopCost[class'[z]]])

\* Zombies that keep their class keep their weight.
LEMMA WeightKept ==
  ASSUME NEW S, \A z \in S : class'[z] = class[z]
  PROVE  Weighed(S) = Weight(S)
<1>1. [z \in S |-> PopCost[class'[z]]] = [z \in S |-> PopCost[class[z]]]
  OBVIOUS
<1> QED BY <1>1 DEF Weight, Weighed

\* A new zombie weighs what its class costs, whoever it joins.
LEMMA WeightCreated ==
  ASSUME TypeOK, NEW z \in Zombies, NEW c \in Classes, Create(z, c), NEW S \in SUBSET Horde
  PROVE  Weighed(S) = Weight(S) /\ Weighed(S \cup {z}) = Weight(S) + PopCost[c]
<1> DEFINE f == [y \in S \cup {z} |-> PopCost[class'[y]]]
<1>1. z \notin Horde /\ class'[z] = c /\ \A y \in S : class'[y] = class[y]
  BY DEF TypeOK, Create, Free, Horde
<1>2. Weighed(S) = Weight(S) /\ IsFiniteSet(S) /\ Weight(S) \in Nat
  BY <1>1, WeightKept, WeightNat
<1>3. IsFiniteSet(S \cup {z}) /\ f \in [S \cup {z} -> Nat] /\ PopCost[c] \in Nat
  <2>1. \A y \in S \cup {z} : class'[y] \in Classes
    BY <1>1 DEF TypeOK, Horde
  <2> QED BY <1>2, <2>1, FS_AddElement, SpawnAssumption DEF SpawnAssumption
<1>4. (S \cup {z}) \ {z} = S /\ f[z] = PopCost[c]
  BY <1>1
<1>5. [y \in S |-> f[y]] = [y \in S |-> PopCost[class'[y]]]
  OBVIOUS
<1>6. Total(f) = f[z] + Total([y \in (S \cup {z}) \ {z} |-> f[y]])
  <2> HIDE DEF f
  <2> QED BY <1>3, TotalRest
<1>7. Total([y \in (S \cup {z}) \ {z} |-> f[y]]) = Weighed(S)
  BY <1>4, <1>5 DEF Weighed
<1>8. Weighed(S \cup {z}) = PopCost[c] + Weight(S)
  BY <1>2, <1>4, <1>6, <1>7 DEF Weighed
<1> QED BY <1>2, <1>3, <1>8

\* The destructors take the weight of the deleted off the count.
LEMMA WeightDeleted ==
  ASSUME TypeOK, NEW S \in SUBSET Horde, Delete(S)
  PROVE  /\ Weighed(Horde \ S) = Weight(Horde) - Weight(S)
         /\ Weighed(bought \ S) <= Weight(bought)
<1>1. \A z \in Horde \ S : class'[z] = class[z]
  BY DEF Delete, TypeOK, Horde
<1>2. bought \in SUBSET Horde /\ bought \ S \in SUBSET bought
  BY DEF TypeOK
<1>3. Weighed(Horde \ S) = Weight(Horde \ S) /\ Weighed(bought \ S) = Weight(bought \ S)
  BY <1>1, <1>2, WeightKept
<1>4. Weight(Horde) = Weight(S) + Weight(Horde \ S) /\ Weight(S) \in Nat /\ Weight(Horde \ S) \in Nat
  BY WeightParts, WeightNat
<1>5. Weight(bought \ S) <= Weight(bought)
  BY <1>2, WeightParts
<1> QED BY <1>3, <1>4, <1>5

\* What a step does to the horde: nothing, one more zombie, which is bought only if it
\* fits, or some of it deleted.
LEMMA HordeSteps ==
  ASSUME Inv, [Next]_vars
  PROVE  \/ UNCHANGED <<class, bought, pop>>
         \/ \E z \in Zombies, c \in Classes :
              /\ Create(z, c)
              /\ \/ bought' = bought
                 \/ bought' = bought \cup {z} /\ HasEnoughPopToSpawn(c)
         \/ \E S \in SUBSET Horde : Delete(S)
<1> DEFINE Still == UNCHANGED <<class, bought, pop>>
           Born  == \E z \in Zombies, c \in Classes :
                      /\ Create(z, c)
                      /\ \/ bought' = bought
                         \/ bought' = bought \cup {z} /\ HasEnoughPopToSpawn(c)
           Gone  == \E S \in SUBSET Horde : Delete(S)
<1>0. TypeOK
  BY DEF Inv
<1>1. ASSUME NEW s \in Spawners, SpawnerNext(s) PROVE Still \/ Born
  <2>1. CASE SpawnThinkCreates(s) \/ SpawnThinkFails(s)
    <3>1. queue[s] \in Seq(Orders) /\ queue[s] # <<>>
      BY <1>0, <2>1 DEF TypeOK, SpawnThinkCreates, SpawnThinkFails
    <3>2. Head(queue[s]).class \in Classes
      BY <3>1, HeadTail
    <3> QED BY <2>1, <3>2 DEF SpawnThinkCreates, SpawnThinkFails, Affordable
  <2>2. CASE ~(SpawnThinkCreates(s) \/ SpawnThinkFails(s))
    BY <1>1, <2>2 DEF SpawnerNext, QueueUnit, QueueClear, Toggle, Hide, Unhide, Switch,
                      SpawnThinkStops, zombieVars
  <2> QED BY <2>1, <2>2
<1>2. ASSUME NEW p \in Players, PlayerNext(p) PROVE Still \/ Born
  <2>1. ASSUME NEW ok \in BOOLEAN, CreateHidden(p, ok) PROVE Born
    BY <2>1, SpawnAssumption DEF CreateHidden, SpawnAssumption
  <2>2. CASE ~(\E ok \in BOOLEAN : CreateHidden(p, ok))
    BY <1>2, <2>2 DEF PlayerNext, Join, Leave, Resign, Handover, Income, PhysExp, zombieVars
  <2> QED BY <2>1, <2>2
<1>3. ASSUME NEW c \in Classes, MapZombie(c) PROVE Born
  BY <1>3 DEF MapZombie
<1>4. ASSUME NEW z \in Zombies, ZombieGone(z) PROVE Still
  BY <1>4 DEF ZombieGone
<1>5. CASE SurvivorKilled \/ GiveResources
  BY <1>5 DEF SurvivorKilled, GiveResources, RewardResources, zombieVars
<1>6. CASE FrameEnd \/ NewRound
  BY <1>0, <1>6 DEF FrameEnd, NewRound, TypeOK
<1>7. CASE UNCHANGED vars
  BY <1>7 DEF vars
<1> QED BY <1>1, <1>2, <1>3, <1>4, <1>5, <1>6, <1>7 DEF Next

\* The count says what the horde weighs, and by that the check of the limit keeps the
\* bought ones within it.
Counted == Inv /\ PopIsSum /\ BoughtWithinLimit

LEMMA InitCounted == Init => Counted
<1> SUFFICES ASSUME Init PROVE Counted
  OBVIOUS
<1>1. Horde = {} /\ bought = {}
  BY SpawnAssumption DEF Init, Horde, SpawnAssumption
<1>2. Weight({}) = 0
  BY TotalEmpty DEF Weight
<1>3. PopMax \in Nat
  BY SpawnAssumption DEF SpawnAssumption
<1>4. PopIsSum /\ BoughtWithinLimit
  BY <1>1, <1>2, <1>3 DEF Init, PopIsSum, BoughtWithinLimit
<1> QED BY <1>4, InitInv DEF Counted

LEMMA CountedStep == Counted /\ [Next]_vars => Counted'
<1> SUFFICES ASSUME Counted, [Next]_vars PROVE PopIsSum' /\ BoughtWithinLimit'
  BY InvStep DEF Counted
<1>0. /\ Inv /\ TypeOK /\ pop = Weight(Horde) /\ Weight(bought) <= PopMax /\ PopMax \in Nat
      /\ Weight(Horde) \in Nat /\ Weight(bought) \in Nat /\ bought \in SUBSET Horde
  BY WeightNat, SpawnAssumption
     DEF Counted, Inv, TypeOK, PopIsSum, BoughtWithinLimit, SpawnAssumption
<1>a. SUFFICES pop' = Weighed(Horde') /\ Weighed(bought') <= PopMax
  BY DEF PopIsSum, BoughtWithinLimit, Weight, Weighed
<1>1. CASE UNCHANGED <<class, bought, pop>>
  <2>1. Horde' = Horde /\ \A z \in Horde : class'[z] = class[z]
    BY <1>1 DEF Horde
  <2> QED BY <1>0, <1>1, <2>1, WeightKept
<1>2. ASSUME NEW z \in Zombies, NEW c \in Classes, Create(z, c),
             \/ bought' = bought
             \/ bought' = bought \cup {z} /\ HasEnoughPopToSpawn(c)
      PROVE  pop' = Weighed(Horde') /\ Weighed(bought') <= PopMax
  <2>1. Horde' = Horde \cup {z} /\ pop' = pop + PopCost[c] /\ PopCost[c] \in Nat
    BY <1>0, <1>2, CreateHorde, SpawnAssumption DEF Create, SpawnAssumption
  <2>2. Weighed(Horde \cup {z}) = Weight(Horde) + PopCost[c]
    BY <1>0, <1>2, WeightCreated
  <2>3. Weighed(bought) = Weight(bought) /\ Weighed(bought \cup {z}) = Weight(bought) + PopCost[c]
    BY <1>0, <1>2, WeightCreated
  <2>4. Weight(bought) <= Weight(Horde)
    BY <1>0, WeightParts
  <2>5. pop' = Weighed(Horde')
    BY <1>0, <2>1, <2>2
  <2>6. CASE bought' = bought
    BY <1>0, <2>3, <2>5, <2>6
  <2>7. CASE bought' = bought \cup {z} /\ pop + PopCost[c] <= PopMax
    <3>1. Weight(bought) + PopCost[c] <= PopMax
      BY <1>0, <2>1, <2>4, <2>7
    <3> QED BY <2>3, <2>5, <2>7, <3>1
  <2> QED BY <1>2, <2>6, <2>7 DEF HasEnoughPopToSpawn
<1>3. ASSUME NEW S \in SUBSET Horde, Delete(S)
      PROVE  pop' = Weighed(Horde') /\ Weighed(bought') <= PopMax
  <2>1. Horde' = Horde \ S /\ pop' = pop - Weight(S) /\ bought' = bought \ S
    BY <1>0, <1>3, DeleteHorde DEF Delete
  <2>2. /\ Weighed(Horde \ S) = Weight(Horde) - Weight(S)
        /\ Weighed(bought \ S) <= Weight(bought)
    BY <1>0, <1>3, WeightDeleted
  <2>3. Weighed(bought \ S) \in Nat
    <3>1. \A y \in bought \ S : class'[y] = class[y]
      BY <1>0, <1>3 DEF Delete, TypeOK, Horde
    <3>2. Weighed(bought \ S) = Weight(bought \ S) /\ bought \ S \in SUBSET Horde
      BY <1>0, <3>1, WeightKept
    <3> QED BY <1>0, <3>2, WeightNat
  <2> QED BY <1>0, <2>1, <2>2, <2>3
<1> QED BY <1>0, <1>1, <1>2, <1>3, HordeSteps

LEMMA CountedAlways == Spec => []Counted
BY InitCounted, CountedStep, PTL DEF Spec

\* However zombies are bought, placed by the map, killed, removed or swept away by a
\* restart, the constructors and destructors leave the population count at the sum of
\* what the existing ones cost, whatever the costs.
THEOREM PopulationIsSum == Spec => []PopIsSum
<1>1. Counted => PopIsSum
  BY DEF Counted
<1> QED BY CountedAlways, <1>1, PTL

\* Whatever the limit, the spawners that share it and the hidden zombies that come
\* between them never buy more than it allows.
THEOREM BoughtFit == Spec => []BoughtWithinLimit
<1>1. Counted => BoughtWithinLimit
  BY DEF Counted
<1> QED BY CountedAlways, <1>1, PTL

\* The count is a natural number: no deletion takes it below zero.
THEOREM PopulationNat == Spec => [](pop \in Nat)
<1>1. Counted => pop \in Nat
  BY WeightNat DEF Counted, Inv, PopIsSum
<1> QED BY CountedAlways, <1>1, PTL
=============================================================================
