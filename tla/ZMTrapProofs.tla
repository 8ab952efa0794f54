---------------------------- MODULE ZMTrapProofs ----------------------------
(***************************************************************************)
(* Theorems about traps and their triggers, for every number of both.      *)
(***************************************************************************)
EXTENDS ZMTrap, FiniteSetTheorems, TLAPS

\* A trap's list and its triggers' owners agree, and nothing that exists belongs to a
\* trap that does not.
Linked ==
  /\ NoDanglingTrigger /\ NoOrphanTrigger
  /\ \A g \in Taken : owner[g] \in Traps /\ Existing(owner[g])

\* The inductive invariant of the links.
Inv == TypeOK /\ Linked

-----------------------------------------------------------------------------
(* Parts of the steps *)

\* RemoveTriggers frees no slot and leaves no trigger of the trap that is not marked.
LEMMA RemovedMarks ==
  ASSUME TypeOK, NEW t \in Traps
  PROVE  /\ Removed(t) \in [Triggers -> {"free", "there", "doomed", "spent"}]
         /\ \A g \in Triggers : /\ Removed(t)[g] = "free" <=> trigger[g] = "free"
                                /\ Removed(t)[g] = "there" =>
                                     trigger[g] = "there" /\ g \notin list[t]
BY DEF TypeOK, Removed, Doomed

\* A trap that fires keeps the links: its list is empty and its triggers are marked.
LEMMA FireKeeps ==
  ASSUME Inv, NEW t \in Traps, NEW n \in Nat, Existing(t), Fire(t, n), UNCHANGED owner,
         trigger' \in [Triggers -> {"free", "there", "doomed", "spent"}],
         \A g \in Triggers : /\ trigger'[g] = "free" <=> trigger[g] = "free"
                             /\ trigger'[g] = "there" =>
                                  trigger[g] = "there" /\ g \notin list[t]
  PROVE  /\ Linked'
         /\ trap' \in [Traps -> {"there", "doomed", "gone"}]
         /\ list' \in [Traps -> SUBSET Triggers] /\ fired' \in [Traps -> Nat]
         /\ owner' \in [Triggers -> Traps \cup {NoTrap}]
<1>0. TypeOK /\ Linked
  BY DEF Inv
<1>1. fired' \in [Traps -> Nat]
  BY <1>0, TrapAssumption DEF Fire, Counted, TypeOK, TrapAssumption
<1>2. trap' \in [Traps -> {"there", "doomed", "gone"}]
      /\ \A u \in Traps : Existing(u)' <=> Existing(u)
  BY <1>0 DEF Fire, TypeOK, Existing
<1>3. list' \in [Traps -> SUBSET Triggers] /\ list'[t] = {}
      /\ \A u \in Traps \ {t} : list'[u] = list[u]
  BY <1>0 DEF Fire, TypeOK
<1>4. Taken' = Taken
  BY DEF Taken
<1>5. NoDanglingTrigger'
  BY <1>0, <1>2, <1>3 DEF Linked, NoDanglingTrigger, TypeOK
<1>6. NoOrphanTrigger'
  BY <1>0, <1>2, <1>3 DEF Linked, NoOrphanTrigger, TypeOK
<1>7. \A g \in Taken' : owner'[g] \in Traps /\ Existing(owner[g])'
  BY <1>0, <1>2, <1>4 DEF Linked
<1> QED BY <1>0, <1>1, <1>2, <1>3, <1>5, <1>6, <1>7 DEF Linked, TypeOK

\* The cleanup of the delete list keeps the links: what is deleted is in no list, and
\* what stays has kept its trap.
LEMMA CleanupKeeps ==
  ASSUME Inv, Cleanup, phase' \in {"commands", "frame"}
  PROVE  Inv'
<1>0. TypeOK /\ Linked
  BY DEF Inv
<1>1. TypeOK'
  BY <1>0 DEF TypeOK, Cleanup, Forget, Due, Taken
<1>2. \A t \in Traps : list'[t] = IF trap[t] = "doomed" THEN {} ELSE list[t] \ Due
  BY <1>0 DEF Cleanup, Forget
<1>3. \A t \in Traps : trap'[t] = IF trap[t] = "doomed" THEN "gone" ELSE trap[t]
  BY <1>0 DEF Cleanup
<1>4. \A g \in Triggers : /\ g \in Due => trigger'[g] = "free"
                          /\ g \notin Due => trigger'[g] = trigger[g] /\ owner'[g] = owner[g]
  BY <1>0 DEF Cleanup
<1>5. NoDanglingTrigger'
  <2> SUFFICES ASSUME NEW t \in Traps, NEW g \in list'[t]
               PROVE  trap'[t] # "gone" /\ trigger'[g] # "free" /\ owner'[g] = t
    BY DEF NoDanglingTrigger, Existing
  <2>1. trap[t] # "doomed" /\ g \in list[t] /\ g \notin Due /\ g \in Triggers
    BY <1>0, <1>2 DEF TypeOK
  <2>2. trap[t] # "gone" /\ trigger[g] # "free" /\ owner[g] = t
    BY <1>0, <2>1 DEF Linked, NoDanglingTrigger, Existing
  <2> QED BY <1>3, <1>4, <2>1, <2>2
<1>6. ASSUME NEW g \in Triggers, trigger'[g] # "free"
      PROVE  /\ trigger[g] = "there" /\ g \notin Due /\ owner'[g] = owner[g]
             /\ owner[g] \in Traps /\ trap[owner[g]] = "there" /\ g \in list[owner[g]]
  <2>1. g \notin Due
    BY <1>4, <1>6
  <2>2. trigger'[g] = trigger[g] /\ owner'[g] = owner[g]
    BY <1>4, <2>1
  <2>3. g \in Taken
    BY <1>6, <2>2 DEF Taken
  <2>4. trigger[g] = "there"
    BY <1>0, <2>1, <2>3 DEF Due, Taken, TypeOK
  <2>5. owner[g] \in Traps /\ trap[owner[g]] # "gone" /\ g \in list[owner[g]]
    BY <1>0, <2>4 DEF Linked, NoOrphanTrigger, Existing
  <2>6. trap[owner[g]] # "doomed"
    BY <2>1, <2>3, <2>5 DEF Due
  <2>7. trap[owner[g]] \in {"there", "doomed", "gone"}
    BY <1>0, <2>5 DEF TypeOK
  <2> QED BY <2>1, <2>2, <2>4, <2>5, <2>6, <2>7
<1>7. \A g \in Taken' : owner'[g] \in Traps /\ trap'[owner'[g]] = "there"
                        /\ g \in list'[owner'[g]]
  BY <1>2, <1>3, <1>6 DEF Taken
<1>8. Linked'
  BY <1>5, <1>7 DEF Linked, NoOrphanTrigger, Existing, Taken
<1> QED BY <1>1, <1>8 DEF Inv

-----------------------------------------------------------------------------
(* The links *)

\* The map starts in the invariant.
LEMMA InitInv == Init => Inv
BY TrapAssumption
DEF Init, Inv, TypeOK, Linked, NoDanglingTrigger, NoOrphanTrigger, Taken, Existing,
    TrapAssumption

\* Every step keeps the invariant.
LEMMA NextInv == Inv /\ [Next]_vars => Inv'
<1> SUFFICES ASSUME Inv, [Next]_vars PROVE Inv'
  OBVIOUS
<1>0. TypeOK /\ Linked
  BY DEF Inv
<1>1. ASSUME NEW t \in Traps, Press(t) \/ InputPress(t) PROVE Inv'
  <2>1. Existing(t) /\ Fire(t, 1) /\ trigger' = Removed(t) /\ UNCHANGED <<phase, active, owner>>
    BY <1>1 DEF Press, InputPress
  <2>2. res' \in Nat
    BY <1>0, <1>1, TrapAssumption DEF Press, InputPress, Pays, TypeOK, TrapAssumption
  <2>3. /\ trigger' \in [Triggers -> {"free", "there", "doomed", "spent"}]
        /\ \A g \in Triggers : /\ trigger'[g] = "free" <=> trigger[g] = "free"
                               /\ trigger'[g] = "there" =>
                                    trigger[g] = "there" /\ g \notin list[t]
    BY <1>0, <2>1, RemovedMarks
  <2>4. /\ Linked' /\ trap' \in [Traps -> {"there", "doomed", "gone"}]
        /\ list' \in [Traps -> SUBSET Triggers] /\ fired' \in [Traps -> Nat]
        /\ owner' \in [Triggers -> Traps \cup {NoTrap}]
    BY <2>1, <2>3, FireKeeps
  <2> QED BY <1>0, <2>1, <2>2, <2>3, <2>4 DEF Inv, TypeOK
<1>2. ASSUME NEW t \in Traps, CreateTrigger(t) PROVE Inv'
  <2>1. PICK g \in Triggers \ Taken : Link(t, g) /\ trigger' = [trigger EXCEPT ![g] = "there"]
    BY <1>2 DEF CreateTrigger
  <2>2. Existing(t) /\ UNCHANGED <<phase, trap, active, fired>> /\ res' \in Nat
    BY <1>0, <1>2, TrapAssumption DEF CreateTrigger, Pays, TypeOK, TrapAssumption
  <2>3. owner' = [owner EXCEPT ![g] = t] /\ list' = [list EXCEPT ![t] = list[t] \cup {g}]
    BY <2>1 DEF Link
  <2>4. TypeOK'
    BY <1>0, <2>1, <2>2, <2>3 DEF TypeOK
  <2>5. \A u \in Traps : g \notin list[u]
    BY <1>0, <2>1 DEF Linked, NoDanglingTrigger, Taken
  <2>6. NoDanglingTrigger'
    BY <1>0, <2>1, <2>2, <2>3, <2>5 DEF Linked, NoDanglingTrigger, TypeOK, Existing
  <2>7. NoOrphanTrigger'
    BY <1>0, <2>1, <2>2, <2>3 DEF Linked, NoOrphanTrigger, TypeOK, Existing
  <2>8. \A h \in Taken' : owner'[h] \in Traps /\ trap'[owner'[h]] # "gone"
    BY <1>0, <2>1, <2>2, <2>3 DEF Linked, TypeOK, Existing, Taken
  <2> QED BY <2>4, <2>6, <2>7, <2>8 DEF Inv, Linked, Existing
<1>3. ASSUME NEW t \in Traps, Switch(t) \/ Kill(t) PROVE Inv'
  <2>1. UNCHANGED <<phase, list, trigger, owner, res, fired>> /\ active' \in [Traps -> BOOLEAN]
    BY <1>0, <1>3 DEF Switch, Kill, TypeOK
  <2>2. trap' \in [Traps -> {"there", "doomed", "gone"}]
        /\ \A u \in Traps : trap'[u] = "gone" <=> trap[u] = "gone"
    BY <1>0, <1>3 DEF Switch, Kill, TypeOK
  <2>3. TypeOK'
    BY <1>0, <2>1, <2>2 DEF TypeOK
  <2>4. NoDanglingTrigger' /\ NoOrphanTrigger'
    BY <1>0, <2>1, <2>2 DEF Linked, NoDanglingTrigger, NoOrphanTrigger, Existing
  <2>5. \A g \in Taken' : owner'[g] \in Traps /\ trap'[owner'[g]] # "gone"
    BY <1>0, <2>1, <2>2 DEF Linked, Existing, Taken
  <2> QED BY <2>3, <2>4, <2>5 DEF Inv, Linked, Existing
<1>4. ASSUME NEW g \in Triggers, NEW n \in 1..Survivors, Scan(g, n) PROVE Inv'
  <2> DEFINE t == owner[g]
  <2>1. t \in Traps /\ Existing(t) /\ UNCHANGED <<phase, active, owner, res>>
        /\ trigger[g] \in {"there", "doomed"} /\ n \in Nat
    BY <1>4, TrapAssumption DEF Scan, TrapAssumption
  <2>2. CASE active[t]
    <3>1. Fire(t, n) /\ trigger' = [Removed(t) EXCEPT ![g] = "spent"]
      BY <1>4, <2>2 DEF Scan
    <3>2. /\ trigger' \in [Triggers -> {"free", "there", "doomed", "spent"}]
          /\ \A h \in Triggers : /\ trigger'[h] = "free" <=> trigger[h] = "free"
                                 /\ trigger'[h] = "there" =>
                                      trigger[h] = "there" /\ h \notin list[t]
      <4> HIDE DEF t
      <4> QED BY <1>0, <2>1, <3>1, RemovedMarks
    <3>3. /\ Linked' /\ trap' \in [Traps -> {"there", "doomed", "gone"}]
          /\ list' \in [Traps -> SUBSET Triggers] /\ fired' \in [Traps -> Nat]
          /\ owner' \in [Triggers -> Traps \cup {NoTrap}]
      <4> HIDE DEF t
      <4> QED BY <2>1, <3>1, <3>2, FireKeeps
    <3> QED BY <1>0, <2>1, <3>2, <3>3 DEF Inv, TypeOK
  <2>3. CASE ~active[t]
    <3>1. trigger' = [trigger EXCEPT ![g] = "spent"] /\ UNCHANGED <<fired, list, trap>>
      BY <1>4, <2>3 DEF Scan
    <3> QED BY <1>0, <2>1, <3>1
        DEF Inv, TypeOK, Linked, NoDanglingTrigger, NoOrphanTrigger, Existing, Taken
  <2> QED BY <2>2, <2>3
<1>5. CASE FrameBegins \/ FrameEnds
  BY <1>5, CleanupKeeps DEF FrameBegins, FrameEnds
<1>6. CASE Earn
  BY <1>0, <1>6
  DEF Earn, Inv, TypeOK, Linked, NoDanglingTrigger, NoOrphanTrigger, Existing, Taken
<1>7. CASE NewRound
  BY <1>0, <1>7, TrapAssumption
  DEF NewRound, Fresh, Inv, TypeOK, Linked, NoDanglingTrigger, NoOrphanTrigger, Existing, Taken,
      TrapAssumption
<1>8. CASE UNCHANGED vars
  BY <1>0, <1>8
  DEF vars, Inv, TypeOK, Linked, NoDanglingTrigger, NoOrphanTrigger, Existing, Taken
<1> QED BY <1>1, <1>2, <1>3, <1>4, <1>5, <1>6, <1>7, <1>8 DEF Next, TrapNext

\* The links hold in every state.
LEMMA InvAlways == Spec => []Inv
BY InitInv, NextInv, PTL DEF Spec

\* The variables of traps and triggers keep their types.
THEOREM TrapTypeCorrect == Spec => []TypeOK
<1>1. Inv => TypeOK
  BY DEF Inv
<1> QED BY InvAlways, <1>1, PTL

\* No pointer in a trap's list ever dangles, for any number of traps and triggers and
\* whatever is marked, fired and deleted within a frame.
THEOREM ListsAreSafe == Spec => []NoDanglingTrigger
<1>1. Inv => NoDanglingTrigger
  BY DEF Inv, Linked
<1> QED BY InvAlways, <1>1, PTL

\* No trigger scans on without a trap.
THEOREM TriggersHaveTraps == Spec => []NoOrphanTrigger
<1>1. Inv => NoOrphanTrigger
  BY DEF Inv, Linked
<1> QED BY InvAlways, <1>1, PTL

-----------------------------------------------------------------------------
(* The number of triggers *)

\* A step adds at most one trigger to a list, and only to one with room.
LEMMA ListGrowth ==
  ASSUME TypeOK, Next, NEW t \in Traps
  PROVE  \/ list'[t] \subseteq list[t]
         \/ HasRoom(t) /\ \E g \in Triggers : list'[t] = list[t] \cup {g}
<1>1. ASSUME NEW u \in Traps, NEW n \in Int, Fire(u, n) PROVE list'[t] \subseteq list[t]
  BY <1>1 DEF Fire, TypeOK
<1>2. CASE \E u \in Traps : Press(u) \/ InputPress(u)
  BY <1>1, <1>2 DEF Press, InputPress
<1>3. ASSUME NEW u \in Traps, CreateTrigger(u)
      PROVE  \/ list'[t] \subseteq list[t]
             \/ HasRoom(t) /\ \E g \in Triggers : list'[t] = list[t] \cup {g}
  <2>1. PICK g \in Triggers : list' = [list EXCEPT ![u] = @ \cup {g}]
    BY <1>3 DEF CreateTrigger, Link
  <2>2. CASE u = t
    BY <1>3, <2>1, <2>2 DEF CreateTrigger, TypeOK
  <2>3. CASE u # t
    BY <2>1, <2>3 DEF TypeOK
  <2> QED BY <2>2, <2>3
<1>4. CASE \E u \in Traps : Switch(u) \/ Kill(u)
  BY <1>4 DEF Switch, Kill
<1>5. ASSUME NEW g \in Triggers, NEW n \in 1..Survivors, Scan(g, n)
      PROVE  list'[t] \subseteq list[t]
  BY <1>1, <1>5, TrapAssumption DEF Scan, TrapAssumption
<1>6. CASE FrameBegins \/ FrameEnds
  BY <1>6 DEF FrameBegins, FrameEnds, Cleanup, Forget
<1>7. CASE Earn \/ NewRound
  BY <1>7 DEF Earn, NewRound, Fresh
<1> QED BY <1>2, <1>3, <1>4, <1>5, <1>6, <1>7 DEF Next, TrapNext

\* No trap ever has more triggers than the server allows, for any limit: the count the
\* command checks is that of the list it extends, and removals are never undone.
THEOREM TriggerLimit == Spec => []TriggersLimited
<1>1. Init => TriggersLimited
  BY FS_EmptySet, TrapAssumption DEF Init, TriggersLimited, TrapAssumption
<1>2. TypeOK /\ TriggersLimited /\ [Next]_vars => TriggersLimited'
  <2> SUFFICES ASSUME TypeOK, TriggersLimited, [Next]_vars, NEW t \in Traps
               PROVE  Cardinality(list'[t]) <= MaxTriggers
    BY DEF TriggersLimited
  <2>1. IsFiniteSet(list[t]) /\ MaxTriggers \in Nat /\ Cardinality(list[t]) <= MaxTriggers
    BY TrapAssumption, FS_Subset DEF TypeOK, TriggersLimited, TrapAssumption
  <2>2. Cardinality(list[t]) \in Nat
    BY <2>1, FS_CardinalityType
  <2>3. CASE list'[t] \subseteq list[t]
    <3>1. IsFiniteSet(list'[t]) /\ Cardinality(list'[t]) <= Cardinality(list[t])
      BY <2>1, <2>3, FS_Subset
    <3>2. Cardinality(list'[t]) \in Nat
      BY <3>1, FS_CardinalityType
    <3> QED BY <2>1, <2>2, <3>1, <3>2
  <2>4. ASSUME HasRoom(t), NEW g \in Triggers, list'[t] = list[t] \cup {g}
        PROVE  Cardinality(list'[t]) <= MaxTriggers
    <3>1. Cardinality(list'[t]) = IF g \in list[t] THEN Cardinality(list[t])
                                  ELSE Cardinality(list[t]) + 1
      BY <2>1, <2>4, FS_AddElement
    <3>2. Cardinality(list[t]) < MaxTriggers
      BY <2>4 DEF HasRoom
    <3> QED BY <2>1, <2>2, <3>1, <3>2
  <2>5. CASE UNCHANGED vars
    BY <2>1, <2>5 DEF vars
  <2>6. CASE Next
    BY <2>3, <2>4, <2>6, ListGrowth
  <2> QED BY <2>5, <2>6
<1> QED BY <1>1, <1>2, TrapTypeCorrect, PTL DEF Spec

-----------------------------------------------------------------------------
(* What the master pays *)

\* Whatever the prices: the check of the purse and the payment are in the callback that
\* fires or puts down, and nothing else fires a trap between the frames.
THEOREM EverythingHasItsPrice == Spec => NothingForFree
<1> DEFINE Paid ==
       /\ \A t \in Traps : phase = "commands" /\ fired'[t] > fired[t] => res' = res - Cost[t]
       /\ \A t \in Traps : list'[t] \ list[t] # {} => res' = res - TrapCost[t]
<1>1. ASSUME TypeOK, Next PROVE Paid
  <2>a. ASSUME NEW u \in Traps, NEW n \in Int, Fire(u, n), NEW t \in Traps
        PROVE  list'[t] \ list[t] = {} /\ (t # u => fired'[t] = fired[t])
    BY <1>1, <2>a DEF Fire, TypeOK
  <2>b. ASSUME NEW t \in Traps, fired' = fired PROVE ~(fired'[t] > fired[t])
    BY <1>1, <2>b DEF TypeOK
  <2>1. ASSUME NEW u \in Traps, Press(u) PROVE Paid
    <3>1. Fire(u, 1) /\ res' = res - Cost[u]
      BY <2>1 DEF Press, Pays
    <3>2. \A t \in Traps : t # u => ~(fired'[t] > fired[t])
      BY <1>1, <2>a, <3>1 DEF TypeOK
    <3> QED BY <2>a, <3>1, <3>2
  <2>2. ASSUME NEW u \in Traps, InputPress(u) PROVE Paid
    BY <2>2, <2>a DEF InputPress
  <2>3. ASSUME NEW u \in Traps, CreateTrigger(u) PROVE Paid
    <3>1. fired' = fired /\ res' = res - TrapCost[u] /\ \E g \in Triggers : Link(u, g)
      BY <2>3 DEF CreateTrigger, Pays
    <3>2. \A t \in Traps : t # u => list'[t] = list[t]
      BY <1>1, <3>1 DEF Link, TypeOK
    <3> QED BY <2>b, <3>1, <3>2
  <2>4. ASSUME NEW u \in Traps, Switch(u) \/ Kill(u) PROVE Paid
    BY <2>4, <2>b DEF Switch, Kill
  <2>5. ASSUME NEW g \in Triggers, NEW n \in 1..Survivors, Scan(g, n) PROVE Paid
    BY <2>5, <2>a, TrapAssumption DEF Scan, TrapAssumption
  <2>6. CASE FrameBegins \/ FrameEnds
    BY <2>6, <2>b DEF FrameBegins, FrameEnds, Cleanup, Forget
  <2>7. CASE Earn \/ NewRound
    BY <2>7, <2>b DEF Earn, NewRound, Fresh
  <2> QED BY <1>1, <2>1, <2>2, <2>3, <2>4, <2>5, <2>6, <2>7 DEF Next, TrapNext
<1>2. ASSUME TypeOK, UNCHANGED vars PROVE Paid
  BY <1>2 DEF vars, TypeOK
<1>3. TypeOK /\ [Next]_vars => [Paid]_vars
  BY <1>1, <1>2
<1> QED BY TrapTypeCorrect, <1>3, PTL DEF Spec, NothingForFree, Paid
=============================================================================
