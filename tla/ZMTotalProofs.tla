---------------------------- MODULE ZMTotalProofs ----------------------------
(***************************************************************************)
(* What sums do, for every finite domain: the sum of the empty set, of one *)
(* thing, of two disjoint parts, and how it follows a change of one thing. *)
(***************************************************************************)
EXTENDS ZMTotal, FiniteSetTheorems, TLAPS

\* A unit is a thing and a number up to what it counts.
LEMMA UnitsDef ==
  ASSUME NEW f
  PROVE  \A u : u \in Units(f) <=> \E x \in DOMAIN f : \E i \in 1..f[x] : u = <<x, i>>
<1> SUFFICES ASSUME NEW u
             PROVE  u \in Units(f) <=> \E x \in DOMAIN f : \E i \in 1..f[x] : u = <<x, i>>
  OBVIOUS
<1>1. ASSUME NEW x, NEW n
      PROVE  u \in {x} \X (1..n) <=> \E i \in 1..n : u = <<x, i>>
  OBVIOUS
<1> QED BY <1>1 DEF Units

\* Finitely many things count finitely many units.
LEMMA UnitsFinite ==
  ASSUME NEW S, IsFiniteSet(S), NEW f \in [S -> Nat]
  PROVE  IsFiniteSet(Units(f))
<1> DEFINE Part(x) == {x} \X (1..f[x])
           Parts == {Part(x) : x \in S}
           h == [x \in S |-> Part(x)]
<1>1. IsFiniteSet(Parts)
  <2>1. h \in Surjection(S, Parts)
    BY DEF Surjection
  <2> QED BY <2>1, FS_Surjection
<1>2. ASSUME NEW x \in S PROVE IsFiniteSet(Part(x))
  <2>1. f[x] \in Int /\ 1 \in Int
    OBVIOUS
  <2>2. IsFiniteSet(1..f[x])
    BY <2>1, FS_Interval
  <2>3. IsFiniteSet({x})
    BY FS_Singleton
  <2> QED BY <2>2, <2>3, FS_Product
<1>3. \A T \in Parts : IsFiniteSet(T)
  BY <1>2
<1>4. IsFiniteSet(UNION Parts)
  BY <1>1, <1>3, FS_UNION
<1> QED BY <1>4 DEF Units

\* A sum of natural numbers is one.
LEMMA TotalNat ==
  ASSUME NEW S, IsFiniteSet(S), NEW f \in [S -> Nat]
  PROVE  Total(f) \in Nat
BY UnitsFinite, FS_CardinalityType DEF Total

\* Nothing sums up to nothing.
LEMMA TotalEmpty ==
  ASSUME NEW f, DOMAIN f = {}
  PROVE  Total(f) = 0
<1>1. Units(f) = {}
  BY UnitsDef
<1> QED BY <1>1, FS_EmptySet DEF Total

\* One thing alone.
LEMMA TotalOne ==
  ASSUME NEW x, NEW f \in [{x} -> Nat]
  PROVE  Total(f) = f[x]
<1>1. Units(f) = {x} \X (1..f[x])
  BY DEF Units
<1>2. IsFiniteSet({x}) /\ Cardinality({x}) = 1
  BY FS_Singleton
<1>3. IsFiniteSet(1..f[x]) /\ Cardinality(1..f[x]) = f[x]
  BY FS_Interval
<1>4. Cardinality({x} \X (1..f[x])) = Cardinality({x}) * Cardinality(1..f[x])
  BY <1>2, <1>3, FS_Product
<1>5. 1 * f[x] = f[x]
  OBVIOUS
<1> QED BY <1>1, <1>2, <1>3, <1>4, <1>5 DEF Total

\* The sum over a set is that over any part and that over the rest.
LEMMA TotalSplit ==
  ASSUME NEW S, IsFiniteSet(S), NEW f \in [S -> Nat], NEW T \in SUBSET S
  PROVE  Total(f) = Total([x \in T |-> f[x]]) + Total([x \in S \ T |-> f[x]])
<1> DEFINE g == [x \in T |-> f[x]]
           h == [x \in S \ T |-> f[x]]
<1>1. IsFiniteSet(T) /\ IsFiniteSet(S \ T) /\ g \in [T -> Nat] /\ h \in [S \ T -> Nat]
  BY FS_Subset, FS_Difference
<1>2. IsFiniteSet(Units(g)) /\ IsFiniteSet(Units(h))
  BY <1>1, UnitsFinite
<1>3. \A u : /\ u \in Units(g) <=> \E x \in T : \E i \in 1..f[x] : u = <<x, i>>
             /\ u \in Units(h) <=> \E x \in S \ T : \E i \in 1..f[x] : u = <<x, i>>
             /\ u \in Units(f) <=> \E x \in S : \E i \in 1..f[x] : u = <<x, i>>
  BY UnitsDef
<1> HIDE DEF g, h
<1>4. Units(f) = Units(g) \cup Units(h)
  BY <1>3
<1>5. Units(g) \cap Units(h) = {}
  BY <1>3
<1>6. Cardinality(Units(f)) = Cardinality(Units(g)) + Cardinality(Units(h))
  BY <1>2, <1>4, <1>5, FS_Union, FS_EmptySet, FS_CardinalityType
<1> QED BY <1>6 DEF Total, g, h

\* One thing and the rest.
LEMMA TotalRest ==
  ASSUME NEW S, IsFiniteSet(S), NEW f \in [S -> Nat], NEW x \in S
  PROVE  Total(f) = f[x] + Total([y \in S \ {x} |-> f[y]])
<1>1. Total(f) = Total([y \in {x} |-> f[y]]) + Total([y \in S \ {x} |-> f[y]])
  BY TotalSplit
<1>2. Total([y \in {x} |-> f[y]]) = f[x]
  BY TotalOne
<1> QED BY <1>1, <1>2

\* When one thing changes, the sum changes by as much.
LEMMA TotalChange ==
  ASSUME NEW S, IsFiniteSet(S), NEW f \in [S -> Nat], NEW g \in [S -> Nat],
         NEW x \in S, \A y \in S \ {x} : g[y] = f[y]
  PROVE  Total(g) = Total(f) - f[x] + g[x]
<1> DEFINE rest == [y \in S \ {x} |-> f[y]]
<1>1. rest = [y \in S \ {x} |-> g[y]]
  OBVIOUS
<1>2. Total(rest) \in Nat
  BY FS_Difference, TotalNat
<1>3. Total(f) = f[x] + Total(rest) /\ Total(g) = g[x] + Total(rest)
  BY <1>1, TotalRest
<1> HIDE DEF rest
<1> QED BY <1>2, <1>3

\* When nothing counts more than before, neither does the sum.
LEMMA TotalMonotone ==
  ASSUME NEW S, IsFiniteSet(S), NEW f \in [S -> Nat], NEW g \in [S -> Nat],
         \A x \in S : f[x] <= g[x]
  PROVE  Total(f) <= Total(g)
<1>1. Units(f) \subseteq Units(g)
  <2> SUFFICES ASSUME NEW x \in S, NEW i \in 1..f[x] PROVE <<x, i>> \in Units(g)
    BY UnitsDef
  <2>1. i \in 1..g[x]
    OBVIOUS
  <2> QED BY <2>1, UnitsDef
<1> QED BY <1>1, UnitsFinite, FS_Subset DEF Total

\* A part counts no more than the whole.
LEMMA TotalPart ==
  ASSUME NEW S, IsFiniteSet(S), NEW f \in [S -> Nat], NEW T \in SUBSET S
  PROVE  Total([x \in T |-> f[x]]) <= Total(f)
<1>1. IsFiniteSet(T) /\ IsFiniteSet(S \ T)
  BY FS_Subset, FS_Difference
<1>2. Total([x \in T |-> f[x]]) \in Nat /\ Total([x \in S \ T |-> f[x]]) \in Nat
  BY <1>1, TotalNat
<1> QED BY <1>2, TotalSplit
=============================================================================
