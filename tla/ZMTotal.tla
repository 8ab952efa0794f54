------------------------------- MODULE ZMTotal -------------------------------
(* Sums of natural numbers: what a set of things costs or holds together.  A   *)
(* sum is the size of a set of units, about which finite sets tell enough.     *)
EXTENDS Integers, FiniteSets

\* One unit for each 1 that a thing counts.
Units(f) == UNION {{x} \X (1..f[x]) : x \in DOMAIN f}

\* The sum of f over its domain.
Total(f) == Cardinality(Units(f))
=============================================================================
