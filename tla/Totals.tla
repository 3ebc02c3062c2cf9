-------------------------------- MODULE Totals --------------------------------
(***************************************************************************)
(* Sums, as cardinalities: the numbers f[t] add up to the number of pairs   *)
(* of a t and one of 1..f[t]. A fold would need induction over its set in   *)
(* every proof about it.                                                   *)
(***************************************************************************)
EXTENDS Naturals, FiniteSets

Units(f) == UNION {{t} \X (1..f[t]) : t \in DOMAIN f}
Total(f) == Cardinality(Units(f))
=============================================================================
