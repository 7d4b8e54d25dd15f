------------------------------ MODULE Tallies -------------------------------
(***************************************************************************)
(* Sums of natural numbers.  A function into the naturals is spread out    *)
(* into units, f[x] of them for each x, and its sum is their number: the   *)
(* facts about finite sets then say how a sum grows, and compares with     *)
(* another, without an induction over the domain.                          *)
(***************************************************************************)
EXTENDS Naturals, FiniteSets

Units(f) == UNION {{x} \X (1..f[x]) : x \in DOMAIN f}

\* sum(f[x] for x in ...)
SumOf(f) == Cardinality(Units(f))
=============================================================================
