----------------------------- MODULE Comparator -----------------------------
(***************************************************************************)
(* The frame comparison of crates/comparator, from the PSNR figures of the *)
(* three planes on.  Figures are scaled decibels; i64::MAX, the figure of  *)
(* two identical planes, is the constant Infinite.                         *)
(***************************************************************************)
EXTENDS Integers, FiniteSets

CONSTANT Infinite

ASSUME InfiniteAssumption == Infinite \in Nat

Planes == {"y", "u", "v"}

Weight(p) == IF p = "y" THEN 4 ELSE 1

WeightOf(P) == Cardinality(P) + IF "y" \in P THEN 3 ELSE 0

Finite(psnr) == {p \in Planes : psnr[p] # Infinite}

WeightedSum(psnr, P) ==
  LET term(p) == IF p \in P THEN Weight(p) * psnr[p] ELSE 0
  IN  term("y") + term("u") + term("v")

(* Mutant: a perfect plane keeps its weight while it adds nothing.         *)
Bug_CombinedFixedWeight(psnr) ==
  IF Finite(psnr) = {} THEN Infinite ELSE WeightedSum(psnr, Finite(psnr)) \div 6

(* The weighted average of the planes that differ from the original.       *)
Combined(psnr) ==
  IF Finite(psnr) = {} THEN Infinite
  ELSE WeightedSum(psnr, Finite(psnr)) \div WeightOf(Finite(psnr))

(* Mutant: one good plane is enough.                                      *)
Bug_MeetsInAnyPlane(psnr, tolerance) == \E p \in Planes : psnr[p] >= tolerance

MeetsThreshold(psnr, tolerance) ==
  Combined(psnr) = Infinite \/ Combined(psnr) >= tolerance
=============================================================================
