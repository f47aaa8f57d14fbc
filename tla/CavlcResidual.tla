--------------------------- MODULE CavlcResidual ----------------------------
(***************************************************************************)
(* decode_residual_block_4x4_with_tc: coeff_token, levels, total_zeros,    *)
(* then a run_before per level, which walks the levels from the end of the *)
(* zig-zag scan to its start.  A level is the number of its slot plus one: *)
(* that no slot of a decoded block is 0 is shown by CavlcLevels.           *)
(***************************************************************************)
EXTENDS Integers, FiniteSets

CONSTANTS
  Variants,
  CoeffTokens(_),   (* what a coeff_token of a variant may say             *)
  TotalZeros(_),    (* the values of the total_zeros table                 *)
  RunBefore(_)      (* the values of the run_before table                  *)

ASSUME TokensAssumption ==
  \A v \in Variants : \A t \in CoeffTokens(v) :
    t.total_coeff \in 0..16 /\ t.trailing_ones \in 0..3

ASSUME ZerosAssumption ==
  /\ \A tc \in 1..15 : TotalZeros(tc) \subseteq 0..(16 - tc)
  /\ \A zl \in 1..14 : RunBefore(zl) \subseteq Nat

VARIABLES
  variant,
  total_coeff, trailing_ones,
  total_zeros, zeros_left,
  i, coeff_num,
  zz,           (* the block in zig-zag order                              *)
  raster,       (* what is returned                                        *)
  status        (* token, levels, zeros, place, done or error              *)

vars == <<variant, total_coeff, trailing_ones, total_zeros, zeros_left,
          i, coeff_num, zz, raster, status>>
token == <<variant, total_coeff, trailing_ones>>

Positions == 0..15

Empty == [p \in Positions |-> 0]

(* ZIGZAG_4X4: the raster index of the k-th coefficient of the scan.       *)
ZigZag(k) == <<0, 1, 4, 8, 5, 2, 3, 6, 9, 12, 13, 10, 7, 11, 14, 15>>[k + 1]

Init ==
  /\ variant \in Variants
  /\ total_coeff = 0 /\ trailing_ones = 0
  /\ total_zeros = 0 /\ zeros_left = 0
  /\ i = 0 /\ coeff_num = -1
  /\ zz = Empty /\ raster = Empty
  /\ status = "token"

ReadToken ==
  /\ status = "token"
  /\ \E t \in CoeffTokens(variant) :
       /\ total_coeff' = t.total_coeff /\ trailing_ones' = t.trailing_ones
       /\ status' = "levels"
  /\ UNCHANGED <<variant, total_zeros, zeros_left, i, coeff_num, zz, raster>>

(* decode_levels rejects more trailing ones than coefficients.             *)
ReadLevels ==
  /\ status = "levels"
  /\ status' = IF total_coeff > 0 /\ trailing_ones > total_coeff THEN "error" ELSE "zeros"
  /\ UNCHANGED <<token, total_zeros, zeros_left, i, coeff_num, zz, raster>>

ReadTotalZeros ==
  /\ status = "zeros"
  /\ total_zeros' \in IF total_coeff \in {0, 16} THEN {0} ELSE TotalZeros(total_coeff)
  /\ zeros_left' = total_zeros'
  /\ status' = "place"
  /\ UNCHANGED <<token, i, coeff_num, zz, raster>>

Last == i = total_coeff - 1

More == i < total_coeff

AllPlaced == i = total_coeff

(* Mutant: a run longer than what is left is taken as it is.               *)
Bug_Uncapped(run, zl) == run

Capped(run, zl) == IF run < zl THEN run ELSE zl

(* Mutant: the last level takes no run.                                    *)
Bug_LastRunDropped(zl) == IF Last \/ zl = 0 THEN {0} ELSE {Capped(r, zl) : r \in RunBefore(zl)}

(* The last level takes all the zeros that are left.                       *)
Runs(zl) ==
  IF Last \/ zl = 0 THEN {zl} ELSE {Capped(r, zl) : r \in RunBefore(zl)}

PlaceLevel ==
  /\ status = "place" /\ More
  /\ Last \/ zeros_left <= 14        (* run_before_table has no more       *)
  /\ \E run \in Runs(zeros_left) :
       /\ zeros_left' = IF Last THEN zeros_left ELSE zeros_left - run
       /\ coeff_num' = coeff_num + run + 1
       /\ zz' = [zz EXCEPT ![15 - coeff_num'] = i + 1]
  /\ i' = i + 1
  /\ UNCHANGED <<token, total_zeros, raster, status>>

Finish ==
  /\ status = "place" /\ AllPlaced
  /\ raster' = [p \in Positions |-> zz[CHOOSE k \in Positions : ZigZag(k) = p]]
  /\ status' = "done"
  /\ UNCHANGED <<token, total_zeros, zeros_left, i, coeff_num, zz>>

(* A read finds the stream at its end or holding no codeword.              *)
ReadFails ==
  /\ \/ status = "token"
     \/ status \in {"levels", "zeros"} /\ total_coeff > 0
     \/ status = "place" /\ i < total_coeff - 1 /\ zeros_left > 0
  /\ status' = "error"
  /\ UNCHANGED <<token, total_zeros, zeros_left, i, coeff_num, zz, raster>>

Next == \/ ReadToken \/ ReadLevels \/ ReadTotalZeros
        \/ PlaceLevel \/ Finish \/ ReadFails

Spec == Init /\ [][Next]_vars

-----------------------------------------------------------------------------
TypeOK ==
  /\ variant \in Variants
  /\ total_coeff \in 0..16 /\ trailing_ones \in 0..3
  /\ status \in {"token", "levels", "zeros", "place", "done", "error"}
  /\ i \in 0..total_coeff
  /\ zz \in [Positions -> 0..16]

(* No index of the placement leaves its array: the runs never add up to more
   than total_zeros, which no table lets exceed what TotalCoeff leaves free,
   and the table of runs is never asked for more than 14 zeros.            *)
PlacementInBounds ==
  /\ coeff_num \in -1..15
  /\ zeros_left \in 0..15
  /\ status = "place" /\ i < total_coeff - 1 => zeros_left <= 14

Coefficient(k) == raster[ZigZag(k)] # 0

At(s) == CHOOSE k \in Positions : raster[ZigZag(k)] = s

Between(m, k, l) == (k < m /\ m < l) \/ (l < m /\ m < k)

(* The coefficients and the zeros among them fill the end of the scan, or
   its start.                                                              *)
FillsAnEnd(n) ==
  \/ Coefficient(16 - n) /\ \A k \in Positions : Coefficient(k) => k >= 16 - n
  \/ Coefficient(n - 1) /\ \A k \in Positions : Coefficient(k) => k <= n - 1

(* A decoded block has exactly its TotalCoeff levels, neighbouring slots side
   by side in the scan, and total_zeros zeros on one side of the outermost of
   them.  Which end of the slots comes first, and which of the scan, it does not
   say: see FirstSignHighest.                                              *)
LevelsPlaced ==
  status = "done" =>
    /\ \A s \in 1..total_coeff : \E k \in Positions : raster[ZigZag(k)] = s
    /\ Cardinality({p \in Positions : raster[p] # 0}) = total_coeff
    /\ \A s \in 1..(total_coeff - 1) : \A k \in Positions :
         Between(k, At(s), At(s + 1)) => ~Coefficient(k)
    /\ total_coeff > 0 => FillsAnEnd(total_coeff + total_zeros)

(* decode_levels puts the first sign into the last slot, and its comment and its
   test say that this is the trailing one of the highest frequency: no
   coefficient of the block lies behind it in the scan.                    *)
FirstSignHighest ==
  status = "done" /\ trailing_ones > 0 =>
    \A k \in Positions : Coefficient(k) => k <= At(total_coeff)
=============================================================================
