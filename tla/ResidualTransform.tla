-------------------------- MODULE ResidualTransform --------------------------
(***************************************************************************)
(* From decoded levels to pixels: the clamp to i16, inverse quantisation,  *)
(* the two passes of the inverse transform, and the sum with the predicted *)
(* block (quant.rs, transform.rs, frame.rs 251-264); and the two DC paths, *)
(* a Hadamard transform and its own scaling.  A block is a function of     *)
(* <<row, column>>, n by n.                                                *)
(***************************************************************************)
EXTENDS Integers, Sequences

CONSTANTS Residuals       (* [kind, levels, qp, predicted]                 *)

VARIABLES
  coded,                  (* one of Residuals                              *)
  values,                 (* its block: levels, coefficients, ..., pixels  *)
  stage

residualVars == <<coded, values, stage>>

Cells(n) == (0..(n - 1)) \X (0..(n - 1))

ASSUME ResidualsAssumption ==
  \A r \in Residuals :
    /\ r.kind \in {"ac", "luma_dc", "chroma_dc"}
    /\ r.qp \in Nat /\ r.predicted \in 0..255
    /\ r.levels \in [Cells(IF r.kind = "chroma_dc" THEN 2 ELSE 4) -> Int]

Shr(v, k) == v \div 2^k               (* >> of i32 rounds down, as \div    *)

Bug_Unclamped(v, low, high) == v      (* Mutant: nothing is clamped.       *)

Clamp(v, low, high) == IF v < low THEN low ELSE IF v > high THEN high ELSE v

NORM_ADJUST_4X4 ==
  << <<10, 16, 13>>, <<11, 18, 14>>, <<13, 20, 16>>,
     <<14, 23, 18>>, <<16, 25, 20>>, <<18, 29, 23>> >>

PositionClass(cell) ==
  LET odd == {k \in 1..2 : cell[k] % 2 = 1}
  IN IF odd = {} THEN 1 ELSE IF odd = 1..2 THEN 2 ELSE 3

LevelScale(qp, cell) == 16 * NORM_ADJUST_4X4[(qp % 6) + 1][PositionClass(cell)]

(* A coefficient of the step that doubles every six QPs, with unit at
   qp = 6 * whole; below it rounded to nearest, or down.                   *)
Scaled(v, qp, whole, rounded) ==
  LET q == qp \div 6
  IN IF q >= whole THEN v * 2^(q - whole)
     ELSE Shr(v + (IF rounded THEN 2^(whole - q - 1) ELSE 0), whole - q)

DequantAc(levels, qp) ==
  [cell \in Cells(4) |-> Scaled(levels[cell] * LevelScale(qp, cell), qp, 4, TRUE)]

(* Mutant: below QP 36 the shift is the one of chroma.                     *)
Bug_LumaDcShift(dc, qp) ==
  [cell \in Cells(4) |->
     Scaled(dc[cell] * LevelScale(qp, <<0, 0>>), qp, IF qp < 36 THEN 5 ELSE 6, TRUE)]

DequantLumaDc(dc, qp) ==
  [cell \in Cells(4) |-> Scaled(dc[cell] * LevelScale(qp, <<0, 0>>), qp, 6, TRUE)]

DequantChromaDc(dc, qp) ==
  [cell \in Cells(2) |-> Scaled(dc[cell] * LevelScale(qp, <<0, 0>>), qp, 5, FALSE)]

Idct1d(d) ==
  LET z0 == d[1] + d[3]
      z1 == d[1] - d[3]
      z2 == Shr(d[2], 1) - d[4]
      z3 == d[2] + Shr(d[4], 1)
  IN <<z0 + z3, z1 + z2, z1 - z2, z0 - z3>>

Hadamard1d(d) ==
  LET z0 == d[1] + d[4]
      z1 == d[2] + d[3]
      z2 == d[2] - d[3]
      z3 == d[1] - d[4]
  IN <<z0 + z1, z3 + z2, z0 - z1, z3 - z2>>

Row(b, r) == [k \in 1..4 |-> b[<<r, k - 1>>]]
Column(b, c) == [k \in 1..4 |-> b[<<k - 1, c>>]]

(* Rows, then columns.                                                     *)
IdctRows(b) == [cell \in Cells(4) |-> Idct1d(Row(b, cell[1]))[cell[2] + 1]]
IdctColumns(b) == [cell \in Cells(4) |-> Idct1d(Column(b, cell[2]))[cell[1] + 1]]
RoundShift6(b) == [cell \in Cells(4) |-> Shr(b[cell] + 32, 6)]

Hadamard4x4(b) ==
  LET rows == [cell \in Cells(4) |-> Hadamard1d(Row(b, cell[1]))[cell[2] + 1]]
  IN [cell \in Cells(4) |-> Hadamard1d(Column(rows, cell[2]))[cell[1] + 1]]

Hadamard2x2(b) ==
  LET rows == [cell \in Cells(2) |->
                 b[<<cell[1], 0>>] + (IF cell[2] = 0 THEN 1 ELSE -1) * b[<<cell[1], 1>>]]
  IN [cell \in Cells(2) |->
        rows[<<0, cell[2]>>] + (IF cell[1] = 0 THEN 1 ELSE -1) * rows[<<1, cell[2]>>]]

-----------------------------------------------------------------------------
ResidualInit ==
  /\ coded \in Residuals
  /\ values = coded.levels
  /\ stage = "levels"

ClampLevels ==
  /\ stage = "levels" /\ coded.kind = "ac"
  /\ values' = [cell \in Cells(4) |-> Clamp(values[cell], -(2^15), 2^15 - 1)]
  /\ stage' = "clamped"
  /\ UNCHANGED coded

(* A QP above 51 is refused, and the caller takes a block of zeros.         *)
Dequant ==
  /\ stage = "clamped"
  /\ values' = IF coded.qp > 51 THEN [cell \in Cells(4) |-> 0]
              ELSE DequantAc(values, coded.qp)
  /\ stage' = "dequantised"
  /\ UNCHANGED coded

Rows ==
  /\ stage = "dequantised"
  /\ values' = IdctRows(values)
  /\ stage' = "rows"
  /\ UNCHANGED coded

Columns ==
  /\ stage = "rows"
  /\ values' = RoundShift6(IdctColumns(values))
  /\ stage' = "residual"
  /\ UNCHANGED coded

Add ==
  /\ stage = "residual"
  /\ values' = [cell \in Cells(4) |-> Clamp(coded.predicted + values[cell], 0, 255)]
  /\ stage' = "pixels"
  /\ UNCHANGED coded

Hadamard ==
  /\ stage = "levels" /\ coded.kind \in {"luma_dc", "chroma_dc"}
  /\ values' = IF coded.kind = "luma_dc" THEN Hadamard4x4(values) ELSE Hadamard2x2(values)
  /\ stage' = "hadamard"
  /\ UNCHANGED coded

RefuseDc ==
  /\ stage = "hadamard" /\ coded.qp > 51
  /\ stage' = "refused"
  /\ UNCHANGED <<coded, values>>

DequantDc ==
  /\ stage = "hadamard" /\ coded.qp <= 51
  /\ values' = IF coded.kind = "luma_dc" THEN DequantLumaDc(values, coded.qp)
              ELSE DequantChromaDc(values, coded.qp)
  /\ stage' = "dc"
  /\ UNCHANGED coded

ResidualNext == \/ ClampLevels \/ Dequant \/ Rows \/ Columns \/ Add
        \/ Hadamard \/ RefuseDc \/ DequantDc

ResidualSpec == ResidualInit /\ [][ResidualNext]_residualVars

-----------------------------------------------------------------------------
Abs(v) == IF v < 0 THEN -v ELSE v
Total(f) ==
  LET row(r) == f[<<r, 0>>] + f[<<r, 1>>] + f[<<r, 2>>] + f[<<r, 3>>]
  IN  row(0) + row(1) + row(2) + row(3)

(* Whatever the levels, the pixels are bytes.                              *)
ResidualTypeOK ==
  /\ stage \in {"levels", "clamped", "dequantised", "rows", "residual", "pixels",
                "hadamard", "refused", "dc"}
  /\ stage = "pixels" => values \in [Cells(4) -> 0..255]

(* "All three operate on i32 so intermediate sums never overflow"
   (transform.rs 13): a sum of a pass weighs one of the two odd inputs by
   half, so after both no sum exceeds the absolute coefficients weighted so.
   In units of 1024, so that the bound itself can be computed.             *)
NeverOverflows ==
  stage = "dequantised" =>
    \A i, j \in {1, 3} :
      LET term == [cell \in Cells(4) |->
                     (IF cell[1] = i THEN 1 ELSE 2) * (IF cell[2] = j THEN 1 ELSE 2)
                       * ((Abs(values[cell]) \div 4096) + 1)]
      IN Total(term) < 2^21

(* The residual is the exact inverse transform of the exactly scaled levels,
   in 1/4096, to within one: the floors of the first pass, the rounding of
   the scaling at a low QP and the last one never add up to more.  Of levels
   between low and high.                                                   *)
Basis == << <<2, 2, 2, 2>>, <<2, 1, -1, -2>>, <<2, -2, -2, 2>>, <<1, -2, 2, -1>> >>
ScaleOfStandard(c) ==
  16 * NORM_ADJUST_4X4[(coded.qp % 6) + 1][<<1, 3, 2>>[(c[1] % 2) + (c[2] % 2) + 1]]
Exact(cell) ==
  2^(coded.qp \div 6) *
    Total([c \in Cells(4) |-> coded.levels[c] * ScaleOfStandard(c)
             * Basis[c[1] + 1][cell[1] + 1] * Basis[c[2] + 1][cell[2] + 1]])
LevelsWithin(low, high) ==
  \A cell \in Cells(4) : low <= coded.levels[cell] /\ coded.levels[cell] <= high
NearExact(low, high) ==
  stage = "residual" /\ coded.qp <= 51 /\ LevelsWithin(low, high) =>
    \A cell \in Cells(4) : Abs(4096 * values[cell] - Exact(cell)) < 4096

(* "Self-inverse up to a factor of 16" and of 4 (transform.rs 121, 171): the
   transform of the DC levels loses nothing, in any cell.                  *)
SelfInverse ==
  stage = "hadamard" =>
    LET back == IF coded.kind = "luma_dc" THEN Hadamard4x4(values) ELSE Hadamard2x2(values)
        gain == IF coded.kind = "luma_dc" THEN 16 ELSE 4
    IN \A cell \in DOMAIN values : back[cell] = gain * coded.levels[cell]

(* Six QPs up, every coefficient doubles up to its rounding, AC and DC, also
   where the shift changes its direction.                                  *)
StepDoubles ==
  stage \in {"dequantised", "dc"} /\ coded.qp <= 45 =>
    LET next == CASE coded.kind = "ac" ->
                       DequantAc([c \in Cells(4) |-> Clamp(coded.levels[c], -(2^15), 2^15 - 1)],
                                 coded.qp + 6)
                  [] coded.kind = "luma_dc" ->
                       DequantLumaDc(Hadamard4x4(coded.levels), coded.qp + 6)
                  [] coded.kind = "chroma_dc" ->
                       DequantChromaDc(Hadamard2x2(coded.levels), coded.qp + 6)
    IN \A cell \in DOMAIN values : Abs(next[cell] - 2 * values[cell]) <= 1

(* No intermediate result is off: a residual is within one of the exact inverse
   transform of the exactly scaled levels, the transforms of the DC levels lose
   nothing, and six QPs up every coefficient doubles, on both sides of every
   change from a shift to the left into a rounded one to the right.  The exact
   transform is compared for levels up to 64, whose sums TLC can compute.  *)
ScalesExactly == NearExact(-64, 64) /\ SelfInverse /\ StepDoubles
=============================================================================
