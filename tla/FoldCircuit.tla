----------------------------- MODULE FoldCircuit ----------------------------
(***************************************************************************)
(* spike/sonobe: the step circuit of toy-decode, folded over a run of 16-  *)
(* bit coefficients.  The circuit sees a coefficient as bits and clamps it *)
(* without a comparison; clamp_native, the reference it is meant to agree  *)
(* with, casts and compares, and nothing in the driver calls it.           *)
(*                                                                         *)
(* The field is external: sums of 16-bit values stay far below its modulus *)
(* of 254 bits, so that its elements are integers here.                    *)
(***************************************************************************)
EXTENDS Integers

CONSTANTS
  Coefficients,   (* the words folded: functions from bit numbers to bits  *)
  MaxFolds        (* --max-steps: the words of an input that are folded    *)

Words == [0..15 -> {0, 1}]

ASSUME CoefficientsAssumption == Coefficients \subseteq Words

ASSUME MaxFoldsAssumption == MaxFolds \in Nat

VARIABLES
  z,              (* z_i = [coefficient_sum, clamped_sum]                  *)
  native,         (* the same two sums, of the words and of clamp_native   *)
  i               (* the steps proved                                      *)

foldVars == <<z, native, i>>

-----------------------------------------------------------------------------
(* Eight bits, the first of weight one.                                    *)
Byte(bits, k) ==
  bits[k] + 2 * bits[k + 1] + 4 * bits[k + 2] + 8 * bits[k + 3]
    + 16 * bits[k + 4] + 32 * bits[k + 5] + 64 * bits[k + 6] + 128 * bits[k + 7]

BitsToFp(bits) == Byte(bits, 0) + 256 * Byte(bits, 8)

Not(b) == 1 - b
And(a, b) == a * b
Or(bits, S) == IF \E k \in S : bits[k] = 1 THEN 1 ELSE 0

(* Mutant: the slice 8..15 is taken to stop before bit 14.                 *)
Bug_ShortSlice(bits) == Or(bits, 8..13)

(* Boolean::kary_or(&bits[8..15]): fifteen is not part of the range.       *)
UpperNonzero(bits) == Or(bits, 8..14)

Clamped(bits) ==
  LET not_sign == Not(bits[15])
      in_range == And(not_sign, Not(UpperNonzero(bits)))
      saturated == And(not_sign, UpperNonzero(bits))
  IN  in_range * Byte(bits, 0) + saturated * 255

StepConstraints(z_i, bits) == <<z_i[1] + BitsToFp(bits), z_i[2] + Clamped(bits)>>

-----------------------------------------------------------------------------
(* coeff_u16 as i16, then the two comparisons.                             *)
Signed(v) == IF v >= 32768 THEN v - 65536 ELSE v

ClampNative(v) ==
  IF Signed(v) < 0 THEN 0
  ELSE IF Signed(v) > 255 THEN 255
  ELSE Signed(v)

-----------------------------------------------------------------------------
FoldInit == z = <<0, 0>> /\ native = <<0, 0>> /\ i = 0

Fold ==
  /\ i < MaxFolds
  /\ \E bits \in Coefficients :
       /\ z' = StepConstraints(z, bits)
       /\ native' = <<native[1] + BitsToFp(bits), native[2] + ClampNative(BitsToFp(bits))>>
  /\ i' = i + 1

FoldNext == Fold

FoldSpec == FoldInit /\ [][FoldNext]_foldVars

(* After any steps over any coefficients the state that the circuit commits to
   is the one clamp_native gives: the sum of the words, taken without their
   sign, and the sum of their clamped values, at most 255 for each step.   *)
FoldFollowsNative == z = native /\ z[2] \in 0..(255 * i)

=============================================================================
