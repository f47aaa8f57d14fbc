----------------------------- MODULE IntraModes -----------------------------
(***************************************************************************)
(* The Intra_4x4 prediction modes of one macroblock, from the encoder that *)
(* codes each relative to its neighbours to the records parsed by mb.rs    *)
(* and resolved by frame.rs against the modes it has itself resolved.      *)
(* ModeBlocks are <<x, y>>; a block outside the macroblock is unavailable, as  *)
(* in a picture of one macroblock.                                         *)
(***************************************************************************)
EXTENDS Integers, Sequences

CONSTANTS Palettes        (* the sets of modes of 0..8 an encoder picks from *)

ASSUME PalettesAssumption == \A p \in Palettes : p \subseteq 0..8

VARIABLES
  palette,
  chosen,                 (* the encoder's mode of each block              *)
  records,                (* in coding order                               *)
  local_modes,            (* resolved, or NoMode                             *)
  scan                    (* next in the scan, once the records are read   *)

modeVars == <<palette, chosen, records, local_modes, scan>>

NoMode == -1
UsePredicted == [kind |-> "UsePredicted"]
Explicit(rem) == [kind |-> "Explicit", rem |-> rem]

ModeBlocks == (0..3) \X (0..3)

(* luma4x4BlkIdx of the standard, 6.4.3: quarters, then blocks of a quarter. *)
BlkIdx(b) == 8 * (b[2] \div 2) + 4 * (b[1] \div 2) + 2 * (b[2] % 2) + (b[1] % 2)

ScanBlock(k) ==
  << <<0, 0>>, <<1, 0>>, <<0, 1>>, <<1, 1>>, <<2, 0>>, <<3, 0>>, <<2, 1>>, <<3, 1>>,
     <<0, 2>>, <<1, 2>>, <<0, 3>>, <<1, 3>>, <<2, 2>>, <<3, 2>>, <<2, 3>>, <<3, 3>> >>[k + 1]

(* predict_intra_4x4_mode: the lower of the modes above and to the left, or
   DC if either is unavailable.                                            *)
Lower(a, b) == IF a < b THEN a ELSE b
PredictedMode(modes, b) ==
  IF b[1] = 0 \/ b[2] = 0 THEN 2
  ELSE LET top == modes[<<b[1], b[2] - 1>>]
           left == modes[<<b[1] - 1, b[2]>>]
       IN IF NoMode \in {top, left} THEN 2 ELSE Lower(top, left)

-----------------------------------------------------------------------------
ModesInit ==
  /\ palette \in Palettes
  /\ chosen = [b \in ModeBlocks |-> NoMode]
  /\ records = << >>
  /\ local_modes = [b \in ModeBlocks |-> NoMode]
  /\ scan = 0

(* The encoder, 8.3.1.1: one flag if the mode is the predicted one, else
   its number among the eight others; read back by
   parse_intra_4x4_mode_info.                                              *)
CodedMode(mode, predicted) ==
  IF mode = predicted THEN UsePredicted
  ELSE Explicit(IF mode < predicted THEN mode ELSE mode - 1)

ParseRecord ==
  /\ Len(records) < 16
  /\ \E b \in ModeBlocks, mode \in palette :
       /\ BlkIdx(b) = Len(records)
       /\ chosen' = [chosen EXCEPT ![b] = mode]
       /\ records' = Append(records, CodedMode(mode, PredictedMode(chosen, b)))
  /\ UNCHANGED <<palette, local_modes, scan>>

(* Mutant: the remainder that equals the prediction is not moved up.       *)
Bug_SkipAfter(record, predicted) ==
  IF record = UsePredicted THEN predicted
  ELSE IF record.rem <= predicted THEN record.rem ELSE record.rem + 1

ResolveIntra4x4Mode(record, predicted) ==
  IF record = UsePredicted THEN predicted
  ELSE IF record.rem < predicted THEN record.rem ELSE record.rem + 1

ResolveBlock ==
  /\ Len(records) = 16 /\ scan < 16
  /\ LET b == ScanBlock(scan) IN
       local_modes' = [local_modes EXCEPT ![b] =
         ResolveIntra4x4Mode(records[BlkIdx(b) + 1], PredictedMode(local_modes, b))]
  /\ scan' = scan + 1
  /\ UNCHANGED <<palette, chosen, records>>

ModesNext == ParseRecord \/ ResolveBlock

ModesSpec == ModesInit /\ [][ModesNext]_modeVars

-----------------------------------------------------------------------------
(* Every variable keeps its type; a resolved mode is one of the nine, so
   the fallback to DC for one that is not is never taken (frame.rs 226),
   and the scan resolves every block.                                      *)
ModesTypeOK ==
  /\ palette \in Palettes /\ scan \in 0..16 /\ Len(records) <= 16
  /\ \A b \in ModeBlocks : chosen[b] \in palette \cup {NoMode}
  /\ \A b \in ModeBlocks : local_modes[b] \in (0..8) \cup (IF scan = 16 THEN {} ELSE {NoMode})

(* Each block is predicted with the mode the encoder chose for it: scan
   order, prediction and the one-skip rule agree with the encoder's, block
   after block, since one wrong mode moves those predicted from it
   (frame.rs 214-232, mb.rs 118-126).                                      *)
ModesRecovered == \A b \in ModeBlocks : local_modes[b] \in {NoMode, chosen[b]}
=============================================================================
