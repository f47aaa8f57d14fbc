----------------------------- MODULE Macroblock -----------------------------
(***************************************************************************)
(* parse_macroblock_header and decode_macroblock_residuals: one macroblock *)
(* from its mb_type to its last residual block.  A residual block is its   *)
(* TotalCoeff (CavlcResidual has the rest); mb_qp_delta, which nothing     *)
(* here depends on, is only a read.  FrameMacroblocks has the bits each    *)
(* read takes and the loop that calls it all.                              *)
(***************************************************************************)
EXTENDS Integers, Sequences, FiniteSets

CONSTANTS
  MbTypeCodes, ChromaCodes, CbpCodes,   (* values of the ue(v) fields      *)
  TotalCoeffs                           (* the TotalCoeffs the blocks of a
                                           macroblock may have             *)

None == -1

VARIABLES
  status,        (* what is read next, or done, or the error returned      *)
  mb_type,
  records,       (* Intra_4x4 mode records read                            *)
  chroma_mode,   (* intra_chroma_pred_mode as stored                       *)
  cbp,
  totals,        (* the TotalCoeff each block has if it is coded          *)
  pos,           (* how far the luma loops are                             *)
  luma_tc,
  variants,      (* the coeff_token code each luma block was read with     *)
  luma_4x4, chroma_dc, chroma_ac   (* what is Some in the output           *)

header == <<mb_type, records, chroma_mode, cbp, totals>>
residual == <<pos, luma_tc, variants, luma_4x4, chroma_dc, chroma_ac>>
vars == <<status, header, residual>>

Blks == 0..15
NoType == [kind |-> "none"]

Init ==
  /\ status = "mb_type"
  /\ mb_type = NoType /\ records = 0 /\ chroma_mode = 0
  /\ cbp = [luma |-> 0, chroma |-> 0]
  /\ totals \in TotalCoeffs
  /\ pos = 0 /\ luma_tc = [b \in Blks |-> None] /\ variants = [b \in Blks |-> "unread"]
  /\ luma_4x4 = {} /\ chroma_dc = FALSE /\ chroma_ac = FALSE

-----------------------------------------------------------------------------
(* MbType::from_index.                                                     *)
MbType(idx) ==
  IF idx = 0 THEN [kind |-> "INxN"]
  ELSE IF idx = 25 THEN [kind |-> "IPcm"]
  ELSE [kind |-> "I16x16", pred_mode |-> (idx - 1) \div 6,
        cbp_luma |-> ((idx - 1) \div 3) % 2, cbp_chroma |-> (idx - 1) % 3]

ReadMbType(idx) ==
  /\ status = "mb_type"
  /\ IF idx > 25 THEN status' = "out_of_scope" /\ UNCHANGED mb_type
     ELSE /\ mb_type' = MbType(idx)
          /\ status' = CASE mb_type'.kind = "IPcm" -> "out_of_scope"
                         [] mb_type'.kind = "INxN" -> "modes"
                         [] mb_type'.kind = "I16x16" -> "chroma"
  /\ UNCHANGED <<records, chroma_mode, cbp, totals, residual>>

(* A flag, and three bits when it is 0; IntraModes has what they mean.     *)
ReadMode ==
  /\ status = "modes"
  /\ records' = records + 1
  /\ status' = IF records' = 16 THEN "chroma" ELSE "modes"
  /\ UNCHANGED <<mb_type, chroma_mode, cbp, totals, residual>>

ReadChromaMode(code) ==
  /\ status = "chroma"
  /\ chroma_mode' = code % 2^8                                (* as u8     *)
  /\ status' = IF chroma_mode' > 3 THEN "out_of_scope"
               ELSE IF mb_type.kind = "INxN" THEN "cbp" ELSE "qp"
  /\ cbp' = IF mb_type.kind = "INxN" THEN cbp
            ELSE [luma |-> IF mb_type.cbp_luma = 1 THEN 15 ELSE 0,
                  chroma |-> mb_type.cbp_chroma]
  /\ UNCHANGED <<mb_type, records, totals, residual>>

CBP_TABLE_INTRA_4_2_0 ==
  << 47, 31, 15, 0, 23, 27, 29, 30, 7, 11, 13, 14, 39, 43, 45, 46,
     16, 3, 5, 10, 12, 19, 21, 26, 28, 35, 37, 42, 44, 1, 2, 4,
     8, 17, 18, 20, 24, 6, 9, 22, 25, 32, 33, 34, 36, 40, 38, 41 >>

Unpack(bits) == [luma |-> bits % 16, chroma |-> (bits \div 16) % 4]

ReadCbp(code) ==
  /\ status = "cbp"
  /\ IF code > 47 THEN status' = "cavlc_invalid" /\ UNCHANGED cbp
     ELSE status' = "qp" /\ cbp' = Unpack(CBP_TABLE_INTRA_4_2_0[code + 1])
  /\ UNCHANGED <<mb_type, records, chroma_mode, totals, residual>>

ReadQpDelta ==
  /\ status = "qp"
  /\ status' = "luma"
  /\ UNCHANGED <<header, residual>>

-----------------------------------------------------------------------------
(* Mutant: the blocks of a cluster are numbered in the order of the scan.  *)
Bug_ScanNumbers(cluster) == <<4 * cluster, 4 * cluster + 1, 4 * cluster + 2, 4 * cluster + 3>>

BlockIndices(cluster) ==
  << <<0, 1, 4, 5>>, <<2, 3, 6, 7>>, <<8, 9, 12, 13>>, <<10, 11, 14, 15>> >>[cluster + 1]

Cluster == pos \div 4
Blk == BlockIndices(Cluster)[(pos % 4) + 1]
ClusterActive == (cbp.luma \div 2^Cluster) % 2 = 1

(* CoeffTokenVariant::from_nc.                                             *)
FromNc(nc) ==
  IF nc < 2 THEN "Vlc0" ELSE IF nc < 4 THEN "Vlc1" ELSE IF nc < 8 THEN "Vlc2" ELSE "FixedLen6"

(* Mutant: the average is rounded down.                                    *)
Bug_NcRoundedDown(left, top) ==
  IF left # None /\ top # None THEN (left + top) \div 2
  ELSE IF left # None THEN left ELSE IF top # None THEN top ELSE 0

Nc(left, top) ==
  IF left # None /\ top # None THEN (left + top + 1) \div 2
  ELSE IF left # None THEN left ELSE IF top # None THEN top ELSE 0

PickVariant(blk) ==
  FromNc(Nc(IF blk % 4 > 0 THEN luma_tc[blk - 1] ELSE None,
            IF blk \div 4 > 0 THEN luma_tc[blk - 4] ELSE None))

(* The tables of two codes end at a TotalCoeff of 2.                       *)
HasCode(variant, tc) == variant \in {"Vlc1", "Vlc2"} => tc <= 2

LumaBlock ==
  /\ status = "luma" /\ pos < 16 /\ ClusterActive
  /\ HasCode(PickVariant(Blk), totals[Blk])
  /\ luma_tc' = [luma_tc EXCEPT ![Blk] = totals[Blk]]
  /\ variants' = [variants EXCEPT ![Blk] = PickVariant(Blk)]
  /\ luma_4x4' = luma_4x4 \union {Blk}
  /\ pos' = pos + 1
  /\ UNCHANGED <<status, header, chroma_dc, chroma_ac>>

SkippedBlock ==
  /\ status = "luma" /\ pos < 16 /\ ~ClusterActive
  /\ luma_tc' = [luma_tc EXCEPT ![Blk] = 0]
  /\ pos' = pos + 1
  /\ UNCHANGED <<status, header, variants, luma_4x4, chroma_dc, chroma_ac>>

ChromaBlocks ==
  /\ status = "luma" /\ pos = 16
  /\ chroma_dc' = (cbp.chroma >= 1)
  /\ chroma_ac' = (cbp.chroma >= 2)
  /\ status' = "done"
  /\ UNCHANGED <<header, pos, luma_tc, variants, luma_4x4>>

(* A read finds the stream at its end, 33 zeros in a ue(v), or in a residual
   block no codeword.                                                      *)
ReadFails(error) ==
  /\ \/ status \in {"mb_type", "chroma", "cbp", "qp"} /\ error # "cavlc_invalid"
     \/ status = "modes" /\ error = "truncated"
     \/ /\ status = "luma" /\ error # "exp_golomb_too_long"
        /\ \/ pos < 16 /\ ClusterActive
           \/ pos = 16 /\ cbp.chroma > 0
  /\ status' = error
  /\ UNCHANGED <<header, residual>>

Next ==
  \/ \E idx \in MbTypeCodes : ReadMbType(idx)
  \/ \E code \in ChromaCodes : ReadChromaMode(code)
  \/ \E code \in CbpCodes : ReadCbp(code)
  \/ ReadMode \/ ReadQpDelta
  \/ LumaBlock \/ SkippedBlock \/ ChromaBlocks
  \/ \E error \in {"truncated", "exp_golomb_too_long", "cavlc_invalid"} : ReadFails(error)

Spec == Init /\ [][Next]_vars

-----------------------------------------------------------------------------
Errors == {"out_of_scope", "cavlc_invalid", "truncated", "exp_golomb_too_long"}

(* A header that is passed on has sixteen modes exactly when it has Intra_4x4
   blocks, and fields in their ranges.                                     *)
TypeOK ==
  /\ status \in {"mb_type", "modes", "chroma", "cbp", "qp", "luma", "done"} \union Errors
  /\ cbp.luma \in 0..15 /\ cbp.chroma \in 0..2
  /\ status \in {"luma", "done"} =>
       /\ records = IF mb_type.kind = "INxN" THEN 16 ELSE 0
       /\ mb_type.kind = "I16x16" => mb_type.pred_mode \in 0..3
       /\ chroma_mode \in 0..3
  /\ pos \in 0..16
  /\ \A b \in Blks : luma_tc[b] \in {None} \union 0..16

(* Every luma block is read with the coeff_token code that an encoder picks
   who knows the TotalCoeff of all sixteen blocks of the macroblock and of no
   other: no neighbour inside the macroblock is taken as unavailable or changes
   after it was used.                                                      *)
VariantsAgree ==
  status = "done" =>
    \A b \in luma_4x4 :
      LET x == b % 4
          y == b \div 4
          neighbours == {luma_tc[n] : n \in {m \in Blks : \/ x > 0 /\ m = b - 1
                                                          \/ y > 0 /\ m = b - 4}}
          both == x > 0 /\ y > 0
          nC == IF both THEN (luma_tc[b - 1] + luma_tc[b - 4] + 1) \div 2
                ELSE IF neighbours = {} THEN 0 ELSE CHOOSE t \in neighbours : TRUE
      IN  /\ None \notin neighbours
          /\ variants[b] = FromNc(nC)

(* A decoded macroblock has residuals in exactly the 8x8 quarters, and for
   chroma the stages, that its coded block pattern announces.              *)
ResidualsMatchCbp ==
  status = "done" =>
    /\ \A b \in Blks :
         b \in luma_4x4 <=>
           (cbp.luma \div 2^(2 * (b \div 8) + ((b % 4) \div 2))) % 2 = 1
    /\ chroma_dc <=> cbp.chroma # 0
    /\ chroma_ac <=> cbp.chroma = 2

(* When a coded block pattern is read, every one of 4:2:0 has exactly one
   code.                                                                   *)
CbpTableComplete ==
  status = "cbp" => {CBP_TABLE_INTRA_4_2_0[k] : k \in 1..48} = 0..47

(* mb_type 1 to 24 as Table 7-11 of the standard has them.                 *)
SpecMbType(idx) ==
  [kind |-> "I16x16", pred_mode |-> (idx - 1) % 4,
   cbp_luma |-> (idx - 1) \div 12, cbp_chroma |-> ((idx - 1) \div 4) % 3]

MbTypesFollowTable ==
  mb_type.kind = "I16x16" => \E idx \in 1..24 : mb_type = MbType(idx) /\ mb_type = SpecMbType(idx)
=============================================================================
