-------------------------- MODULE FrameMacroblocks --------------------------
(***************************************************************************)
(* decode_iframe with the macroblock parser it calls: FrameDecode's loop,  *)
(* its steps cut into the reads of Macroblock, each with the bits it takes *)
(* from the one reader.  left and the loop's other variables change when a *)
(* call returns, rest at every read.                                       *)
(***************************************************************************)
EXTENDS FrameDecode, FiniteSets

CONSTANTS
  MbTypeCodes, ChromaCodes, CbpCodes, TotalCoeffs,       (* of Macroblock  *)
  Slices,        (* <<mb_count, bits, totals>>: the slices to decode       *)
  ExtraBits,     (* bits of a residual block beyond the fewest it can have *)
  InvalidBits    (* bits a block takes before one that no table has: none
                    if it is the first, for read_vlc then takes nothing    *)

ASSUME CodesAssumption == MbTypeCodes \cup ChromaCodes \cup CbpCodes \subseteq 0..510

ASSUME TotalsAssumption == TotalCoeffs \subseteq [0..15 -> 0..16]

VARIABLES
  rest,          (* bits the reader has left within the call               *)
  status, mb_type, records, chroma_mode, cbp, totals,
  pos, luma_tc, variants, luma_4x4, chroma_dc, chroma_ac

M == INSTANCE Macroblock

macroblock == <<status, mb_type, records, chroma_mode, cbp, totals,
                pos, luma_tc, variants, luma_4x4, chroma_dc, chroma_ac>>
all == <<vars, rest, macroblock>>

FMInit ==
  /\ Init /\ M!Init /\ <<mb_count, bits, totals>> \in Slices
  /\ rest = bits

(* The variables of parse_macroblock_header and decode_macroblock_residuals
   are theirs; the next macroblock has its own.                            *)
NextMacroblock ==
  /\ status' = "mb_type" /\ mb_type' = M!NoType /\ records' = 0
  /\ chroma_mode' = 0 /\ cbp' = [luma |-> 0, chroma |-> 0]
  /\ pos' = 0 /\ luma_tc' = [b \in M!Blks |-> M!None]
  /\ variants' = [b \in M!Blks |-> "unread"]
  /\ luma_4x4' = {} /\ chroma_dc' = FALSE /\ chroma_ac' = FALSE
  /\ UNCHANGED totals

-----------------------------------------------------------------------------
(* Bits of the codes of read_ue and read_se, for values below 511.         *)
LeadingZeros(k) == Cardinality({p \in {2, 4, 8, 16, 32, 64, 128, 256} : p <= k + 1})
UeBits(k) == 2 * LeadingZeros(k) + 1
SeBits(v) == UeBits(IF v > 0 THEN 2 * v - 1 ELSE -2 * v)

ModeBits == {1, 4}

(* coeff_token with no coefficient, in each code.                          *)
TokenBits(variant) ==
  CASE variant = "Vlc0" -> 1 [] variant = "Vlc1" -> 2
    [] variant = "Vlc2" -> 4 [] variant = "FixedLen6" -> 6

(* A bit at least for the sign or the level of each coefficient.           *)
LumaBits(blk) ==
  {TokenBits(M!PickVariant(blk)) + totals[blk] + e :
     e \in IF totals[blk] = 0 THEN {0} ELSE ExtraBits}

(* Two DC blocks and eight AC blocks without coefficients.                 *)
ChromaBits == {IF cbp.chroma = 0 THEN 0 ELSE IF cbp.chroma = 1 THEN 4 ELSE 12}

Take(n) == n \in 0..rest /\ rest' = rest - n

-----------------------------------------------------------------------------
CallerFails == HeadersFail /\ UNCHANGED <<rest, macroblock>>
CallerAllocates == AllocatePlanes /\ UNCHANGED <<rest, macroblock>>
CallerStarts == HeadersParsed /\ UNCHANGED <<rest, macroblock>>

ReadHeader ==
  /\ phase = "mb" /\ mb < mb_count
  /\ \/ \E idx \in MbTypeCodes : Take(UeBits(idx)) /\ M!ReadMbType(idx)
     \/ \E n \in ModeBits : Take(n) /\ M!ReadMode
     \/ \E code \in ChromaCodes : Take(UeBits(code)) /\ M!ReadChromaMode(code)
     \/ \E code \in CbpCodes : Take(UeBits(code)) /\ M!ReadCbp(code)
  /\ UNCHANGED vars

(* The codes a header may have next, in bits.                              *)
NextCodes ==
  CASE status = "mb_type" -> {UeBits(idx) : idx \in MbTypeCodes}
    [] status = "modes" -> ModeBits
    [] status = "chroma" -> {UeBits(code) : code \in ChromaCodes}
    [] status = "cbp" -> {UeBits(code) : code \in CbpCodes}
    [] status = "qp" -> {SeBits(delta) : delta \in QpDeltas}
    [] OTHER -> {}

(* The slice ends inside a code, or 33 zeros are in its place.             *)
ReadHeaderFails ==
  /\ phase = "mb" /\ mb < mb_count
  /\ \/ \E n \in NextCodes : n > rest /\ M!ReadFails("truncated")
     \/ rest >= 33 /\ M!ReadFails("exp_golomb_too_long")
  /\ UNCHANGED <<vars, rest>>

(* Mutant: mb_qp_delta is added and the sum not wrapped.                   *)
Bug_DeltaNotWrapped ==
  /\ phase = "mb" /\ mb < mb_count
  /\ \E delta \in QpDeltas :
       Take(SeBits(delta)) /\ M!ReadQpDelta /\ qp_y' = qp_y + delta
  /\ left' = rest' /\ kind' = mb_type.kind
  /\ phase' = "residual"
  /\ UNCHANGED <<slice, mb, own, planes>>

HeaderReturned ==
  /\ phase = "mb" /\ mb < mb_count
  /\ \E delta \in QpDeltas :
       Take(SeBits(delta)) /\ M!ReadQpDelta /\ qp_y' = WrapQp(qp_y + delta)
  /\ left' = rest' /\ kind' = mb_type.kind
  /\ phase' = "residual"
  /\ UNCHANGED <<slice, mb, own, planes>>

HeaderPassedOver ==
  /\ phase = "mb" /\ status \in {"out_of_scope", "cavlc_invalid"}
  /\ left' = rest
  /\ Fill("blank") /\ NextMacroblock
  /\ UNCHANGED <<slice, qp_y, kind, rest>>

(* Mutant: a header cut short is filled over like one out of scope.        *)
Bug_TruncatedFilled ==
  /\ phase = "mb" /\ status \in {"truncated", "exp_golomb_too_long"}
  /\ left' = rest
  /\ Fill("blank") /\ NextMacroblock
  /\ UNCHANGED <<slice, qp_y, kind, rest>>

(* Mutant: a header cut short is passed to the next iteration instead.     *)
Bug_TruncatedRetried ==
  /\ phase = "mb" /\ status \in {"truncated", "exp_golomb_too_long"}
  /\ NextMacroblock
  /\ UNCHANGED <<vars, rest>>

HeaderReturnsError ==
  /\ phase = "mb" /\ status \in {"truncated", "exp_golomb_too_long"}
  /\ left' = rest /\ phase' = "err"
  /\ UNCHANGED <<slice, mb, own, qp_y, kind, planes, rest, macroblock>>

ReadResidual ==
  /\ phase = "residual"
  /\ \/ status = "luma" /\ pos < 16 /\ (\E n \in LumaBits(M!Blk) : Take(n)) /\ M!LumaBlock
     \/ M!SkippedBlock /\ UNCHANGED rest
     \/ (\E n \in ChromaBits : Take(n)) /\ M!ChromaBlocks
  /\ UNCHANGED vars

(* A block that runs out of bits has read some of them, and one with an
   undefined codeword those before it.                                     *)
ReadResidualFails ==
  /\ phase = "residual"
  /\ \/ /\ M!ReadFails("truncated")
        /\ \E n \in IF pos < 16 THEN LumaBits(M!Blk) ELSE ChromaBits : n > rest
        /\ rest' \in 0..rest
     \/ M!ReadFails("cavlc_invalid") /\ \E n \in InvalidBits : Take(n)
  /\ UNCHANGED vars

ResidualsReturned ==
  /\ phase = "residual" /\ status = "done"
  /\ left' = rest /\ phase' = "reconstruct"
  /\ UNCHANGED <<slice, mb, own, qp_y, kind, planes, rest, macroblock>>

ResidualPassedOver ==
  /\ phase = "residual" /\ status \in {"truncated", "cavlc_invalid"}
  /\ left' = rest
  /\ Fill(kind) /\ NextMacroblock
  /\ UNCHANGED <<slice, qp_y, kind, rest>>

MacroblockShown == Reconstruct /\ NextMacroblock /\ UNCHANGED rest
FrameReturned == Return /\ UNCHANGED <<rest, macroblock>>

FMNext ==
  \/ CallerFails \/ CallerAllocates \/ CallerStarts
  \/ ReadHeader \/ ReadHeaderFails
  \/ HeaderReturned \/ HeaderPassedOver \/ HeaderReturnsError
  \/ ReadResidual \/ ReadResidualFails
  \/ ResidualsReturned \/ ResidualPassedOver
  \/ MacroblockShown \/ FrameReturned

FMSpec == FMInit /\ [][FMNext]_all /\ WF_all(FMNext)

-----------------------------------------------------------------------------
(* Read by read the calls do what FrameDecode says of them, and so what is
   proved of it holds here: a header that is passed on has cost HeaderBits
   and one passed over eight bits, nothing is read twice or past the end,
   and the QP is wrapped before a residual is read (frame.rs 92-151).      *)
ImplementsLoop == Spec

(* Every macroblock decoded in the frame has the residuals its own coded
   block pattern announces, under a header whose fields are in range, none
   of it left over from the macroblock before (mb.rs 222-406).             *)
ResidualsMatchHeader == M!TypeOK /\ M!CbpTableComplete /\ M!ResidualsMatchCbp

(* Every luma block of every macroblock is read with the coeff_token code that
   the final TotalCoeffs of its neighbours in the same macroblock call for.  A
   block in the macroblock to the left or above is no neighbour to the code, as
   its comment says (mb.rs 330-332, 412-414): what the standard asks for at the
   border of two macroblocks is not claimed.                               *)
VariantsAgree == M!VariantsAgree
=============================================================================
