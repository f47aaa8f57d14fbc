---------------------------- MODULE FrameDecode -----------------------------
(***************************************************************************)
(* decode_iframe: the parameter sets and the slice header, then the loop   *)
(* over the macroblocks on one reader, each call of the parser one step.   *)
(* Here is what the loop makes of their results: which errors it returns,  *)
(* which it fills over, where the reader then stands, and the running QP.  *)
(* FrameMacroblocks has the calls read by read, and implements this;       *)
(* LumaRecon has the reconstruction.                                       *)
(***************************************************************************)
EXTENDS Integers

CONSTANTS
  MbCounts,      (* macroblocks of a picture                               *)
  SliceBits,     (* bits of slice data after the slice header              *)
  SliceQps,      (* slice_qp_y, which no parser bounds                     *)
  QpDeltas

ASSUME CountsAssumption == MbCounts \subseteq Nat /\ SliceBits \subseteq Nat
ASSUME QpAssumption == SliceQps \subseteq Int /\ QpDeltas \subseteq Int

VARIABLES
  mb_count, bits,
  mb,            (* the next macroblock, in raster order                   *)
  left,          (* bits the reader has left                               *)
  own,           (* the reader stands at this macroblock's own data        *)
  qp_y,
  phase,         (* headers, planes, mb, residual, reconstruct, ok or err  *)
  kind,          (* of the macroblock under way                            *)
  y_plane,       (* what each macroblock shows: gray, blank, its signature,
                    or a reconstruction of its own data or of other bits   *)
  written        (* a count of the macroblock areas written to the planes  *)

slice == <<mb_count, bits>>
planes == <<y_plane, written>>
vars == <<mb_count, bits, mb, left, own, qp_y, phase, kind, y_plane, written>>

Init ==
  /\ mb_count \in MbCounts /\ bits \in SliceBits
  /\ mb = 0 /\ left = bits /\ own = TRUE
  /\ qp_y = 0
  /\ phase = "headers" /\ kind = "none"
  /\ y_plane = << >> /\ written = 0

(* collect_units, the parameter sets and a picture of no width or height
   before the planes are there, the slice header after: any may fail.      *)
HeadersFail ==
  /\ phase \in {"headers", "planes"}
  /\ phase' = "err"
  /\ UNCHANGED <<slice, mb, left, own, qp_y, kind, planes>>

(* The planes have the size that the SPS declares, and are filled with 128
   before the first bit of the slice is read.                              *)
AllocatePlanes ==
  /\ phase = "headers" /\ mb_count > 0
  /\ y_plane' = [m \in 0..(mb_count - 1) |-> "gray"]
  /\ written' = mb_count
  /\ phase' = "planes"
  /\ UNCHANGED <<slice, mb, left, own, qp_y, kind>>

HeadersParsed ==
  /\ phase = "planes"
  /\ qp_y' \in SliceQps
  /\ phase' = "mb"
  /\ UNCHANGED <<slice, mb, left, own, kind, planes>>

(* The shortest header: an I_NxN macroblock has sixteen mode flags.        *)
HeaderBits(type) == IF type = "INxN" THEN 20 ELSE 5

WrapQp(qp) == qp % 52

HeaderParsed ==
  /\ phase = "mb" /\ mb < mb_count
  /\ \E type \in {"INxN", "I16x16"}, n \in 0..left :
       /\ n >= HeaderBits(type)
       /\ left' = left - n /\ kind' = type
  /\ \E delta \in QpDeltas : qp_y' = WrapQp(qp_y + delta)
  /\ phase' = "residual"
  /\ UNCHANGED <<slice, mb, own, planes>>

(* fill_mb_solid, and on to the next macroblock from where the reader is.  *)
Fill(pattern) ==
  /\ y_plane' = [y_plane EXCEPT ![mb] = pattern]
  /\ written' = written + 1
  /\ own' = FALSE
  /\ mb' = mb + 1
  /\ phase' = "mb"

(* OutOfScope or CavlcInvalid: the shortest is an I_16x16 macroblock with
   a chroma mode past the last.                                            *)
HeaderRejected ==
  /\ phase = "mb" /\ mb < mb_count
  /\ \E n \in 8..left : left' = left - n
  /\ Fill("blank")
  /\ UNCHANGED <<slice, qp_y, kind>>

(* BitstreamTruncated or ExpGolombTooLong.                                 *)
HeaderFails ==
  /\ phase = "mb" /\ mb < mb_count
  /\ left' \in 0..left
  /\ phase' = "err"
  /\ UNCHANGED <<slice, mb, own, qp_y, kind, planes>>

ResidualsDecoded ==
  /\ phase = "residual"
  /\ left' \in 0..left
  /\ phase' = "reconstruct"
  /\ UNCHANGED <<slice, mb, own, qp_y, kind, planes>>

(* OutOfScope, CavlcInvalid or BitstreamTruncated, which is not an error
   here.                                                                   *)
ResidualRejected ==
  /\ phase = "residual"
  /\ left' \in 0..left
  /\ Fill(kind)
  /\ UNCHANGED <<slice, qp_y, kind>>

Reconstruct ==
  /\ phase = "reconstruct"
  /\ y_plane' = [y_plane EXCEPT ![mb] = IF own THEN "own" ELSE "other"]
  /\ written' = written + 1
  /\ mb' = mb + 1
  /\ phase' = "mb"
  /\ UNCHANGED <<slice, left, own, qp_y, kind>>

Return ==
  /\ phase = "mb" /\ mb = mb_count
  /\ phase' = "ok"
  /\ UNCHANGED <<slice, mb, left, own, qp_y, kind, planes>>

Next ==
  \/ HeadersFail \/ AllocatePlanes \/ HeadersParsed
  \/ HeaderParsed \/ HeaderRejected \/ HeaderFails
  \/ ResidualsDecoded \/ ResidualRejected \/ Reconstruct
  \/ Return

Spec == Init /\ [][Next]_vars /\ WF_vars(Next)

-----------------------------------------------------------------------------
(* Every variable keeps its type, the loop its bounds, and no bit is read
   past the end of the slice data.                                         *)
TypeOK ==
  /\ mb_count \in MbCounts /\ bits \in SliceBits
  /\ mb \in 0..mb_count /\ left \in 0..bits
  /\ own \in BOOLEAN /\ qp_y \in Int
  /\ phase \in {"headers", "planes", "mb", "residual", "reconstruct", "ok", "err"}
  /\ kind \in {"none", "INxN", "I16x16"}
  /\ written \in Nat
  /\ IF written = 0 THEN y_plane = << >>
     ELSE y_plane \in [0..(mb_count - 1) ->
                         {"gray", "blank", "INxN", "I16x16", "own", "other"}]

(* However far slice_qp_y and the mb_qp_deltas stray, the QP a macroblock is
   dequantised with has a row of LEVEL_SCALE and a shift: it is wrapped
   before the residual is read (frame.rs 113-114, wrap_qp).                *)
QpLegal == phase \in {"residual", "reconstruct"} => qp_y \in 0..51

(* The planes are written once in the size the SPS declares, which no bit pays
   for, and beyond that only for bits that were given: whatever fails on the
   way, a macroblock written by the loop has cost at least the five bits of the
   shortest header, because a header that runs out of bits ends the decode while
   one out of scope has been read that far (frame.rs 76-78, 94-111).       *)
UnderWay == IF phase \in {"residual", "reconstruct"} THEN 1 ELSE 0
WorkBounded == 5 * (written + UnderWay) <= 5 * mb_count + (bits - left)

(* Every call returns, with a frame or with an error.                      *)
Returns == <>(phase \in {"ok", "err"})
=============================================================================
