------------------------------ MODULE ToyPlane ------------------------------
(***************************************************************************)
(* encode_plane followed by decode_plane over one plane, a block per step: *)
(* the two loops number the blocks, and the pixels inside them, on their   *)
(* own, and have to agree.                                                 *)
(***************************************************************************)
EXTENDS ToyCodec

CONSTANTS
  SourcePlanes,  (* [width, height, at]: sizes are multiples of 8             *)
  Qps

ASSUME QpsAssumption == Qps \subseteq 0..51

(* What encode_toy lets through, with at least one block in it.            *)
ASSUME PlanesAssumption ==
  \A s \in SourcePlanes :
    /\ s.width \in Nat /\ s.height \in Nat /\ s.width > 0 /\ s.height > 0
    /\ s.width % 8 = 0 /\ s.height % 8 = 0
    /\ s.at \in [0..(s.width * s.height - 1) -> 0..255]

VARIABLES
  plane, qp,
  phase,         (* encode, decode or done                                    *)
  by, bx,     (* the block loops                                           *)
  offset,        (* where the block's coefficients start                      *)
  coeffs,     (* what encode_plane has written so far                      *)
  out         (* what decode_plane has written so far                      *)

planeVars == <<plane, qp, phase, by, bx, offset, coeffs, out>>

PlaneCols == plane.width \div 8
PlaneRows == plane.height \div 8
Size == plane.width * plane.height

(* The place in the plane of cell i of block (by, bx).                     *)
PixelAt(i) == (by * 8 + i \div 8) * plane.width + bx * 8 + (i % 8)

(* The cell of a block that a place of the plane falls in.                 *)
CellAt(p) == ((p \div plane.width) % 8) * 8 + ((p % plane.width) % 8)

InBlock(p) ==
  (p \div plane.width) \div 8 = by /\ (p % plane.width) \div 8 = bx

PlaneInit ==
  /\ plane \in SourcePlanes
  /\ qp \in Qps
  /\ phase = "encode"
  /\ by = 0 /\ bx = 0 /\ offset = 0
  /\ coeffs = [p \in 0..(Size - 1) |-> 0]
  /\ out = [p \in 0..(Size - 1) |-> 0]

(* The next block of the raster, or the start of what follows.             *)
Advance(next) ==
  IF bx + 1 < PlaneCols THEN bx' = bx + 1 /\ UNCHANGED by /\ offset' = offset + 64 /\ UNCHANGED phase
  ELSE IF by + 1 < PlaneRows THEN bx' = 0 /\ by' = by + 1 /\ offset' = offset + 64 /\ UNCHANGED phase
  ELSE by' = 0 /\ bx' = 0 /\ offset' = 0 /\ phase' = next

Encode ==
  /\ phase = "encode"
  /\ LET block == EncodeBlock([i \in Cells |-> plane.at[PixelAt(i)]], QuantStep(qp))
     IN  coeffs' = [p \in DOMAIN coeffs |->
                      IF p \in offset..(offset + 63) THEN block[p - offset] ELSE coeffs[p]]
  /\ Advance("decode")
  /\ UNCHANGED <<plane, qp, out>>

Decode ==
  /\ phase = "decode"
  /\ LET block == DecodeBlock([i \in Cells |-> coeffs[offset + i]], QuantStep(qp))
     IN  out' = [p \in DOMAIN out |->
                   IF InBlock(p) THEN block[CellAt(p)] ELSE out[p]]
  /\ Advance("done")
  /\ UNCHANGED <<plane, qp, coeffs>>

PlaneNext == Encode \/ Decode

PlaneSpec == PlaneInit /\ [][PlaneNext]_planeVars

-----------------------------------------------------------------------------
(* A decoded plane is the encoded one, pixel for pixel in its own place,
   to within half a quantisation step and the rounding; at QP 0 exactly.   *)
Faithful ==
  phase = "done" =>
    \A p \in DOMAIN out :
      /\ 2 * Distance(out[p], plane.at[p]) <= QuantStep(qp) + 1
      /\ QuantStep(qp) = 1 => out[p] = plane.at[p]
=============================================================================
