------------------------------- MODULE M2Claim ------------------------------
(***************************************************************************)
(* The parts of an M2 claim and the clauses a verifier may check of them,  *)
(* from crates/m2-statement and the crates it calls.                       *)
(*                                                                         *)
(* A frame is its size in pixels, its luma as the vector of its 8x8 blocks *)
(* in raster order, and its two chroma planes.  The 64 bytes of a block    *)
(* are the pair of its upper and lower four rows, 32 bytes each and so as  *)
(* many as a digest has; they are hashed as two digests are, untagged.     *)
(* A signature is the triple of its name, key and message, so that it      *)
(* verifies for those alone.  The toy codec appears by its contract: a     *)
(* bitstream whose header and lengths are accepted decodes to the frame it *)
(* carries.                                                                *)
(***************************************************************************)
EXTENDS Merkle, Comparator

CONSTANTS
  Claims,           (* what may be put to the verifier                     *)
  PlanePsnr(_, _)   (* psnr_fixed of the SSE between two planes            *)

BlockColumns(frame) == frame.width \div 8
BlockRows(frame) == frame.height \div 8
BlockCount(frame) == BlockColumns(frame) * BlockRows(frame)

(* Every block has two halves.                                             *)
BlocksAreHalves(frame) ==
  \A b \in 0..(BlockCount(frame) - 1) :
    frame.y.at[b] = <<frame.y.at[b][1], frame.y.at[b][2]>>

(* A claim is its five parts; sizes are unsigned, and the paths and their
   siblings are Vecs.                                                      *)
ASSUME ClaimsAssumption ==
  \A c \in Claims :
    /\ c = [signed |-> c.signed, bitstream |-> c.bitstream, tolerance |-> c.tolerance,
            original |-> c.original, paths |-> c.paths]
    /\ c.original.width \in Nat /\ c.original.height \in Nat
    /\ c.paths.len \in Nat
    /\ BlocksAreHalves(c.original)
    /\ \A b \in 0..(c.paths.len - 1) : c.paths.at[b].siblings.len \in Nat

(* SHA-256 over the rows of a block, which are those of its two halves.    *)
HashBlock(frame, bx, by) ==
  LET block == frame.y.at[by * BlockColumns(frame) + bx]
  IN  H(block[1], block[2])

BlockLeaf(frame, i) ==
  HashBlock(frame, i % BlockColumns(frame), i \div BlockColumns(frame))

FrameMerkleLeaves(frame) ==
  Vec(BlockCount(frame), LAMBDA i : BlockLeaf(frame, i))

Sign(pubkey, body) == <<"ed25519", pubkey, body>>

SignManifest(body, pubkey) ==
  [body |-> body, pubkey |-> pubkey, signature |-> Sign(pubkey, body)]

VerifyManifest(signed) == signed.signature = Sign(signed.pubkey, signed.body)

(* decode_toy succeeds: the guards on size, chroma format, QP and lengths. *)
DecodeOk(bitstream) ==
  /\ bitstream.width # 0 /\ bitstream.height # 0
  /\ bitstream.width % 16 = 0 /\ bitstream.height % 16 = 0
  /\ bitstream.chroma_format = 1
  /\ bitstream.qp <= 51
  /\ bitstream.lengths_fit

FramePsnr(decoded, original) ==
  [p \in Planes |-> PlanePsnr(decoded[p], original[p])]

-----------------------------------------------------------------------------
(* The clauses of a claim.                                                 *)

SignatureValid(c) == VerifyManifest(c.signed)

PathCountMatches(c) == c.paths.len = BlockCount(c.original)

(* Mutant: every path is checked against the first block.                  *)
Bug_FirstBlockOnly(c, i) ==
  VerifyMerklePath(c.signed.body.root, BlockLeaf(c.original, 0), c.paths.at[i])

BlockAuthentic(c, i) ==
  VerifyMerklePath(c.signed.body.root, BlockLeaf(c.original, i), c.paths.at[i])

DecodesToSize(c) ==
  /\ DecodeOk(c.bitstream)
  /\ c.bitstream.width = c.original.width
  /\ c.bitstream.height = c.original.height

CloseEnough(c) ==
  MeetsThreshold(FramePsnr(c.bitstream.decoded, c.original), c.tolerance)

(* The claim as the statement words it, with no order of checking.         *)
ClaimHolds(c) ==
  /\ SignatureValid(c)
  /\ PathCountMatches(c)
  /\ \A i \in 0..(BlockCount(c.original) - 1) : BlockAuthentic(c, i)
  /\ DecodesToSize(c)
  /\ CloseEnough(c)

(* Ok, and the variants of ClaimError.                                     *)
Pending == [kind |-> "pending", block_index |-> 0]
Verdict(kind) == [kind |-> kind, block_index |-> 0]
MerklePathInvalid(i) == [kind |-> "MerklePathInvalid", block_index |-> i]

Verdicts(c) ==
  {Verdict("Ok"), Verdict("ManifestSignatureInvalid"),
   Verdict("MerklePathCountMismatch"), Verdict("DecodeFailed"),
   Verdict("PsnrBelowTolerance")}
  \union {MerklePathInvalid(i) : i \in 0..(BlockCount(c.original) - 1)}

(* The one verdict a claim deserves: Ok iff it holds, else the error of the
   first clause that fails, and of the first block that is not authentic.  *)
Deserves(c, v) ==
  \/ v = Verdict("Ok") /\ ClaimHolds(c)
  \/ v = Verdict("ManifestSignatureInvalid") /\ ~SignatureValid(c)
  \/ /\ v = Verdict("MerklePathCountMismatch")
     /\ SignatureValid(c) /\ ~PathCountMatches(c)
  \/ \E i \in 0..(BlockCount(c.original) - 1) :
       /\ v = MerklePathInvalid(i)
       /\ SignatureValid(c) /\ PathCountMatches(c)
       /\ ~BlockAuthentic(c, i)
       /\ \A j \in 0..(i - 1) : BlockAuthentic(c, j)
  \/ /\ v \in {Verdict("DecodeFailed"), Verdict("PsnrBelowTolerance")}
     /\ SignatureValid(c) /\ PathCountMatches(c)
     /\ \A i \in 0..(BlockCount(c.original) - 1) : BlockAuthentic(c, i)
     /\ v = Verdict("DecodeFailed") <=> ~DecodesToSize(c)
     /\ v = Verdict("PsnrBelowTolerance") => ~CloseEnough(c)
=============================================================================
