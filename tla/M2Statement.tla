----------------------------- MODULE M2Statement ----------------------------
(***************************************************************************)
(* verify_m2_claim, check by check: each early return is an action, and    *)
(* the loop over the block paths takes one step per path.                  *)
(***************************************************************************)
EXTENDS M2Claim

CONSTANT Frames     (* the frames whose root may have been signed          *)

(* They have blocks: the host builds no fixture of a frame without any.    *)
ASSUME FramesAssumption ==
  \A f \in Frames : /\ f.width \in Nat /\ f.height \in Nat /\ BlockCount(f) > 0
                    /\ BlocksAreHalves(f)

VARIABLES
  claim,
  pc,        (* the check that comes next                                  *)
  i,         (* the loop index of the path check                           *)
  verdict

vars == <<claim, pc, i, verdict>>

Return(v) == verdict' = v /\ pc' = "returned"

Init == /\ claim \in Claims
        /\ pc = "signature"
        /\ i = 0
        /\ verdict = Pending

CheckSignature ==
  /\ pc = "signature"
  /\ IF SignatureValid(claim)
     THEN pc' = "path_count" /\ UNCHANGED verdict
     ELSE Return(Verdict("ManifestSignatureInvalid"))
  /\ UNCHANGED <<claim, i>>

CheckPathCount ==
  /\ pc = "path_count"
  /\ IF PathCountMatches(claim)
     THEN pc' = "paths" /\ UNCHANGED verdict
     ELSE Return(Verdict("MerklePathCountMismatch"))
  /\ UNCHANGED <<claim, i>>

(* Mutant: the loop goes on past a bad path and reports the last one.      *)
Bug_CheckPathKeepsGoing ==
  /\ pc = "paths" /\ i < claim.paths.len
  /\ verdict' = IF BlockAuthentic(claim, i) THEN verdict ELSE MerklePathInvalid(i)
  /\ i' = i + 1
  /\ pc' = IF i' = claim.paths.len /\ verdict' # Pending THEN "returned" ELSE pc
  /\ UNCHANGED claim

CheckPath ==
  /\ pc = "paths"
  /\ i < claim.paths.len
  /\ IF BlockAuthentic(claim, i)
     THEN i' = i + 1 /\ UNCHANGED <<pc, verdict>>
     ELSE Return(MerklePathInvalid(i)) /\ UNCHANGED i
  /\ UNCHANGED claim

PathsDone ==
  /\ pc = "paths"
  /\ i = claim.paths.len
  /\ pc' = "decode"
  /\ UNCHANGED <<claim, i, verdict>>

Decode ==
  /\ pc = "decode"
  /\ IF DecodesToSize(claim)
     THEN pc' = "compare" /\ UNCHANGED verdict
     ELSE Return(Verdict("DecodeFailed"))
  /\ UNCHANGED <<claim, i>>

Compare ==
  /\ pc = "compare"
  /\ Return(Verdict(IF CloseEnough(claim) THEN "Ok" ELSE "PsnrBelowTolerance"))
  /\ UNCHANGED <<claim, i>>

Next == \/ CheckSignature \/ CheckPathCount \/ CheckPath \/ PathsDone
        \/ Decode \/ Compare

Spec == Init /\ [][Next]_vars /\ WF_vars(Next)

-----------------------------------------------------------------------------
(* The progress of the check has its type, and the loop index never leaves
   the vector of paths.                                                    *)
TypeOK ==
  /\ pc \in {"signature", "path_count", "paths", "decode", "compare", "returned"}
  /\ i \in Nat
  /\ pc = "paths" => i \in 0..claim.paths.len
  /\ (pc = "returned") <=> (verdict # Pending)

(* What a path of a block binds it to in the tree of a frame.  The length of
   a path is not checked (manifest 267-293), and a block is hashed like two
   digests are (m2-statement 61-69, manifest 204-212), so that only a path as
   long as the tree is high makes it a block of the frame.  Under a shorter
   one it is two neighbouring nodes of the tree, as 64 bytes; under a longer
   one the values folded from it run through a half of a block of the frame. *)
BoundByPath(f, block, path) ==
  LET leaves == FrameMerkleLeaves(f)
      L == LevelOf(leaves)
      above == Height(leaves) - path.siblings.len
      below == path.siblings.len - Height(leaves)
      blocks == {f.y.at[s] : s \in 0..(BlockCount(f) - 1)}
      Pair(level, p) ==
        <<level.at[2 * p], level.at[IF 2 * p + 1 < level.len THEN 2 * p + 1 ELSE 2 * p]>>
  IN  /\ above = 0 => block \in blocks
      /\ above > 0 => \E p \in 0..(L[above].len - 1) : block = Pair(L[above - 1], p)
      /\ below > 0 => \E signed \in blocks :
           Folded(H(block[1], block[2]), path)[below - 1] \in {signed[1], signed[2]}

(* Acceptance binds every luma block of the original to the frame whose root
   was signed, through its own path and as far as that path goes, whatever
   the lengths and indices of the paths that come with the claim.          *)
AcceptedBlocksAreBound ==
  verdict = Verdict("Ok") =>
    \A f \in Frames :
      MerkleRoot(FrameMerkleLeaves(f)) = claim.signed.body.root =>
        \A b \in 0..(BlockCount(claim.original) - 1) :
          BoundByPath(f, claim.original.y.at[b], claim.paths.at[b])

(* The checks in the order of the code give exactly the verdict that the
   claim deserves, and always give one.                                    *)
Contract == INSTANCE M2Contract WITH
  Claims <- Claims,
  Verdicts <- Verdicts,
  Deserves <- Deserves,
  Pending <- Pending,
  claim <- claim,
  verdict <- verdict

ImplementsContract == Contract!Spec
=============================================================================
