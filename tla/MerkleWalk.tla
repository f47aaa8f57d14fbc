----------------------------- MODULE MerkleWalk -----------------------------
(***************************************************************************)
(* merkle_root, merkle_path and verify_merkle_path as the three loops they *)
(* are, run one after the other over one vector of leaves: a host commits  *)
(* to the leaves, builds the path of one index, and a verifier walks that  *)
(* path from a leaf presented to it.  levels and trail record what the     *)
(* loops computed and overwrote.                                           *)
(***************************************************************************)
EXTENDS Merkle

CONSTANTS
  LeafVecs,   (* the leaf vectors a host may commit to                     *)
  Indices,    (* the indices a path may be asked for, out of range too     *)
  Presented   (* the leaves that may be presented to the verifier          *)

ASSUME LeafVecsAssumption == \A v \in LeafVecs : IsVec(v)
ASSUME IndicesAssumption == Indices \subseteq Nat

VARIABLES
  pc,         (* which loop runs, or how the walk ended                    *)
  leaves, index, presented,
  level,      (* the loop variable of merkle_root and of merkle_path       *)
  levels,     (* every level merkle_root went through                      *)
  root,
  curIdx,     (* current_idx of merkle_path                                *)
  trail,      (* every value of current_idx                                *)
  siblings,
  current, idx, k   (* the loop of verify_merkle_path                      *)

given == <<leaves, index, presented>>
vars == <<pc, given, level, levels, root, curIdx, trail, siblings,
          current, idx, k>>

Empty == [len |-> 0, at |-> [i \in {} |-> 0]]

Init ==
  /\ leaves \in LeafVecs
  /\ index \in Indices
  /\ presented \in Presented
  /\ level = leaves
  /\ levels = Push(Empty, leaves)
  /\ trail = Push(Empty, index)
  /\ pc = "root"
  /\ root = ZeroHash
  /\ curIdx = index
  /\ siblings = Empty
  /\ current = presented
  /\ idx = index
  /\ k = 0

(* merkle_root: hash levels until one node is left.                        *)
RootLevel ==
  /\ pc = "root"
  /\ level.len > 1
  /\ level' = NextLevel(level)
  /\ levels' = Push(levels, NextLevel(level))
  /\ UNCHANGED <<pc, given, root, curIdx, trail, siblings, current, idx, k>>

(* Mutant: the loop is only left once no node remains.                     *)
Bug_RootNeverDone ==
  /\ pc = "root"
  /\ level.len < 1
  /\ root' = ZeroHash
  /\ level' = leaves
  /\ pc' = "path"
  /\ UNCHANGED <<given, levels, curIdx, trail, siblings, current, idx, k>>

RootDone ==
  /\ pc = "root"
  /\ level.len <= 1
  /\ root' = IF leaves.len = 0 THEN ZeroHash ELSE level.at[0]
  /\ level' = leaves
  /\ pc' = "path"
  /\ UNCHANGED <<given, levels, curIdx, trail, siblings, current, idx, k>>

(* merkle_path: no leaves, or an index beyond them, is InvalidPath.        *)
InvalidPath ==
  /\ pc = "path"
  /\ leaves.len = 0 \/ index >= leaves.len
  /\ pc' = "invalid_path"
  /\ UNCHANGED <<given, level, levels, root, curIdx, trail, siblings,
                 current, idx, k>>

(* Mutant: the index of the level above rounds up.                         *)
Bug_PathRoundsUp ==
  /\ pc = "path"
  /\ ~(leaves.len = 0 \/ index >= leaves.len)
  /\ level.len > 1
  /\ siblings' = Push(siblings, Sibling(level, curIdx))
  /\ level' = NextLevel(level)
  /\ curIdx' = (curIdx + 1) \div 2
  /\ trail' = Push(trail, (curIdx + 1) \div 2)
  /\ UNCHANGED <<pc, given, levels, root, current, idx, k>>

PathLevel ==
  /\ pc = "path"
  /\ ~(leaves.len = 0 \/ index >= leaves.len)
  /\ level.len > 1
  /\ siblings' = Push(siblings, Sibling(level, curIdx))
  /\ level' = NextLevel(level)
  /\ curIdx' = curIdx \div 2
  /\ trail' = Push(trail, curIdx \div 2)
  /\ UNCHANGED <<pc, given, levels, root, current, idx, k>>

PathDone ==
  /\ pc = "path"
  /\ ~(leaves.len = 0 \/ index >= leaves.len)
  /\ level.len <= 1
  /\ pc' = "verify"
  /\ UNCHANGED <<given, level, levels, root, curIdx, trail, siblings,
                 current, idx, k>>

(* verify_merkle_path: fold the siblings into the presented leaf.          *)
VerifyLevel ==
  /\ pc = "verify"
  /\ k < siblings.len
  /\ current' = Combine(current, siblings.at[k], idx)
  /\ idx' = idx \div 2
  /\ k' = k + 1
  /\ UNCHANGED <<pc, given, level, levels, root, curIdx, trail, siblings>>

VerifyDone ==
  /\ pc = "verify"
  /\ k = siblings.len
  /\ pc' = IF current = root THEN "accepted" ELSE "rejected"
  /\ UNCHANGED <<given, level, levels, root, curIdx, trail, siblings,
                 current, idx, k>>

Next == \/ RootLevel \/ RootDone
        \/ InvalidPath \/ PathLevel \/ PathDone
        \/ VerifyLevel \/ VerifyDone

Spec == Init /\ [][Next]_vars
FairSpec == Spec /\ WF_vars(Next)

Ended == {"invalid_path", "accepted", "rejected"}

-----------------------------------------------------------------------------
(* Everything the three loops store has the shape the code indexes it with. *)
TypeOK ==
  /\ pc \in {"root", "path", "verify"} \union Ended
  /\ leaves \in LeafVecs /\ index \in Indices /\ presented \in Presented
  /\ IsVec(level) /\ IsVec(levels) /\ IsVec(trail) /\ IsVec(siblings)
  /\ curIdx \in Nat /\ idx \in Nat
  /\ k \in 0..siblings.len

(* A walk along the path that merkle_path built ends in acceptance exactly
   for the leaf the path was built for: the odd-node rule of merkle_root,
   of merkle_path and of verify_merkle_path agree at every level of every
   tree, whatever its shape.                                               *)
WalkBinds ==
  /\ pc = "accepted" => presented = leaves.at[index]
  /\ pc = "rejected" => presented # leaves.at[index]

(* The completeness half alone, which needs nothing of the hash.           *)
OwnLeafAccepted ==
  pc = "rejected" => presented # leaves.at[index]

(* No level is read outside its bounds: merkle_path and the sibling index
   of the odd last node stay inside the level they index.                  *)
InBounds ==
  /\ pc = "path" /\ index < leaves.len => curIdx < level.len
  /\ pc = "verify" => idx < levels.at[k].len

(* The loops compute the tree of the closed forms of Merkle.               *)
LoopsAgree ==
  pc \in {"verify", "accepted", "rejected"} =>
    /\ root = MerkleRoot(leaves)
    /\ [index |-> index, siblings |-> siblings] = MerklePath(leaves, index)
    /\ pc # "verify" =>
         (pc = "accepted" <=> VerifyMerklePath(root, presented,
                                  [index |-> index, siblings |-> siblings]))

(* Every call returns: a level of more than one node shrinks.              *)
Terminates == <>(pc \in Ended)
=============================================================================
