------------------------------- MODULE Merkle -------------------------------
(***************************************************************************)
(* The Merkle tree of crates/manifest: root, authentication path and path  *)
(* check.  SHA-256 of two concatenated digests is the constant operator H, *)
(* about which nothing is assumed here; digests are uninterpreted values.  *)
(*                                                                         *)
(* Rust vectors are zero-based, so a Vec is a record of its length and a   *)
(* function from 0..len-1.                                                 *)
(***************************************************************************)
EXTENDS Naturals

CONSTANTS
  H(_, _),    (* SHA-256 of the concatenation of two digests               *)
  ZeroHash    (* [0u8; 32], the root of no leaves                          *)

IsVec(v) == /\ v.len \in Nat
            /\ DOMAIN v.at = 0..(v.len - 1)

Vec(n, f(_)) == [len |-> n, at |-> [i \in 0..(n - 1) |-> f(i)]]

Push(v, x) == Vec(v.len + 1, LAMBDA i : IF i = v.len THEN x ELSE v.at[i])

(* One round of hashing: pairs of neighbours, the odd last node paired with
   itself.                                                                 *)
NextLevel(level) ==
  Vec((level.len + 1) \div 2,
      LAMBDA p : H(level.at[2 * p],
                   level.at[IF 2 * p + 1 < level.len THEN 2 * p + 1 ELSE 2 * p]))

(* Mutant: the odd last node is paired with its left neighbour.            *)
Bug_SiblingOfLastNode(level, idx) ==
  LET s == IF idx % 2 = 0 THEN idx + 1 ELSE idx - 1
  IN  level.at[IF s < level.len THEN s ELSE IF idx = 0 THEN 0 ELSE idx - 1]

(* The node that is hashed together with node idx of a level.              *)
Sibling(level, idx) ==
  LET s == IF idx % 2 = 0 THEN idx + 1 ELSE idx - 1
  IN  level.at[IF s < level.len THEN s ELSE idx]

(* What a verifier at node idx computes from its node and the sibling.     *)
Combine(current, sibling, idx) ==
  IF idx % 2 = 0 THEN H(current, sibling) ELSE H(sibling, current)

-----------------------------------------------------------------------------
(* The same three functions in closed form, for the modules that use a     *)
(* whole tree in one step.                                                 *)

LevelOf(leaves) ==
  LET L[k \in 0..leaves.len] == IF k = 0 THEN leaves ELSE NextLevel(L[k - 1])
  IN  L

Height(leaves) ==
  LET L == LevelOf(leaves)
  IN  CHOOSE k \in 0..leaves.len : L[k].len = 1 /\ \A j \in 0..(k - 1) : L[j].len > 1

MerkleRoot(leaves) ==
  IF leaves.len = 0 THEN ZeroHash ELSE LevelOf(leaves)[Height(leaves)].at[0]

(* The values that idx /= 2 runs through in n rounds.                      *)
Halvings(idx, n) ==
  LET I[k \in 0..n] == IF k = 0 THEN idx ELSE I[k - 1] \div 2
  IN  I

MerklePath(leaves, index) ==
  LET L == LevelOf(leaves)
      I == Halvings(index, Height(leaves))
  IN  [index    |-> index,
       siblings |-> Vec(Height(leaves), LAMBDA k : Sibling(L[k], I[k]))]

(* Mutant: the index is not halved on the way up.                          *)
Bug_FoldKeepsIndex(leaf, path) ==
  LET Current[k \in 0..path.siblings.len] ==
        IF k = 0 THEN leaf
        ELSE Combine(Current[k - 1], path.siblings.at[k - 1], path.index)
  IN  Current

(* The values of current: the siblings folded into the leaf one by one.    *)
Folded(leaf, path) ==
  LET I == Halvings(path.index, path.siblings.len)
      Current[k \in 0..path.siblings.len] ==
        IF k = 0 THEN leaf
        ELSE Combine(Current[k - 1], path.siblings.at[k - 1], I[k - 1])
  IN  Current

VerifyMerklePath(root, leaf, path) ==
  Folded(leaf, path)[path.siblings.len] = root
=============================================================================
