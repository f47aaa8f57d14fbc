---------------------------- MODULE MerkleProofs ----------------------------
(***************************************************************************)
(* The closed forms of the Merkle tree are what they are meant to be, for  *)
(* leaf vectors of every length: the levels are well defined and shrink to *)
(* a single node, and any chain of levels, of halved indices or of folded  *)
(* siblings that the loops go through is the one of the closed form.       *)
(* Induction over the naturals is the well-foundedness of <, which the     *)
(* library states without an operator parameter.                           *)
(***************************************************************************)
EXTENDS Merkle, Integers, WellFoundedInduction, TLAPS

(* SHA-256 taken as collision free.                                        *)
CollisionFree ==
  \A a, b, c, d : H(a, b) = H(c, d) => a = c /\ b = d

-----------------------------------------------------------------------------
LEMMA Least ==
  ASSUME NEW T, T \subseteq Nat, T # {}
  PROVE  \E x \in T : \A y \in T : x <= y
<1> DEFINE R == OpToRel(<, Nat)
<1>1. IsWellFoundedOn(R, Nat)
  BY NatLessThanWellFounded
<1>2. \A y, x \in Nat : y < x => <<y, x>> \in R
  BY DEF OpToRel
<1> HIDE DEF R
<1>3. PICK x \in T : \A y \in T : ~(<<y, x>> \in R)
  BY <1>1, WFMin
<1>4. \A y \in T : ~(y < x)
  BY <1>2, <1>3
<1> QED BY <1>3, <1>4

LEMMA SetInduction ==
  ASSUME NEW S, 0 \in S, \A n \in Nat : n \in S => n + 1 \in S
  PROVE  \A n \in Nat : n \in S
<1> DEFINE T == Nat \ S
<1> SUFFICES ASSUME T # {} PROVE FALSE
  OBVIOUS
<1>1. PICK x \in T : \A y \in T : x <= y
  BY Least
<1>2. x # 0 /\ x - 1 \in Nat
  BY <1>1
<1>3. x - 1 \in S
  BY <1>1, <1>2
<1> QED BY <1>1, <1>2, <1>3

(* The same up to a bound.                                                 *)
LEMMA BoundedInduction ==
  ASSUME NEW m \in Nat, NEW S, 0 \in S, \A n \in 0..(m - 1) : n \in S => n + 1 \in S
  PROVE  \A n \in 0..m : n \in S
<1> DEFINE T == {n \in Nat : n <= m => n \in S}
<1>1. 0 \in T
  OBVIOUS
<1>2. \A n \in Nat : n \in T => n + 1 \in T
  OBVIOUS
<1> HIDE DEF T
<1>3. \A n \in Nat : n \in T
  BY <1>1, <1>2, SetInduction
<1> QED BY <1>3 DEF T

-----------------------------------------------------------------------------
(* Push appends one element and keeps the others.                          *)
LEMMA PushIsVec ==
  ASSUME NEW v, IsVec(v), NEW x
  PROVE  /\ IsVec(Push(v, x))
         /\ Push(v, x).len = v.len + 1
         /\ \A i \in 0..(v.len - 1) : Push(v, x).at[i] = v.at[i]
         /\ Push(v, x).at[v.len] = x
BY DEF IsVec, Push, Vec

(* A level has a nonempty level above it, smaller unless it is one node.   *)
LEMMA NextLevelIsVec ==
  ASSUME NEW v, IsVec(v), v.len > 0
  PROVE  /\ IsVec(NextLevel(v))
         /\ NextLevel(v).len = (v.len + 1) \div 2
         /\ NextLevel(v).len > 0
         /\ v.len > 1 => NextLevel(v).len < v.len
         /\ \A p \in 0..(NextLevel(v).len - 1) :
              NextLevel(v).at[p] =
                H(v.at[2 * p], v.at[IF 2 * p + 1 < v.len THEN 2 * p + 1 ELSE 2 * p])
<1> DEFINE n == (v.len + 1) \div 2
           up(p) == H(v.at[2 * p], v.at[IF 2 * p + 1 < v.len THEN 2 * p + 1 ELSE 2 * p])
<1>1. NextLevel(v) = [len |-> n, at |-> [p \in 0..(n - 1) |-> up(p)]]
  BY DEF NextLevel, Vec
<1>2. v.len \in Nat /\ n \in Nat /\ n > 0 /\ (v.len > 1 => n < v.len)
  BY DEF IsVec
<1> HIDE DEF n, up
<1>3. /\ NextLevel(v).len = n
      /\ NextLevel(v).at = [p \in 0..(n - 1) |-> up(p)]
  BY <1>1
<1>4. IsVec(NextLevel(v))
  BY <1>2, <1>3 DEF IsVec
<1>5. \A p \in 0..(NextLevel(v).len - 1) : NextLevel(v).at[p] = up(p)
  BY <1>3
<1> QED BY <1>2, <1>3, <1>4, <1>5 DEF n, up

-----------------------------------------------------------------------------
(* The recursive definitions have a value: the one of n rounds extends to
   one of n + 1.                                                           *)
LEMMA LevelsExist ==
  ASSUME NEW leaves, NEW m \in Nat
  PROVE  \E g : g = [k \in 0..m |-> IF k = 0 THEN leaves ELSE NextLevel(g[k - 1])]
<1> DEFINE P(g, n) == g = [k \in 0..n |-> IF k = 0 THEN leaves ELSE NextLevel(g[k - 1])]
           S == {n \in Nat : \E g : P(g, n)}
<1>1. 0 \in S
  <2>1. P([k \in 0..0 |-> leaves], 0)
    OBVIOUS
  <2> QED BY <2>1
<1>2. ASSUME NEW n \in Nat, n \in S PROVE n + 1 \in S
  <2>1. PICK g : P(g, n)
    BY <1>2
  <2> DEFINE h == [k \in 0..(n + 1) |-> IF k = 0 THEN leaves ELSE NextLevel(g[k - 1])]
  <2>2. \A k \in 0..n : h[k] = g[k]
    BY <2>1
  <2>3. h[0] = leaves /\ \A k \in 1..(n + 1) : h[k] = NextLevel(g[k - 1])
    OBVIOUS
  <2>4. h = [k \in 0..(n + 1) |-> h[k]]
    OBVIOUS
  <2> HIDE DEF h
  <2>5. \A k \in 1..(n + 1) : h[k] = NextLevel(h[k - 1])
    <3> SUFFICES ASSUME NEW k \in 1..(n + 1) PROVE h[k] = NextLevel(h[k - 1])
      OBVIOUS
    <3>1. k - 1 \in 0..n /\ h[k] = NextLevel(g[k - 1])
      BY <2>3
    <3> QED BY <2>2, <3>1
  <2>6. \A k \in 0..(n + 1) : h[k] = IF k = 0 THEN leaves ELSE NextLevel(h[k - 1])
    BY <2>3, <2>5
  <2>7. P(h, n + 1)
    BY <2>4, <2>6, Zenon
  <2> QED BY <2>7
<1> HIDE DEF S
<1>3. m \in S
  BY <1>1, <1>2, SetInduction
<1> QED BY <1>3 DEF S

LEMMA HalvingsExist ==
  ASSUME NEW idx, NEW m \in Nat
  PROVE  \E g : g = [k \in 0..m |-> IF k = 0 THEN idx ELSE g[k - 1] \div 2]
<1> DEFINE P(g, n) == g = [k \in 0..n |-> IF k = 0 THEN idx ELSE g[k - 1] \div 2]
           S == {n \in Nat : \E g : P(g, n)}
<1>1. 0 \in S
  <2>1. P([k \in 0..0 |-> idx], 0)
    OBVIOUS
  <2> QED BY <2>1
<1>2. ASSUME NEW n \in Nat, n \in S PROVE n + 1 \in S
  <2>1. PICK g : P(g, n)
    BY <1>2
  <2> DEFINE h == [k \in 0..(n + 1) |-> IF k = 0 THEN idx ELSE g[k - 1] \div 2]
  <2>2. \A k \in 0..n : h[k] = g[k]
    BY <2>1
  <2>3. h[0] = idx /\ \A k \in 1..(n + 1) : h[k] = g[k - 1] \div 2
    OBVIOUS
  <2>4. h = [k \in 0..(n + 1) |-> h[k]]
    OBVIOUS
  <2> HIDE DEF h
  <2>5. \A k \in 1..(n + 1) : h[k] = h[k - 1] \div 2
    <3> SUFFICES ASSUME NEW k \in 1..(n + 1) PROVE h[k] = h[k - 1] \div 2
      OBVIOUS
    <3>1. k - 1 \in 0..n /\ h[k] = g[k - 1] \div 2
      BY <2>3
    <3> QED BY <2>2, <3>1
  <2>6. \A k \in 0..(n + 1) : h[k] = IF k = 0 THEN idx ELSE h[k - 1] \div 2
    BY <2>3, <2>5
  <2>7. P(h, n + 1)
    BY <2>4, <2>6, Zenon
  <2> QED BY <2>7
<1> HIDE DEF S
<1>3. m \in S
  BY <1>1, <1>2, SetInduction
<1> QED BY <1>3 DEF S

LEMMA FoldExists ==
  ASSUME NEW leaf, NEW at, NEW I, NEW m \in Nat
  PROVE  \E g : g = [k \in 0..m |-> IF k = 0 THEN leaf
                                    ELSE Combine(g[k - 1], at[k - 1], I[k - 1])]
<1> DEFINE P(g, n) == g = [k \in 0..n |-> IF k = 0 THEN leaf
                                          ELSE Combine(g[k - 1], at[k - 1], I[k - 1])]
           S == {n \in Nat : \E g : P(g, n)}
<1>1. 0 \in S
  <2>1. P([k \in 0..0 |-> leaf], 0)
    OBVIOUS
  <2> QED BY <2>1
<1>2. ASSUME NEW n \in Nat, n \in S PROVE n + 1 \in S
  <2>1. PICK g : P(g, n)
    BY <1>2
  <2> DEFINE h == [k \in 0..(n + 1) |-> IF k = 0 THEN leaf
                                        ELSE Combine(g[k - 1], at[k - 1], I[k - 1])]
  <2>2. \A k \in 0..n : h[k] = g[k]
    BY <2>1
  <2>3. h[0] = leaf /\ \A k \in 1..(n + 1) : h[k] = Combine(g[k - 1], at[k - 1], I[k - 1])
    OBVIOUS
  <2>4. h = [k \in 0..(n + 1) |-> h[k]]
    OBVIOUS
  <2> HIDE DEF h
  <2>5. \A k \in 1..(n + 1) : h[k] = Combine(h[k - 1], at[k - 1], I[k - 1])
    <3> SUFFICES ASSUME NEW k \in 1..(n + 1) PROVE h[k] = Combine(h[k - 1], at[k - 1], I[k - 1])
      OBVIOUS
    <3>1. k - 1 \in 0..n /\ h[k] = Combine(g[k - 1], at[k - 1], I[k - 1])
      BY <2>3
    <3> QED BY <2>2, <3>1
  <2>6. \A k \in 0..(n + 1) : h[k] = IF k = 0 THEN leaf ELSE Combine(h[k - 1], at[k - 1], I[k - 1])
    BY <2>3, <2>5
  <2>7. P(h, n + 1)
    BY <2>4, <2>6, Zenon
  <2> QED BY <2>7
<1> HIDE DEF S
<1>3. m \in S
  BY <1>1, <1>2, SetInduction
<1> QED BY <1>3 DEF S

LEMMA LevelOfIs ==
  ASSUME NEW leaves, leaves.len \in Nat
  PROVE  /\ LevelOf(leaves)[0] = leaves
         /\ \A k \in 0..(leaves.len - 1) :
              LevelOf(leaves)[k + 1] = NextLevel(LevelOf(leaves)[k])
<1>1. LevelOf(leaves) = [k \in 0..leaves.len |->
        IF k = 0 THEN leaves ELSE NextLevel(LevelOf(leaves)[k - 1])]
  BY LevelsExist DEF LevelOf
<1> HIDE DEF LevelOf
<1> QED BY <1>1

LEMMA HalvingsIs ==
  ASSUME NEW idx, NEW n \in Nat
  PROVE  /\ Halvings(idx, n)[0] = idx
         /\ \A k \in 0..(n - 1) : Halvings(idx, n)[k + 1] = Halvings(idx, n)[k] \div 2
<1>1. Halvings(idx, n) = [k \in 0..n |->
        IF k = 0 THEN idx ELSE Halvings(idx, n)[k - 1] \div 2]
  BY HalvingsExist DEF Halvings
<1> HIDE DEF Halvings
<1> QED BY <1>1

LEMMA FoldedIs ==
  ASSUME NEW leaf, NEW path, path.siblings.len \in Nat
  PROVE  LET I == Halvings(path.index, path.siblings.len)
         IN  /\ Folded(leaf, path)[0] = leaf
             /\ \A k \in 0..(path.siblings.len - 1) :
                  Folded(leaf, path)[k + 1] =
                    Combine(Folded(leaf, path)[k], path.siblings.at[k], I[k])
<1> DEFINE I == Halvings(path.index, path.siblings.len)
<1> HIDE DEF I
<1>1. Folded(leaf, path) = [k \in 0..path.siblings.len |->
        IF k = 0 THEN leaf
        ELSE Combine(Folded(leaf, path)[k - 1], path.siblings.at[k - 1], I[k - 1])]
  BY FoldExists DEF Folded, I
<1> HIDE DEF Folded
<1>2. /\ Folded(leaf, path)[0] = leaf
      /\ \A k \in 0..(path.siblings.len - 1) :
           Folded(leaf, path)[k + 1] =
             Combine(Folded(leaf, path)[k], path.siblings.at[k], I[k])
  BY <1>1
<1> QED BY <1>2 DEF I

-----------------------------------------------------------------------------
(* The node above node i is the combination of i and its sibling, for an
   even node, an odd node and the last node that is its own sibling.       *)
LEMMA CombineIsParent ==
  ASSUME NEW v, IsVec(v), v.len > 1, NEW i \in 0..(v.len - 1)
  PROVE  /\ i \div 2 \in 0..(NextLevel(v).len - 1)
         /\ Combine(v.at[i], Sibling(v, i), i) = NextLevel(v).at[i \div 2]
<1>0. v.len \in Nat /\ v.len > 0
  BY DEF IsVec
<1>1. i \div 2 \in 0..(NextLevel(v).len - 1)
  BY <1>0, NextLevelIsVec
<1>2. NextLevel(v).at[i \div 2] =
        H(v.at[2 * (i \div 2)],
          v.at[IF 2 * (i \div 2) + 1 < v.len THEN 2 * (i \div 2) + 1
               ELSE 2 * (i \div 2)])
  BY <1>0, <1>1, NextLevelIsVec
<1>3. CASE i % 2 = 0
  <2>1. 2 * (i \div 2) = i
    BY <1>3
  <2>2. Sibling(v, i) = v.at[IF i + 1 < v.len THEN i + 1 ELSE i]
    BY <1>3 DEF Sibling
  <2> QED BY <1>1, <1>2, <1>3, <2>1, <2>2 DEF Combine
<1>4. CASE i % 2 # 0
  <2>1. 2 * (i \div 2) = i - 1 /\ 2 * (i \div 2) + 1 = i
    BY <1>4
  <2>2. Sibling(v, i) = v.at[i - 1]
    BY <1>0, <1>4 DEF Sibling
  <2>3. NextLevel(v).at[i \div 2] = H(v.at[i - 1], v.at[i])
    BY <1>0, <1>2, <2>1
  <2> QED BY <1>1, <1>4, <2>2, <2>3 DEF Combine
<1> QED BY <1>3, <1>4

(* Without collisions, only the right node combines into that parent.      *)
LEMMA CombineBinds ==
  ASSUME CollisionFree, NEW v, IsVec(v), v.len > 1,
         NEW i \in 0..(v.len - 1), NEW c,
         Combine(c, Sibling(v, i), i) = NextLevel(v).at[i \div 2]
  PROVE  c = v.at[i]
<1>1. Combine(c, Sibling(v, i), i) = Combine(v.at[i], Sibling(v, i), i)
  BY CombineIsParent
<1>2. CASE i % 2 = 0
  <2>1. H(c, Sibling(v, i)) = H(v.at[i], Sibling(v, i))
    BY <1>1, <1>2 DEF Combine
  <2> QED BY <2>1 DEF CollisionFree
<1>3. CASE i % 2 # 0
  <2>1. H(Sibling(v, i), c) = H(Sibling(v, i), v.at[i])
    BY <1>1, <1>3 DEF Combine
  <2> QED BY <2>1 DEF CollisionFree
<1> QED BY <1>2, <1>3

-----------------------------------------------------------------------------
(* Up the levels the nodes at least keep falling by one until one is left. *)
LEMMA LevelsShrink ==
  ASSUME NEW leaves, IsVec(leaves), leaves.len > 0
  PROVE  \A k \in 0..leaves.len :
           /\ IsVec(LevelOf(leaves)[k])
           /\ LevelOf(leaves)[k].len \in Nat /\ LevelOf(leaves)[k].len > 0
           /\ LevelOf(leaves)[k].len = 1 \/ LevelOf(leaves)[k].len <= leaves.len - k
<1> DEFINE L == LevelOf(leaves)
           m == leaves.len
           S == {k \in 0..m : /\ IsVec(L[k]) /\ L[k].len > 0
                              /\ (L[k].len = 1 \/ L[k].len <= m - k)}
<1>1. m \in Nat /\ L[0] = leaves /\ \A k \in 0..(m - 1) : L[k + 1] = NextLevel(L[k])
  BY LevelOfIs DEF IsVec
<1> HIDE DEF L
<1>2. 0 \in S
  BY <1>1
<1>3. ASSUME NEW k \in 0..(m - 1), k \in S PROVE k + 1 \in S
  <2>1. L[k + 1] = NextLevel(L[k]) /\ IsVec(L[k]) /\ L[k].len > 0 /\ L[k].len \in Nat
    BY <1>1, <1>3 DEF IsVec
  <2>2. /\ IsVec(L[k + 1]) /\ L[k + 1].len > 0 /\ L[k + 1].len = (L[k].len + 1) \div 2
        /\ L[k].len > 1 => L[k + 1].len < L[k].len
    BY <2>1, NextLevelIsVec
  <2>3. L[k].len = 1 => L[k + 1].len = 1
    BY <2>2
  <2>4. L[k + 1].len \in Nat
    BY <2>2 DEF IsVec
  <2>5. L[k + 1].len = 1 \/ L[k + 1].len <= m - (k + 1)
    BY <1>1, <1>3, <2>1, <2>2, <2>3, <2>4
  <2> QED BY <1>1, <2>2, <2>5
<1> HIDE DEF S
<1>4. \A k \in 0..m : k \in S
  BY <1>1, <1>2, <1>3, BoundedInduction
<1>5. \A v : IsVec(v) => v.len \in Nat
  BY DEF IsVec
<1> QED BY <1>4, <1>5 DEF S, L

(* The first level of one node.                                            *)
LEMMA FirstSingle ==
  ASSUME NEW m \in Nat, NEW L, L[m].len = 1,
         \A k \in 0..m : L[k].len \in Nat /\ L[k].len > 0
  PROVE  \E k \in 0..m : L[k].len = 1 /\ \A j \in 0..(k - 1) : L[j].len > 1
<1> DEFINE T == {k \in 0..m : L[k].len = 1}
<1>1. T \subseteq Nat /\ T # {}
  OBVIOUS
<1> HIDE DEF T
<1>2. PICK x \in T : \A y \in T : x <= y
  BY <1>1, Least
<1>3. x \in 0..m /\ L[x].len = 1
  BY DEF T
<1>4. ASSUME NEW j \in 0..(x - 1) PROVE L[j].len > 1
  <2>1. j \in 0..m /\ ~(x <= j)
    BY <1>3
  <2>2. L[j].len # 1
    BY <1>2, <2>1 DEF T
  <2>3. L[j].len \in Nat /\ L[j].len > 0
    BY <2>1
  <2> QED BY <2>2, <2>3
<1> QED BY <1>3, <1>4

(* The tree over a nonempty vector: its height is that of the first level
   of one node, and the root is that node.                                 *)
LEMMA TreeIs ==
  ASSUME NEW leaves, IsVec(leaves), leaves.len > 0,
         NEW L, L = LevelOf(leaves), NEW h, h = Height(leaves)
  PROVE  /\ h \in 0..leaves.len /\ L[0] = leaves
         /\ \A j \in 0..h : IsVec(L[j]) /\ L[j].len > 0
         /\ \A j \in 0..(h - 1) : L[j].len > 1 /\ L[j + 1] = NextLevel(L[j])
         /\ L[h].len = 1
         /\ MerkleRoot(leaves) = L[h].at[0]
<1> PICK m : m = leaves.len
  OBVIOUS
<1>1. m \in Nat /\ L[0] = leaves /\ \A k \in 0..(m - 1) : L[k + 1] = NextLevel(L[k])
  BY LevelOfIs DEF IsVec
<1>2. \A k \in 0..m : /\ IsVec(L[k]) /\ L[k].len \in Nat /\ L[k].len > 0
                      /\ L[k].len = 1 \/ L[k].len <= m - k
  BY LevelsShrink
<1>3. \A k \in 0..m : L[k].len \in Nat /\ L[k].len > 0
  BY ONLY <1>2
<1>4. L[m].len = 1
  BY ONLY <1>1, <1>2
<1>7. \E k \in 0..m : L[k].len = 1 /\ \A j \in 0..(k - 1) : L[j].len > 1
  BY ONLY <1>1, <1>3, <1>4, FirstSingle
<1>8. h = CHOOSE k \in 0..m : L[k].len = 1 /\ \A j \in 0..(k - 1) : L[j].len > 1
  BY DEF Height
<1>9. h \in 0..m /\ L[h].len = 1 /\ \A j \in 0..(h - 1) : L[j].len > 1
  BY <1>7, <1>8, Zenon
<1>10. MerkleRoot(leaves) = L[h].at[0]
  BY DEF MerkleRoot
<1>11. \A j \in 0..h : j \in 0..m
  BY <1>1, <1>9
<1>12. \A j \in 0..(h - 1) : j \in 0..(m - 1)
  BY <1>1, <1>9
<1>13. \A j \in 0..h : IsVec(L[j]) /\ L[j].len > 0
  BY ONLY <1>2, <1>11
<1>14. \A j \in 0..(h - 1) : L[j].len > 1 /\ L[j + 1] = NextLevel(L[j])
  BY <1>1, <1>9, <1>12
<1> QED BY <1>1, <1>9, <1>10, <1>13, <1>14

(* A chain of levels from the leaves to a single node is that tree.        *)
LEMMA ChainIsTree ==
  ASSUME NEW leaves, IsVec(leaves), leaves.len > 0,
         NEW m \in Nat, NEW g, g[0] = leaves, g[m].len = 1,
         \A j \in 0..(m - 1) : g[j].len > 1 /\ g[j + 1] = NextLevel(g[j])
  PROVE  m = Height(leaves) /\ \A j \in 0..m : g[j] = LevelOf(leaves)[j]
<1> PICK L : L = LevelOf(leaves)
  OBVIOUS
<1> PICK h : h = Height(leaves)
  OBVIOUS
<1>1. /\ h \in 0..leaves.len /\ L[0] = leaves /\ L[h].len = 1 /\ leaves.len \in Nat
      /\ \A j \in 0..(h - 1) : L[j].len > 1 /\ L[j + 1] = NextLevel(L[j])
  BY TreeIs DEF IsVec
<1> DEFINE S == {j \in 0..m : j <= h /\ g[j] = L[j]}
<1>2. 0 \in S
  BY <1>1
<1>3. ASSUME NEW j \in 0..(m - 1), j \in S PROVE j + 1 \in S
  <2>1. j # h
    BY <1>1, <1>3
  <2>2. j \in 0..(h - 1)
    BY <1>1, <1>3, <2>1
  <2> QED BY <1>1, <1>3, <2>2
<1> HIDE DEF S
<1>4. \A j \in 0..m : j \in S
  BY <1>2, <1>3, BoundedInduction
<1>5. \A j \in 0..m : j <= h /\ g[j] = L[j]
  BY <1>4 DEF S
<1>6. m = h
  <2>1. m <= h /\ L[m].len = 1
    BY <1>5
  <2>2. ~(m \in 0..(h - 1))
    BY <1>1, <2>1
  <2> QED BY <1>1, <2>1, <2>2
<1> QED BY <1>5, <1>6

(* Any run of halvings is the one of the closed form.                      *)
LEMMA RunIsHalvings ==
  ASSUME NEW idx, NEW n \in Nat, NEW t, t[0] = idx,
         \A j \in 0..(n - 1) : t[j + 1] = t[j] \div 2
  PROVE  \A j \in 0..n : t[j] = Halvings(idx, n)[j]
<1> PICK I : I = Halvings(idx, n)
  OBVIOUS
<1>1. I[0] = idx /\ \A j \in 0..(n - 1) : I[j + 1] = I[j] \div 2
  BY HalvingsIs
<1> DEFINE S == {j \in 0..n : t[j] = I[j]}
<1>2. 0 \in S
  BY <1>1
<1>3. \A j \in 0..(n - 1) : j \in S => j + 1 \in S
  BY <1>1
<1> HIDE DEF S
<1>4. \A j \in 0..n : j \in S
  BY <1>2, <1>3, BoundedInduction
<1> QED BY <1>4 DEF S
-----------------------------------------------------------------------------
(* The node that the path of index goes through at level j of its tree.    *)
LEMMA PathInTree ==
  ASSUME NEW leaves, IsVec(leaves), NEW index \in 0..(leaves.len - 1),
         NEW L, L = LevelOf(leaves), NEW h, h = Height(leaves),
         NEW I, I = Halvings(index, h)
  PROVE  \A j \in 0..h : I[j] \in 0..(L[j].len - 1)
<1>1. leaves.len \in Nat /\ leaves.len > 0
  BY DEF IsVec
<1>2. /\ h \in Nat /\ L[0] = leaves
      /\ \A j \in 0..h : IsVec(L[j]) /\ L[j].len > 0
      /\ \A j \in 0..(h - 1) : L[j].len > 1 /\ L[j + 1] = NextLevel(L[j])
  BY <1>1, TreeIs
<1>3. I[0] = index /\ \A j \in 0..(h - 1) : I[j + 1] = I[j] \div 2
  BY <1>2, HalvingsIs
<1> DEFINE S == {j \in 0..h : I[j] \in 0..(L[j].len - 1)}
<1>4. 0 \in S
  BY <1>2, <1>3
<1>5. ASSUME NEW j \in 0..(h - 1), j \in S PROVE j + 1 \in S
  <2>1. IsVec(L[j]) /\ L[j].len > 1 /\ I[j] \in 0..(L[j].len - 1) /\ j + 1 \in 0..h
    BY <1>2, <1>5
  <2>2. I[j] \div 2 \in 0..(NextLevel(L[j]).len - 1)
    BY <2>1, CombineIsParent
  <2> QED BY <1>2, <1>3, <2>1, <2>2
<1> HIDE DEF S
<1>6. \A j \in 0..h : j \in S
  BY <1>2, <1>4, <1>5, BoundedInduction
<1> QED BY <1>6 DEF S

(* Completeness: the path that merkle_path builds verifies its own leaf
   under merkle_root, whatever the hash.                                   *)
THEOREM OwnPathVerifies ==
  ASSUME NEW leaves, IsVec(leaves), NEW index \in 0..(leaves.len - 1)
  PROVE  VerifyMerklePath(MerkleRoot(leaves), leaves.at[index], MerklePath(leaves, index))
<1> PICK L : L = LevelOf(leaves)
  OBVIOUS
<1> PICK h : h = Height(leaves)
  OBVIOUS
<1> PICK I : I = Halvings(index, h)
  OBVIOUS
<1> PICK path : path = MerklePath(leaves, index)
  OBVIOUS
<1> PICK F : F = Folded(leaves.at[index], path)
  OBVIOUS
<1>1. leaves.len \in Nat /\ leaves.len > 0
  BY DEF IsVec
<1>2. /\ h \in Nat /\ L[0] = leaves /\ L[h].len = 1
      /\ \A j \in 0..h : IsVec(L[j]) /\ L[j].len > 0
      /\ \A j \in 0..(h - 1) : L[j].len > 1 /\ L[j + 1] = NextLevel(L[j])
      /\ MerkleRoot(leaves) = L[h].at[0]
  BY <1>1, TreeIs
<1>3. /\ path.index = index /\ path.siblings.len = h
      /\ \A j \in 0..(h - 1) : path.siblings.at[j] = Sibling(L[j], I[j])
  BY DEF MerklePath, Vec
<1>4. /\ F[0] = leaves.at[index]
      /\ \A j \in 0..(h - 1) : F[j + 1] = Combine(F[j], path.siblings.at[j], I[j])
  BY <1>2, <1>3, FoldedIs
<1>5. /\ I[0] = index /\ \A j \in 0..(h - 1) : I[j + 1] = I[j] \div 2
      /\ \A j \in 0..h : I[j] \in 0..(L[j].len - 1)
  BY <1>2, HalvingsIs, PathInTree
<1> DEFINE S == {j \in 0..h : F[j] = L[j].at[I[j]]}
<1>6. 0 \in S
  BY <1>2, <1>4, <1>5
<1>7. ASSUME NEW j \in 0..(h - 1), j \in S PROVE j + 1 \in S
  <2>1. j \in 0..h /\ j + 1 \in 0..h
    BY <1>2
  <2>2. F[j + 1] = Combine(L[j].at[I[j]], Sibling(L[j], I[j]), I[j])
    BY <1>3, <1>4, <1>7
  <2>3. Combine(L[j].at[I[j]], Sibling(L[j], I[j]), I[j]) = NextLevel(L[j]).at[I[j] \div 2]
    BY <1>2, <1>5, <2>1, CombineIsParent
  <2> QED BY <1>2, <1>5, <2>1, <2>2, <2>3
<1> HIDE DEF S
<1>8. h \in S
  <2>1. h \in 0..h
    BY <1>2
  <2> QED BY <1>2, <1>6, <1>7, <2>1, BoundedInduction
<1>9. F[h] = L[h].at[I[h]] /\ I[h] \in 0..(L[h].len - 1)
  BY <1>2, <1>5, <1>8 DEF S
<1>10. I[h] = 0
  BY <1>2, <1>9
<1> QED BY <1>2, <1>3, <1>9, <1>10 DEF VerifyMerklePath

-----------------------------------------------------------------------------
(* Going down from the root along a path that verifies, every value is a
   node of the tree, as long as neither the path nor the tree has ended.   *)
LEMMA DescendsTheTree ==
  ASSUME CollisionFree, NEW leaves, IsVec(leaves), leaves.len > 0,
         NEW leaf, NEW path, path.siblings.len \in Nat,
         VerifyMerklePath(MerkleRoot(leaves), leaf, path),
         NEW L, L = LevelOf(leaves), NEW h, h = Height(leaves),
         NEW F, F = Folded(leaf, path), NEW m, m = path.siblings.len
  PROVE  \A j \in 0..m : j <= h =>
           \E p \in 0..(L[h - j].len - 1) : F[m - j] = L[h - j].at[p]
<1>1. /\ h \in Nat /\ L[h].len = 1 /\ MerkleRoot(leaves) = L[h].at[0]
      /\ \A j \in 0..h : IsVec(L[j]) /\ L[j].len > 0
      /\ \A j \in 0..(h - 1) : L[j].len > 1 /\ L[j + 1] = NextLevel(L[j])
  <2>1. /\ h \in 0..leaves.len /\ L[0] = leaves
        /\ \A j \in 0..h : IsVec(L[j]) /\ L[j].len > 0
        /\ \A j \in 0..(h - 1) : L[j].len > 1 /\ L[j + 1] = NextLevel(L[j])
        /\ L[h].len = 1
        /\ MerkleRoot(leaves) = L[h].at[0]
    BY ONLY TreeIs, IsVec(leaves), leaves.len > 0, L = LevelOf(leaves), h = Height(leaves)
  <2>2. leaves.len \in Nat
    BY DEF IsVec
  <2>3. h \in Nat
    BY <2>1, <2>2
  <2> QED BY ONLY <2>1, <2>3
<1> PICK I : I = Halvings(path.index, m)
  OBVIOUS
<1>2. \A j \in 0..(m - 1) : F[j + 1] = Combine(F[j], path.siblings.at[j], I[j])
  BY FoldedIs
<1>3. m \in Nat /\ F[m] = L[h].at[0]
  BY <1>1 DEF VerifyMerklePath
<1> DEFINE Node(j) == \E p \in 0..(L[h - j].len - 1) : F[m - j] = L[h - j].at[p]
           S == {j \in 0..m : j <= h => Node(j)}
<1>4. 0 \in S
  <2>1. h - 0 = h /\ m - 0 = m /\ 0 \in 0..(L[h].len - 1)
    BY <1>1, <1>3
  <2>2. Node(0)
    BY <1>3, <2>1
  <2> QED BY <1>3, <2>2
<1>5. ASSUME NEW j \in 0..(m - 1), j \in S PROVE j + 1 \in S
  <2>1. SUFFICES ASSUME j + 1 <= h PROVE Node(j + 1)
    BY <1>3
  <2> PICK u : u = h - (j + 1)
    OBVIOUS
  <2> PICK n : n = m - (j + 1)
    OBVIOUS
  <2>2. /\ u \in 0..(h - 1) /\ u + 1 = h - j /\ n \in 0..(m - 1) /\ n + 1 = m - j
        /\ u \in 0..h
    BY <1>1, <1>3, <2>1
  <2>3. Node(j)
    BY <1>5, <2>1, <1>1, <1>3
  <2>4. PICK p \in 0..(L[u + 1].len - 1) : F[n + 1] = L[u + 1].at[p]
    BY <2>2, <2>3
  <2>5. IsVec(L[u]) /\ L[u].len > 1 /\ L[u + 1] = NextLevel(L[u]) /\ L[u].len \in Nat
    BY <1>1, <2>2 DEF IsVec
  <2> DEFINE q == IF 2 * p + 1 < L[u].len THEN 2 * p + 1 ELSE 2 * p
  <2>6. /\ L[u + 1].len = (L[u].len + 1) \div 2
        /\ L[u + 1].at[p] = H(L[u].at[2 * p], L[u].at[q])
    BY <2>5, NextLevelIsVec
  <2>7. 2 * p \in 0..(L[u].len - 1) /\ q \in 0..(L[u].len - 1)
    <3>1. p \in Nat /\ p <= (L[u].len + 1) \div 2 - 1
      BY <2>5, <2>6
    <3> QED BY <2>5, <3>1
  <2> HIDE DEF q
  <2>8. F[n + 1] = H(F[n], path.siblings.at[n]) \/ F[n + 1] = H(path.siblings.at[n], F[n])
    BY <1>2, <2>2 DEF Combine
  <2>9. F[n] = L[u].at[2 * p] \/ F[n] = L[u].at[q]
    BY <2>4, <2>6, <2>8 DEF CollisionFree
  <2> QED BY <2>7, <2>9
<1> HIDE DEF S
<1>6. \A j \in 0..m : j \in S
  BY <1>3, <1>4, <1>5, BoundedInduction
<1> QED BY <1>6 DEF S

(* Soundness: with a collision-free hash, what a path verifies under the root
   of a tree is the node of the tree as many levels below the root as the path
   is long; of a path longer than the tree is high, the value folded from it
   at the level of the leaves is a leaf.                                   *)
THEOREM VerifiedIsNode ==
  ASSUME CollisionFree, NEW leaves, IsVec(leaves), leaves.len > 0,
         NEW leaf, NEW path, path.siblings.len \in Nat,
         VerifyMerklePath(MerkleRoot(leaves), leaf, path),
         NEW L, L = LevelOf(leaves), NEW h, h = Height(leaves),
         NEW m, m = path.siblings.len
  PROVE  /\ m <= h => \E p \in 0..(L[h - m].len - 1) : leaf = L[h - m].at[p]
         /\ m >= h => \E s \in 0..(leaves.len - 1) : Folded(leaf, path)[m - h] = leaves.at[s]
<1> PICK F : F = Folded(leaf, path)
  OBVIOUS
<1>1. h \in Nat /\ m \in Nat /\ L[0] = leaves
  BY TreeIs DEF IsVec
<1>2. F[0] = leaf
  BY FoldedIs
<1>3. \A j \in 0..m : j <= h =>
        \E p \in 0..(L[h - j].len - 1) : F[m - j] = L[h - j].at[p]
  BY ONLY CollisionFree, IsVec(leaves), leaves.len > 0, path.siblings.len \in Nat,
          VerifyMerklePath(MerkleRoot(leaves), leaf, path), L = LevelOf(leaves),
          h = Height(leaves), F = Folded(leaf, path), m = path.siblings.len, DescendsTheTree
<1>4. ASSUME m <= h
      PROVE  \E p \in 0..(L[h - m].len - 1) : leaf = L[h - m].at[p]
  <2>1. m \in 0..m /\ m - m = 0
    BY <1>1
  <2>2. \E p \in 0..(L[h - m].len - 1) : F[m - m] = L[h - m].at[p]
    BY <1>3, <1>4, <2>1
  <2> QED BY ONLY <1>2, <2>1, <2>2
<1>5. ASSUME m >= h
      PROVE  \E s \in 0..(leaves.len - 1) : F[m - h] = leaves.at[s]
  <2>1. h \in 0..m /\ h <= h /\ h - h = 0
    BY <1>1, <1>5
  <2>2. \E p \in 0..(L[h - h].len - 1) : F[m - h] = L[h - h].at[p]
    BY <1>3, <2>1
  <2> QED BY ONLY <1>1, <2>1, <2>2
<1> QED BY <1>4, <1>5
=============================================================================
