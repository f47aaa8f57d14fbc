-------------------------- MODULE MerkleWalkProofs --------------------------
(***************************************************************************)
(* What MerkleWalk promises, for leaf vectors of every length, every index *)
(* and every hash.  The loops are proved by the invariant Walk: each       *)
(* verifier step recomputes the node above the one it stood on.  Closed    *)
(* adds what ties the loops to the closed forms of Merkle.                 *)
(***************************************************************************)
EXTENDS MerkleWalk, MerkleProofs

-----------------------------------------------------------------------------
(* The levels hashed so far: from the leaves up, each the next of the one
   below, and only the last may be a single node.                          *)
LevelsOK ==
  /\ IsVec(levels) /\ levels.len > 0
  /\ levels.at[0] = leaves
  /\ \A j \in 0..(levels.len - 1) : IsVec(levels.at[j])
  /\ \A j \in 0..(levels.len - 2) : /\ levels.at[j].len > 1
                                    /\ levels.at[j + 1] = NextLevel(levels.at[j])

TopLevel == levels.at[levels.len - 1]

InRange == index < leaves.len

(* The path built so far: one sibling for every level left behind.         *)
PathOK ==
  /\ IsVec(siblings) /\ IsVec(trail)
  /\ trail.len = siblings.len + 1
  /\ siblings.len < levels.len
  /\ trail.at[0] = index
  /\ \A j \in 0..siblings.len :
       trail.at[j] \in Nat /\ (InRange => trail.at[j] < levels.at[j].len)
  /\ \A j \in 0..(siblings.len - 1) :
       /\ trail.at[j + 1] = trail.at[j] \div 2
       /\ siblings.at[j] = Sibling(levels.at[j], trail.at[j])

RootOK ==
  /\ TopLevel.len <= 1
  /\ leaves.len # 0 => root = TopLevel.at[0]

(* The node the path of index goes through at level j.                     *)
OnPath(j) == levels.at[j].at[trail.at[j]]

WalkOK ==
  /\ InRange
  /\ siblings.len = levels.len - 1
  /\ k \in 0..siblings.len
  /\ idx = trail.at[k]
  /\ presented = leaves.at[index] => current = OnPath(k)

Walk ==
  /\ pc \in {"root", "path", "verify"} \union Ended
  /\ leaves \in LeafVecs /\ index \in Indices /\ presented \in Presented
  /\ LevelsOK /\ PathOK
  /\ pc \in {"root", "path", "invalid_path"} =>
       k = 0 /\ idx = index /\ current = presented
  /\ pc = "root" => level = TopLevel /\ siblings.len = 0 /\ curIdx = index
  /\ pc # "root" => RootOK
  /\ pc = "path" => level = levels.at[siblings.len] /\ curIdx = trail.at[siblings.len]
  /\ pc \in {"verify", "accepted", "rejected"} => WalkOK
  /\ pc = "accepted" => k = siblings.len /\ current = root
  /\ pc = "rejected" => k = siblings.len /\ current # root

LEMMA WalkInit == Init => Walk
<1> SUFFICES ASSUME Init PROVE Walk
  OBVIOUS
<1>1. IsVec(leaves) /\ leaves.len \in Nat /\ index \in Nat
  BY LeafVecsAssumption, IndicesAssumption DEF Init, IsVec
<1>2. IsVec(Empty) /\ Empty.len = 0
  BY DEF IsVec, Empty
<1>3. IsVec(levels) /\ levels.len = 1 /\ levels.at[0] = leaves
  BY <1>2, PushIsVec DEF Init
<1>4. IsVec(trail) /\ trail.len = 1 /\ trail.at[0] = index
  BY <1>2, PushIsVec DEF Init
<1>5. LevelsOK
  BY <1>1, <1>3 DEF LevelsOK
<1>6. PathOK
  BY <1>1, <1>2, <1>3, <1>4 DEF PathOK, InRange, Init
<1> QED BY <1>1, <1>2, <1>3, <1>5, <1>6 DEF Walk, Init, TopLevel

-----------------------------------------------------------------------------
LEMMA RootLevelWalk == Walk /\ RootLevel => Walk'
<1> SUFFICES ASSUME Walk, RootLevel PROVE Walk'
  OBVIOUS
<1> DEFINE up == NextLevel(level)
<1>1. /\ pc = "root" /\ level = TopLevel /\ level.len > 1
      /\ levels' = Push(levels, up) /\ level' = up
      /\ UNCHANGED <<pc, leaves, index, presented, root, curIdx, trail,
                     siblings, current, idx, k>>
  BY DEF Walk, RootLevel, given
<1>2. LevelsOK /\ PathOK /\ siblings.len = 0 /\ levels.len \in Nat
  BY <1>1 DEF Walk, LevelsOK, IsVec
<1>3. IsVec(level)
  BY <1>1, <1>2 DEF LevelsOK, TopLevel
<1>4. IsVec(up)
  <2>1. level.len > 0
    BY <1>1, <1>3 DEF IsVec
  <2> QED BY <1>3, <2>1, NextLevelIsVec
<1>5. /\ IsVec(levels') /\ levels'.len = levels.len + 1
      /\ \A j \in 0..(levels.len - 1) : levels'.at[j] = levels.at[j]
      /\ levels'.at[levels.len] = up
  BY <1>1, <1>2, PushIsVec DEF LevelsOK
<1> HIDE DEF up
<1>6. LevelsOK'
  <2>1. levels'.at[0] = leaves' /\ levels'.len > 0
    BY <1>1, <1>2, <1>5 DEF LevelsOK
  <2>2. \A j \in 0..(levels'.len - 1) : IsVec(levels'.at[j])
    BY <1>2, <1>4, <1>5 DEF LevelsOK
  <2>3. ASSUME NEW j \in 0..(levels'.len - 2)
        PROVE  levels'.at[j].len > 1 /\ levels'.at[j + 1] = NextLevel(levels'.at[j])
    <3>1. CASE j = levels.len - 1
      BY <1>1, <1>2, <1>5, <3>1 DEF TopLevel, up
    <3>2. CASE j # levels.len - 1
      BY <1>2, <1>5, <3>2 DEF LevelsOK
    <3> QED BY <3>1, <3>2
  <2> QED BY <1>5, <2>1, <2>2, <2>3 DEF LevelsOK
<1>7. PathOK'
  BY <1>1, <1>2, <1>5 DEF PathOK, InRange, LevelsOK
<1>8. level' = TopLevel'
  BY <1>1, <1>2, <1>5 DEF TopLevel
<1> QED BY <1>1, <1>6, <1>7, <1>8 DEF Walk

LEMMA RootDoneWalk == Walk /\ RootDone => Walk'
<1> SUFFICES ASSUME Walk, RootDone PROVE Walk'
  OBVIOUS
<1>1. /\ pc = "root" /\ pc' = "path" /\ level.len <= 1 /\ level = TopLevel
      /\ level' = leaves /\ siblings.len = 0 /\ curIdx = index
      /\ root' = (IF leaves.len = 0 THEN ZeroHash ELSE level.at[0])
      /\ UNCHANGED <<leaves, index, presented, levels, curIdx, trail,
                     siblings, current, idx, k>>
  BY DEF Walk, RootDone, given
<1>2. LevelsOK' /\ PathOK'
  BY <1>1 DEF Walk, LevelsOK, PathOK, InRange
<1>3. RootOK'
  BY <1>1 DEF RootOK, TopLevel
<1>4. level' = levels'.at[siblings'.len] /\ curIdx' = trail'.at[siblings'.len]
  BY <1>1 DEF Walk, LevelsOK, PathOK
<1> QED BY <1>1, <1>2, <1>3, <1>4 DEF Walk

LEMMA PathLevelWalk == Walk /\ PathLevel => Walk'
<1> SUFFICES ASSUME Walk, PathLevel PROVE Walk'
  OBVIOUS
<1> DEFINE s == siblings.len
<1>1. /\ pc = "path" /\ InRange /\ level.len > 1
      /\ level = levels.at[s] /\ curIdx = trail.at[s]
      /\ siblings' = Push(siblings, Sibling(level, curIdx))
      /\ level' = NextLevel(level)
      /\ curIdx' = curIdx \div 2 /\ trail' = Push(trail, curIdx \div 2)
      /\ UNCHANGED <<pc, leaves, index, presented, levels, root, current, idx, k>>
  BY IndicesAssumption, LeafVecsAssumption
  DEF Walk, PathLevel, given, InRange, IsVec
<1>2. /\ LevelsOK /\ PathOK /\ RootOK /\ s \in Nat /\ levels.len \in Nat
      /\ s < levels.len /\ trail.len = s + 1
  BY <1>1 DEF Walk, LevelsOK, PathOK, IsVec
<1>a. IsVec(level) /\ level.len \in Nat
  <2>1. s \in 0..(levels.len - 1)
    BY <1>2
  <2>2. IsVec(level)
    BY <1>1, <1>2, <2>1 DEF LevelsOK
  <2> QED BY <2>2 DEF IsVec
<1>3. s < levels.len - 1
  <2>1. CASE s = levels.len - 1
    BY <1>1, <1>2, <1>a, <2>1 DEF RootOK, TopLevel
  <2> QED BY <1>2, <2>1
<1>4. levels.at[s + 1] = NextLevel(level) /\ IsVec(level) /\ curIdx \in 0..(level.len - 1)
  <2>1. levels.at[s + 1] = NextLevel(level)
    BY <1>1, <1>2, <1>3 DEF LevelsOK
  <2>2. curIdx \in Nat /\ curIdx < level.len
    BY <1>1, <1>2 DEF PathOK
  <2> QED BY <1>a, <2>1, <2>2
<1>5. curIdx \div 2 \in 0..(NextLevel(level).len - 1)
  BY <1>1, <1>4, CombineIsParent
<1>6. /\ IsVec(siblings') /\ siblings'.len = s + 1
      /\ \A j \in 0..(s - 1) : siblings'.at[j] = siblings.at[j]
      /\ siblings'.at[s] = Sibling(level, curIdx)
  BY <1>1, <1>2, PushIsVec DEF PathOK
<1>7. /\ IsVec(trail') /\ trail'.len = s + 2
      /\ \A j \in 0..s : trail'.at[j] = trail.at[j]
      /\ trail'.at[s + 1] = curIdx \div 2
  <2>1. IsVec(trail)
    BY <1>2 DEF PathOK
  <2> QED BY <1>1, <1>2, <2>1, PushIsVec
<1>8. PathOK'
  <2>1. trail'.at[0] = index' /\ siblings'.len < levels'.len
        /\ trail'.len = siblings'.len + 1
    BY <1>1, <1>2, <1>3, <1>6, <1>7 DEF PathOK
  <2>2. ASSUME NEW j \in 0..siblings'.len
        PROVE  trail'.at[j] \in Nat /\ (InRange' => trail'.at[j] < levels'.at[j].len)
    <3>1. CASE j = s + 1
      <4>1. NextLevel(level).len \in Nat
        BY <1>1, <1>a, NextLevelIsVec DEF IsVec
      <4>2. curIdx \div 2 \in Nat /\ curIdx \div 2 < NextLevel(level).len
        BY <1>5, <4>1
      <4>3. levels' = levels
        BY <1>1
      <4> QED BY <1>4, <1>7, <3>1, <4>2, <4>3
    <3>2. CASE j # s + 1
      BY <1>1, <1>2, <1>6, <1>7, <3>2 DEF PathOK, InRange
    <3> QED BY <3>1, <3>2
  <2>3. ASSUME NEW j \in 0..(siblings'.len - 1)
        PROVE  /\ trail'.at[j + 1] = trail'.at[j] \div 2
               /\ siblings'.at[j] = Sibling(levels'.at[j], trail'.at[j])
    <3>1. CASE j = s
      BY <1>1, <1>2, <1>6, <1>7, <3>1
    <3>2. CASE j # s
      BY <1>1, <1>2, <1>6, <1>7, <3>2 DEF PathOK
    <3> QED BY <3>1, <3>2
  <2> QED BY <1>6, <1>7, <2>1, <2>2, <2>3 DEF PathOK
<1>9. LevelsOK' /\ RootOK'
  BY <1>1, <1>2 DEF LevelsOK, RootOK, TopLevel
<1>10. level' = levels'.at[siblings'.len] /\ curIdx' = trail'.at[siblings'.len]
  BY <1>1, <1>4, <1>6, <1>7
<1> QED BY <1>1, <1>8, <1>9, <1>10 DEF Walk

LEMMA PathDoneWalk == Walk /\ PathDone => Walk'
<1> SUFFICES ASSUME Walk, PathDone PROVE Walk'
  OBVIOUS
<1>1. /\ pc = "path" /\ pc' = "verify" /\ InRange /\ level.len <= 1
      /\ UNCHANGED <<leaves, index, presented, level, levels, root, curIdx,
                     trail, siblings, current, idx, k>>
  BY IndicesAssumption, LeafVecsAssumption
  DEF Walk, PathDone, given, InRange, IsVec
<1>2. LevelsOK /\ PathOK /\ RootOK /\ level = levels.at[siblings.len]
  BY <1>1 DEF Walk
<1>3. siblings.len = levels.len - 1
  <2>1. siblings.len \in Nat /\ levels.len \in Nat /\ siblings.len < levels.len
    BY <1>2 DEF LevelsOK, PathOK, IsVec
  <2>2. siblings.len \in 0..(levels.len - 1)
    BY <2>1
  <2>3. IsVec(level)
    BY <1>2, <2>2 DEF LevelsOK
  <2>4. level.len \in Nat
    BY <2>3 DEF IsVec
  <2>5. siblings.len \notin 0..(levels.len - 2)
    BY <1>1, <1>2, <2>4 DEF LevelsOK
  <2> QED BY <2>1, <2>5
<1>4. k = 0 /\ idx = index /\ current = presented /\ siblings.len \in Nat
  BY <1>1, <1>2 DEF Walk, PathOK, IsVec
<1>5. WalkOK
  BY <1>1, <1>2, <1>3, <1>4 DEF WalkOK, OnPath, PathOK, LevelsOK
<1>6. WalkOK' /\ LevelsOK' /\ PathOK' /\ RootOK'
  BY <1>1, <1>2, <1>5
  DEF WalkOK, OnPath, PathOK, LevelsOK, RootOK, TopLevel, InRange
<1> QED BY <1>1, <1>6 DEF Walk

LEMMA VerifyLevelWalk == Walk /\ VerifyLevel => Walk'
<1> SUFFICES ASSUME Walk, VerifyLevel PROVE Walk'
  OBVIOUS
<1>1. /\ pc = "verify" /\ k < siblings.len
      /\ current' = Combine(current, siblings.at[k], idx)
      /\ idx' = idx \div 2 /\ k' = k + 1
      /\ UNCHANGED <<pc, leaves, index, presented, level, levels, root,
                     curIdx, trail, siblings>>
  BY DEF VerifyLevel, given
<1>2. LevelsOK /\ PathOK /\ RootOK /\ WalkOK
  BY <1>1 DEF Walk
<1>3. /\ siblings.len \in Nat /\ levels.len \in Nat /\ k \in 0..(siblings.len - 1)
      /\ siblings.len = levels.len - 1 /\ idx = trail.at[k] /\ InRange
  BY <1>1, <1>2 DEF LevelsOK, PathOK, WalkOK, IsVec
<1>4. /\ IsVec(levels.at[k]) /\ levels.at[k].len > 1
      /\ levels.at[k + 1] = NextLevel(levels.at[k])
      /\ idx \in 0..(levels.at[k].len - 1)
      /\ siblings.at[k] = Sibling(levels.at[k], idx)
      /\ trail.at[k + 1] = idx \div 2
  <2>1. k \in 0..(levels.len - 1) /\ k \in 0..(levels.len - 2) /\ k \in 0..siblings.len
    BY <1>3
  <2>2. IsVec(levels.at[k]) /\ levels.at[k].len > 1
        /\ levels.at[k + 1] = NextLevel(levels.at[k])
    BY <1>2, <2>1 DEF LevelsOK
  <2>3. levels.at[k].len \in Nat
    BY <2>2 DEF IsVec
  <2>4. idx \in Nat /\ idx < levels.at[k].len
    BY <1>2, <1>3, <2>1 DEF PathOK
  <2>5. siblings.at[k] = Sibling(levels.at[k], idx) /\ trail.at[k + 1] = idx \div 2
    BY <1>2, <1>3 DEF PathOK
  <2> QED BY <2>2, <2>3, <2>4, <2>5
<1>5. presented = leaves.at[index] => current' = levels.at[k + 1].at[trail.at[k + 1]]
  BY <1>1, <1>2, <1>3, <1>4, CombineIsParent DEF WalkOK, OnPath
<1>6. WalkOK'
  BY <1>1, <1>3, <1>4, <1>5 DEF WalkOK, OnPath, InRange
<1>7. LevelsOK' /\ PathOK' /\ RootOK'
  BY <1>1, <1>2 DEF PathOK, LevelsOK, RootOK, TopLevel, InRange
<1> QED BY <1>1, <1>6, <1>7 DEF Walk

(* Every step of the three loops keeps Walk.                               *)
LEMMA WalkNext == Walk /\ [Next]_vars => Walk'
<1> SUFFICES ASSUME Walk, [Next]_vars PROVE Walk'
  OBVIOUS
<1> USE DEF TopLevel, InRange, OnPath
<1>1. CASE RootLevel    BY <1>1, RootLevelWalk
<1>2. CASE RootDone     BY <1>2, RootDoneWalk
<1>3. CASE InvalidPath
  BY <1>3 DEF InvalidPath, Walk, given, Ended, LevelsOK, PathOK, RootOK
<1>4. CASE PathLevel    BY <1>4, PathLevelWalk
<1>5. CASE PathDone     BY <1>5, PathDoneWalk
<1>6. CASE VerifyLevel  BY <1>6, VerifyLevelWalk
<1>7. CASE VerifyDone
  BY <1>7 DEF VerifyDone, Walk, given, Ended, LevelsOK, PathOK, RootOK, WalkOK
<1>8. CASE UNCHANGED vars
  BY <1>8 DEF vars, Walk, given, Ended, LevelsOK, PathOK, RootOK, WalkOK
<1> QED BY <1>1, <1>2, <1>3, <1>4, <1>5, <1>6, <1>7, <1>8 DEF Next

THEOREM WalkInvariant == Spec => []Walk
BY WalkInit, WalkNext, PTL DEF Spec

-----------------------------------------------------------------------------
LEMMA TypeInit == Init => TypeOK
<1> SUFFICES ASSUME Init PROVE TypeOK
  OBVIOUS
<1>1. IsVec(leaves) /\ index \in Nat /\ siblings = Empty
  BY LeafVecsAssumption, IndicesAssumption DEF Init
<1>2. Walk
  BY WalkInit
<1>3. k = 0 /\ siblings.len = 0
  BY <1>1 DEF Init, Empty
<1> QED BY <1>1, <1>2, <1>3 DEF Init, TypeOK, Walk, LevelsOK, PathOK

LEMMA TypeNext == Walk /\ TypeOK /\ [Next]_vars => TypeOK'
<1> SUFFICES ASSUME Walk, TypeOK, [Next]_vars PROVE TypeOK'
  OBVIOUS
<1>1. Walk'
  BY WalkNext
<1>2. /\ pc' \in {"root", "path", "verify"} \union Ended
      /\ leaves' \in LeafVecs /\ index' \in Indices /\ presented' \in Presented
      /\ IsVec(levels') /\ IsVec(trail') /\ IsVec(siblings')
  BY <1>1 DEF Walk, LevelsOK, PathOK
<1>3. IsVec(level)'
  <2>1. ASSUME level.len > 1 PROVE IsVec(NextLevel(level))
    <3>1. IsVec(level) /\ level.len > 0
      BY <2>1 DEF TypeOK, IsVec
    <3> QED BY <3>1, NextLevelIsVec
  <2>2. IsVec(leaves)
    BY LeafVecsAssumption DEF TypeOK
  <2> QED BY <2>1, <2>2 DEF TypeOK, Next, vars, RootLevel, RootDone, InvalidPath,
          PathLevel, PathDone, VerifyLevel, VerifyDone
<1>4. curIdx' \in Nat /\ idx' \in Nat
  BY DEF TypeOK, Next, vars, RootLevel, RootDone, InvalidPath,
         PathLevel, PathDone, VerifyLevel, VerifyDone
<1>5. k' \in 0..siblings'.len
  <2>1. siblings'.len \in Nat
    BY <1>2 DEF IsVec
  <2>2. pc' \in {"root", "path", "invalid_path"} => k' = 0
    BY <1>1 DEF Walk
  <2>3. pc' \in {"verify", "accepted", "rejected"} => k' \in 0..siblings'.len
    BY <1>1 DEF Walk, WalkOK
  <2> QED BY <1>2, <2>1, <2>2, <2>3 DEF Ended
<1> QED BY <1>2, <1>3, <1>4, <1>5 DEF TypeOK

(* The state of the three loops keeps its shape, for every input.          *)
THEOREM WalkTypeOK == Spec => []TypeOK
<1>1. Walk /\ TypeOK /\ [Next]_vars => Walk' /\ TypeOK'
  BY WalkNext, TypeNext
<1> QED BY WalkInit, TypeInit, <1>1, PTL DEF Spec

(* merkle_path and the verifier never index a level outside its bounds.    *)
THEOREM WalkInBounds == Spec => []InBounds
<1>1. Walk => InBounds
  <2> SUFFICES ASSUME Walk PROVE InBounds
    OBVIOUS
  <2>1. PathOK /\ siblings.len \in Nat
    BY DEF Walk, PathOK, IsVec
  <2>2. pc = "path" /\ InRange => curIdx < level.len
    BY <2>1 DEF Walk, PathOK
  <2>3. pc = "verify" => idx < levels.at[k].len
    BY <2>1 DEF Walk, PathOK, WalkOK
  <2> QED BY <2>2, <2>3 DEF InBounds, InRange
<1> QED BY WalkInvariant, <1>1, PTL

-----------------------------------------------------------------------------
(* The walk ends on the only node of the top level.                        *)
LEMMA EndsOnRoot ==
  ASSUME Walk, WalkOK, k = siblings.len, pc # "root"
  PROVE  OnPath(k) = root
<1>1. /\ LevelsOK /\ PathOK /\ RootOK /\ InRange
      /\ k = levels.len - 1 /\ siblings.len \in Nat
  BY DEF Walk, WalkOK, PathOK, IsVec, Ended
<1>2. IsVec(TopLevel) /\ TopLevel.len <= 1 /\ IsVec(leaves)
  BY <1>1, LeafVecsAssumption DEF LevelsOK, RootOK, TopLevel, Walk, IsVec
<1>3. trail.at[k] \in Nat /\ trail.at[k] < TopLevel.len
  BY <1>1 DEF PathOK, TopLevel
<1>4. trail.at[k] = 0
  BY <1>2, <1>3 DEF IsVec
<1>5. leaves.len # 0
  BY <1>1, <1>2, IndicesAssumption DEF InRange, IsVec, Walk
<1> QED BY <1>1, <1>4, <1>5 DEF OnPath, TopLevel, RootOK

(* Completeness, whatever the hash: the path merkle_path builds for an
   index is never rejected for the leaf at that index.                     *)
THEOREM PathAcceptsItsLeaf == Spec => []OwnLeafAccepted
<1>1. Walk => OwnLeafAccepted
  <2> SUFFICES ASSUME Walk, pc = "rejected", presented = leaves.at[index]
               PROVE  FALSE
    BY DEF OwnLeafAccepted
  <2>1. WalkOK /\ k = siblings.len /\ current # root /\ pc # "root"
    BY DEF Walk
  <2>2. current = OnPath(k)
    BY <2>1 DEF WalkOK
  <2> QED BY <2>1, <2>2, EndsOnRoot
<1> QED BY WalkInvariant, <1>1, PTL

(* Standing on the path means having started from its leaf.                *)
Bound ==
  pc \in {"verify", "accepted", "rejected"} =>
    (current = OnPath(k) => presented = leaves.at[index])

LEMMA BoundNext ==
  ASSUME CollisionFree, Walk, Walk', Bound, [Next]_vars
  PROVE  Bound'
<1>1. CASE PathDone
  <2>1. /\ k = 0 /\ current = presented /\ trail.at[0] = index
        /\ levels.at[0] = leaves
    BY <1>1 DEF PathDone, Walk, PathOK, LevelsOK
  <2> QED BY <1>1, <2>1 DEF Bound, OnPath, PathDone, given
<1>2. CASE VerifyLevel
  <2>1. /\ pc = "verify" /\ k < siblings.len /\ k' = k + 1
        /\ current' = Combine(current, siblings.at[k], idx)
        /\ UNCHANGED <<pc, leaves, index, presented, levels, trail, siblings>>
    BY <1>2 DEF VerifyLevel, given
  <2>2. LevelsOK /\ PathOK /\ WalkOK
    BY <2>1 DEF Walk
  <2>3. /\ siblings.len \in Nat /\ k \in 0..(siblings.len - 1)
        /\ siblings.len = levels.len - 1 /\ idx = trail.at[k] /\ InRange
        /\ levels.len \in Nat
    BY <2>1, <2>2 DEF LevelsOK, PathOK, WalkOK, IsVec
  <2>4. /\ IsVec(levels.at[k]) /\ levels.at[k].len > 1
        /\ levels.at[k + 1] = NextLevel(levels.at[k])
    <3>1. k \in 0..(levels.len - 1) /\ k \in 0..(levels.len - 2)
      BY <2>3
    <3> QED BY <2>2, <3>1 DEF LevelsOK
  <2>5. /\ idx \in Nat /\ idx < levels.at[k].len
        /\ siblings.at[k] = Sibling(levels.at[k], idx)
        /\ trail.at[k + 1] = idx \div 2
    BY <2>2, <2>3 DEF PathOK
  <2>6. idx \in 0..(levels.at[k].len - 1)
    BY <2>4, <2>5 DEF IsVec
  <2>7. current' = OnPath(k)' => current = OnPath(k)
    BY <2>1, <2>3, <2>4, <2>5, <2>6, CombineBinds DEF OnPath
  <2> QED BY <2>1, <2>7 DEF Bound
<1>3. CASE RootLevel \/ RootDone \/ InvalidPath \/ PathLevel
  BY <1>3 DEF Bound, RootLevel, RootDone, InvalidPath, PathLevel
<1>4. CASE VerifyDone \/ UNCHANGED vars
  BY <1>4 DEF Bound, VerifyDone, vars, given, OnPath
<1> QED BY <1>1, <1>2, <1>3, <1>4 DEF Next

(* With a collision-free hash the walk accepts exactly the leaf the path
   was built for, in trees of every shape.                                 *)
THEOREM WalkBindsLeaf == CollisionFree => (Spec => []WalkBinds)
<1> SUFFICES ASSUME CollisionFree PROVE Spec => []WalkBinds
  OBVIOUS
<1>1. Init => Bound
  BY DEF Init, Bound
<1>2. Walk /\ Bound /\ [Next]_vars => Bound'
  BY WalkNext, BoundNext
<1>3. Walk /\ Bound => WalkBinds
  <2> SUFFICES ASSUME Walk, Bound PROVE WalkBinds
    OBVIOUS
  <2>1. ASSUME pc = "accepted" PROVE presented = leaves.at[index]
    <3>1. WalkOK /\ k = siblings.len /\ current = root
      BY <2>1 DEF Walk
    <3> QED BY <2>1, <3>1, EndsOnRoot DEF Bound
  <2>2. ASSUME pc = "rejected" PROVE presented # leaves.at[index]
    <3>1. WalkOK /\ k = siblings.len /\ current # root
      BY <2>2 DEF Walk
    <3> QED BY <2>2, <3>1, EndsOnRoot DEF WalkOK
  <2> QED BY <2>1, <2>2 DEF WalkBinds
<1> QED BY WalkInvariant, <1>1, <1>2, <1>3, PTL DEF Spec
-----------------------------------------------------------------------------
(* The path of the index asked for, as the loop has built it.              *)
BuiltPath == [index |-> index, siblings |-> siblings]

SiblingsVec ==
  siblings = [len |-> siblings.len,
              at |-> [j \in 0..(siblings.len - 1) |-> siblings.at[j]]]

(* Beside Walk: siblings is nothing but a vector, and the verifier's node is
   the one the closed form folds up to.                                    *)
Closed ==
  /\ SiblingsVec
  /\ pc \in {"verify", "accepted", "rejected"} => current = Folded(presented, BuiltPath)[k]

LEMMA TrailIsHalvings ==
  ASSUME PathOK
  PROVE  /\ siblings.len \in Nat
         /\ \A j \in 0..siblings.len : trail.at[j] = Halvings(index, siblings.len)[j]
<1>1. /\ siblings.len \in Nat /\ trail.at[0] = index
      /\ \A j \in 0..(siblings.len - 1) : trail.at[j + 1] = trail.at[j] \div 2
  BY DEF PathOK, IsVec
<1> QED BY <1>1, RunIsHalvings

LEMMA ClosedInit == Init => Closed
BY DEF Init, Closed, SiblingsVec, Empty

LEMMA ClosedNext ==
  ASSUME Walk, Closed, [Next]_vars
  PROVE  Closed'
<1>1. CASE PathLevel
  <2>1. /\ pc' = "path" /\ siblings.len \in Nat
        /\ siblings' = Push(siblings, Sibling(level, curIdx))
    BY <1>1 DEF PathLevel, Walk, PathOK, IsVec
  <2>2. SiblingsVec'
    BY <2>1 DEF SiblingsVec, Push, Vec
  <2> QED BY <2>1, <2>2 DEF Closed
<1>2. CASE PathDone
  <2>1. /\ current' = presented' /\ k' = 0 /\ siblings' = siblings
        /\ siblings.len \in Nat
    BY <1>2 DEF PathDone, given, Walk, PathOK, IsVec
  <2>2. BuiltPath'.siblings.len \in Nat
    BY <2>1 DEF BuiltPath
  <2>3. Folded(presented', BuiltPath')[0] = presented'
    BY <2>2, FoldedIs
  <2>4. current' = Folded(presented', BuiltPath')[k']
    BY <2>1, <2>3
  <2> QED BY <2>1, <2>4 DEF Closed, SiblingsVec
<1>3. CASE VerifyLevel
  <2>1. /\ pc = "verify" /\ k < siblings.len
        /\ current' = Combine(current, siblings.at[k], idx) /\ k' = k + 1
        /\ UNCHANGED <<pc, index, presented, siblings>>
    BY <1>3 DEF VerifyLevel, given
  <2>2. /\ k \in 0..(siblings.len - 1) /\ siblings.len \in Nat
        /\ idx = Halvings(index, siblings.len)[k]
    <3>1. PathOK /\ WalkOK
      BY <2>1 DEF Walk
    <3>2. siblings.len \in Nat /\ k \in 0..siblings.len /\ idx = trail.at[k]
      BY <3>1, TrailIsHalvings DEF WalkOK
    <3> QED BY <2>1, <3>1, <3>2, TrailIsHalvings
  <2>3. /\ BuiltPath.siblings = siblings /\ BuiltPath.index = index
        /\ BuiltPath' = BuiltPath
    BY <2>1 DEF BuiltPath
  <2>4. Folded(presented, BuiltPath)[k + 1] =
          Combine(Folded(presented, BuiltPath)[k], siblings.at[k], idx)
    BY <2>2, <2>3, FoldedIs
  <2>5. current' = Folded(presented, BuiltPath)[k + 1]
    BY <2>1, <2>4 DEF Closed
  <2> QED BY <2>1, <2>3, <2>5 DEF Closed, SiblingsVec
<1>4. CASE RootLevel \/ RootDone \/ InvalidPath
  BY <1>4 DEF RootLevel, RootDone, InvalidPath, Closed, SiblingsVec
<1>5. CASE VerifyDone \/ UNCHANGED vars
  <2>1. /\ UNCHANGED <<index, presented, siblings, current, k>>
        /\ pc' \in {"verify", "accepted", "rejected"} =>
             pc \in {"verify", "accepted", "rejected"}
    BY <1>5 DEF VerifyDone, vars, given
  <2>2. BuiltPath' = BuiltPath
    BY <2>1 DEF BuiltPath
  <2> QED BY <2>1, <2>2 DEF Closed, SiblingsVec
<1> QED BY <1>1, <1>2, <1>3, <1>4, <1>5 DEF Next

(* When the path is built the three loops have been through exactly the
   levels, the indices and the siblings of the closed forms.               *)
LEMMA WalkAgrees ==
  ASSUME Walk, Closed, pc \in {"verify", "accepted", "rejected"}
  PROVE  root = MerkleRoot(leaves) /\ BuiltPath = MerklePath(leaves, index)
<1>1. LevelsOK /\ PathOK /\ RootOK /\ WalkOK /\ index \in Nat
  BY IndicesAssumption DEF Walk, Ended
<1>2. /\ IsVec(leaves) /\ leaves.len > 0 /\ leaves.len \in Nat
  <2>1. IsVec(leaves) /\ index < leaves.len
    BY <1>1, LeafVecsAssumption DEF Walk, WalkOK, InRange
  <2> QED BY <1>1, <2>1 DEF IsVec
<1> PICK m : m = siblings.len
  OBVIOUS
<1> PICK g : g = levels.at
  OBVIOUS
<1>3. /\ m \in Nat /\ m = levels.len - 1 /\ levels.len \in Nat
  BY <1>1 DEF LevelsOK, PathOK, WalkOK, IsVec
<1>4. /\ g[0] = leaves
      /\ \A j \in 0..m : IsVec(g[j])
      /\ \A j \in 0..(m - 1) : g[j].len > 1 /\ g[j + 1] = NextLevel(g[j])
  BY <1>1, <1>3 DEF LevelsOK
<1>5. g[m].len = 1 /\ root = g[m].at[0]
  <2>1. g[m].len <= 1 /\ g[m].len \in Nat /\ root = g[m].at[0]
    BY <1>1, <1>2, <1>3, <1>4 DEF RootOK, TopLevel, IsVec
  <2>2. trail.at[m] \in Nat /\ trail.at[m] < g[m].len
    BY <1>1, <1>3 DEF PathOK, WalkOK
  <2> QED BY <2>1, <2>2
<1>6. m = Height(leaves) /\ \A j \in 0..m : g[j] = LevelOf(leaves)[j]
  BY <1>2, <1>3, <1>4, <1>5, ChainIsTree
<1>7. root = MerkleRoot(leaves)
  BY <1>2, <1>3, <1>5, <1>6 DEF MerkleRoot
<1>8. \A j \in 0..(m - 1) : siblings.at[j] = Sibling(LevelOf(leaves)[j], Halvings(index, m)[j])
  BY <1>1, <1>3, <1>6, TrailIsHalvings DEF PathOK
<1>9. siblings = Vec(m, LAMBDA j : Sibling(LevelOf(leaves)[j], Halvings(index, m)[j]))
  BY <1>8 DEF Vec, Closed, SiblingsVec
<1>10. BuiltPath = MerklePath(leaves, index)
  BY <1>6, <1>9 DEF BuiltPath, MerklePath
<1> QED BY <1>7, <1>10

(* The loops of merkle_root, merkle_path and verify_merkle_path compute the
   closed forms, for leaf vectors of every length and every index: what is
   stated of a tree in one step holds of the code's three loops.           *)
THEOREM LoopsComputeTheTree == Spec => []LoopsAgree
<1>1. Walk /\ Closed /\ [Next]_vars => Closed'
  BY ClosedNext
<1>2. Walk /\ Closed => LoopsAgree
  <2> SUFFICES ASSUME Walk, Closed, pc \in {"verify", "accepted", "rejected"}
               PROVE  /\ root = MerkleRoot(leaves) /\ BuiltPath = MerklePath(leaves, index)
                      /\ pc # "verify" =>
                           (pc = "accepted" <=> VerifyMerklePath(root, presented, BuiltPath))
    BY DEF LoopsAgree, BuiltPath
  <2>1. pc # "verify" => k = siblings.len /\ (pc = "accepted" <=> current = root)
    BY DEF Walk
  <2>2. BuiltPath.siblings.len = siblings.len
    BY DEF BuiltPath
  <2>3. pc # "verify" => (pc = "accepted" <=> VerifyMerklePath(root, presented, BuiltPath))
    BY <2>1, <2>2 DEF Closed, VerifyMerklePath
  <2> QED BY <2>3, WalkAgrees
<1> QED BY WalkInvariant, ClosedInit, <1>1, <1>2, PTL DEF Spec
=============================================================================
