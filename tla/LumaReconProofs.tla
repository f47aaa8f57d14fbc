-------------------------- MODULE LumaReconProofs ---------------------------
(***************************************************************************)
(* The reconstruction of luma, in four parts.  The order: in pictures of  *)
(* every size no prediction reads a sample above, to the left or at the    *)
(* corner before it is reconstructed, and in a picture not taller than     *)
(* wide every block is reconstructed once; what is written is exactly what *)
(* comes earlier in macroblock and scan order, which leaves out the upper  *)
(* right of five blocks of each macroblock.  The modes: what is coded   *)
(* against a prediction is recovered from it, block by block.  The         *)
(* residual: no sum of the inverse transform leaves i32 and what comes out *)
(* of it is within one of the exact transform of the exactly scaled levels.*)
(* The prediction: each mode stays in the range of its neighbours, mirrors *)
(* its partner, and modes 4 to 8 and plane continue a picture that their   *)
(* direction leaves alone.                                                 *)
(***************************************************************************)
EXTENDS LumaRecon, IntraModes, IntraPredict, ResidualTransform, SequenceTheorems,
        WellFoundedInduction, TLAPS

(* The inverse of the scan.                                                *)
ZIndex(sx, sy) == (sx % 2) + 2 * (sy % 2) + 4 * (sx \div 2) + 8 * (sy \div 2)

EarlierMb(c, r) == r < mb_row \/ (r = mb_row /\ c < mb_col)

Earlier(x, y) ==
  \/ EarlierMb(x \div 4, y \div 4)
  \/ /\ x \div 4 = mb_col /\ y \div 4 = mb_row
     /\ ZIndex(x % 4, y % 4) < z

InPicture(x, y) == x \in 0..(4 * MbCols - 1) /\ y \in 0..(4 * MbRows - 1)

IInv ==
  /\ TypeOK
  /\ \A x, y \in Int :
       <<x, y>> \in written <=> InPicture(x, y) /\ Earlier(x, y) /\ WritesBack(x, y)

LEMMA Scan ==
  ASSUME NEW k \in 0..15
  PROVE  LET s == Z_SCAN_4X4[k + 1] IN
           /\ s[1] \in 0..3 /\ s[2] \in 0..3
           /\ ZIndex(s[1], s[2]) = k
           /\ \A sx, sy \in 0..3 : ZIndex(sx, sy) = k => sx = s[1] /\ sy = s[2]
           /\ \A sx, sy \in 0..3 : ZIndex(sx, sy) \in 0..15
<1>1. k \in {0,1,2,3,4,5,6,7,8,9,10,11,12,13,14,15}
  OBVIOUS
<1> QED BY <1>1, SMTT(60) DEF Z_SCAN_4X4, ZIndex
LEMMA DivMod4 ==
  ASSUME NEW m \in Int
  PROVE  /\ m \div 4 \in Int /\ m % 4 \in 0..3 /\ m = 4 * (m \div 4) + (m % 4)
         /\ \A s \in 0..3 : (4 * m + s) \div 4 = m /\ (4 * m + s) % 4 = s
         /\ m >= 0 => m \div 4 >= 0
         /\ \A k \in Int : m < 4 * k => m \div 4 < k
OBVIOUS

(* Of all blocks, <<X, Y>> is the one at the decoder's position.           *)
LEMMA Position ==
  ASSUME TypeOK, ~Done, NEW x \in Int, NEW y \in Int
  PROVE  /\ X \in Int /\ Y \in Int /\ InPicture(X, Y)
         /\ X \div 4 = mb_col /\ Y \div 4 = mb_row
         /\ ZIndex(X % 4, Y % 4) = z
         /\ (x \div 4 = mb_col /\ y \div 4 = mb_row /\ ZIndex(x % 4, y % 4) = z)
              => x = X /\ y = Y
         /\ ZIndex(x % 4, y % 4) \in 0..15
<1> DEFINE s == Z_SCAN_4X4[z + 1]
<1>1. /\ mb_row \in 0..(MbRows - 1) /\ mb_col \in 0..(MbCols - 1) /\ z \in 0..15
      /\ MbRows \in Int /\ MbCols \in Int
  BY SizeAssumption DEF TypeOK, Done
<1>2. PICK sx \in 0..3, sy \in 0..3 : sx = s[1] /\ sy = s[2]
  BY <1>1, Scan
<1>3. /\ ZIndex(sx, sy) = z
      /\ \A tx, ty \in 0..3 : ZIndex(tx, ty) = z => tx = sx /\ ty = sy
      /\ \A tx, ty \in 0..3 : ZIndex(tx, ty) \in 0..15
  BY <1>1, <1>2, Scan
<1>4. X = 4 * mb_col + sx /\ Y = 4 * mb_row + sy
  BY <1>2 DEF X, Y, BlockX, BlockY
<1> HIDE DEF s
<1>5. /\ X \in Int /\ Y \in Int /\ InPicture(X, Y)
      /\ X \div 4 = mb_col /\ Y \div 4 = mb_row /\ X % 4 = sx /\ Y % 4 = sy
  <2>1. mb_row \in Int /\ mb_col \in Int
    BY <1>1
  <2>2. X \div 4 = mb_col /\ X % 4 = sx
    BY <2>1, <1>4, DivMod4
  <2>3. Y \div 4 = mb_row /\ Y % 4 = sy
    BY <2>1, <1>4, DivMod4
  <2>4. X \in 0..(4 * MbCols - 1) /\ Y \in 0..(4 * MbRows - 1)
    BY <1>1, <1>2, <1>4
  <2> QED BY <2>2, <2>3, <2>4 DEF InPicture
<1>6. /\ x % 4 \in 0..3 /\ y % 4 \in 0..3
      /\ x = 4 * (x \div 4) + (x % 4) /\ y = 4 * (y \div 4) + (y % 4)
  BY DivMod4
<1>7. (x \div 4 = mb_col /\ y \div 4 = mb_row /\ x % 4 = sx /\ y % 4 = sy)
        => x = X /\ y = Y
  BY <1>4, <1>6
<1> QED BY <1>3, <1>5, <1>6, <1>7

-----------------------------------------------------------------------------
LEMMA InitIInv == Init => IInv
<1> SUFFICES ASSUME Init PROVE IInv
  OBVIOUS
<1>1. TypeOK
  BY SizeAssumption DEF Init, TypeOK, Done
<1>2. ASSUME NEW x \in Int, NEW y \in Int, InPicture(x, y) PROVE ~Earlier(x, y)
  <2>1. x \div 4 >= 0 /\ y \div 4 >= 0 /\ x \div 4 \in Int /\ y \div 4 \in Int
    BY <1>2, SizeAssumption, DivMod4 DEF InPicture
  <2>2. ZIndex(x % 4, y % 4) \in 0..15
    BY DivMod4, Scan
  <2> QED BY <2>1, <2>2 DEF Init, Earlier, EarlierMb
<1> QED BY <1>1, <1>2 DEF Init, IInv

(* One step makes one more block earlier: its own.                         *)
LEMMA EarlierGrows ==
  ASSUME TypeOK, Reconstruct, NEW x \in Int, NEW y \in Int, InPicture(x, y)
  PROVE  Earlier(x, y)' <=> (Earlier(x, y) \/ (x = X /\ y = Y))
<1>1. /\ mb_row \in Int /\ mb_col \in Int /\ z \in Int /\ 0 <= z /\ z <= 15
      /\ 0 <= mb_col /\ mb_col < MbCols /\ MbCols \in Int
  BY SizeAssumption DEF TypeOK
<1> DEFINE c == x \div 4
           r == y \div 4
           n == ZIndex(x % 4, y % 4)
<1>2. c \in Int /\ r \in Int /\ 0 <= c /\ c < MbCols /\ n \in 0..15
  <2>1. n \in 0..15
    BY Position DEF Reconstruct
  <2> QED BY <2>1, SizeAssumption DEF InPicture
<1>3. (c = mb_col /\ r = mb_row /\ n = z) <=> (x = X /\ y = Y)
  BY Position DEF Reconstruct
<1>4. Earlier(x, y) <=> (r < mb_row \/ (r = mb_row /\ c < mb_col)
                          \/ (c = mb_col /\ r = mb_row /\ n < z))
  BY DEF Earlier, EarlierMb
<1>5. Earlier(x, y)' <=> (r < mb_row' \/ (r = mb_row' /\ c < mb_col')
                          \/ (c = mb_col' /\ r = mb_row' /\ n < z'))
  BY DEF Earlier, EarlierMb, ZIndex
<1> HIDE DEF c, r, n
<1>6. CASE z < 15
  <2>1. z' = z + 1 /\ mb_col' = mb_col /\ mb_row' = mb_row
    BY <1>6 DEF Reconstruct
  <2> QED BY <1>1, <1>2, <1>3, <1>4, <1>5, <2>1
<1>7. CASE ~(z < 15) /\ mb_col + 1 < MbCols
  <2>1. z' = 0 /\ mb_col' = mb_col + 1 /\ mb_row' = mb_row
    BY <1>7 DEF Reconstruct
  <2> QED BY <1>1, <1>2, <1>3, <1>4, <1>5, <1>7, <2>1
<1>8. CASE ~(z < 15) /\ ~(mb_col + 1 < MbCols)
  <2>1. z' = 0 /\ mb_col' = 0 /\ mb_row' = mb_row + 1
    BY <1>8 DEF Reconstruct
  <2> QED BY <1>1, <1>2, <1>3, <1>4, <1>5, <1>8, <2>1
<1> QED BY <1>6, <1>7, <1>8

LEMMA NextIInv ==
  ASSUME IInv, [Next]_vars
  PROVE  IInv'
<1>1. CASE Reconstruct
  <2>1. TypeOK /\ ~Done
    BY <1>1 DEF IInv, Reconstruct
  <2>2. written' = IF WritesBack(X, Y) THEN written \union {<<X, Y>>} ELSE written
    BY <1>1 DEF Reconstruct, X, Y
  <2>3. InPicture(X, Y) /\ X \in Int /\ Y \in Int
    BY <2>1, Position
  <2>4. TypeOK'
    <3>1. /\ mb_row' \in 0..MbRows /\ mb_col' \in 0..(MbCols - 1) /\ z' \in 0..15
          /\ Done' => mb_col' = 0 /\ z' = 0
      BY <1>1, <2>1, SizeAssumption DEF Reconstruct, TypeOK, Done
    <3>2. written' \subseteq Blocks
      BY <2>1, <2>2, <2>3 DEF TypeOK, Blocks, InPicture
    <3> QED BY <1>1, <3>1, <3>2 DEF Reconstruct, TypeOK
  <2>5. ASSUME NEW x \in Int, NEW y \in Int
        PROVE  (<<x, y>> \in written
                  <=> InPicture(x, y) /\ Earlier(x, y) /\ WritesBack(x, y))'
    <3>1. <<x, y>> \in written
            <=> InPicture(x, y) /\ Earlier(x, y) /\ WritesBack(x, y)
      BY DEF IInv
    <3>2. <<x, y>> \in written'
            <=> <<x, y>> \in written \/ (WritesBack(X, Y) /\ x = X /\ y = Y)
      BY <2>2
    <3>3. InPicture(x, y) => (Earlier(x, y)' <=> (Earlier(x, y) \/ (x = X /\ y = Y)))
      BY <1>1, <2>1, EarlierGrows
    <3>4. (x = X /\ y = Y) => InPicture(x, y) /\ (WritesBack(X, Y) <=> WritesBack(x, y))
      BY <2>3
    <3>5. <<x, y>> \in written'
            <=> InPicture(x, y) /\ Earlier(x, y)' /\ WritesBack(x, y)
      BY <3>1, <3>2, <3>3, <3>4
    <3> QED BY <3>5 DEF InPicture, WritesBack
  <2> QED BY <2>4, <2>5 DEF IInv
<1>2. CASE UNCHANGED vars
  BY <1>2 DEF vars, IInv, TypeOK, Done, Earlier, EarlierMb, InPicture, WritesBack
<1> QED BY <1>1, <1>2 DEF Next

THEOREM LumaInductive == Spec => []IInv
BY InitIInv, NextIInv, PTL DEF Spec

THEOREM LumaTypeOK == Spec => []TypeOK
<1>1. IInv => TypeOK
  BY DEF IInv
<1> QED BY <1>1, LumaInductive, PTL

-----------------------------------------------------------------------------
LEMMA ZIndexGrows ==
  ASSUME NEW sx \in 0..3, NEW sy \in 0..3, NEW dx \in {0, 1}, NEW dy \in {0, 1},
         dx = 1 \/ dy = 1, dx <= sx, dy <= sy
  PROVE  ZIndex(sx - dx, sy - dy) < ZIndex(sx, sy)
BY DEF ZIndex

(* A neighbour above, to the left or at the corner comes earlier.          *)
LEMMA NeighboursEarlier ==
  ASSUME IInv, ~Done, MbRows <= MbCols, NEW dx \in {0, 1}, NEW dy \in {0, 1},
         dx = 1 \/ dy = 1, dx = 1 => X >= 1, dy = 1 => Y >= 1
  PROVE  <<X - dx, Y - dy>> \in written
<1> DEFINE x == X - dx
           y == Y - dy
<1>1. /\ X \in Int /\ Y \in Int /\ InPicture(X, Y)
      /\ X \div 4 = mb_col /\ Y \div 4 = mb_row /\ ZIndex(X % 4, Y % 4) = z
  BY Position DEF IInv
<1>2. x \in Int /\ y \in Int /\ InPicture(x, y) /\ WritesBack(x, y)
  BY <1>1, SizeAssumption DEF InPicture, WritesBack
<1>3. Earlier(x, y)
  <2>1. /\ X = 4 * mb_col + (X % 4) /\ X % 4 \in 0..3 /\ mb_col \in Int
        /\ Y = 4 * mb_row + (Y % 4) /\ Y % 4 \in 0..3 /\ mb_row \in Int
    BY <1>1, DivMod4
  <2>2. PICK sx \in 0..3, sy \in 0..3 :
          sx = X % 4 /\ sy = Y % 4 /\ X = 4 * mb_col + sx /\ Y = 4 * mb_row + sy
    BY <2>1
  <2> HIDE DEF x, y
  <2>0. x = X - dx /\ y = Y - dy /\ mb_col \in Int /\ mb_row \in Int
    BY <2>1 DEF x, y
  <2>3. CASE dx <= sx /\ dy <= sy
    <3>1. x = 4 * mb_col + (sx - dx) /\ y = 4 * mb_row + (sy - dy)
      BY ONLY <2>0, <2>2
    <3>2. sx - dx \in 0..3 /\ sy - dy \in 0..3
      BY <2>3
    <3>3. /\ x \div 4 = mb_col /\ x % 4 = sx - dx
          /\ y \div 4 = mb_row /\ y % 4 = sy - dy
      BY <2>1, <3>1, <3>2, DivMod4
    <3>4. ZIndex(sx - dx, sy - dy) < ZIndex(sx, sy)
      BY <2>3, ZIndexGrows
    <3> QED BY <1>1, <2>2, <3>3, <3>4 DEF Earlier
  <2>4. CASE dy > sy
    <3>1. y = 4 * (mb_row - 1) + 3 /\ mb_row - 1 \in Int
      BY ONLY <2>0, <2>2, <2>4
    <3>2. y \div 4 = mb_row - 1
      <4> DEFINE m == mb_row - 1
      <4>1. m \in Int /\ y = 4 * m + 3 /\ 3 \in 0..3
        BY <3>1
      <4> HIDE DEF m
      <4>2. y \div 4 = m
        BY ONLY <4>1, DivMod4
      <4> QED BY <4>2 DEF m
    <3> QED BY <2>1, <3>2 DEF Earlier, EarlierMb
  <2>5. CASE dy <= sy /\ dx > sx
    <3>1. /\ x = 4 * (mb_col - 1) + 3 /\ mb_col - 1 \in Int
          /\ y = 4 * mb_row + (sy - dy) /\ sy - dy \in 0..3
      BY ONLY <2>0, <2>2, <2>5
    <3>2. x \div 4 = mb_col - 1
      <4> DEFINE m == mb_col - 1
      <4>1. m \in Int /\ x = 4 * m + 3 /\ 3 \in 0..3
        BY <3>1
      <4> HIDE DEF m
      <4>2. x \div 4 = m
        BY ONLY <4>1, DivMod4
      <4> QED BY <4>2 DEF m
    <3>3. y \div 4 = mb_row
      BY <2>0, <3>1, DivMod4
    <3> QED BY <2>0, <3>2, <3>3 DEF Earlier, EarlierMb
  <2> QED BY <2>2, <2>3, <2>4, <2>5
<1> QED BY <1>2, <1>3 DEF IInv

LEMMA ZIndexUpperRight ==
  ASSUME NEW sx \in 0..2, NEW sy \in 1..3
  PROVE  ZIndex(sx + 1, sy - 1) < ZIndex(sx, sy) <=> <<sx, sy>> \notin UpperRightLater
<1>1. sx \in {0, 1, 2} /\ sy \in {1, 2, 3}
  OBVIOUS
<1> QED BY <1>1 DEF ZIndex, UpperRightLater

(* The neighbour above and to the right, where there is one, comes earlier but
   for five places in the macroblock.                                      *)
LEMMA UpperRightEarlier ==
  ASSUME IInv, ~Done, MbRows <= MbCols, HasTopRight(X, Y)
  PROVE  <<X + 1, Y - 1>> \in written <=> <<X % 4, Y % 4>> \notin UpperRightLater
<1> DEFINE x == X + 1
           y == Y - 1
<1>1. /\ X \in Int /\ Y \in Int /\ InPicture(X, Y)
      /\ X \div 4 = mb_col /\ Y \div 4 = mb_row /\ ZIndex(X % 4, Y % 4) = z
  BY Position DEF IInv
<1>2. x \in Int /\ y \in Int /\ InPicture(x, y) /\ WritesBack(x, y)
  BY <1>1, SizeAssumption DEF InPicture, WritesBack, HasTopRight
<1>3. <<x, y>> \in written <=> Earlier(x, y)
  BY <1>2 DEF IInv
<1>4. /\ X = 4 * mb_col + (X % 4) /\ X % 4 \in 0..3 /\ mb_col \in Int
      /\ Y = 4 * mb_row + (Y % 4) /\ Y % 4 \in 0..3 /\ mb_row \in Int
  BY <1>1, DivMod4
<1>5. PICK sx \in 0..3, sy \in 0..3 :
        sx = X % 4 /\ sy = Y % 4 /\ X = 4 * mb_col + sx /\ Y = 4 * mb_row + sy
  BY <1>4
<1> HIDE DEF x, y
<1>6. x = 4 * mb_col + sx + 1 /\ y = 4 * mb_row + sy - 1 /\ mb_col \in Int /\ mb_row \in Int
  BY <1>4, <1>5 DEF x, y
<1>7. CASE sy = 0
  <2> DEFINE m == mb_row - 1
  <2>1. m \in Int /\ y = 4 * m + 3 /\ 3 \in 0..3
    BY <1>6, <1>7
  <2> HIDE DEF m
  <2>2. y \div 4 = m
    BY ONLY <2>1, DivMod4
  <2>3. Earlier(x, y)
    BY <1>6, <2>2 DEF Earlier, EarlierMb, m
  <2>4. <<sx, sy>> \notin UpperRightLater
    BY <1>7 DEF UpperRightLater
  <2> QED BY <1>3, <1>5, <2>3, <2>4 DEF x, y
<1>8. CASE sy # 0 /\ sx # 3
  <2>1. sx \in 0..2 /\ sy \in 1..3 /\ sx + 1 \in 0..3 /\ sy - 1 \in 0..3
    BY <1>8
  <2>2. x = 4 * mb_col + (sx + 1) /\ y = 4 * mb_row + (sy - 1)
    BY <1>6
  <2>3. /\ x \div 4 = mb_col /\ x % 4 = sx + 1
        /\ y \div 4 = mb_row /\ y % 4 = sy - 1
    BY ONLY <1>6, <2>1, <2>2, DivMod4
  <2>4. Earlier(x, y) <=> ZIndex(sx + 1, sy - 1) < ZIndex(sx, sy)
    BY <1>1, <1>5, <1>6, <2>3 DEF Earlier, EarlierMb
  <2> QED BY <1>3, <1>5, <2>1, <2>4, ZIndexUpperRight DEF x, y
<1>9. CASE sy # 0 /\ sx = 3
  <2> DEFINE m == mb_col + 1
  <2>1. m \in Int /\ x = 4 * m + 0 /\ 0 \in 0..3
    BY <1>6, <1>9
  <2>2. y = 4 * mb_row + (sy - 1) /\ sy - 1 \in 0..3
    BY <1>6, <1>9
  <2> HIDE DEF m
  <2>3. x \div 4 = m
    BY ONLY <2>1, DivMod4
  <2>4. y \div 4 = mb_row
    BY ONLY <1>6, <2>2, DivMod4
  <2>5. ~Earlier(x, y)
    BY <1>6, <2>3, <2>4 DEF Earlier, EarlierMb, m
  <2>6. <<sx, sy>> \in UpperRightLater
    <3>1. sy \in {1, 2, 3}
      BY <1>9
    <3> QED BY <3>1, <1>9 DEF UpperRightLater
  <2> QED BY <1>3, <1>5, <2>5, <2>6 DEF x, y
<1> QED BY <1>7, <1>8, <1>9

(* In a picture that is not taller than wide, a prediction finds the samples
   above it, to its left and at its corner reconstructed, and those above and
   to the right but for five blocks of each macroblock.                    *)
THEOREM NeighboursReconstructed ==
  MbRows <= MbCols => (Spec => []ReadsReconstructed)
<1> SUFFICES ASSUME MbRows <= MbCols PROVE Spec => []ReadsReconstructed
  OBVIOUS
<1>1. ASSUME IInv PROVE ReadsReconstructed
  <2> SUFFICES ASSUME ~Done PROVE
        /\ TopRead(Mode, X, Y) => <<X, Y - 1>> \in written
        /\ LeftRead(Mode, X, Y) => <<X - 1, Y>> \in written
        /\ TopLeftRead(Mode, X, Y) => <<X - 1, Y - 1>> \in written
        /\ TopRightRead(Mode, X, Y) =>
             (<<X + 1, Y - 1>> \in written <=> <<X % 4, Y % 4>> \notin UpperRightLater)
    BY DEF ReadsReconstructed
  <2>1. X \in Int /\ Y \in Int /\ X - 0 = X /\ Y - 0 = Y
    BY <1>1, Position DEF IInv
  <2>2. HasTop(X, Y) => <<X - 0, Y - 1>> \in written
    BY <1>1, NeighboursEarlier DEF HasTop
  <2>3. HasLeft(X, Y) => <<X - 1, Y - 0>> \in written
    BY <1>1, NeighboursEarlier DEF HasLeft
  <2>4. HasTopLeft(X, Y) => <<X - 1, Y - 1>> \in written
    BY <1>1, NeighboursEarlier DEF HasTopLeft
  <2>5. TopLeftRead(Mode, X, Y) => HasTopLeft(X, Y)
    <3>1. CASE Predictable(resolved_mode, X, Y)
      BY <3>1 DEF TopLeftRead, Mode, UsedMode, Predictable
    <3>2. CASE ~Predictable(resolved_mode, X, Y)
      BY <3>2 DEF TopLeftRead, Mode, UsedMode
    <3> QED BY <3>1, <3>2
  <2>6. TopRightRead(Mode, X, Y) => HasTopRight(X, Y)
    <3>1. CASE Predictable(resolved_mode, X, Y)
      BY <3>1 DEF TopRightRead, Mode, UsedMode, Predictable
    <3>2. CASE ~Predictable(resolved_mode, X, Y)
      BY <3>2 DEF TopRightRead, Mode, UsedMode
    <3> QED BY <3>1, <3>2
  <2>7. HasTopRight(X, Y) =>
          (<<X + 1, Y - 1>> \in written <=> <<X % 4, Y % 4>> \notin UpperRightLater)
    BY <1>1, UpperRightEarlier
  <2> QED BY <2>1, <2>2, <2>3, <2>4, <2>5, <2>6, <2>7 DEF TopRead, LeftRead
<1> QED BY <1>1, LumaInductive, PTL

(* In a picture that is not taller than wide, every block of the returned
   plane was reconstructed, and none twice.                                *)
THEOREM EveryBlockReconstructed ==
  MbRows <= MbCols => (Spec => []PictureComplete)
<1> SUFFICES ASSUME MbRows <= MbCols PROVE Spec => []PictureComplete
  OBVIOUS
<1>1. ASSUME IInv PROVE PictureComplete
  <2>1. ASSUME ~Done PROVE <<X, Y>> \notin written
    <3>1. /\ X \in Int /\ Y \in Int /\ z \in Int
          /\ X \div 4 = mb_col /\ Y \div 4 = mb_row /\ ZIndex(X % 4, Y % 4) = z
          /\ mb_row \in Int /\ mb_col \in Int
      BY <1>1, <2>1, Position DEF IInv, TypeOK
    <3>2. ~Earlier(X, Y)
      BY <3>1 DEF Earlier, EarlierMb
    <3> QED BY <1>1, <3>1, <3>2 DEF IInv
  <2>2. ASSUME Done PROVE written = Blocks
    <3>1. written \subseteq Blocks
      BY <1>1 DEF IInv, TypeOK
    <3>2. ASSUME NEW b \in Blocks PROVE b \in written
      <4>1. PICK x \in 0..(4 * MbCols - 1), y \in 0..(4 * MbRows - 1) : b = <<x, y>>
        BY DEF Blocks
      <4>2. x \in Int /\ y \in Int /\ InPicture(x, y) /\ WritesBack(x, y)
        BY SizeAssumption DEF InPicture, WritesBack
      <4>3. y \div 4 < MbRows /\ y \div 4 \in Int
        BY SizeAssumption, DivMod4
      <4>4. Earlier(x, y)
        BY <2>2, <4>3 DEF Earlier, EarlierMb, Done
      <4> QED BY <1>1, <4>1, <4>2, <4>4 DEF IInv
    <3> QED BY <3>1, <3>2
  <2> QED BY <2>1, <2>2 DEF PictureComplete
<1> QED BY <1>1, LumaInductive, PTL

-----------------------------------------------------------------------------
(* The scan visits each block once, after those above it and to its left.  *)
LEMMA ScanOrder ==
  /\ \A b \in ModeBlocks : BlkIdx(b) \in 0..15
  /\ \A b \in ModeBlocks : b[2] # 0 => /\ <<b[1], b[2] - 1>> \in ModeBlocks
                                       /\ BlkIdx(<<b[1], b[2] - 1>>) < BlkIdx(b)
  /\ \A b \in ModeBlocks : b[1] # 0 => /\ <<b[1] - 1, b[2]>> \in ModeBlocks
                                       /\ BlkIdx(<<b[1] - 1, b[2]>>) < BlkIdx(b)
  /\ \A b, c \in ModeBlocks : BlkIdx(b) = BlkIdx(c) => b = c
<1>1. ASSUME NEW b \in ModeBlocks PROVE BlkIdx(b) \in 0..15
  BY DEF ModeBlocks, BlkIdx
<1>2. ASSUME NEW b \in ModeBlocks, b[2] # 0
      PROVE  /\ <<b[1], b[2] - 1>> \in ModeBlocks
             /\ BlkIdx(<<b[1], b[2] - 1>>) < BlkIdx(b)
  BY <1>2 DEF ModeBlocks, BlkIdx
<1>3. ASSUME NEW b \in ModeBlocks, b[1] # 0
      PROVE  /\ <<b[1] - 1, b[2]>> \in ModeBlocks
             /\ BlkIdx(<<b[1] - 1, b[2]>>) < BlkIdx(b)
  BY <1>3 DEF ModeBlocks, BlkIdx
<1>4. ASSUME NEW b \in ModeBlocks, NEW c \in ModeBlocks, BlkIdx(b) = BlkIdx(c) PROVE b = c
  BY <1>4 DEF ModeBlocks, BlkIdx
<1> QED BY <1>1, <1>2, <1>3, <1>4

LEMMA ScanOfBlock ==
  ASSUME NEW k \in 0..15
  PROVE  ScanBlock(k) \in ModeBlocks /\ BlkIdx(ScanBlock(k)) = k
BY DEF ScanBlock, ModeBlocks, BlkIdx

(* The one-skip rule loses nothing.                                        *)
LEMMA ModeReadBack ==
  ASSUME NEW mode \in 0..8, NEW predicted \in 0..8
  PROVE  ResolveIntra4x4Mode(CodedMode(mode, predicted), predicted) = mode
<1>1. CASE mode = predicted
  BY <1>1 DEF ResolveIntra4x4Mode, CodedMode
<1>2. CASE mode # predicted
  <2>1. PICK rem \in Int : rem = IF mode < predicted THEN mode ELSE mode - 1
    OBVIOUS
  <2>2. CodedMode(mode, predicted) = Explicit(rem)
    BY <1>2, <2>1 DEF CodedMode
  <2>3. Explicit(rem) # UsePredicted /\ Explicit(rem).rem = rem
    BY DEF Explicit, UsePredicted
  <2> QED BY <1>2, <2>1, <2>2, <2>3 DEF ResolveIntra4x4Mode
<1> QED BY <1>1, <1>2

(* Modes that agree before a block predict the same for it.                *)
LEMMA SamePrediction ==
  ASSUME NEW b \in ModeBlocks, NEW f, NEW g,
         \A c \in ModeBlocks : BlkIdx(c) < BlkIdx(b) => f[c] = g[c]
  PROVE  PredictedMode(f, b) = PredictedMode(g, b)
BY ScanOrder DEF PredictedMode

LEMMA PredictionInRange ==
  ASSUME NEW b \in ModeBlocks, NEW f, \A c \in ModeBlocks : f[c] \in (0..8) \union {NoMode}
  PROVE  PredictedMode(f, b) \in 0..8
BY ScanOrder DEF PredictedMode, Lower, NoMode

ModesInv ==
  /\ palette \in Palettes /\ scan \in 0..16 /\ Len(records) \in 0..16
  /\ chosen \in [ModeBlocks -> (0..8) \union {NoMode}]
  /\ \A b \in ModeBlocks : chosen[b] \in palette \union {NoMode}
  /\ \A b \in ModeBlocks : chosen[b] = NoMode <=> BlkIdx(b) >= Len(records)
  /\ \E R : records \in Seq(R)
  /\ \A b \in ModeBlocks : BlkIdx(b) < Len(records) =>
       records[BlkIdx(b) + 1] = CodedMode(chosen[b], PredictedMode(chosen, b))
  /\ scan > 0 => Len(records) = 16
  /\ local_modes \in [ModeBlocks -> (0..8) \union {NoMode}]
  /\ \A b \in ModeBlocks : local_modes[b] = IF BlkIdx(b) < scan THEN chosen[b] ELSE NoMode

LEMMA ModesInvInit == ModesInit => ModesInv
<1> SUFFICES ASSUME ModesInit PROVE ModesInv
  OBVIOUS
<1>1. \A b \in ModeBlocks : BlkIdx(b) \in 0..15
  BY ScanOrder
<1>2. records = << >> /\ Len(records) = 0 /\ records \in Seq({})
  BY DEF ModesInit
<1> QED BY <1>1, <1>2 DEF ModesInit, ModesInv

LEMMA ModesInvNext == ModesInv /\ [ModesNext]_modeVars => ModesInv'
<1> SUFFICES ASSUME ModesInv, [ModesNext]_modeVars PROVE ModesInv'
  OBVIOUS
<1>1. CASE ParseRecord
  <2>1. PICK b \in ModeBlocks, mode \in palette :
          /\ BlkIdx(b) = Len(records)
          /\ chosen' = [chosen EXCEPT ![b] = mode]
          /\ records' = Append(records, CodedMode(mode, PredictedMode(chosen, b)))
    BY <1>1 DEF ParseRecord
  <2>a. UNCHANGED <<palette, local_modes, scan>>
    BY <1>1 DEF ParseRecord
  <2>b. Len(records) \in 0..15
    BY ONLY <2>1, ScanOrder
  <2>c. palette \in Palettes
    BY DEF ModesInv
  <2>d. mode \in 0..8
    BY ONLY <2>c, mode \in palette, PalettesAssumption
  <2>e. scan \in 0..16 /\ (scan > 0 => Len(records) = 16)
    BY DEF ModesInv
  <2>f. Len(records) < 16 /\ scan = 0
    <3>1. PICK n : n = Len(records)
      OBVIOUS
    <3>2. n \in 0..15 /\ scan \in 0..16 /\ (scan > 0 => n = 16)
      BY ONLY <2>b, <2>e, <3>1, Zenon
    <3>3. n < 16 /\ scan = 0
      BY ONLY <3>2
    <3> QED BY ONLY <3>1, <3>3, Zenon
  <2>2. /\ UNCHANGED <<palette, local_modes, scan>> /\ Len(records) < 16
        /\ mode \in 0..8 /\ scan = 0
    BY ONLY <2>a, <2>d, <2>f, Zenon
  <2>3. /\ \A c \in ModeBlocks : chosen'[c] = IF c = b THEN mode ELSE chosen[c]
        /\ chosen' \in [ModeBlocks -> (0..8) \union {NoMode}]
    BY <2>1, <2>2 DEF ModesInv
  <2>4. /\ Len(records') = Len(records) + 1
        /\ records'[Len(records) + 1] = CodedMode(mode, PredictedMode(chosen, b))
        /\ \A k \in 1..Len(records) : records'[k] = records[k]
        /\ \E R : records' \in Seq(R)
    <3>1. PICK R : records \in Seq(R)
      BY DEF ModesInv
    <3>2. PICK r : r = CodedMode(mode, PredictedMode(chosen, b))
      OBVIOUS
    <3>3. records \in Seq(R \union {r}) /\ records' = Append(records, r)
      BY <2>1, <3>1, <3>2
    <3> QED BY ONLY <3>2, <3>3
  <2>5. ASSUME NEW c \in ModeBlocks
        PROVE /\ chosen'[c] = NoMode <=> BlkIdx(c) >= Len(records')
              /\ chosen'[c] \in palette \union {NoMode}
              /\ local_modes'[c] = IF BlkIdx(c) < scan' THEN chosen'[c] ELSE NoMode
    <3>1. BlkIdx(c) \in 0..15 /\ BlkIdx(b) \in 0..15 /\ (BlkIdx(c) = BlkIdx(b) => c = b)
      BY ScanOrder
    <3>2. mode # NoMode
      BY <2>2 DEF NoMode
    <3> QED BY <2>1, <2>2, <2>3, <2>4, <3>1, <3>2 DEF ModesInv
  <2>6. ASSUME NEW c \in ModeBlocks, BlkIdx(c) < Len(records')
        PROVE  records'[BlkIdx(c) + 1] = CodedMode(chosen'[c], PredictedMode(chosen', c))
    <3>1. BlkIdx(c) \in 0..15 /\ BlkIdx(c) <= Len(records) /\ (BlkIdx(c) = BlkIdx(b) => c = b)
      BY <2>4, <2>6, ScanOrder DEF ModesInv
    <3>2. PredictedMode(chosen', c) = PredictedMode(chosen, c)
      <4>1. \A d \in ModeBlocks : BlkIdx(d) < BlkIdx(c) => chosen'[d] = chosen[d]
        BY <2>1, <2>3, <3>1, ScanOrder DEF ModesInv
      <4> QED BY <4>1, SamePrediction
    <3>3. CASE c = b
      BY <2>1, <2>3, <2>4, <3>2, <3>3
    <3>4. CASE c # b
      <4>1. BlkIdx(c) < Len(records) /\ BlkIdx(c) + 1 \in 1..Len(records)
        BY <2>1, <3>1, <3>4, ScanOrder DEF ModesInv
      <4> QED BY <2>3, <2>4, <3>2, <3>4, <4>1 DEF ModesInv
    <3> QED BY <3>3, <3>4
  <2>7. /\ palette' \in Palettes /\ scan' \in 0..16 /\ Len(records') \in 0..16
        /\ ~(scan' > 0)
        /\ local_modes' \in [ModeBlocks -> (0..8) \union {NoMode}]
    <3>1. Len(records) \in 0..16
      BY DEF ModesInv
    <3>2. Len(records') \in 0..16
      BY <2>2, <2>4, <3>1
    <3> QED BY <2>2, <3>2 DEF ModesInv
  <2>8. palette' = palette
    BY <2>2
  <2> QED BY ONLY <2>3, <2>4, <2>5, <2>6, <2>7, <2>8 DEF ModesInv
<1>2. CASE ResolveBlock
  <2> DEFINE b == ScanBlock(scan)
             resolved == ResolveIntra4x4Mode(records[BlkIdx(b) + 1], PredictedMode(local_modes, b))
  <2>1. /\ scan \in 0..15 /\ Len(records) = 16 /\ scan' = scan + 1
        /\ UNCHANGED <<palette, chosen, records>>
        /\ local_modes' = [local_modes EXCEPT ![b] = resolved]
    BY <1>2 DEF ResolveBlock, ModesInv
  <2>2. b \in ModeBlocks /\ BlkIdx(b) = scan
    BY <2>1, ScanOfBlock
  <2>3. resolved = chosen[b] /\ chosen[b] \in 0..8
    <3>1. PredictedMode(local_modes, b) = PredictedMode(chosen, b)
      <4>1. \A d \in ModeBlocks : BlkIdx(d) < BlkIdx(b) => local_modes[d] = chosen[d]
        BY <2>2 DEF ModesInv
      <4> HIDE DEF b
      <4> QED BY <2>2, <4>1, SamePrediction
    <3>2. PredictedMode(chosen, b) \in 0..8
      <4> HIDE DEF b
      <4> QED BY <2>2, PredictionInRange DEF ModesInv
    <3>3. chosen[b] \in 0..8
      <4> HIDE DEF b
      <4>1. chosen[b] # NoMode
        BY <2>1, <2>2 DEF ModesInv
      <4> QED BY <2>2, <4>1 DEF ModesInv
    <3>4. records[BlkIdx(b) + 1] = CodedMode(chosen[b], PredictedMode(chosen, b))
      <4> HIDE DEF b
      <4>1. BlkIdx(b) < Len(records)
        BY <2>1, <2>2
      <4> QED BY <2>2, <4>1 DEF ModesInv
    <3>5. ResolveIntra4x4Mode(CodedMode(chosen[b], PredictedMode(chosen, b)), PredictedMode(chosen, b))
            = chosen[b]
      <4> HIDE DEF b
      <4> QED BY <3>2, <3>3, ModeReadBack
    <3> QED BY <3>1, <3>3, <3>4, <3>5
  <2> HIDE DEF b, resolved
  <2>4. /\ local_modes' \in [ModeBlocks -> (0..8) \union {NoMode}]
        /\ \A c \in ModeBlocks : local_modes'[c] = IF c = b THEN resolved ELSE local_modes[c]
    BY <2>1, <2>2, <2>3 DEF ModesInv
  <2>5. ASSUME NEW c \in ModeBlocks
        PROVE  local_modes'[c] = IF BlkIdx(c) < scan' THEN chosen'[c] ELSE NoMode
    <3>1. BlkIdx(c) \in 0..15 /\ (BlkIdx(c) = BlkIdx(b) => c = b)
      BY <2>2, ScanOrder
    <3>2. local_modes[c] = IF BlkIdx(c) < scan THEN chosen[c] ELSE NoMode
      BY DEF ModesInv
    <3> QED BY <2>1, <2>2, <2>3, <2>4, <3>1, <3>2
  <2>6. scan' \in 0..16 /\ Len(records') = 16
    BY <2>1
  <2> QED BY <2>1, <2>4, <2>5, <2>6 DEF ModesInv
<1>3. CASE UNCHANGED modeVars
  BY <1>3 DEF modeVars, ModesInv
<1> QED BY <1>1, <1>2, <1>3 DEF ModesNext

LEMMA ModesInductive == ModesSpec => []ModesInv
BY ModesInvInit, ModesInvNext, PTL DEF ModesSpec

(* A resolved mode is one of the nine, and the scan resolves every block, for
   every set of modes an encoder picks from.                               *)
THEOREM ModesTyped == ModesSpec => []ModesTypeOK
<1>1. ModesInv => ModesTypeOK
  <2> SUFFICES ASSUME ModesInv PROVE ModesTypeOK
    OBVIOUS
  <2>1. ASSUME NEW b \in ModeBlocks, scan = 16 PROVE local_modes[b] # NoMode
    <3>1. BlkIdx(b) \in 0..15
      BY ScanOrder
    <3>2. local_modes[b] = chosen[b] /\ Len(records) = 16
      BY <2>1, <3>1 DEF ModesInv
    <3>3. chosen[b] # NoMode
      BY <3>1, <3>2 DEF ModesInv
    <3> QED BY <3>2, <3>3
  <2>2. ASSUME NEW b \in ModeBlocks
        PROVE  local_modes[b] \in (0..8) \union (IF scan = 16 THEN {} ELSE {NoMode})
    <3>1. local_modes \in [ModeBlocks -> (0..8) \union {NoMode}]
      BY DEF ModesInv
    <3>2. local_modes[b] \in (0..8) \union {NoMode}
      BY ONLY <2>2, <3>1
    <3> QED BY <2>1, <3>2
  <2>3. palette \in Palettes /\ scan \in 0..16 /\ Len(records) <= 16
    <3>1. palette \in Palettes /\ scan \in 0..16 /\ Len(records) \in 0..16
      BY Zenon DEF ModesInv
    <3>2. \A n \in 0..16 : n <= 16
      OBVIOUS
    <3> QED BY ONLY <3>1, <3>2, Zenon
  <2>4. \A b \in ModeBlocks : chosen[b] \in palette \union {NoMode}
    BY DEF ModesInv
  <2> QED BY <2>2, <2>3, <2>4 DEF ModesTypeOK
<1> QED BY <1>1, ModesInductive, PTL

(* Each block is predicted with the mode its encoder chose, whatever it chose
   for the blocks before.                                                  *)
THEOREM ModesAreRecovered == ModesSpec => []ModesRecovered
<1>1. ModesInv => ModesRecovered
  BY DEF ModesInv, ModesRecovered
<1> QED BY <1>1, ModesInductive, PTL

-----------------------------------------------------------------------------
(* The powers of two that the scaling shifts by.                           *)
LEMMA SmallPowers ==
  2^0 = 1 /\ 2^1 = 2 /\ 2^2 = 4 /\ 2^3 = 8 /\ 2^4 = 16 /\ 2^5 = 32 /\ 2^6 = 64
  /\ 2^7 = 128 /\ 2^8 = 256 /\ 2^15 = 32768 /\ 2^21 = 2097152
OBVIOUS

LEMMA PowerOf ==
  ASSUME NEW q
  PROVE  /\ q = 0 => 2^q = 1
         /\ q = 1 => 2^q = 2
         /\ q = 2 => 2^q = 4
         /\ q = 3 => 2^q = 8
         /\ q = 4 => 2^q = 16
         /\ q = 5 => 2^q = 32
         /\ q = 6 => 2^q = 64
         /\ q = 7 => 2^q = 128
         /\ q = 8 => 2^q = 256
<1>0. ASSUME q = 0 PROVE 2^q = 1
  BY <1>0, SmallPowers
<1>1. ASSUME q = 1 PROVE 2^q = 2
  BY <1>1, SmallPowers
<1>2. ASSUME q = 2 PROVE 2^q = 4
  BY <1>2, SmallPowers
<1>3. ASSUME q = 3 PROVE 2^q = 8
  BY <1>3, SmallPowers
<1>4. ASSUME q = 4 PROVE 2^q = 16
  BY <1>4, SmallPowers
<1>5. ASSUME q = 5 PROVE 2^q = 32
  BY <1>5, SmallPowers
<1>6. ASSUME q = 6 PROVE 2^q = 64
  BY <1>6, SmallPowers
<1>7. ASSUME q = 7 PROVE 2^q = 128
  BY <1>7, SmallPowers
<1>8. ASSUME q = 8 PROVE 2^q = 256
  BY <1>8, SmallPowers
<1> QED BY <1>0, <1>1, <1>2, <1>3, <1>4, <1>5, <1>6, <1>7, <1>8

(* The cells of a 4x4 block and of a 2x2 one.                              *)
LEMMA CellsOf4 ==
  /\ \A i, j \in 0..3 : <<i, j>> \in Cells(4)
  /\ \A cell \in Cells(4) : cell = <<cell[1], cell[2]>> /\ cell[1] \in 0..3 /\ cell[2] \in 0..3
BY DEF Cells

LEMMA CellsOf2 ==
  /\ \A i, j \in 0..1 : <<i, j>> \in Cells(2)
  /\ \A cell \in Cells(2) : cell = <<cell[1], cell[2]>> /\ cell[1] \in 0..1 /\ cell[2] \in 0..1
BY DEF Cells

LEMMA Classes ==
  ASSUME NEW i \in 0..3, NEW j \in 0..3
  PROVE  PositionClass(<<i, j>>) = IF i % 2 = 0 /\ j % 2 = 0 THEN 1
                                   ELSE IF i % 2 = 1 /\ j % 2 = 1 THEN 2 ELSE 3
<1> DEFINE odd == {k \in 1..2 : <<i, j>>[k] % 2 = 1}
<1>1. PositionClass(<<i, j>>) = IF odd = {} THEN 1 ELSE IF odd = 1..2 THEN 2 ELSE 3
  BY DEF PositionClass
<1>2. (1 \in odd <=> i % 2 = 1) /\ (2 \in odd <=> j % 2 = 1) /\ odd \subseteq 1..2
  OBVIOUS
<1>3. i % 2 \in {0, 1} /\ j % 2 \in {0, 1}
  OBVIOUS
<1> HIDE DEF odd
<1>4. (odd = {} <=> 1 \notin odd /\ 2 \notin odd) /\ (odd = 1..2 <=> 1 \in odd /\ 2 \in odd)
  <2>1. odd \subseteq {1, 2} /\ 1..2 = {1, 2}
    BY <1>2
  <2> QED BY ONLY <2>1, Zenon
<1> QED BY <1>1, <1>2, <1>3, <1>4

(* The largest entry of a class in the rows that QPs above 47 use; below, an
   entry is at most twice it.                                              *)
Largest(class) == IF class = 1 THEN 14 ELSE IF class = 2 THEN 23 ELSE 18

NormFits(n, largest, qp) ==
  /\ n \in Nat /\ n <= 29 /\ largest \in {14, 18, 23} /\ n <= 2 * largest
  /\ qp \in Nat /\ qp <= 51 /\ (qp \div 6 = 8 => n <= largest)

LEMMA NormsBounded ==
  ASSUME NEW qp \in Nat, qp <= 51, NEW class \in {1, 2, 3}
  PROVE  NormFits(NORM_ADJUST_4X4[(qp % 6) + 1][class], Largest(class), qp)
<1>1. qp % 6 \in {0, 1, 2, 3, 4, 5} /\ (qp \div 6 = 8 => qp % 6 <= 3)
  OBVIOUS
<1>2. PICK r : r = qp % 6
  OBVIOUS
<1>3. r \in {0, 1, 2, 3, 4, 5} /\ (qp \div 6 = 8 => r <= 3)
  BY <1>1, <1>2
<1>4. /\ NORM_ADJUST_4X4[r + 1][class] \in Nat
      /\ NORM_ADJUST_4X4[r + 1][class] <= 29
      /\ NORM_ADJUST_4X4[r + 1][class] <= 2 * Largest(class)
      /\ r <= 3 => NORM_ADJUST_4X4[r + 1][class] <= Largest(class)
  BY ONLY <1>3, class \in {1, 2, 3} DEF NORM_ADJUST_4X4, Largest
<1>5. Largest(class) \in {14, 18, 23}
  BY DEF Largest
<1> QED BY <1>2, <1>3, <1>4, <1>5 DEF NormFits

(* Scaling, one power of two at a time.                                    *)
ByShift(s, x, q, whole, rounded) ==
  /\ s \in Int
  /\ \A k \in 0..5 : q = whole + k => s = x * 2^k
  /\ q = whole - 1 => s = (x + (IF rounded THEN 1 ELSE 0)) \div 2
  /\ q = whole - 2 => s = (x + (IF rounded THEN 2 ELSE 0)) \div 4
  /\ q = whole - 3 => s = (x + (IF rounded THEN 4 ELSE 0)) \div 8
  /\ q = whole - 4 => s = (x + (IF rounded THEN 8 ELSE 0)) \div 16
  /\ q = whole - 5 => s = (x + (IF rounded THEN 16 ELSE 0)) \div 32
  /\ q = whole - 6 => s = (x + (IF rounded THEN 32 ELSE 0)) \div 64

LEMMA ScaledBy ==
  ASSUME NEW x \in Int, NEW qp \in Nat, qp <= 57, NEW whole \in {4, 5, 6}, NEW rounded \in BOOLEAN
  PROVE  ByShift(Scaled(x, qp, whole, rounded), x, qp \div 6, whole, rounded)
<1>1. PICK q : q = qp \div 6
  OBVIOUS
<1>2. q \in {0, 1, 2, 3, 4, 5, 6, 7, 8, 9}
  BY <1>1
<1>3. Scaled(x, qp, whole, rounded) =
        IF q >= whole THEN x * 2^(q - whole)
        ELSE Shr(x + (IF rounded THEN 2^(whole - q - 1) ELSE 0), whole - q)
  BY <1>1 DEF Scaled
<1>4. ASSUME NEW m \in {1, 2, 3, 4, 5, 6}, q = whole - m
      PROVE  Scaled(x, qp, whole, rounded) =
               (x + (IF rounded THEN 2^(m - 1) ELSE 0)) \div 2^m
  <2>1. ~(q >= whole) /\ whole - q = m /\ whole - q - 1 = m - 1
    BY <1>4
  <2> QED BY <1>3, <2>1 DEF Shr
<1>5. \A k \in 0..5 : q = whole + k => Scaled(x, qp, whole, rounded) = x * 2^k
  <2> SUFFICES ASSUME NEW k \in 0..5, q = whole + k PROVE Scaled(x, qp, whole, rounded) = x * 2^k
    OBVIOUS
  <2>1. q >= whole /\ q - whole = k
    OBVIOUS
  <2> QED BY <1>3, <2>1
<1>6. \A m \in {1, 2, 3, 4, 5, 6} : q = whole - m =>
        Scaled(x, qp, whole, rounded) = (x + (IF rounded THEN 2^(m - 1) ELSE 0)) \div 2^m
  BY <1>4
<1>7. /\ q = whole - 1 => Scaled(x, qp, whole, rounded) = (x + (IF rounded THEN 1 ELSE 0)) \div 2
      /\ q = whole - 2 => Scaled(x, qp, whole, rounded) = (x + (IF rounded THEN 2 ELSE 0)) \div 4
      /\ q = whole - 3 => Scaled(x, qp, whole, rounded) = (x + (IF rounded THEN 4 ELSE 0)) \div 8
      /\ q = whole - 4 => Scaled(x, qp, whole, rounded) = (x + (IF rounded THEN 8 ELSE 0)) \div 16
      /\ q = whole - 5 => Scaled(x, qp, whole, rounded) = (x + (IF rounded THEN 16 ELSE 0)) \div 32
      /\ q = whole - 6 => Scaled(x, qp, whole, rounded) = (x + (IF rounded THEN 32 ELSE 0)) \div 64
  BY <1>6, SmallPowers
<1>8. Scaled(x, qp, whole, rounded) \in Int
  <2>1. \/ \E k \in 0..5 : q = whole + k
        \/ q \in {whole - 1, whole - 2, whole - 3, whole - 4, whole - 5, whole - 6}
    BY <1>2
  <2>2. \A k \in 0..5 : x * 2^k \in Int
    BY SmallPowers
  <2> QED BY <1>5, <1>7, <2>1, <2>2
<1> QED BY <1>1, <1>5, <1>7, <1>8 DEF ByShift

(* A coefficient of a level that the clamp lets through.                   *)
(* The largest level times the factor 16 and the power of the largest QP.  *)
Peak == 2^15 * 256

LevelFits(x, n) == \E p \in Int : x = 16 * p /\ -(32768 * n) <= p /\ p <= 32768 * n

LEMMA CoefficientBounded ==
  ASSUME NEW x, NEW n, NEW largest, NEW qp, LevelFits(x, n), NormFits(n, largest, qp)
  PROVE  /\ Scaled(x, qp, 4, TRUE) \in Int
         /\ -(Peak * largest) <= Scaled(x, qp, 4, TRUE)
         /\ Scaled(x, qp, 4, TRUE) <= Peak * largest
<1> DEFINE s == Scaled(x, qp, 4, TRUE)
<1>a. PICK p \in Int : x = 16 * p /\ -(32768 * n) <= p /\ p <= 32768 * n
  BY DEF LevelFits
<1>b. /\ n \in Nat /\ n <= 29 /\ largest \in {14, 18, 23} /\ n <= 2 * largest
      /\ qp \in Nat /\ qp <= 51 /\ (qp \div 6 = 8 => n <= largest)
  BY DEF NormFits
<1>c. s = Scaled(x, qp, 4, TRUE)
  OBVIOUS
<1>d. Peak = 8388608
  BY SmallPowers DEF Peak
<1> HIDE DEF s
<1>1. PICK q : q = qp \div 6
  OBVIOUS
<1>2. q \in {0, 1, 2, 3, 4, 5, 6, 7, 8}
  BY <1>1, <1>b
<1>3. x \in Int /\ qp <= 57 /\ 4 \in {4, 5, 6} /\ TRUE \in BOOLEAN
  BY <1>a, <1>b
<1>4. /\ s \in Int
      /\ \A k \in 0..5 : qp \div 6 = 4 + k => s = x * 2^k
      /\ qp \div 6 = 4 - 1 => s = (x + (IF TRUE THEN 1 ELSE 0)) \div 2
      /\ qp \div 6 = 4 - 2 => s = (x + (IF TRUE THEN 2 ELSE 0)) \div 4
      /\ qp \div 6 = 4 - 3 => s = (x + (IF TRUE THEN 4 ELSE 0)) \div 8
      /\ qp \div 6 = 4 - 4 => s = (x + (IF TRUE THEN 8 ELSE 0)) \div 16
  <2>1. x \in Int /\ qp \in Nat /\ qp <= 57
    BY ONLY <1>3, <1>b
  <2>a. ByShift(s, x, qp \div 6, 4, TRUE)
    BY ONLY <1>c, <2>1, ScaledBy
  <2>2. s \in Int /\ \A k \in 0..5 : qp \div 6 = 4 + k => s = x * 2^k
    BY ONLY <2>a DEF ByShift
  <2>3. /\ qp \div 6 = 4 - 1 => s = (x + (IF TRUE THEN 1 ELSE 0)) \div 2
        /\ qp \div 6 = 4 - 2 => s = (x + (IF TRUE THEN 2 ELSE 0)) \div 4
    BY ONLY <2>a DEF ByShift
  <2>4. /\ qp \div 6 = 4 - 3 => s = (x + (IF TRUE THEN 4 ELSE 0)) \div 8
        /\ qp \div 6 = 4 - 4 => s = (x + (IF TRUE THEN 8 ELSE 0)) \div 16
    BY ONLY <2>a DEF ByShift
  <2> QED BY ONLY <2>2, <2>3, <2>4
<1>8. s \in Int
  BY ONLY <1>4
<1>5. CASE q \in {0, 1, 2, 3}
  <2>1. \/ s = (x + 1) \div 2 \/ s = (x + 2) \div 4
        \/ s = (x + 4) \div 8 \/ s = (x + 8) \div 16
    BY ONLY <1>1, <1>4, <1>5
  <2>2. -(Peak * largest) <= s /\ s <= Peak * largest
    BY ONLY <1>3, <2>1, <1>a, <1>b, <1>d
  <2> QED BY ONLY <1>8, <1>c, <2>2
<1>6. CASE q \in {4, 5, 6, 7}
  <2>1. s = x * 2^0 \/ s = x * 2^1 \/ s = x * 2^2 \/ s = x * 2^3
    BY ONLY <1>1, <1>4, <1>6
  <2>2. s = x \/ s = x * 2 \/ s = x * 4 \/ s = x * 8
    BY ONLY <1>3, <2>1, SmallPowers
  <2>3. -(Peak * largest) <= s /\ s <= Peak * largest
    BY ONLY <2>2, <1>a, <1>b, <1>d
  <2> QED BY ONLY <1>8, <1>c, <2>3
<1>7. CASE q = 8
  <2>1. s = x * 2^4
    BY ONLY <1>1, <1>4, <1>7
  <2>2. s = x * 16
    BY ONLY <1>3, <2>1, SmallPowers
  <2>3. n <= largest
    BY <1>1, <1>7, <1>b
  <2>4. -(Peak * largest) <= s /\ s <= Peak * largest
    BY ONLY <2>2, <2>3, <1>a, <1>b, <1>d
  <2> QED BY ONLY <1>8, <1>c, <2>4
<1> QED BY ONLY <1>2, <1>5, <1>6, <1>7

(* The bound on a coefficient, by the class of its cell.                   *)
Bounded(b) ==
  \A i, j \in 0..3 :
    /\ b[<<i, j>>] \in Int
    /\ -(Peak * Largest(PositionClass(<<i, j>>))) <= b[<<i, j>>]
    /\ b[<<i, j>>] <= Peak * Largest(PositionClass(<<i, j>>))

LEMMA DequantBounded ==
  ASSUME NEW levels, NEW qp \in Nat, qp <= 51,
         \A cell \in Cells(4) : levels[cell] \in Int /\ -32768 <= levels[cell] /\ levels[cell] <= 32767
  PROVE  Bounded(DequantAc(levels, qp))
<1> SUFFICES ASSUME NEW i \in 0..3, NEW j \in 0..3
             PROVE  LET s == DequantAc(levels, qp)[<<i, j>>]
                        l == Largest(PositionClass(<<i, j>>))
                    IN  s \in Int /\ -(Peak * l) <= s /\ s <= Peak * l
  BY DEF Bounded
<1>1. <<i, j>> \in Cells(4)
  BY CellsOf4
<1>2. PICK class \in {1, 2, 3} : class = PositionClass(<<i, j>>)
  BY Classes
<1>3. PICK n : n = NORM_ADJUST_4X4[(qp % 6) + 1][class]
  OBVIOUS
<1>a. NormFits(n, Largest(class), qp)
  BY ONLY <1>3, qp \in Nat, qp <= 51, class \in {1, 2, 3}, NormsBounded
<1>4. n \in Nat
  BY ONLY <1>a DEF NormFits
<1>5. Largest(class) \in {14, 18, 23}
  BY DEF Largest
<1>6. LevelScale(qp, <<i, j>>) = 16 * n
  BY <1>2, <1>3 DEF LevelScale
<1>7. PICK v \in Int : v = levels[<<i, j>>] /\ -32768 <= v /\ v <= 32767
  BY <1>1
<1>8. PICK x : x = v * (16 * n)
  OBVIOUS
<1>9. PICK p \in Int : p = v * n
  BY <1>4
<1>10. -(32768 * n) <= p /\ p <= 32768 * n
  BY ONLY <1>4, <1>7, <1>9
<1>11. x = 16 * p
  BY ONLY <1>4, <1>7, <1>8, <1>9
<1> DEFINE s == Scaled(x, qp, 4, TRUE)
<1>12. s = Scaled(x, qp, 4, TRUE)
  OBVIOUS
<1>13. DequantAc(levels, qp)[<<i, j>>] = s
  <2>1. DequantAc(levels, qp)[<<i, j>>] =
          Scaled(levels[<<i, j>>] * LevelScale(qp, <<i, j>>), qp, 4, TRUE)
    BY ONLY <1>1 DEF DequantAc
  <2>2. levels[<<i, j>>] * LevelScale(qp, <<i, j>>) = x
    BY ONLY <1>6, <1>7, <1>8
  <2> QED BY ONLY <2>1, <2>2
<1> HIDE DEF s
<1>14. PICK l \in {14, 18, 23} : l = Largest(class)
  BY <1>5
<1>15. s \in Int /\ -(Peak * l) <= s /\ s <= Peak * l
  <2>1. NormFits(n, l, qp)
    BY ONLY <1>a, <1>14
  <2>2. LevelFits(x, n)
    BY <1>9, <1>10, <1>11 DEF LevelFits
  <2> QED BY ONLY <2>1, <2>2, <1>12, CoefficientBounded
<1> QED BY ONLY <1>2, <1>13, <1>14, <1>15

-----------------------------------------------------------------------------
Integral(b) == \A i, j \in 0..3 : b[<<i, j>>] \in Int

(* What an output of a pass would be without rounding, twice.              *)
Weighed(d, x) == d[1] * Basis[1][x] + d[2] * Basis[2][x] + d[3] * Basis[3][x] + d[4] * Basis[4][x]

Near(v, twice) == v \in Int /\ twice \in Int /\ -1 <= 2 * v - twice /\ 2 * v - twice <= 1

LEMMA IdctNear ==
  ASSUME NEW d, d[1] \in Int, d[2] \in Int, d[3] \in Int, d[4] \in Int, NEW x \in {1, 2, 3, 4}
  PROVE  Near(Idct1d(d)[x], Weighed(d, x))
<1>1. /\ Idct1d(d)[1] = (d[1] + d[3]) + (d[2] + (d[4] \div 2))
      /\ Idct1d(d)[2] = (d[1] - d[3]) + ((d[2] \div 2) - d[4])
      /\ Idct1d(d)[3] = (d[1] - d[3]) - ((d[2] \div 2) - d[4])
      /\ Idct1d(d)[4] = (d[1] + d[3]) - (d[2] + (d[4] \div 2))
  BY SmallPowers DEF Idct1d, Shr
<1>2. /\ Basis[1] = <<2, 2, 2, 2>> /\ Basis[2] = <<2, 1, -1, -2>>
      /\ Basis[3] = <<2, -2, -2, 2>> /\ Basis[4] = <<1, -2, 2, -1>>
  BY DEF Basis
<1>3. PICK a \in Int, b \in Int, c \in Int, e \in Int : a = d[1] /\ b = d[2] /\ c = d[3] /\ e = d[4]
  OBVIOUS
<1>4. CASE x = 1
  <2>1. Weighed(d, x) = a * 2 + b * 2 + c * 2 + e * 1
    BY ONLY <1>2, <1>3, <1>4 DEF Weighed
  <2>2. Idct1d(d)[x] = (a + c) + (b + (e \div 2))
    BY ONLY <1>1, <1>3, <1>4
  <2> QED BY ONLY <2>1, <2>2, a \in Int, b \in Int, c \in Int, e \in Int DEF Near
<1>5. CASE x = 2
  <2>1. Weighed(d, x) = a * 2 + b * 1 + c * (-2) + e * (-2)
    BY ONLY <1>2, <1>3, <1>5 DEF Weighed
  <2>2. Idct1d(d)[x] = (a - c) + ((b \div 2) - e)
    BY ONLY <1>1, <1>3, <1>5
  <2> QED BY ONLY <2>1, <2>2, a \in Int, b \in Int, c \in Int, e \in Int DEF Near
<1>6. CASE x = 3
  <2>1. Weighed(d, x) = a * 2 + b * (-1) + c * (-2) + e * 2
    BY ONLY <1>2, <1>3, <1>6 DEF Weighed
  <2>2. Idct1d(d)[x] = (a - c) - ((b \div 2) - e)
    BY ONLY <1>1, <1>3, <1>6
  <2> QED BY ONLY <2>1, <2>2, a \in Int, b \in Int, c \in Int, e \in Int DEF Near
<1>7. CASE x = 4
  <2>1. Weighed(d, x) = a * 2 + b * (-2) + c * 2 + e * (-1)
    BY ONLY <1>2, <1>3, <1>7 DEF Weighed
  <2>2. Idct1d(d)[x] = (a + c) - (b + (e \div 2))
    BY ONLY <1>1, <1>3, <1>7
  <2> QED BY ONLY <2>1, <2>2, a \in Int, b \in Int, c \in Int, e \in Int DEF Near
<1> QED BY <1>4, <1>5, <1>6, <1>7

LEMMA RowsNear ==
  ASSUME NEW b, Integral(b), NEW i \in 0..3, NEW j \in 0..3
  PROVE  Near(IdctRows(b)[<<i, j>>], Weighed(Row(b, i), j + 1))
<1> DEFINE d == Row(b, i)
<1>1. d[1] = b[<<i, 0>>] /\ d[2] = b[<<i, 1>>] /\ d[3] = b[<<i, 2>>] /\ d[4] = b[<<i, 3>>]
  BY DEF Row
<1>2. d[1] \in Int /\ d[2] \in Int /\ d[3] \in Int /\ d[4] \in Int
  BY <1>1 DEF Integral
<1>3. j + 1 \in {1, 2, 3, 4}
  OBVIOUS
<1>4. IdctRows(b)[<<i, j>>] = Idct1d(d)[j + 1]
  BY CellsOf4 DEF IdctRows
<1> HIDE DEF d
<1>5. Near(Idct1d(d)[j + 1], Weighed(d, j + 1))
  BY ONLY <1>2, <1>3, IdctNear
<1> QED BY ONLY <1>4, <1>5 DEF d

LEMMA ColumnsNear ==
  ASSUME NEW b, Integral(b), NEW i \in 0..3, NEW j \in 0..3
  PROVE  Near(IdctColumns(b)[<<i, j>>], Weighed(Column(b, j), i + 1))
<1> DEFINE d == Column(b, j)
<1>1. d[1] = b[<<0, j>>] /\ d[2] = b[<<1, j>>] /\ d[3] = b[<<2, j>>] /\ d[4] = b[<<3, j>>]
  BY DEF Column
<1>2. d[1] \in Int /\ d[2] \in Int /\ d[3] \in Int /\ d[4] \in Int
  BY <1>1 DEF Integral
<1>3. i + 1 \in {1, 2, 3, 4}
  OBVIOUS
<1>4. IdctColumns(b)[<<i, j>>] = Idct1d(d)[i + 1]
  BY CellsOf4 DEF IdctColumns
<1> HIDE DEF d
<1>5. Near(Idct1d(d)[i + 1], Weighed(d, i + 1))
  BY ONLY <1>2, <1>3, IdctNear
<1> QED BY ONLY <1>4, <1>5 DEF d

LEMMA PassesIntegral ==
  ASSUME NEW b, Integral(b)
  PROVE  Integral(IdctRows(b)) /\ Integral(IdctColumns(b))
BY RowsNear, ColumnsNear DEF Integral, Near

(* Both passes and the final shift, in 1/256: the floors of the first pass are
   weighed by the second, at most 2 + 2 + 2 + 1.                            *)
Residual(b) == RoundShift6(IdctColumns(IdctRows(b)))

ExactSum(b, i, j) ==
  Weighed([k \in 1..4 |-> Weighed(Row(b, k - 1), j + 1)], i + 1)

LEMMA BasisWeights ==
  ASSUME NEW y \in {1, 2, 3, 4}
  PROVE  /\ Basis[1][y] = 2 /\ Basis[2][y] \in {-2, -1, 1, 2}
         /\ Basis[3][y] \in {-2, 2} /\ Basis[4][y] \in {-2, -1, 1, 2}
BY DEF Basis

LEMMA WeighedErrors ==
  ASSUME NEW v1 \in Int, NEW v2 \in Int, NEW v3 \in Int, NEW v4 \in Int,
         NEW t1 \in Int, NEW t2 \in Int, NEW t3 \in Int, NEW t4 \in Int,
         Near(v1, t1), Near(v2, t2), Near(v3, t3), Near(v4, t4),
         NEW b2 \in {-2, -1, 1, 2}, NEW b3 \in {-2, 2}, NEW b4 \in {-2, -1, 1, 2}
  PROVE  LET v == v1 * 2 + v2 * b2 + v3 * b3 + v4 * b4
             t == t1 * 2 + t2 * b2 + t3 * b3 + t4 * b4
         IN  v \in Int /\ t \in Int /\ -8 <= 2 * v - t /\ 2 * v - t <= 8
<1>1. PICK p2 \in Int, q2 \in Int : p2 = v2 * b2 /\ q2 = t2 * b2 /\ -2 <= 2 * p2 - q2 /\ 2 * p2 - q2 <= 2
  BY ONLY v2 \in Int, t2 \in Int, Near(v2, t2), b2 \in {-2, -1, 1, 2} DEF Near
<1>2. PICK p3 \in Int, q3 \in Int : p3 = v3 * b3 /\ q3 = t3 * b3 /\ -2 <= 2 * p3 - q3 /\ 2 * p3 - q3 <= 2
  BY ONLY v3 \in Int, t3 \in Int, Near(v3, t3), b3 \in {-2, 2} DEF Near
<1>3. PICK p4 \in Int, q4 \in Int : p4 = v4 * b4 /\ q4 = t4 * b4 /\ -2 <= 2 * p4 - q4 /\ 2 * p4 - q4 <= 2
  BY ONLY v4 \in Int, t4 \in Int, Near(v4, t4), b4 \in {-2, -1, 1, 2} DEF Near
<1> QED BY ONLY <1>1, <1>2, <1>3, v1 \in Int, t1 \in Int, Near(v1, t1) DEF Near

LEMMA ResidualNear ==
  ASSUME NEW b, Integral(b), NEW i \in 0..3, NEW j \in 0..3
  PROVE  /\ Residual(b)[<<i, j>>] \in Int /\ ExactSum(b, i, j) \in Int
         /\ -256 < 256 * Residual(b)[<<i, j>>] - ExactSum(b, i, j)
         /\ 256 * Residual(b)[<<i, j>>] - ExactSum(b, i, j) < 256
<1> DEFINE rows == IdctRows(b)
           T(k) == Weighed(Row(b, k), j + 1)
<1>1. Integral(rows)
  BY PassesIntegral
<1>2. /\ Near(rows[<<0, j>>], T(0)) /\ Near(rows[<<1, j>>], T(1))
      /\ Near(rows[<<2, j>>], T(2)) /\ Near(rows[<<3, j>>], T(3))
  BY RowsNear
<1> HIDE DEF rows, T
<1>3. PICK c : c = IdctColumns(rows)[<<i, j>>]
  OBVIOUS
<1>4. Near(c, Weighed(Column(rows, j), i + 1))
  BY ONLY <1>1, <1>3, i \in 0..3, j \in 0..3, ColumnsNear
<1>5. PICK y \in {1, 2, 3, 4} : y = i + 1
  OBVIOUS
<1>6. PICK v1 \in Int, v2 \in Int, v3 \in Int, v4 \in Int :
        v1 = rows[<<0, j>>] /\ v2 = rows[<<1, j>>] /\ v3 = rows[<<2, j>>] /\ v4 = rows[<<3, j>>]
  BY <1>2 DEF Near
<1>7. PICK t1 \in Int, t2 \in Int, t3 \in Int, t4 \in Int :
        t1 = T(0) /\ t2 = T(1) /\ t3 = T(2) /\ t4 = T(3)
  BY <1>2 DEF Near
<1>8. Near(v1, t1) /\ Near(v2, t2) /\ Near(v3, t3) /\ Near(v4, t4)
  BY ONLY <1>2, <1>6, <1>7
<1>9. PICK b2 \in {-2, -1, 1, 2}, b3 \in {-2, 2}, b4 \in {-2, -1, 1, 2} :
        b2 = Basis[2][y] /\ b3 = Basis[3][y] /\ b4 = Basis[4][y] /\ Basis[1][y] = 2
  BY BasisWeights
<1>10. PICK v : v = v1 * 2 + v2 * b2 + v3 * b3 + v4 * b4
  OBVIOUS
<1>11. PICK t : t = t1 * 2 + t2 * b2 + t3 * b3 + t4 * b4
  OBVIOUS
<1>12. v \in Int /\ t \in Int /\ -8 <= 2 * v - t /\ 2 * v - t <= 8
  BY ONLY <1>8, <1>10, <1>11, WeighedErrors, v1 \in Int, v2 \in Int, v3 \in Int, v4 \in Int,
          t1 \in Int, t2 \in Int, t3 \in Int, t4 \in Int,
          b2 \in {-2, -1, 1, 2}, b3 \in {-2, 2}, b4 \in {-2, -1, 1, 2}
<1>13. Weighed(Column(rows, j), i + 1) = v
  <2>1. /\ Column(rows, j)[1] = v1 /\ Column(rows, j)[2] = v2
        /\ Column(rows, j)[3] = v3 /\ Column(rows, j)[4] = v4
    BY ONLY <1>6 DEF Column
  <2> QED BY ONLY <1>5, <1>9, <1>10, <2>1 DEF Weighed
<1>14. ExactSum(b, i, j) = t
  <2> DEFINE w == [k \in 1..4 |-> Weighed(Row(b, k - 1), j + 1)]
  <2>1. w[1] = t1 /\ w[2] = t2 /\ w[3] = t3 /\ w[4] = t4
    BY ONLY <1>7 DEF T
  <2>2. ExactSum(b, i, j) = Weighed(w, y)
    BY <1>5 DEF ExactSum
  <2> HIDE DEF w
  <2> QED BY ONLY <1>9, <1>11, <2>1, <2>2 DEF Weighed
<1>15. Residual(b)[<<i, j>>] = (c + 32) \div 64
  <2>1. <<i, j>> \in Cells(4)
    BY CellsOf4
  <2>2. Residual(b) = RoundShift6(IdctColumns(rows))
    BY DEF Residual, rows
  <2>3. RoundShift6(IdctColumns(rows))[<<i, j>>] = Shr(c + 32, 6)
    BY ONLY <1>3, <2>1 DEF RoundShift6
  <2>4. Shr(c + 32, 6) = (c + 32) \div 64
    BY SmallPowers DEF Shr
  <2> QED BY <2>2, <2>3, <2>4
<1>16. c \in Int /\ -1 <= 2 * c - v /\ 2 * c - v <= 1
  BY ONLY <1>4, <1>13 DEF Near
<1>17. PICK r : r = (c + 32) \div 64
  OBVIOUS
<1>18. r \in Int /\ 64 * r <= c + 32 /\ c + 32 < 64 * r + 64
  BY ONLY <1>16, <1>17
<1>19. -256 < 256 * r - t /\ 256 * r - t < 256
  BY ONLY <1>12, <1>16, <1>18
<1> QED BY ONLY <1>12, <1>14, <1>15, <1>17, <1>18, <1>19

-----------------------------------------------------------------------------
(* The sums over a block.                                                  *)
LEMMA TotalScales ==
  ASSUME NEW f, NEW g, Integral(f), NEW k \in Int,
         \A i, j \in 0..3 : g[<<i, j>>] = k * f[<<i, j>>]
  PROVE  Total(f) \in Int /\ Total(g) = k * Total(f)
<1> DEFINE Sum4(h, r) == h[<<r, 0>>] + h[<<r, 1>>] + h[<<r, 2>>] + h[<<r, 3>>]
<1>1. ASSUME NEW r \in 0..3 PROVE Sum4(f, r) \in Int /\ Sum4(g, r) = k * Sum4(f, r)
  <2>1. /\ f[<<r, 0>>] \in Int /\ f[<<r, 1>>] \in Int /\ f[<<r, 2>>] \in Int /\ f[<<r, 3>>] \in Int
        /\ g[<<r, 0>>] = k * f[<<r, 0>>] /\ g[<<r, 1>>] = k * f[<<r, 1>>]
        /\ g[<<r, 2>>] = k * f[<<r, 2>>] /\ g[<<r, 3>>] = k * f[<<r, 3>>]
    BY DEF Integral
  <2>2. PICK a \in Int, b \in Int, c \in Int, d \in Int :
          a = f[<<r, 0>>] /\ b = f[<<r, 1>>] /\ c = f[<<r, 2>>] /\ d = f[<<r, 3>>]
    BY <2>1
  <2>3. k * a + k * b + k * c + k * d = k * (a + b + c + d)
    BY ONLY k \in Int, a \in Int, b \in Int, c \in Int, d \in Int
  <2> QED BY ONLY <2>1, <2>2, <2>3
<1>2. /\ Total(f) = Sum4(f, 0) + Sum4(f, 1) + Sum4(f, 2) + Sum4(f, 3)
      /\ Total(g) = Sum4(g, 0) + Sum4(g, 1) + Sum4(g, 2) + Sum4(g, 3)
  BY DEF Total
<1> HIDE DEF Sum4
<1>3. PICK a \in Int, b \in Int, c \in Int, d \in Int :
        a = Sum4(f, 0) /\ b = Sum4(f, 1) /\ c = Sum4(f, 2) /\ d = Sum4(f, 3)
  BY <1>1
<1>4. k * a + k * b + k * c + k * d = k * (a + b + c + d)
  BY ONLY k \in Int, a \in Int, b \in Int, c \in Int, d \in Int
<1>5. /\ Sum4(g, 0) = k * a /\ Sum4(g, 1) = k * b
      /\ Sum4(g, 2) = k * c /\ Sum4(g, 3) = k * d
  BY <1>1, <1>3
<1> QED BY ONLY <1>2, <1>3, <1>4, <1>5

(* The two passes without rounding, as one sum over the block.             *)
LEMMA SumOfPasses ==
  ASSUME NEW b, Integral(b), NEW i \in 0..3, NEW j \in 0..3, NEW f,
         \A r, k \in 0..3 : f[<<r, k>>] = b[<<r, k>>] * Basis[r + 1][i + 1] * Basis[k + 1][j + 1]
  PROVE  Total(f) = ExactSum(b, i, j)
<1> DEFINE Sum4(r) == f[<<r, 0>>] + f[<<r, 1>>] + f[<<r, 2>>] + f[<<r, 3>>]
           W(r) == Weighed(Row(b, r), j + 1)
<1>1. ASSUME NEW r \in 0..3 PROVE W(r) \in Int /\ Sum4(r) = W(r) * Basis[r + 1][i + 1]
  <2>1. PICK y \in Int : y = Basis[r + 1][i + 1]
    BY DEF Basis
  <2>2. PICK p \in Int, q \in Int, s \in Int, t \in Int :
          p = Basis[1][j + 1] /\ q = Basis[2][j + 1] /\ s = Basis[3][j + 1] /\ t = Basis[4][j + 1]
    BY DEF Basis
  <2>3. PICK a \in Int, c \in Int, d \in Int, e \in Int :
          a = b[<<r, 0>>] /\ c = b[<<r, 1>>] /\ d = b[<<r, 2>>] /\ e = b[<<r, 3>>]
    <3>1. b[<<r, 0>>] \in Int /\ b[<<r, 1>>] \in Int /\ b[<<r, 2>>] \in Int /\ b[<<r, 3>>] \in Int
      BY DEF Integral
    <3> QED BY ONLY <3>1
  <2>4. W(r) = a * p + c * q + d * s + e * t
    BY <2>2, <2>3 DEF Weighed, Row
  <2>5. /\ f[<<r, 0>>] = a * y * p /\ f[<<r, 1>>] = c * y * q
        /\ f[<<r, 2>>] = d * y * s /\ f[<<r, 3>>] = e * y * t
    BY <2>1, <2>2, <2>3
  <2>6. a * y * p + c * y * q + d * y * s + e * y * t = (a * p + c * q + d * s + e * t) * y
    BY ONLY y \in Int, p \in Int, q \in Int, s \in Int, t \in Int, a \in Int, c \in Int, d \in Int, e \in Int
  <2> HIDE DEF W
  <2> QED BY <2>1, <2>4, <2>5, <2>6
<1>2. Total(f) = Sum4(0) + Sum4(1) + Sum4(2) + Sum4(3)
  BY DEF Total
<1>3. ExactSum(b, i, j) = W(0) * Basis[1][i + 1] + W(1) * Basis[2][i + 1]
                          + W(2) * Basis[3][i + 1] + W(3) * Basis[4][i + 1]
  <2> DEFINE w == [k \in 1..4 |-> Weighed(Row(b, k - 1), j + 1)]
  <2>1. w[1] = W(0) /\ w[2] = W(1) /\ w[3] = W(2) /\ w[4] = W(3)
    OBVIOUS
  <2>2. ExactSum(b, i, j) = Weighed(w, i + 1)
    BY DEF ExactSum
  <2> HIDE DEF w, W
  <2> QED BY ONLY <2>1, <2>2 DEF Weighed
<1> HIDE DEF Sum4, W
<1>4. /\ Sum4(0) = W(0) * Basis[1][i + 1] /\ Sum4(1) = W(1) * Basis[2][i + 1]
      /\ Sum4(2) = W(2) * Basis[3][i + 1] /\ Sum4(3) = W(3) * Basis[4][i + 1]
  BY <1>1
<1> QED BY ONLY <1>2, <1>3, <1>4

-----------------------------------------------------------------------------
(* What the block of a request is at each stage.                           *)
Clamped(c) == [cell \in Cells(4) |-> Clamp(c.levels[cell], -(2^15), 2^15 - 1)]
Coefficients(c) == IF c.qp > 51 THEN [cell \in Cells(4) |-> 0] ELSE DequantAc(Clamped(c), c.qp)
Transformed(c) == IF c.kind = "luma_dc" THEN Hadamard4x4(c.levels) ELSE Hadamard2x2(c.levels)
ScaledDc(c) == IF c.kind = "luma_dc" THEN DequantLumaDc(Transformed(c), c.qp)
               ELSE DequantChromaDc(Transformed(c), c.qp)

AcStages == {"clamped", "dequantised", "rows", "residual", "pixels"}
DcStages == {"hadamard", "refused", "dc"}

ResidualInv ==
  /\ coded \in Residuals
  /\ stage \in {"levels"} \union AcStages \union DcStages
  /\ stage \in AcStages => coded.kind = "ac"
  /\ stage \in DcStages => coded.kind \in {"luma_dc", "chroma_dc"}
  /\ stage = "levels" => values = coded.levels
  /\ stage = "clamped" => values = Clamped(coded)
  /\ stage = "dequantised" => values = Coefficients(coded)
  /\ stage = "rows" => values = IdctRows(Coefficients(coded))
  /\ stage = "residual" => values = Residual(Coefficients(coded))
  /\ stage = "pixels" =>
       values = [cell \in Cells(4) |->
                   Clamp(coded.predicted + Residual(Coefficients(coded))[cell], 0, 255)]
  /\ stage \in {"hadamard", "refused"} => values = Transformed(coded)
  /\ stage = "dc" => coded.qp <= 51 /\ values = ScaledDc(coded)

LEMMA ResidualInvInit == ResidualInit => ResidualInv
BY DEF ResidualInit, ResidualInv, AcStages, DcStages

LEMMA ResidualInvNext == ResidualInv /\ [ResidualNext]_residualVars => ResidualInv'
<1> SUFFICES ASSUME ResidualInv, [ResidualNext]_residualVars PROVE ResidualInv'
  OBVIOUS
<1> USE DEF AcStages, DcStages
<1>1. CASE ClampLevels
  BY <1>1 DEF ClampLevels, ResidualInv, Clamped
<1>2. CASE Dequant
  BY <1>2 DEF Dequant, ResidualInv, Coefficients
<1>3. CASE Rows
  BY <1>3 DEF Rows, ResidualInv
<1>4. CASE Columns
  BY <1>4 DEF Columns, ResidualInv, Residual
<1>5. CASE Add
  BY <1>5 DEF Add, ResidualInv
<1>6. CASE Hadamard
  BY <1>6 DEF Hadamard, ResidualInv, Transformed
<1>7. CASE RefuseDc
  BY <1>7 DEF RefuseDc, ResidualInv
<1>8. CASE DequantDc
  BY <1>8 DEF DequantDc, ResidualInv, ScaledDc
<1>9. CASE UNCHANGED residualVars
  BY <1>9 DEF residualVars, ResidualInv
<1> QED BY <1>1, <1>2, <1>3, <1>4, <1>5, <1>6, <1>7, <1>8, <1>9 DEF ResidualNext

LEMMA ResidualInductive == ResidualSpec => []ResidualInv
BY ResidualInvInit, ResidualInvNext, PTL DEF ResidualSpec

(* What the clamp lets through fits an i16.                                *)
LEMMA ClampedLevels ==
  ASSUME NEW c \in Residuals, c.kind = "ac"
  PROVE  \A cell \in Cells(4) : /\ Clamped(c)[cell] \in Int
                                /\ -32768 <= Clamped(c)[cell] /\ Clamped(c)[cell] <= 32767
<1> SUFFICES ASSUME NEW cell \in Cells(4)
             PROVE  /\ Clamped(c)[cell] \in Int
                    /\ -32768 <= Clamped(c)[cell] /\ Clamped(c)[cell] <= 32767
  OBVIOUS
<1>1. c.levels \in [Cells(4) -> Int]
  BY ResidualsAssumption
<1>2. PICK v \in Int : v = c.levels[cell]
  BY <1>1
<1>3. Clamped(c)[cell] = Clamp(v, -32768, 32767)
  BY <1>2, SmallPowers DEF Clamped
<1> QED BY <1>2, <1>3 DEF Clamp

LEMMA CoefficientsIntegral ==
  ASSUME NEW c \in Residuals, c.kind = "ac"
  PROVE  Bounded(Coefficients(c)) /\ Integral(Coefficients(c))
<1>1. c.qp \in Nat
  BY ResidualsAssumption
<1>2. CASE c.qp > 51
  <2>1. \A i, j \in 0..3 : Coefficients(c)[<<i, j>>] = 0
    BY <1>2, CellsOf4 DEF Coefficients
  <2>2. \A k : Largest(k) \in Nat /\ Peak \in Nat
    BY SmallPowers DEF Largest, Peak
  <2> QED BY <2>1, <2>2 DEF Bounded, Integral
<1>3. CASE c.qp <= 51
  <2>1. Coefficients(c) = DequantAc(Clamped(c), c.qp)
    BY <1>1, <1>3 DEF Coefficients
  <2>2. Bounded(DequantAc(Clamped(c), c.qp))
    BY <1>1, <1>3, ClampedLevels, DequantBounded
  <2> QED BY <2>1, <2>2 DEF Bounded, Integral
<1> QED BY <1>1, <1>2, <1>3

(* The pixels are bytes.                                                   *)
THEOREM ResidualTypes == ResidualSpec => []ResidualTypeOK
<1>1. ResidualInv => ResidualTypeOK
  <2> SUFFICES ASSUME ResidualInv PROVE ResidualTypeOK
    OBVIOUS
  <2>1. ASSUME stage = "pixels", NEW cell \in Cells(4)
        PROVE  Clamp(coded.predicted + Residual(Coefficients(coded))[cell], 0, 255) \in 0..255
    <3>1. coded \in Residuals /\ coded.kind = "ac" /\ coded.predicted \in Int
      BY <2>1, ResidualsAssumption DEF ResidualInv, AcStages
    <3>2. Integral(Coefficients(coded))
      BY <3>1, CoefficientsIntegral
    <3>3. PICK i \in 0..3, j \in 0..3 : cell = <<i, j>>
      BY CellsOf4
    <3>4. PICK v \in Int : v = coded.predicted + Residual(Coefficients(coded))[cell]
      BY <3>1, <3>2, <3>3, ResidualNear
    <3>5. Clamp(v, 0, 255) \in 0..255
      BY DEF Clamp
    <3> QED BY <3>4, <3>5
  <2>2. stage = "pixels" => values \in [Cells(4) -> 0..255]
    BY <2>1 DEF ResidualInv
  <2> QED BY <2>2 DEF ResidualInv, ResidualTypeOK, AcStages, DcStages
<1> QED BY <1>1, ResidualInductive, PTL

(* In units of 1024, as the property counts.                               *)
Units(b, cell) == (Abs(b[cell]) \div 4096) + 1

LEMMA UnitsBounded ==
  ASSUME NEW b, Bounded(b), NEW r \in 0..3, NEW k \in 0..3
  PROVE  /\ Units(b, <<r, k>>) \in Int
         /\ r % 2 = 0 /\ k % 2 = 0 => Units(b, <<r, k>>) <= 2048 * 14 + 1
         /\ r % 2 = 1 /\ k % 2 = 1 => Units(b, <<r, k>>) <= 2048 * 23 + 1
         /\ Units(b, <<r, k>>) <= 2048 * 23 + 1
         /\ r % 2 # k % 2 => Units(b, <<r, k>>) <= 2048 * 18 + 1
<1>1. PICK l \in {14, 18, 23} : l = Largest(PositionClass(<<r, k>>))
  BY DEF Largest
<1>2. /\ r % 2 = 0 /\ k % 2 = 0 => l = 14
      /\ r % 2 = 1 /\ k % 2 = 1 => l = 23
      /\ r % 2 # k % 2 => l = 18
  BY <1>1, Classes DEF Largest
<1>3. PICK v \in Int : v = b[<<r, k>>] /\ -(Peak * l) <= v /\ v <= Peak * l
  BY <1>1 DEF Bounded
<1>4. PICK u : u = Units(b, <<r, k>>)
  OBVIOUS
<1>5. Peak = 8388608
  BY SmallPowers DEF Peak
<1>6. PICK a \in Int : a = Abs(v) /\ a <= 8388608 * l /\ 0 <= a
  BY ONLY <1>1, <1>3, <1>5 DEF Abs
<1>7. u = (a \div 4096) + 1
  BY ONLY <1>3, <1>4, <1>6 DEF Units
<1>8. u \in Int /\ u <= 2048 * l + 1
  BY ONLY <1>1, <1>6, <1>7
<1> QED BY ONLY <1>1, <1>2, <1>4, <1>8

(* No sum of the transform leaves the i32 the code computes it in, for every
   block of levels and every QP.                                           *)
THEOREM TransformNeverOverflows == ResidualSpec => []NeverOverflows
<1>1. ResidualInv => NeverOverflows
  <2> SUFFICES ASSUME ResidualInv, stage = "dequantised", NEW i \in {1, 3}, NEW j \in {1, 3}
               PROVE  LET term == [cell \in Cells(4) |->
                                     (IF cell[1] = i THEN 1 ELSE 2) * (IF cell[2] = j THEN 1 ELSE 2)
                                       * ((Abs(values[cell]) \div 4096) + 1)]
                      IN  Total(term) < 2^21
    BY Zenon DEF NeverOverflows
  <2> DEFINE term == [cell \in Cells(4) |->
                        (IF cell[1] = i THEN 1 ELSE 2) * (IF cell[2] = j THEN 1 ELSE 2)
                          * ((Abs(values[cell]) \div 4096) + 1)]
             U(r, k) == Units(values, <<r, k>>)
             W(r) == IF r = i THEN 1 ELSE 2
             V(k) == IF k = j THEN 1 ELSE 2
             Sum4(r) == V(0) * U(r, 0) + V(1) * U(r, 1) + V(2) * U(r, 2) + V(3) * U(r, 3)
  <2>1. Bounded(values)
    BY CoefficientsIntegral DEF ResidualInv, AcStages
  <2>2. ASSUME NEW r \in 0..3, NEW k \in 0..3 PROVE term[<<r, k>>] = W(r) * V(k) * U(r, k)
    <3>1. <<r, k>> \in Cells(4) /\ <<r, k>>[1] = r /\ <<r, k>>[2] = k
      BY CellsOf4
    <3> QED BY <3>1 DEF Units
  <2>3. V(0) = 2 /\ V(2) = 2 /\ V(1) \in {1, 2} /\ V(3) \in {1, 2} /\ V(1) + V(3) = 3
    OBVIOUS
  <2>4. W(0) = 2 /\ W(2) = 2 /\ W(1) \in {1, 2} /\ W(3) \in {1, 2} /\ W(1) + W(3) = 3
    OBVIOUS
  <2>5. ASSUME NEW r \in {0, 2} PROVE Sum4(r) \in Int /\ Sum4(r) <= 2048 * 110 + 7
    <3>1. /\ U(r, 0) \in Int /\ U(r, 0) <= 2048 * 14 + 1 /\ U(r, 2) \in Int /\ U(r, 2) <= 2048 * 14 + 1
          /\ U(r, 1) \in Int /\ U(r, 1) <= 2048 * 18 + 1 /\ U(r, 3) \in Int /\ U(r, 3) <= 2048 * 18 + 1
      <4>1. r \in 0..3 /\ r % 2 = 0 /\ 0 % 2 = 0 /\ 2 % 2 = 0 /\ 1 % 2 = 1 /\ 3 % 2 = 1
        OBVIOUS
      <4> QED BY <2>1, <4>1, UnitsBounded
    <3> HIDE DEF U, V
    <3> QED BY ONLY <2>3, <3>1
  <2>6. ASSUME NEW r \in {1, 3} PROVE Sum4(r) \in Int /\ Sum4(r) <= 2048 * 141 + 7
    <3>1. /\ U(r, 0) \in Int /\ U(r, 0) <= 2048 * 18 + 1 /\ U(r, 2) \in Int /\ U(r, 2) <= 2048 * 18 + 1
          /\ U(r, 1) \in Int /\ U(r, 1) <= 2048 * 23 + 1 /\ U(r, 3) \in Int /\ U(r, 3) <= 2048 * 23 + 1
      <4>1. r \in 0..3 /\ r % 2 = 1 /\ 0 % 2 = 0 /\ 2 % 2 = 0 /\ 1 % 2 = 1 /\ 3 % 2 = 1
        OBVIOUS
      <4> QED BY <2>1, <4>1, UnitsBounded
    <3> HIDE DEF U, V
    <3> QED BY ONLY <2>3, <3>1
  <2>7. ASSUME NEW r \in 0..3
        PROVE  term[<<r, 0>>] + term[<<r, 1>>] + term[<<r, 2>>] + term[<<r, 3>>] = W(r) * Sum4(r)
    <3>1. /\ term[<<r, 0>>] = W(r) * V(0) * U(r, 0) /\ term[<<r, 1>>] = W(r) * V(1) * U(r, 1)
          /\ term[<<r, 2>>] = W(r) * V(2) * U(r, 2) /\ term[<<r, 3>>] = W(r) * V(3) * U(r, 3)
      <4>1. term[<<r, 0>>] = W(r) * V(0) * U(r, 0)
        BY ONLY <2>2, r \in 0..3
      <4>2. term[<<r, 1>>] = W(r) * V(1) * U(r, 1)
        BY ONLY <2>2, r \in 0..3
      <4>3. term[<<r, 2>>] = W(r) * V(2) * U(r, 2)
        BY ONLY <2>2, r \in 0..3
      <4>4. term[<<r, 3>>] = W(r) * V(3) * U(r, 3)
        BY ONLY <2>2, r \in 0..3
      <4> QED BY ONLY <4>1, <4>2, <4>3, <4>4
    <3>2. U(r, 0) \in Int /\ U(r, 1) \in Int /\ U(r, 2) \in Int /\ U(r, 3) \in Int
      BY <2>1, UnitsBounded
    <3>3. W(r) \in {1, 2}
      OBVIOUS
    <3> HIDE DEF term, U, V, W
    <3> QED BY ONLY <2>3, <3>1, <3>2, <3>3
  <2>8. Total(term) = W(0) * Sum4(0) + W(1) * Sum4(1) + W(2) * Sum4(2) + W(3) * Sum4(3)
    <3> HIDE DEF term, W, Sum4
    <3> QED BY <2>7 DEF Total
  <2> HIDE DEF term, U, V, W, Sum4
  <2>9. Total(term) <= 2048 * 863 + 49
    <3>1. /\ Sum4(0) \in Int /\ Sum4(0) <= 2048 * 110 + 7 /\ Sum4(2) \in Int /\ Sum4(2) <= 2048 * 110 + 7
          /\ Sum4(1) \in Int /\ Sum4(1) <= 2048 * 141 + 7 /\ Sum4(3) \in Int /\ Sum4(3) <= 2048 * 141 + 7
      BY <2>5, <2>6
    <3> QED BY ONLY <2>4, <2>8, <3>1
  <2>10. Total(term) \in Int
    <3>1. Sum4(0) \in Int /\ Sum4(1) \in Int /\ Sum4(2) \in Int /\ Sum4(3) \in Int
      BY <2>5, <2>6
    <3> QED BY ONLY <2>4, <2>8, <3>1
  <2>11. Total(term) < 2^21
    BY <2>9, <2>10, SmallPowers
  <2> QED BY <2>11 DEF term
<1> QED BY <1>1, ResidualInductive, PTL

-----------------------------------------------------------------------------
(* Scaling AC loses nothing: the factor 16 of a scale outweighs the largest
   shift to the right.                                                     *)
LEMMA AcScaledExactly ==
  ASSUME NEW x, \E y \in Int : x = 16 * y, NEW qp \in Nat, qp <= 51
  PROVE  16 * Scaled(x, qp, 4, TRUE) = 2^(qp \div 6) * x
<1> PICK y \in Int : x = 16 * y
  OBVIOUS
<1> DEFINE s == Scaled(x, qp, 4, TRUE)
<1>1. s = Scaled(x, qp, 4, TRUE)
  OBVIOUS
<1> HIDE DEF s
<1>2. PICK q : q = qp \div 6
  OBVIOUS
<1>3. q \in {0, 1, 2, 3, 4, 5, 6, 7, 8}
  BY <1>2
<1>4. x \in Int /\ qp \in Nat /\ qp <= 57
  OBVIOUS
<1>a. ByShift(s, x, q, 4, TRUE)
  BY ONLY <1>1, <1>2, <1>4, ScaledBy
<1>5. s \in Int /\ \A k \in 0..5 : q = 4 + k => s = x * 2^k
  BY ONLY <1>a DEF ByShift
<1>6. /\ q = 4 - 1 => s = (x + (IF TRUE THEN 1 ELSE 0)) \div 2
      /\ q = 4 - 2 => s = (x + (IF TRUE THEN 2 ELSE 0)) \div 4
  BY ONLY <1>a DEF ByShift
<1>7. /\ q = 4 - 3 => s = (x + (IF TRUE THEN 4 ELSE 0)) \div 8
      /\ q = 4 - 4 => s = (x + (IF TRUE THEN 8 ELSE 0)) \div 16
  BY ONLY <1>a DEF ByShift
<1>8. CASE q \in {0, 1, 2, 3}
  <2>1. /\ q = 0 => s = (x + 8) \div 16
        /\ q = 1 => s = (x + 4) \div 8
        /\ q = 2 => s = (x + 2) \div 4
        /\ q = 3 => s = (x + 1) \div 2
    BY ONLY <1>6, <1>7
  <2>2. PICK p : p = 2^q
    OBVIOUS
  <2>3. /\ q = 0 => p = 1
        /\ q = 1 => p = 2
        /\ q = 2 => p = 4
        /\ q = 3 => p = 8
    BY ONLY <2>2, PowerOf
  <2>4. 16 * s = p * x
    BY ONLY <1>8, <2>1, <2>3, y \in Int, x = 16 * y
  <2> QED BY ONLY <1>1, <1>2, <2>2, <2>4
<1>9. CASE q \in {4, 5, 6, 7, 8}
  <2>1. /\ q = 4 => s = x * 2^0
        /\ q = 5 => s = x * 2^1
        /\ q = 6 => s = x * 2^2
        /\ q = 7 => s = x * 2^3
        /\ q = 8 => s = x * 2^4
    BY ONLY <1>5
  <2>2. PICK p : p = 2^q
    OBVIOUS
  <2>3. /\ q = 4 => s = x * 1 /\ p = 16
        /\ q = 5 => s = x * 2 /\ p = 32
        /\ q = 6 => s = x * 4 /\ p = 64
        /\ q = 7 => s = x * 8 /\ p = 128
        /\ q = 8 => s = x * 16 /\ p = 256
    <3>1. /\ q = 4 => p = 16
          /\ q = 5 => p = 32
          /\ q = 6 => p = 64
          /\ q = 7 => p = 128
          /\ q = 8 => p = 256
      BY ONLY <2>2, PowerOf
    <3> QED BY ONLY <2>1, <3>1, SmallPowers
  <2>4. 16 * s = p * x
    BY ONLY <1>4, <1>9, <2>3
  <2> QED BY ONLY <1>1, <1>2, <2>2, <2>4
<1> QED BY <1>3, <1>8, <1>9

LEMMA ScaleIsTheStandards ==
  ASSUME coded.qp \in Nat, NEW i \in 0..3, NEW j \in 0..3
  PROVE  /\ ScaleOfStandard(<<i, j>>) = LevelScale(coded.qp, <<i, j>>)
         /\ \E n \in Nat : ScaleOfStandard(<<i, j>>) = 16 * n
<1>1. PICK r \in {0, 1, 2, 3, 4, 5} : r = coded.qp % 6
  OBVIOUS
<1>2. <<1, 3, 2>>[(i % 2) + (j % 2) + 1] = PositionClass(<<i, j>>)
  BY Classes
<1>3. PICK class \in {1, 2, 3} : class = PositionClass(<<i, j>>)
  BY Classes
<1>4. NORM_ADJUST_4X4[r + 1][class] \in Nat
  BY ONLY r \in {0, 1, 2, 3, 4, 5}, class \in {1, 2, 3} DEF NORM_ADJUST_4X4
<1>5. ScaleOfStandard(<<i, j>>) = 16 * NORM_ADJUST_4X4[r + 1][class]
  BY <1>1, <1>2, <1>3 DEF ScaleOfStandard
<1>6. LevelScale(coded.qp, <<i, j>>) = 16 * NORM_ADJUST_4X4[r + 1][class]
  BY <1>1, <1>3 DEF LevelScale
<1> QED BY <1>4, <1>5, <1>6

(* A residual is within one of the exact inverse transform of the exactly scaled
   levels, for every block of levels that fits an i16 and every QP.        *)
LEMMA ResidualIsNearExact ==
  ASSUME ResidualInv, stage = "residual", coded.qp <= 51,
         \A cell \in Cells(4) : -32768 <= coded.levels[cell] /\ coded.levels[cell] <= 32767,
         NEW i \in 0..3, NEW j \in 0..3
  PROVE  Abs(4096 * values[<<i, j>>] - Exact(<<i, j>>)) < 4096
<1> DEFINE b == Coefficients(coded)
           level(r, k) == coded.levels[<<r, k>>]
           f == [c \in Cells(4) |-> b[c] * Basis[c[1] + 1][i + 1] * Basis[c[2] + 1][j + 1]]
           g == [c \in Cells(4) |-> coded.levels[c] * ScaleOfStandard(c)
                   * Basis[c[1] + 1][i + 1] * Basis[c[2] + 1][j + 1]]
           h == [c \in Cells(4) |-> 16 * f[c]]
<1>1. coded \in Residuals /\ coded.kind = "ac" /\ coded.qp \in Nat
  BY ResidualsAssumption DEF ResidualInv, AcStages
<1>2. coded.levels \in [Cells(4) -> Int]
  BY <1>1, ResidualsAssumption
<1>3. Integral(b)
  BY <1>1, CoefficientsIntegral
<1>4. PICK p \in Int : p = 2^(coded.qp \div 6)
  <2>1. PICK q : q = coded.qp \div 6
    OBVIOUS
  <2>2. q \in {0, 1, 2, 3, 4, 5, 6, 7, 8}
    BY <1>1, <2>1
  <2>3. 2^q \in Int
    BY ONLY <2>2, SmallPowers
  <2> QED BY <2>1, <2>3
<1>5. ASSUME NEW r \in 0..3, NEW k \in 0..3
      PROVE  /\ level(r, k) \in Int /\ ScaleOfStandard(<<r, k>>) \in Int
             /\ 16 * b[<<r, k>>] = p * (level(r, k) * ScaleOfStandard(<<r, k>>))
  <2>1. <<r, k>> \in Cells(4)
    BY CellsOf4
  <2>2. PICK n \in Nat : /\ ScaleOfStandard(<<r, k>>) = 16 * n
                         /\ LevelScale(coded.qp, <<r, k>>) = 16 * n
    <3>1. ScaleOfStandard(<<r, k>>) = LevelScale(coded.qp, <<r, k>>)
      BY ONLY <1>1, ScaleIsTheStandards, r \in 0..3, k \in 0..3
    <3>2. \E n \in Nat : ScaleOfStandard(<<r, k>>) = 16 * n
      BY ONLY <1>1, ScaleIsTheStandards, r \in 0..3, k \in 0..3
    <3> QED BY ONLY <3>1, <3>2
  <2>3. PICK v \in Int : v = level(r, k) /\ -32768 <= v /\ v <= 32767
    BY <1>2, <2>1
  <2>4. Clamped(coded)[<<r, k>>] = v
    BY <2>1, <2>3, SmallPowers DEF Clamped, Clamp
  <2>5. b[<<r, k>>] = Scaled(v * (16 * n), coded.qp, 4, TRUE)
    <3>1. b = DequantAc(Clamped(coded), coded.qp)
      BY <1>1 DEF Coefficients
    <3>2. DequantAc(Clamped(coded), coded.qp)[<<r, k>>] =
            Scaled(Clamped(coded)[<<r, k>>] * LevelScale(coded.qp, <<r, k>>), coded.qp, 4, TRUE)
      BY ONLY <2>1 DEF DequantAc
    <3> HIDE DEF b
    <3> QED BY ONLY <2>2, <2>4, <3>1, <3>2
  <2>6. PICK x, y \in Int : x = v * (16 * n) /\ y = v * n /\ x = 16 * y
    OBVIOUS
  <2>7. 16 * Scaled(x, coded.qp, 4, TRUE) = 2^(coded.qp \div 6) * x
    BY ONLY <1>1, <2>6, y \in Int, coded.qp <= 51, AcScaledExactly
  <2> HIDE DEF b
  <2>8. 16 * b[<<r, k>>] = p * x
    BY ONLY <1>4, <2>5, <2>6, <2>7
  <2>9. level(r, k) * ScaleOfStandard(<<r, k>>) = x
    BY ONLY <2>2, <2>3, <2>6
  <2>10. ScaleOfStandard(<<r, k>>) \in Int
    BY ONLY <2>2
  <2> QED BY ONLY <2>3, <2>8, <2>9, <2>10
<1> HIDE DEF b
<1>6. ASSUME NEW r \in 0..3, NEW k \in 0..3
      PROVE  /\ f[<<r, k>>] = b[<<r, k>>] * Basis[r + 1][i + 1] * Basis[k + 1][j + 1]
             /\ f[<<r, k>>] \in Int /\ g[<<r, k>>] \in Int
             /\ h[<<r, k>>] = 16 * f[<<r, k>>] /\ h[<<r, k>>] = p * g[<<r, k>>]
  <2>1. <<r, k>> \in Cells(4) /\ <<r, k>>[1] = r /\ <<r, k>>[2] = k
    BY CellsOf4
  <2>2. PICK y \in Int, u \in Int : y = Basis[r + 1][i + 1] /\ u = Basis[k + 1][j + 1]
    BY DEF Basis
  <2>3. PICK d \in Int, l \in Int, n \in Int :
          /\ d = b[<<r, k>>] /\ l = level(r, k) /\ n = ScaleOfStandard(<<r, k>>)
          /\ 16 * d = p * (l * n)
    <3>1. b[<<r, k>>] \in Int
      BY ONLY <1>3, r \in 0..3, k \in 0..3 DEF Integral
    <3>2. /\ level(r, k) \in Int /\ ScaleOfStandard(<<r, k>>) \in Int
          /\ 16 * b[<<r, k>>] = p * (level(r, k) * ScaleOfStandard(<<r, k>>))
      BY ONLY <1>5, r \in 0..3, k \in 0..3
    <3> HIDE DEF level
    <3> QED BY ONLY <3>1, <3>2
  <2>4. f[<<r, k>>] = d * y * u /\ g[<<r, k>>] = l * n * y * u /\ h[<<r, k>>] = 16 * f[<<r, k>>]
    BY <2>1, <2>2, <2>3
  <2>5. 16 * (d * y * u) = p * (l * n * y * u)
    <3>1. 16 * (d * y * u) = (16 * d) * (y * u)
      BY ONLY d \in Int, y \in Int, u \in Int
    <3>2. (p * (l * n)) * (y * u) = p * (l * n * y * u)
      BY ONLY p \in Int, l \in Int, n \in Int, y \in Int, u \in Int
    <3> QED BY ONLY <2>3, <3>1, <3>2
  <2> HIDE DEF f, g, h
  <2> QED BY <2>2, <2>3, <2>4, <2>5
<1>7. Exact(<<i, j>>) = p * Total(g)
  BY <1>4 DEF Exact
<1> HIDE DEF f, g, h
<1>8. Integral(f) /\ Integral(g)
  BY <1>6 DEF Integral
<1>a. /\ \A r, k \in 0..3 : h[<<r, k>>] = p * g[<<r, k>>]
      /\ \A r, k \in 0..3 : h[<<r, k>>] = 16 * f[<<r, k>>]
  BY ONLY <1>6
<1>9. Total(h) = p * Total(g)
  BY ONLY <1>a, <1>8, p \in Int, TotalScales
<1>10. Total(f) \in Int /\ Total(h) = 16 * Total(f)
  <2>1. PICK k \in Int : k = 16
    OBVIOUS
  <2>2. \A i2, j2 \in 0..3 : h[<<i2, j2>>] = k * f[<<i2, j2>>]
    <3>1. ASSUME NEW i2 \in 0..3, NEW j2 \in 0..3
          PROVE  h[<<i2, j2>>] = k * f[<<i2, j2>>]
      <4>1. h[<<i2, j2>>] = 16 * f[<<i2, j2>>]
        BY ONLY <1>a, i2 \in 0..3, j2 \in 0..3, Zenon
      <4> QED BY ONLY <2>1, <4>1
    <3> QED BY ONLY <3>1, Zenon
  <2> QED BY ONLY <1>8, <2>1, <2>2, TotalScales
<1>11. Total(f) = ExactSum(b, i, j)
  <2>1. \A r, k \in 0..3 : f[<<r, k>>] = b[<<r, k>>] * Basis[r + 1][i + 1] * Basis[k + 1][j + 1]
    BY ONLY <1>6
  <2> QED BY ONLY <1>3, <2>1, i \in 0..3, j \in 0..3, SumOfPasses
<1>12. values = Residual(b)
  BY DEF ResidualInv, b
<1>13. /\ Residual(b)[<<i, j>>] \in Int
       /\ -256 < 256 * Residual(b)[<<i, j>>] - ExactSum(b, i, j)
       /\ 256 * Residual(b)[<<i, j>>] - ExactSum(b, i, j) < 256
  BY <1>3, ResidualNear
<1>14. PICK v \in Int, t \in Int : v = values[<<i, j>>] /\ t = Total(f) /\ Exact(<<i, j>>) = 16 * t
  BY <1>7, <1>9, <1>10, <1>12, <1>13
<1>15. -256 < 256 * v - t /\ 256 * v - t < 256
  BY ONLY <1>11, <1>12, <1>13, <1>14
<1>16. -4096 < 4096 * v - 16 * t /\ 4096 * v - 16 * t < 4096
  BY ONLY <1>15, v \in Int, t \in Int
<1> DEFINE e == 4096 * v - 16 * t
<1>17. e = 4096 * v - 16 * t /\ e \in Int
  BY ONLY v \in Int, t \in Int
<1> HIDE DEF e
<1>18. Abs(e) < 4096
  BY ONLY <1>16, <1>17 DEF Abs
<1> QED BY ONLY <1>14, <1>17, <1>18

-----------------------------------------------------------------------------
(* The 4x4 Hadamard transform is a pass over the rows and one over the columns;
   each pass is its own inverse up to a factor of 4, and they commute.     *)
HSign == << <<1, 1, 1, 1>>, <<1, 1, -1, -1>>, <<1, -1, -1, 1>>, <<1, -1, 1, -1>> >>

HSum(x, y, u, w, k) == HSign[k][1] * x + HSign[k][2] * y + HSign[k][3] * u + HSign[k][4] * w

HRows(b) == [cell \in Cells(4) |-> Hadamard1d(Row(b, cell[1]))[cell[2] + 1]]
HColumns(b) == [cell \in Cells(4) |-> Hadamard1d(Column(b, cell[2]))[cell[1] + 1]]

LEMMA HadamardIsTwoPasses == \A b : Hadamard4x4(b) = HColumns(HRows(b))
BY DEF Hadamard4x4, HColumns, HRows

LEMMA HSigns ==
  ASSUME NEW k \in {1, 2, 3, 4}
  PROVE  /\ HSign[k][1] = 1 /\ HSign[k][2] \in {-1, 1}
         /\ HSign[k][3] \in {-1, 1} /\ HSign[k][4] \in {-1, 1}
BY DEF HSign

LEMMA Hadamard1dSigns ==
  ASSUME NEW d, d[1] \in Int, d[2] \in Int, d[3] \in Int, d[4] \in Int, NEW k \in {1, 2, 3, 4}
  PROVE  Hadamard1d(d)[k] = HSum(d[1], d[2], d[3], d[4], k) /\ Hadamard1d(d)[k] \in Int
<1>1. /\ Hadamard1d(d)[1] = (d[1] + d[4]) + (d[2] + d[3])
      /\ Hadamard1d(d)[2] = (d[1] - d[4]) + (d[2] - d[3])
      /\ Hadamard1d(d)[3] = (d[1] + d[4]) - (d[2] + d[3])
      /\ Hadamard1d(d)[4] = (d[1] - d[4]) - (d[2] - d[3])
  BY DEF Hadamard1d
<1>2. CASE k = 1
  BY <1>1, <1>2 DEF HSum, HSign
<1>3. CASE k = 2
  BY <1>1, <1>3 DEF HSum, HSign
<1>4. CASE k = 3
  BY <1>1, <1>4 DEF HSum, HSign
<1>5. CASE k = 4
  BY <1>1, <1>5 DEF HSum, HSign
<1> QED BY <1>2, <1>3, <1>4, <1>5

LEMMA HRowsCell ==
  ASSUME NEW b, Integral(b), NEW i \in 0..3, NEW j \in 0..3
  PROVE  /\ HRows(b)[<<i, j>>] = HSum(b[<<i, 0>>], b[<<i, 1>>], b[<<i, 2>>], b[<<i, 3>>], j + 1)
         /\ HRows(b)[<<i, j>>] \in Int
<1> DEFINE d == Row(b, i)
<1>1. d[1] = b[<<i, 0>>] /\ d[2] = b[<<i, 1>>] /\ d[3] = b[<<i, 2>>] /\ d[4] = b[<<i, 3>>]
  BY DEF Row
<1>2. d[1] \in Int /\ d[2] \in Int /\ d[3] \in Int /\ d[4] \in Int
  BY <1>1 DEF Integral
<1>3. j + 1 \in {1, 2, 3, 4}
  OBVIOUS
<1>4. HRows(b)[<<i, j>>] = Hadamard1d(d)[j + 1]
  BY CellsOf4 DEF HRows
<1> HIDE DEF d
<1>5. /\ Hadamard1d(d)[j + 1] = HSum(d[1], d[2], d[3], d[4], j + 1)
      /\ Hadamard1d(d)[j + 1] \in Int
  BY ONLY <1>2, <1>3, Hadamard1dSigns
<1> QED BY ONLY <1>1, <1>4, <1>5

LEMMA HColumnsCell ==
  ASSUME NEW b, Integral(b), NEW i \in 0..3, NEW j \in 0..3
  PROVE  /\ HColumns(b)[<<i, j>>] = HSum(b[<<0, j>>], b[<<1, j>>], b[<<2, j>>], b[<<3, j>>], i + 1)
         /\ HColumns(b)[<<i, j>>] \in Int
<1> DEFINE d == Column(b, j)
<1>1. d[1] = b[<<0, j>>] /\ d[2] = b[<<1, j>>] /\ d[3] = b[<<2, j>>] /\ d[4] = b[<<3, j>>]
  BY DEF Column
<1>2. d[1] \in Int /\ d[2] \in Int /\ d[3] \in Int /\ d[4] \in Int
  BY <1>1 DEF Integral
<1>3. i + 1 \in {1, 2, 3, 4}
  OBVIOUS
<1>4. HColumns(b)[<<i, j>>] = Hadamard1d(d)[i + 1]
  BY CellsOf4 DEF HColumns
<1> HIDE DEF d
<1>5. /\ Hadamard1d(d)[i + 1] = HSum(d[1], d[2], d[3], d[4], i + 1)
      /\ Hadamard1d(d)[i + 1] \in Int
  BY ONLY <1>2, <1>3, Hadamard1dSigns
<1> QED BY ONLY <1>1, <1>4, <1>5

Undone(x, y, u, w, k) ==
  HSum(HSum(x, y, u, w, 1), HSum(x, y, u, w, 2), HSum(x, y, u, w, 3), HSum(x, y, u, w, 4), k)
    = 4 * (IF k = 1 THEN x ELSE IF k = 2 THEN y ELSE IF k = 3 THEN u ELSE w)

LEMMA HSumTwice ==
  ASSUME NEW x \in Int, NEW y \in Int, NEW u \in Int, NEW w \in Int, NEW k \in {1, 2, 3, 4}
  PROVE  Undone(x, y, u, w, k)
<1>1. /\ HSum(x, y, u, w, 1) = x + y + u + w
      /\ HSum(x, y, u, w, 2) = x + y - u - w
      /\ HSum(x, y, u, w, 3) = x - y - u + w
      /\ HSum(x, y, u, w, 4) = x - y + u - w
  BY DEF HSum, HSign
<1>2. PICK p \in Int, q \in Int, r \in Int, s \in Int :
        /\ p = HSum(x, y, u, w, 1) /\ q = HSum(x, y, u, w, 2)
        /\ r = HSum(x, y, u, w, 3) /\ s = HSum(x, y, u, w, 4)
  BY <1>1
<1>3. /\ HSum(p, q, r, s, 1) = p + q + r + s
      /\ HSum(p, q, r, s, 2) = p + q - r - s
      /\ HSum(p, q, r, s, 3) = p - q - r + s
      /\ HSum(p, q, r, s, 4) = p - q + r - s
  BY DEF HSum, HSign
<1>4. /\ HSum(p, q, r, s, 1) = 4 * x /\ HSum(p, q, r, s, 2) = 4 * y
      /\ HSum(p, q, r, s, 3) = 4 * u /\ HSum(p, q, r, s, 4) = 4 * w
  BY ONLY <1>1, <1>2, <1>3, x \in Int, y \in Int, u \in Int, w \in Int
<1> QED BY ONLY <1>2, <1>4, k \in {1, 2, 3, 4} DEF Undone

LEMMA PassesTwice ==
  ASSUME NEW b, Integral(b), NEW i \in 0..3, NEW j \in 0..3
  PROVE  /\ HRows(HRows(b))[<<i, j>>] = 4 * b[<<i, j>>]
         /\ HColumns(HColumns(b))[<<i, j>>] = 4 * b[<<i, j>>]
<1>1. Integral(HRows(b)) /\ Integral(HColumns(b))
  BY HRowsCell, HColumnsCell DEF Integral
<1>2. HRows(HRows(b))[<<i, j>>] = 4 * b[<<i, j>>]
  <2> DEFINE h == HRows(b)
  <2>1. HRows(h)[<<i, j>>] = HSum(h[<<i, 0>>], h[<<i, 1>>], h[<<i, 2>>], h[<<i, 3>>], j + 1)
    BY ONLY <1>1, i \in 0..3, j \in 0..3, HRowsCell
  <2>2. PICK x \in Int, y \in Int, u \in Int, w \in Int :
          x = b[<<i, 0>>] /\ y = b[<<i, 1>>] /\ u = b[<<i, 2>>] /\ w = b[<<i, 3>>]
    <3>1. b[<<i, 0>>] \in Int /\ b[<<i, 1>>] \in Int /\ b[<<i, 2>>] \in Int /\ b[<<i, 3>>] \in Int
      BY DEF Integral
    <3> QED BY ONLY <3>1
  <2>3. /\ h[<<i, 0>>] = HSum(x, y, u, w, 0 + 1) /\ h[<<i, 1>>] = HSum(x, y, u, w, 1 + 1)
        /\ h[<<i, 2>>] = HSum(x, y, u, w, 2 + 1) /\ h[<<i, 3>>] = HSum(x, y, u, w, 3 + 1)
    BY <2>2, HRowsCell
  <2> HIDE DEF h
  <2>4. PICK k \in {1, 2, 3, 4} : k = j + 1
    OBVIOUS
  <2>a. /\ h[<<i, 0>>] = HSum(x, y, u, w, 1) /\ h[<<i, 1>>] = HSum(x, y, u, w, 2)
        /\ h[<<i, 2>>] = HSum(x, y, u, w, 3) /\ h[<<i, 3>>] = HSum(x, y, u, w, 4)
    BY ONLY <2>3
  <2>b. HRows(h)[<<i, j>>] = HSum(HSum(x, y, u, w, 1), HSum(x, y, u, w, 2),
                                   HSum(x, y, u, w, 3), HSum(x, y, u, w, 4), k)
    BY ONLY <2>1, <2>4, <2>a
  <2>c. Undone(x, y, u, w, k)
    BY ONLY x \in Int, y \in Int, u \in Int, w \in Int, k \in {1, 2, 3, 4}, HSumTwice
  <2>5. HRows(h)[<<i, j>>] = 4 * (IF k = 1 THEN x ELSE IF k = 2 THEN y ELSE IF k = 3 THEN u ELSE w)
    BY ONLY <2>b, <2>c DEF Undone
  <2>6. b[<<i, j>>] = IF k = 1 THEN x ELSE IF k = 2 THEN y ELSE IF k = 3 THEN u ELSE w
    BY ONLY <2>2, <2>4, j \in 0..3
  <2> QED BY <2>5, <2>6 DEF h
<1>3. HColumns(HColumns(b))[<<i, j>>] = 4 * b[<<i, j>>]
  <2> DEFINE h == HColumns(b)
  <2>1. HColumns(h)[<<i, j>>] = HSum(h[<<0, j>>], h[<<1, j>>], h[<<2, j>>], h[<<3, j>>], i + 1)
    BY ONLY <1>1, i \in 0..3, j \in 0..3, HColumnsCell
  <2>2. PICK x \in Int, y \in Int, u \in Int, w \in Int :
          x = b[<<0, j>>] /\ y = b[<<1, j>>] /\ u = b[<<2, j>>] /\ w = b[<<3, j>>]
    <3>1. b[<<0, j>>] \in Int /\ b[<<1, j>>] \in Int /\ b[<<2, j>>] \in Int /\ b[<<3, j>>] \in Int
      BY DEF Integral
    <3> QED BY ONLY <3>1
  <2>3. /\ h[<<0, j>>] = HSum(x, y, u, w, 0 + 1) /\ h[<<1, j>>] = HSum(x, y, u, w, 1 + 1)
        /\ h[<<2, j>>] = HSum(x, y, u, w, 2 + 1) /\ h[<<3, j>>] = HSum(x, y, u, w, 3 + 1)
    BY <2>2, HColumnsCell
  <2> HIDE DEF h
  <2>4. PICK k \in {1, 2, 3, 4} : k = i + 1
    OBVIOUS
  <2>a. /\ h[<<0, j>>] = HSum(x, y, u, w, 1) /\ h[<<1, j>>] = HSum(x, y, u, w, 2)
        /\ h[<<2, j>>] = HSum(x, y, u, w, 3) /\ h[<<3, j>>] = HSum(x, y, u, w, 4)
    BY ONLY <2>3
  <2>b. HColumns(h)[<<i, j>>] = HSum(HSum(x, y, u, w, 1), HSum(x, y, u, w, 2),
                                   HSum(x, y, u, w, 3), HSum(x, y, u, w, 4), k)
    BY ONLY <2>1, <2>4, <2>a
  <2>c. Undone(x, y, u, w, k)
    BY ONLY x \in Int, y \in Int, u \in Int, w \in Int, k \in {1, 2, 3, 4}, HSumTwice
  <2>5. HColumns(h)[<<i, j>>] = 4 * (IF k = 1 THEN x ELSE IF k = 2 THEN y ELSE IF k = 3 THEN u ELSE w)
    BY ONLY <2>b, <2>c DEF Undone
  <2>6. b[<<i, j>>] = IF k = 1 THEN x ELSE IF k = 2 THEN y ELSE IF k = 3 THEN u ELSE w
    BY ONLY <2>2, <2>4, i \in 0..3
  <2> QED BY <2>5, <2>6 DEF h
<1> QED BY <1>2, <1>3

LEMMA HSumsCommute ==
  ASSUME NEW b, Integral(b), NEW k \in {1, 2, 3, 4}, NEW m \in {1, 2, 3, 4}
  PROVE  HSum(HSum(b[<<0, 0>>], b[<<0, 1>>], b[<<0, 2>>], b[<<0, 3>>], k),
              HSum(b[<<1, 0>>], b[<<1, 1>>], b[<<1, 2>>], b[<<1, 3>>], k),
              HSum(b[<<2, 0>>], b[<<2, 1>>], b[<<2, 2>>], b[<<2, 3>>], k),
              HSum(b[<<3, 0>>], b[<<3, 1>>], b[<<3, 2>>], b[<<3, 3>>], k), m)
         = HSum(HSum(b[<<0, 0>>], b[<<1, 0>>], b[<<2, 0>>], b[<<3, 0>>], m),
                HSum(b[<<0, 1>>], b[<<1, 1>>], b[<<2, 1>>], b[<<3, 1>>], m),
                HSum(b[<<0, 2>>], b[<<1, 2>>], b[<<2, 2>>], b[<<3, 2>>], m),
                HSum(b[<<0, 3>>], b[<<1, 3>>], b[<<2, 3>>], b[<<3, 3>>], m), k)
<1>0. \A p, q \in 0..3 : b[<<p, q>>] \in Int
  BY DEF Integral
<1>a. PICK a1, a2, a3, a4 \in Int :
        a1 = b[<<0, 0>>] /\ a2 = b[<<0, 1>>] /\ a3 = b[<<0, 2>>] /\ a4 = b[<<0, 3>>]
  <2>1. b[<<0, 0>>] \in Int /\ b[<<0, 1>>] \in Int /\ b[<<0, 2>>] \in Int /\ b[<<0, 3>>] \in Int
    BY <1>0
  <2> QED BY ONLY <2>1
<1>b. PICK b1, b2, b3, b4 \in Int :
        b1 = b[<<1, 0>>] /\ b2 = b[<<1, 1>>] /\ b3 = b[<<1, 2>>] /\ b4 = b[<<1, 3>>]
  <2>1. b[<<1, 0>>] \in Int /\ b[<<1, 1>>] \in Int /\ b[<<1, 2>>] \in Int /\ b[<<1, 3>>] \in Int
    BY <1>0
  <2> QED BY ONLY <2>1
<1>c. PICK c1, c2, c3, c4 \in Int :
        c1 = b[<<2, 0>>] /\ c2 = b[<<2, 1>>] /\ c3 = b[<<2, 2>>] /\ c4 = b[<<2, 3>>]
  <2>1. b[<<2, 0>>] \in Int /\ b[<<2, 1>>] \in Int /\ b[<<2, 2>>] \in Int /\ b[<<2, 3>>] \in Int
    BY <1>0
  <2> QED BY ONLY <2>1
<1>d. PICK d1, d2, d3, d4 \in Int :
        d1 = b[<<3, 0>>] /\ d2 = b[<<3, 1>>] /\ d3 = b[<<3, 2>>] /\ d4 = b[<<3, 3>>]
  <2>1. b[<<3, 0>>] \in Int /\ b[<<3, 1>>] \in Int /\ b[<<3, 2>>] \in Int /\ b[<<3, 3>>] \in Int
    BY <1>0
  <2> QED BY ONLY <2>1
<1>1. PICK p2, p3, p4, q2, q3, q4 \in Int :
        /\ HSign[k][2] = p2 /\ HSign[k][3] = p3 /\ HSign[k][4] = p4
        /\ HSign[m][2] = q2 /\ HSign[m][3] = q3 /\ HSign[m][4] = q4
        /\ HSign[k][1] = 1 /\ HSign[m][1] = 1
  <2>1. HSign[k][2] \in Int /\ HSign[k][3] \in Int /\ HSign[k][4] \in Int /\ HSign[k][1] = 1
    BY HSigns
  <2>2. HSign[m][2] \in Int /\ HSign[m][3] \in Int /\ HSign[m][4] \in Int /\ HSign[m][1] = 1
    BY HSigns
  <2> QED BY ONLY <2>1, <2>2
<1>2. (a1 + p2 * a2 + p3 * a3 + p4 * a4) + q2 * (b1 + p2 * b2 + p3 * b3 + p4 * b4)
        + q3 * (c1 + p2 * c2 + p3 * c3 + p4 * c4) + q4 * (d1 + p2 * d2 + p3 * d3 + p4 * d4)
      = (a1 + q2 * b1 + q3 * c1 + q4 * d1) + p2 * (a2 + q2 * b2 + q3 * c2 + q4 * d2)
        + p3 * (a3 + q2 * b3 + q3 * c3 + q4 * d3) + p4 * (a4 + q2 * b4 + q3 * c4 + q4 * d4)
  OBVIOUS
<1>3. /\ HSum(a1, a2, a3, a4, k) = a1 + p2 * a2 + p3 * a3 + p4 * a4
      /\ HSum(b1, b2, b3, b4, k) = b1 + p2 * b2 + p3 * b3 + p4 * b4
      /\ HSum(c1, c2, c3, c4, k) = c1 + p2 * c2 + p3 * c3 + p4 * c4
      /\ HSum(d1, d2, d3, d4, k) = d1 + p2 * d2 + p3 * d3 + p4 * d4
  BY <1>1 DEF HSum
<1>4. /\ HSum(a1, b1, c1, d1, m) = a1 + q2 * b1 + q3 * c1 + q4 * d1
      /\ HSum(a2, b2, c2, d2, m) = a2 + q2 * b2 + q3 * c2 + q4 * d2
      /\ HSum(a3, b3, c3, d3, m) = a3 + q2 * b3 + q3 * c3 + q4 * d3
      /\ HSum(a4, b4, c4, d4, m) = a4 + q2 * b4 + q3 * c4 + q4 * d4
  BY <1>1 DEF HSum
<1>5. PICK x1, x2, x3, x4, y1, y2, y3, y4 \in Int :
        /\ x1 = a1 + p2 * a2 + p3 * a3 + p4 * a4 /\ x2 = b1 + p2 * b2 + p3 * b3 + p4 * b4
        /\ x3 = c1 + p2 * c2 + p3 * c3 + p4 * c4 /\ x4 = d1 + p2 * d2 + p3 * d3 + p4 * d4
        /\ y1 = a1 + q2 * b1 + q3 * c1 + q4 * d1 /\ y2 = a2 + q2 * b2 + q3 * c2 + q4 * d2
        /\ y3 = a3 + q2 * b3 + q3 * c3 + q4 * d3 /\ y4 = a4 + q2 * b4 + q3 * c4 + q4 * d4
  OBVIOUS
<1>6. x1 + q2 * x2 + q3 * x3 + q4 * x4 = y1 + p2 * y2 + p3 * y3 + p4 * y4
  BY ONLY <1>2, <1>5
<1>7. /\ HSum(x1, x2, x3, x4, m) = x1 + q2 * x2 + q3 * x3 + q4 * x4
      /\ HSum(y1, y2, y3, y4, k) = y1 + p2 * y2 + p3 * y3 + p4 * y4
  BY <1>1 DEF HSum
<1>8. /\ HSum(a1, a2, a3, a4, k) = x1 /\ HSum(b1, b2, b3, b4, k) = x2
      /\ HSum(c1, c2, c3, c4, k) = x3 /\ HSum(d1, d2, d3, d4, k) = x4
      /\ HSum(a1, b1, c1, d1, m) = y1 /\ HSum(a2, b2, c2, d2, m) = y2
      /\ HSum(a3, b3, c3, d3, m) = y3 /\ HSum(a4, b4, c4, d4, m) = y4
  BY ONLY <1>3, <1>4, <1>5
<1>9. HSum(HSum(a1, a2, a3, a4, k), HSum(b1, b2, b3, b4, k),
           HSum(c1, c2, c3, c4, k), HSum(d1, d2, d3, d4, k), m)
      = HSum(HSum(a1, b1, c1, d1, m), HSum(a2, b2, c2, d2, m),
             HSum(a3, b3, c3, d3, m), HSum(a4, b4, c4, d4, m), k)
  BY ONLY <1>6, <1>7, <1>8
<1> QED BY ONLY <1>9, <1>a, <1>b, <1>c, <1>d

LEMMA PassesCommute ==
  ASSUME NEW b, Integral(b), NEW i \in 0..3, NEW j \in 0..3
  PROVE  HRows(HColumns(b))[<<i, j>>] = HColumns(HRows(b))[<<i, j>>]
<1>1. Integral(HRows(b)) /\ Integral(HColumns(b))
  BY HRowsCell, HColumnsCell DEF Integral
<1> DEFINE r == HRows(b)
           c == HColumns(b)
<1>2. \A p, q \in 0..3 : b[<<p, q>>] \in Int
  BY DEF Integral
<1>3. PICK k \in {1, 2, 3, 4}, m \in {1, 2, 3, 4} : k = j + 1 /\ m = i + 1
  OBVIOUS
<1>4. ASSUME NEW p \in 0..3
      PROVE  /\ r[<<p, j>>] = HSum(b[<<p, 0>>], b[<<p, 1>>], b[<<p, 2>>], b[<<p, 3>>], k)
             /\ c[<<i, p>>] = HSum(b[<<0, p>>], b[<<1, p>>], b[<<2, p>>], b[<<3, p>>], m)
  BY <1>3, HRowsCell, HColumnsCell
<1>5. HRows(c)[<<i, j>>] = HSum(c[<<i, 0>>], c[<<i, 1>>], c[<<i, 2>>], c[<<i, 3>>], k)
  BY <1>1, <1>3, HRowsCell
<1>6. HColumns(r)[<<i, j>>] = HSum(r[<<0, j>>], r[<<1, j>>], r[<<2, j>>], r[<<3, j>>], m)
  BY <1>1, <1>3, HColumnsCell
<1> HIDE DEF r, c
<1>7. HSum(HSum(b[<<0, 0>>], b[<<0, 1>>], b[<<0, 2>>], b[<<0, 3>>], k),
           HSum(b[<<1, 0>>], b[<<1, 1>>], b[<<1, 2>>], b[<<1, 3>>], k),
           HSum(b[<<2, 0>>], b[<<2, 1>>], b[<<2, 2>>], b[<<2, 3>>], k),
           HSum(b[<<3, 0>>], b[<<3, 1>>], b[<<3, 2>>], b[<<3, 3>>], k), m)
      = HSum(HSum(b[<<0, 0>>], b[<<1, 0>>], b[<<2, 0>>], b[<<3, 0>>], m),
             HSum(b[<<0, 1>>], b[<<1, 1>>], b[<<2, 1>>], b[<<3, 1>>], m),
             HSum(b[<<0, 2>>], b[<<1, 2>>], b[<<2, 2>>], b[<<3, 2>>], m),
             HSum(b[<<0, 3>>], b[<<1, 3>>], b[<<2, 3>>], b[<<3, 3>>], m), k)
  BY ONLY Integral(b), k \in {1, 2, 3, 4}, m \in {1, 2, 3, 4}, HSumsCommute
<1>8. HRows(c)[<<i, j>>] = HColumns(r)[<<i, j>>]
  BY ONLY <1>4, <1>5, <1>6, <1>7
<1> QED BY <1>8 DEF r, c

LEMMA HColumnsScaled ==
  ASSUME NEW b, Integral(b), NEW g, \A i, j \in 0..3 : g[<<i, j>>] = 4 * b[<<i, j>>]
  PROVE  \A i, j \in 0..3 : HColumns(g)[<<i, j>>] = 4 * HColumns(b)[<<i, j>>]
<1> SUFFICES ASSUME NEW i \in 0..3, NEW j \in 0..3
             PROVE  HColumns(g)[<<i, j>>] = 4 * HColumns(b)[<<i, j>>]
  OBVIOUS
<1>1. Integral(g)
  BY DEF Integral
<1>2. PICK x, y, u, w \in Int :
        x = b[<<0, j>>] /\ y = b[<<1, j>>] /\ u = b[<<2, j>>] /\ w = b[<<3, j>>]
  <2>1. b[<<0, j>>] \in Int /\ b[<<1, j>>] \in Int /\ b[<<2, j>>] \in Int /\ b[<<3, j>>] \in Int
    BY DEF Integral
  <2> QED BY ONLY <2>1
<1>3. g[<<0, j>>] = 4 * x /\ g[<<1, j>>] = 4 * y /\ g[<<2, j>>] = 4 * u /\ g[<<3, j>>] = 4 * w
  BY <1>2
<1>4. HColumns(b)[<<i, j>>] = HSum(x, y, u, w, i + 1)
  BY <1>2, HColumnsCell
<1>5. HColumns(g)[<<i, j>>] = HSum(4 * x, 4 * y, 4 * u, 4 * w, i + 1)
  BY <1>1, <1>3, HColumnsCell
<1>6. PICK p2, p3, p4 \in Int :
        /\ HSign[i + 1][1] = 1 /\ HSign[i + 1][2] = p2
        /\ HSign[i + 1][3] = p3 /\ HSign[i + 1][4] = p4
  <2>1. i + 1 \in {1, 2, 3, 4}
    OBVIOUS
  <2>2. /\ HSign[i + 1][1] = 1 /\ HSign[i + 1][2] \in Int
        /\ HSign[i + 1][3] \in Int /\ HSign[i + 1][4] \in Int
    BY <2>1, HSigns
  <2> QED BY ONLY <2>2
<1>7. /\ HColumns(b)[<<i, j>>] = x + p2 * y + p3 * u + p4 * w
      /\ HColumns(g)[<<i, j>>] = 4 * x + p2 * (4 * y) + p3 * (4 * u) + p4 * (4 * w)
  BY <1>4, <1>5, <1>6 DEF HSum
<1>8. 4 * x + p2 * (4 * y) + p3 * (4 * u) + p4 * (4 * w) = 4 * (x + p2 * y + p3 * u + p4 * w)
  OBVIOUS
<1> QED BY ONLY <1>7, <1>8

(* The transform of the luma DC levels, twice, is 16 times the levels.     *)
LEMMA HadamardTwice ==
  ASSUME NEW b, Integral(b), NEW i \in 0..3, NEW j \in 0..3
  PROVE  /\ Hadamard4x4(Hadamard4x4(b))[<<i, j>>] = 16 * b[<<i, j>>]
         /\ Hadamard4x4(b)[<<i, j>>] \in Int
<1> DEFINE r == HRows(b)
           h == HColumns(r)
           g == HRows(r)
<1>1. Integral(r)
  BY HRowsCell DEF Integral
<1>2. Integral(h) /\ Integral(g)
  BY <1>1, HRowsCell, HColumnsCell DEF Integral
<1>3. \A p, q \in 0..3 : g[<<p, q>>] = 4 * b[<<p, q>>]
  BY PassesTwice
<1>4. \A p, q \in 0..3 : HRows(h)[<<p, q>>] = HColumns(g)[<<p, q>>]
  <2> HIDE DEF r
  <2> QED BY <1>1, PassesCommute
<1>5. \A p, q \in 0..3 : HColumns(g)[<<p, q>>] = 4 * HColumns(b)[<<p, q>>]
  <2> HIDE DEF g
  <2> QED BY ONLY <1>3, Integral(b), HColumnsScaled
<1>6. Integral(HColumns(b))
  BY HColumnsCell DEF Integral
<1>7. \A p, q \in 0..3 : HRows(h)[<<p, q>>] = 4 * HColumns(b)[<<p, q>>]
  BY ONLY <1>4, <1>5
<1>8. HColumns(HRows(h))[<<i, j>>] = 4 * HColumns(HColumns(b))[<<i, j>>]
  <2> HIDE DEF h
  <2> QED BY ONLY <1>6, <1>7, i \in 0..3, j \in 0..3, HColumnsScaled
<1>9. HColumns(HColumns(b))[<<i, j>>] = 4 * b[<<i, j>>] /\ b[<<i, j>>] \in Int
  BY PassesTwice DEF Integral
<1>10. HColumns(HRows(h))[<<i, j>>] = 16 * b[<<i, j>>]
  BY ONLY <1>8, <1>9
<1> QED BY <1>2, <1>10, HadamardIsTwoPasses DEF Integral

(* And that of the chroma DC levels, 4 times.                              *)
LEMMA SmallHadamardTwice ==
  ASSUME NEW b, b \in [Cells(2) -> Int], NEW cell \in Cells(2)
  PROVE  /\ Hadamard2x2(Hadamard2x2(b))[cell] = 4 * b[cell]
         /\ Hadamard2x2(b)[cell] \in Int
<1>1. PICK x, y, u, w \in Int :
        x = b[<<0, 0>>] /\ y = b[<<0, 1>>] /\ u = b[<<1, 0>>] /\ w = b[<<1, 1>>]
  BY CellsOf2
<1>2. ASSUME NEW f, f[<<0, 0>>] \in Int, f[<<0, 1>>] \in Int, f[<<1, 0>>] \in Int, f[<<1, 1>>] \in Int
      PROVE  /\ Hadamard2x2(f)[<<0, 0>>] = (f[<<0, 0>>] + f[<<0, 1>>]) + (f[<<1, 0>>] + f[<<1, 1>>])
             /\ Hadamard2x2(f)[<<0, 1>>] = (f[<<0, 0>>] - f[<<0, 1>>]) + (f[<<1, 0>>] - f[<<1, 1>>])
             /\ Hadamard2x2(f)[<<1, 0>>] = (f[<<0, 0>>] + f[<<0, 1>>]) - (f[<<1, 0>>] + f[<<1, 1>>])
             /\ Hadamard2x2(f)[<<1, 1>>] = (f[<<0, 0>>] - f[<<0, 1>>]) - (f[<<1, 0>>] - f[<<1, 1>>])
  <2> DEFINE rows == [c \in Cells(2) |->
                        f[<<c[1], 0>>] + (IF c[2] = 0 THEN 1 ELSE -1) * f[<<c[1], 1>>]]
  <2>1. /\ rows[<<0, 0>>] = f[<<0, 0>>] + f[<<0, 1>>] /\ rows[<<0, 1>>] = f[<<0, 0>>] - f[<<0, 1>>]
        /\ rows[<<1, 0>>] = f[<<1, 0>>] + f[<<1, 1>>] /\ rows[<<1, 1>>] = f[<<1, 0>>] - f[<<1, 1>>]
    BY <1>2, CellsOf2
  <2>2. Hadamard2x2(f) =
          [c \in Cells(2) |->
             rows[<<0, c[2]>>] + (IF c[1] = 0 THEN 1 ELSE -1) * rows[<<1, c[2]>>]]
    BY DEF Hadamard2x2
  <2> HIDE DEF rows
  <2>3. /\ Hadamard2x2(f)[<<0, 0>>] = rows[<<0, 0>>] + 1 * rows[<<1, 0>>]
        /\ Hadamard2x2(f)[<<0, 1>>] = rows[<<0, 1>>] + 1 * rows[<<1, 1>>]
        /\ Hadamard2x2(f)[<<1, 0>>] = rows[<<0, 0>>] + (-1) * rows[<<1, 0>>]
        /\ Hadamard2x2(f)[<<1, 1>>] = rows[<<0, 1>>] + (-1) * rows[<<1, 1>>]
    BY ONLY <2>2, CellsOf2
  <2> QED BY ONLY <1>2, <2>1, <2>3
<1> DEFINE h == Hadamard2x2(b)
<1>3. /\ h[<<0, 0>>] = (x + y) + (u + w) /\ h[<<0, 1>>] = (x - y) + (u - w)
      /\ h[<<1, 0>>] = (x + y) - (u + w) /\ h[<<1, 1>>] = (x - y) - (u - w)
  BY <1>1, <1>2
<1> HIDE DEF h
<1>4. /\ h[<<0, 0>>] \in Int /\ h[<<0, 1>>] \in Int /\ h[<<1, 0>>] \in Int /\ h[<<1, 1>>] \in Int
  BY <1>3
<1>5. /\ Hadamard2x2(h)[<<0, 0>>] = 4 * x /\ Hadamard2x2(h)[<<0, 1>>] = 4 * y
      /\ Hadamard2x2(h)[<<1, 0>>] = 4 * u /\ Hadamard2x2(h)[<<1, 1>>] = 4 * w
  BY <1>2, <1>3, <1>4
<1>6. cell \in {<<0, 0>>, <<0, 1>>, <<1, 0>>, <<1, 1>>}
  BY CellsOf2
<1> QED BY <1>1, <1>4, <1>5, <1>6 DEF h

-----------------------------------------------------------------------------
(* Six QPs up, a scaled value doubles, up to the rounding of both.         *)
LEMMA ScaledDoubles ==
  ASSUME NEW x \in Int, NEW qp \in Nat, qp <= 45, NEW whole \in {4, 5, 6}, NEW rounded \in BOOLEAN
  PROVE  /\ Scaled(x, qp, whole, rounded) \in Int /\ Scaled(x, qp + 6, whole, rounded) \in Int
         /\ Abs(Scaled(x, qp + 6, whole, rounded) - 2 * Scaled(x, qp, whole, rounded)) <= 1
<1> DEFINE s == Scaled(x, qp, whole, rounded)
           t == Scaled(x, qp + 6, whole, rounded)
<1>1. PICK q : q = qp \div 6
  OBVIOUS
<1>2. q \in {0, 1, 2, 3, 4, 5, 6, 7} /\ (qp + 6) \div 6 = q + 1
  BY <1>1
<1>3. PICK up : up = qp + 6 /\ up \in Nat /\ up <= 57 /\ up \div 6 = q + 1 /\ t = Scaled(x, up, whole, rounded)
  BY <1>2
<1>4. s = Scaled(x, qp, whole, rounded) /\ qp <= 57
  OBVIOUS
<1> HIDE DEF s, t
<1>5. ByShift(s, x, q, whole, rounded)
  BY ONLY <1>1, <1>4, qp \in Nat, x \in Int, whole \in {4, 5, 6}, rounded \in BOOLEAN, ScaledBy
<1>6. ByShift(t, x, q + 1, whole, rounded)
  BY ONLY <1>3, x \in Int, whole \in {4, 5, 6}, rounded \in BOOLEAN, ScaledBy
<1>7. s \in Int /\ t \in Int
  BY ONLY <1>5, <1>6 DEF ByShift
<1>8. CASE q >= whole
  <2>1. PICK k \in 0..3 : q = whole + k
    BY <1>2, <1>8
  <2>2. s = x * 2^k /\ t = x * 2^(k + 1)
    <3>1. k \in 0..5 /\ k + 1 \in 0..5 /\ q + 1 = whole + (k + 1)
      BY ONLY <2>1, whole \in {4, 5, 6}
    <3> QED BY ONLY <1>5, <1>6, <2>1, <3>1 DEF ByShift
  <2>3. \E p \in Int : 2^k = p /\ 2^(k + 1) = 2 * p
    <3>1. CASE k = 0
      BY ONLY <3>1, SmallPowers
    <3>2. CASE k = 1
      BY ONLY <3>2, SmallPowers
    <3>3. CASE k = 2
      BY ONLY <3>3, SmallPowers
    <3>4. CASE k = 3
      BY ONLY <3>4, SmallPowers
    <3> QED BY ONLY <2>1, <3>1, <3>2, <3>3, <3>4
  <2>4. PICK p \in Int : 2^k = p /\ 2^(k + 1) = 2 * p
    BY ONLY <2>3
  <2>5. t - 2 * s = 0
    BY ONLY <2>2, <2>4, x \in Int, p \in Int
  <2> QED BY ONLY <1>3, <1>4, <1>7, <2>5 DEF Abs
<1>9. CASE q < whole
  <2>1. PICK m \in {1, 2, 3, 4, 5, 6} : q = whole - m
    BY <1>2, <1>9
  <2>2. t - 2 * s \in {-1, 0, 1}
    <3>1. CASE m = 1
      <4>1. t = x
        BY ONLY <1>6, <2>1, <3>1, SmallPowers, x \in Int, whole \in {4, 5, 6} DEF ByShift
      <4>2. s = (x + (IF rounded THEN 1 ELSE 0)) \div 2
        BY ONLY <1>5, <2>1, <3>1 DEF ByShift
      <4> QED BY ONLY <4>1, <4>2, x \in Int, rounded \in BOOLEAN
    <3>2. CASE m = 2
      <4>1. t = (x + (IF rounded THEN 1 ELSE 0)) \div 2
        BY ONLY <1>6, <2>1, <3>2, whole \in {4, 5, 6} DEF ByShift
      <4>2. s = (x + (IF rounded THEN 2 ELSE 0)) \div 4
        BY ONLY <1>5, <2>1, <3>2 DEF ByShift
      <4> QED BY ONLY <4>1, <4>2, x \in Int, rounded \in BOOLEAN
    <3>3. CASE m = 3
      <4>1. t = (x + (IF rounded THEN 2 ELSE 0)) \div 4
        BY ONLY <1>6, <2>1, <3>3, whole \in {4, 5, 6} DEF ByShift
      <4>2. s = (x + (IF rounded THEN 4 ELSE 0)) \div 8
        BY ONLY <1>5, <2>1, <3>3 DEF ByShift
      <4> QED BY ONLY <4>1, <4>2, x \in Int, rounded \in BOOLEAN
    <3>4. CASE m = 4
      <4>1. t = (x + (IF rounded THEN 4 ELSE 0)) \div 8
        BY ONLY <1>6, <2>1, <3>4, whole \in {4, 5, 6} DEF ByShift
      <4>2. s = (x + (IF rounded THEN 8 ELSE 0)) \div 16
        BY ONLY <1>5, <2>1, <3>4 DEF ByShift
      <4> QED BY ONLY <4>1, <4>2, x \in Int, rounded \in BOOLEAN
    <3>5. CASE m = 5
      <4>1. t = (x + (IF rounded THEN 8 ELSE 0)) \div 16
        BY ONLY <1>6, <2>1, <3>5, whole \in {4, 5, 6} DEF ByShift
      <4>2. s = (x + (IF rounded THEN 16 ELSE 0)) \div 32
        BY ONLY <1>5, <2>1, <3>5 DEF ByShift
      <4> QED BY ONLY <4>1, <4>2, x \in Int, rounded \in BOOLEAN
    <3>6. CASE m = 6
      <4>1. t = (x + (IF rounded THEN 16 ELSE 0)) \div 32
        BY ONLY <1>6, <2>1, <3>6, whole \in {4, 5, 6} DEF ByShift
      <4>2. s = (x + (IF rounded THEN 32 ELSE 0)) \div 64
        BY ONLY <1>5, <2>1, <3>6 DEF ByShift
      <4> QED BY ONLY <4>1, <4>2, x \in Int, rounded \in BOOLEAN
    <3> QED BY ONLY <2>1, <3>1, <3>2, <3>3, <3>4, <3>5, <3>6
  <2> QED BY ONLY <1>3, <1>4, <1>7, <2>2 DEF Abs
<1> QED BY <1>2, <1>8, <1>9

LEMMA ScalesRepeat ==
  ASSUME NEW qp \in Nat, NEW i \in 0..3, NEW j \in 0..3
  PROVE  /\ LevelScale(qp + 6, <<i, j>>) = LevelScale(qp, <<i, j>>)
         /\ LevelScale(qp, <<i, j>>) \in Int
<1>1. PICK r \in {0, 1, 2, 3, 4, 5} : r = qp % 6 /\ r = (qp + 6) % 6
  OBVIOUS
<1>2. PICK class \in {1, 2, 3} : class = PositionClass(<<i, j>>)
  BY Classes
<1>3. NORM_ADJUST_4X4[r + 1][class] \in Nat
  BY ONLY r \in {0, 1, 2, 3, 4, 5}, class \in {1, 2, 3} DEF NORM_ADJUST_4X4
<1>4. /\ LevelScale(qp, <<i, j>>) = 16 * NORM_ADJUST_4X4[r + 1][class]
      /\ LevelScale(qp + 6, <<i, j>>) = 16 * NORM_ADJUST_4X4[r + 1][class]
  BY <1>1, <1>2 DEF LevelScale
<1> QED BY <1>3, <1>4

(* The same of a coefficient: v is a level or a transformed DC level.      *)
LEMMA CoefficientDoubles ==
  ASSUME NEW v \in Int, NEW qp \in Nat, qp <= 45, NEW whole \in {4, 5, 6}, NEW rounded \in BOOLEAN,
         NEW i \in 0..3, NEW j \in 0..3
  PROVE  Abs(Scaled(v * LevelScale(qp + 6, <<i, j>>), qp + 6, whole, rounded)
               - 2 * Scaled(v * LevelScale(qp, <<i, j>>), qp, whole, rounded)) <= 1
<1>1. PICK l \in Int : l = LevelScale(qp, <<i, j>>) /\ l = LevelScale(qp + 6, <<i, j>>)
  BY ScalesRepeat
<1>2. PICK x \in Int : x = v * l
  OBVIOUS
<1>3. Abs(Scaled(x, qp + 6, whole, rounded) - 2 * Scaled(x, qp, whole, rounded)) <= 1
  BY ScaledDoubles
<1> QED BY ONLY <1>1, <1>2, <1>3

LEMMA HadamardsAreSelfInverse == ResidualInv => SelfInverse
<1> SUFFICES ASSUME ResidualInv, stage = "hadamard" PROVE SelfInverse
  BY DEF SelfInverse
<1>1. coded \in Residuals /\ coded.kind \in {"luma_dc", "chroma_dc"} /\ values = Transformed(coded)
  BY DEF ResidualInv, AcStages, DcStages
<1>2. CASE coded.kind = "luma_dc"
  <2>1. values = Hadamard4x4(coded.levels) /\ DOMAIN values = Cells(4)
    BY <1>1, <1>2 DEF Transformed, Hadamard4x4
  <2>2. Integral(coded.levels)
    BY <1>1, <1>2, CellsOf4, ResidualsAssumption DEF Integral
  <2>3. ASSUME NEW cell \in Cells(4)
        PROVE  Hadamard4x4(values)[cell] = 16 * coded.levels[cell]
    <3>1. PICK i \in 0..3, j \in 0..3 : cell = <<i, j>>
      BY CellsOf4
    <3> QED BY ONLY <2>1, <2>2, <3>1, HadamardTwice
  <2> QED BY <1>2, <2>1, <2>3 DEF SelfInverse
<1>3. CASE coded.kind = "chroma_dc"
  <2>1. values = Hadamard2x2(coded.levels) /\ DOMAIN values = Cells(2)
    BY <1>1, <1>3 DEF Transformed, Hadamard2x2
  <2>2. coded.levels \in [Cells(2) -> Int]
    BY <1>1, <1>3, ResidualsAssumption
  <2>3. ASSUME NEW cell \in Cells(2)
        PROVE  Hadamard2x2(values)[cell] = 4 * coded.levels[cell]
    BY ONLY <2>1, <2>2, cell \in Cells(2), SmallHadamardTwice
  <2> QED BY <1>3, <2>1, <2>3 DEF SelfInverse
<1> QED BY <1>1, <1>2, <1>3

LEMMA StepsDouble == ResidualInv => StepDoubles
<1> SUFFICES ASSUME ResidualInv, stage \in {"dequantised", "dc"}, coded.qp <= 45 PROVE StepDoubles
  BY DEF StepDoubles
<1>1. coded \in Residuals /\ coded.qp \in Nat
  BY ResidualsAssumption DEF ResidualInv
<1>2. CASE coded.kind = "ac"
  <2>1. values = DequantAc(Clamped(coded), coded.qp)
    BY <1>1, <1>2 DEF ResidualInv, AcStages, DcStages, Coefficients
  <2>2. ASSUME NEW cell \in Cells(4)
        PROVE  Abs(DequantAc(Clamped(coded), coded.qp + 6)[cell] - 2 * values[cell]) <= 1
    <3>1. PICK i \in 0..3, j \in 0..3 : cell = <<i, j>>
      BY CellsOf4
    <3>2. PICK v \in Int : v = Clamped(coded)[cell]
      BY <1>1, <1>2, ClampedLevels
    <3>3. /\ DequantAc(Clamped(coded), coded.qp + 6)[cell] =
               Scaled(v * LevelScale(coded.qp + 6, <<i, j>>), coded.qp + 6, 4, TRUE)
          /\ values[cell] = Scaled(v * LevelScale(coded.qp, <<i, j>>), coded.qp, 4, TRUE)
      BY ONLY <2>1, <3>1, <3>2, cell \in Cells(4) DEF DequantAc
    <3>4. Abs(Scaled(v * LevelScale(coded.qp + 6, <<i, j>>), coded.qp + 6, 4, TRUE)
                - 2 * Scaled(v * LevelScale(coded.qp, <<i, j>>), coded.qp, 4, TRUE)) <= 1
      BY <1>1, CoefficientDoubles
    <3> QED BY ONLY <3>3, <3>4
  <2>3. DOMAIN values = Cells(4)
    BY <2>1 DEF DequantAc
  <2> QED BY <1>2, <2>2, <2>3 DEF StepDoubles, Clamped
<1>3. CASE coded.kind \in {"luma_dc", "chroma_dc"}
  <2>1. values = ScaledDc(coded)
    BY <1>3 DEF ResidualInv, AcStages, DcStages
  <2>a. PICK i0 \in 0..3 : i0 = 0
    OBVIOUS
  <2>2. CASE coded.kind = "luma_dc"
    <3>1. values = DequantLumaDc(Hadamard4x4(coded.levels), coded.qp)
      BY <2>1, <2>2 DEF ScaledDc, Transformed
    <3>2. Integral(coded.levels)
      BY <1>1, <2>2, CellsOf4, ResidualsAssumption DEF Integral
    <3>3. ASSUME NEW cell \in Cells(4)
          PROVE  Abs(DequantLumaDc(Hadamard4x4(coded.levels), coded.qp + 6)[cell]
                       - 2 * values[cell]) <= 1
      <4>1. PICK i \in 0..3, j \in 0..3 : cell = <<i, j>>
        BY CellsOf4
      <4>2. PICK v \in Int : v = Hadamard4x4(coded.levels)[cell]
        BY <3>2, <4>1, HadamardTwice
      <4>3. /\ DequantLumaDc(Hadamard4x4(coded.levels), coded.qp + 6)[cell] =
                 Scaled(v * LevelScale(coded.qp + 6, <<0, 0>>), coded.qp + 6, 6, TRUE)
            /\ values[cell] = Scaled(v * LevelScale(coded.qp, <<0, 0>>), coded.qp, 6, TRUE)
        BY ONLY <3>1, <4>2, cell \in Cells(4) DEF DequantLumaDc
      <4>4. Abs(Scaled(v * LevelScale(coded.qp + 6, <<i0, i0>>), coded.qp + 6, 6, TRUE)
                  - 2 * Scaled(v * LevelScale(coded.qp, <<i0, i0>>), coded.qp, 6, TRUE)) <= 1
        BY <1>1, CoefficientDoubles
      <4> QED BY ONLY <2>a, <4>3, <4>4
    <3>4. DOMAIN values = Cells(4)
      BY <3>1 DEF DequantLumaDc
    <3> QED BY <2>2, <3>3, <3>4 DEF StepDoubles
  <2>3. CASE coded.kind = "chroma_dc"
    <3>1. values = DequantChromaDc(Hadamard2x2(coded.levels), coded.qp)
      BY <2>1, <2>3 DEF ScaledDc, Transformed
    <3>2. coded.levels \in [Cells(2) -> Int]
      BY <1>1, <2>3, ResidualsAssumption
    <3>3. ASSUME NEW cell \in Cells(2)
          PROVE  Abs(DequantChromaDc(Hadamard2x2(coded.levels), coded.qp + 6)[cell]
                       - 2 * values[cell]) <= 1
      <4>2. PICK v \in Int : v = Hadamard2x2(coded.levels)[cell]
        BY <3>2, SmallHadamardTwice
      <4>3. /\ DequantChromaDc(Hadamard2x2(coded.levels), coded.qp + 6)[cell] =
                 Scaled(v * LevelScale(coded.qp + 6, <<0, 0>>), coded.qp + 6, 5, FALSE)
            /\ values[cell] = Scaled(v * LevelScale(coded.qp, <<0, 0>>), coded.qp, 5, FALSE)
        BY ONLY <3>1, <4>2, cell \in Cells(2) DEF DequantChromaDc
      <4>4. Abs(Scaled(v * LevelScale(coded.qp + 6, <<i0, i0>>), coded.qp + 6, 5, FALSE)
                  - 2 * Scaled(v * LevelScale(coded.qp, <<i0, i0>>), coded.qp, 5, FALSE)) <= 1
        BY <1>1, CoefficientDoubles
      <4> QED BY ONLY <2>a, <4>3, <4>4
    <3>4. DOMAIN values = Cells(2)
      BY <3>1 DEF DequantChromaDc
    <3> QED BY <2>3, <3>3, <3>4 DEF StepDoubles
  <2> QED BY <1>3, <2>2, <2>3
<1>4. coded.kind \in {"ac", "luma_dc", "chroma_dc"}
  BY <1>1, ResidualsAssumption
<1> QED BY <1>2, <1>3, <1>4

LEMMA ResidualsAreNear ==
  ASSUME ResidualInv, NEW low \in Int, NEW high \in Int, -32768 <= low, high <= 32767
  PROVE  NearExact(low, high)
<1> SUFFICES ASSUME stage = "residual", coded.qp <= 51, LevelsWithin(low, high),
                    NEW cell \in Cells(4)
             PROVE  Abs(4096 * values[cell] - Exact(cell)) < 4096
  BY DEF NearExact
<1>1. coded \in Residuals /\ coded.kind = "ac"
  BY DEF ResidualInv, AcStages
<1>2. coded.levels \in [Cells(4) -> Int]
  BY <1>1, ResidualsAssumption
<1>3. \A c \in Cells(4) : -32768 <= coded.levels[c] /\ coded.levels[c] <= 32767
  <2> SUFFICES ASSUME NEW c \in Cells(4)
               PROVE  -32768 <= coded.levels[c] /\ coded.levels[c] <= 32767
    OBVIOUS
  <2>1. coded.levels[c] \in Int /\ low <= coded.levels[c] /\ coded.levels[c] <= high
    BY <1>2 DEF LevelsWithin
  <2> QED BY <2>1
<1>4. PICK i \in 0..3, j \in 0..3 : cell = <<i, j>>
  BY CellsOf4
<1> QED BY <1>3, <1>4, ResidualIsNearExact

(* No intermediate result of the three paths from levels to pixels or to DC
   coefficients is off, whatever the QP: the residual is near the exact one for
   all levels that fit an i16, the others are clamped to that before they are
   scaled, and the other two claims are of all levels (quant.rs, transform.rs).*)
THEOREM ScalingIsExact == ResidualSpec => [](ScalesExactly /\ NearExact(-32768, 32767))
<1>1. ResidualInv => ScalesExactly /\ NearExact(-32768, 32767)
  BY ResidualsAreNear, HadamardsAreSelfInverse, StepsDouble DEF ScalesExactly
<1> QED BY <1>1, ResidualInductive, PTL

-----------------------------------------------------------------------------
(* The least of a set of naturals, and induction with a set for what is    *)
(* shown.                                                                  *)
LEMMA Least ==
  ASSUME NEW T, T \subseteq Nat, T # {}
  PROVE  \E x \in T : \A y \in T : x <= y
<1> DEFINE R == OpToRel(<, Nat)
<1>1. IsWellFoundedOn(R, Nat)
  BY NatLessThanWellFounded, Zenon
<1>2. \A y, x \in Nat : y < x => <<y, x>> \in R
  BY DEF OpToRel
<1> HIDE DEF R
<1>3. PICK x \in T : \A y \in T : ~(<<y, x>> \in R)
  BY <1>1, WFMin
<1>4. \A y \in T : ~(y < x)
  BY <1>2, <1>3
<1> QED BY <1>3, <1>4

LEMMA SetInduction ==
  ASSUME NEW S, 0 \in S, \A n \in Nat : n \in S => n + 1 \in S
  PROVE  \A n \in Nat : n \in S
<1> DEFINE T == Nat \ S
<1> SUFFICES ASSUME T # {} PROVE FALSE
  OBVIOUS
<1>1. PICK x \in T : \A y \in T : x <= y
  BY Least
<1>2. x # 0 /\ x - 1 \in Nat
  BY <1>1
<1>3. x - 1 \in S
  BY <1>1, <1>2
<1> QED BY <1>1, <1>2, <1>3

(* The same up to a bound.                                                 *)
LEMMA BoundedInduction ==
  ASSUME NEW m \in Nat, NEW S, 0 \in S, \A n \in 0..(m - 1) : n \in S => n + 1 \in S
  PROVE  \A n \in 0..m : n \in S
<1> DEFINE T == {n \in Nat : n <= m => n \in S}
<1>1. 0 \in T
  OBVIOUS
<1>2. \A n \in Nat : n \in T => n + 1 \in T
  OBVIOUS
<1> HIDE DEF T
<1>3. \A n \in Nat : n \in T
  BY <1>1, <1>2, SetInduction
<1> QED BY <1>3 DEF T

-----------------------------------------------------------------------------
(* Sum adds the elements one after another: it is the last of a running    *)
(* total, and of any other that starts and goes on in the same way.        *)
LEMMA SumExists ==
  ASSUME NEW row, NEW m \in Nat
  PROVE  \E g : g = [k \in 0..m |-> IF k = 0 THEN 0 ELSE g[k - 1] + row[k]]
<1> DEFINE Then(k, s) == s + row[k]
           P(g, n) == g = [k \in 0..n |-> IF k = 0 THEN 0 ELSE Then(k, g[k - 1])]
           S == {n \in Nat : \E g : P(g, n)}
<1>1. 0 \in S
  <2>1. P([k \in 0..0 |-> 0], 0)
    OBVIOUS
  <2> QED BY <2>1
<1>2. ASSUME NEW n \in Nat, n \in S PROVE n + 1 \in S
  <2>1. PICK g : P(g, n)
    BY <1>2
  <2> HIDE DEF Then
  <2> DEFINE h == [k \in 0..(n + 1) |-> IF k = 0 THEN 0 ELSE Then(k, g[k - 1])]
  <2>2. \A k \in 0..n : h[k] = g[k]
    <3>1. g = [k \in 0..n |-> IF k = 0 THEN 0 ELSE Then(k, g[k - 1])]
      BY <2>1
    <3> SUFFICES ASSUME NEW k \in 0..n PROVE h[k] = g[k]
      OBVIOUS
    <3>2. k \in 0..(n + 1)
      OBVIOUS
    <3>3. h[k] = IF k = 0 THEN 0 ELSE Then(k, g[k - 1])
      BY <3>2, Zenon
    <3>4. g[k] = IF k = 0 THEN 0 ELSE Then(k, g[k - 1])
      BY ONLY <3>1, k \in 0..n, Zenon
    <3> QED BY <3>3, <3>4
  <2>3. h[0] = 0 /\ \A k \in 1..(n + 1) : h[k] = Then(k, g[k - 1])
    OBVIOUS
  <2>4. h = [k \in 0..(n + 1) |-> h[k]]
    OBVIOUS
  <2> HIDE DEF h
  <2>5. \A k \in 1..(n + 1) : h[k] = Then(k, h[k - 1])
    <3> SUFFICES ASSUME NEW k \in 1..(n + 1) PROVE h[k] = Then(k, h[k - 1])
      OBVIOUS
    <3>1. k - 1 \in 0..n /\ h[k] = Then(k, g[k - 1])
      BY <2>3
    <3> QED BY <2>2, <3>1
  <2>6. \A k \in 0..(n + 1) : h[k] = IF k = 0 THEN 0 ELSE Then(k, h[k - 1])
    BY <2>3, <2>5
  <2>7. P(h, n + 1)
    BY <2>4, <2>6, Zenon
  <2> QED BY <2>7
<1> HIDE DEF S
<1>3. m \in S
  BY <1>1, <1>2, SetInduction
<1>4. PICK g : P(g, m)
  BY <1>3 DEF S
<1> QED BY <1>4, Zenon

LEMMA SumIs ==
  ASSUME NEW s, Len(s) \in Nat
  PROVE  \E f : /\ f[0] = 0 /\ Sum(s) = f[Len(s)]
                /\ \A k \in 1..Len(s) : f[k] = f[k - 1] + s[k]
<1> DEFINE P(g) == g = [i \in 0..Len(s) |-> IF i = 0 THEN 0 ELSE g[i - 1] + s[i]]
           f == CHOOSE g : P(g)
<1>1. \E g : P(g)
  BY SumExists, Zenon
<1>2. Sum(s) = f[Len(s)]
  BY Zenon DEF Sum
<1>3. P(f)
  <2> HIDE DEF P
  <2> QED BY <1>1, Zenon
<1> HIDE DEF f
<1>4. f[0] = 0
  BY <1>3
<1>5. ASSUME NEW k \in 1..Len(s) PROVE f[k] = f[k - 1] + s[k]
  <2>1. k \in 0..Len(s) /\ k # 0
    OBVIOUS
  <2> QED BY <1>3, <2>1, Zenon
<1> QED BY <1>2, <1>4, <1>5, Zenon

LEMMA SumUnique ==
  ASSUME NEW s, Len(s) \in Nat, NEW g, g[0] = 0,
         \A k \in 1..Len(s) : g[k] = g[k - 1] + s[k]
  PROVE  Sum(s) = g[Len(s)]
<1>0. Len(s) \in Nat
  OBVIOUS
<1>1. PICK f : /\ f[0] = 0 /\ Sum(s) = f[Len(s)]
               /\ \A k \in 1..Len(s) : f[k] = f[k - 1] + s[k]
  BY <1>0, SumIs, Zenon
<1> DEFINE S == {k \in 0..Len(s) : f[k] = g[k]}
<1>2. 0 \in S
  BY <1>1
<1>3. ASSUME NEW k \in 0..(Len(s) - 1), k \in S PROVE k + 1 \in S
  <2>1. k + 1 \in 1..Len(s) /\ (k + 1) - 1 = k
    OBVIOUS
  <2>2. f[k + 1] = f[k] + s[k + 1]
    BY <1>1, <2>1
  <2>3. g[k + 1] = g[k] + s[k + 1]
    BY <2>1
  <2> QED BY <1>3, <2>1, <2>2, <2>3
<1> HIDE DEF S
<1>4. \A k \in 0..Len(s) : k \in S
  BY <1>0, <1>2, <1>3, BoundedInduction
<1> QED BY <1>1, <1>4 DEF S

LEMMA SumInt ==
  ASSUME NEW s \in Seq(Int)
  PROVE  Sum(s) \in Int
<1>0. Len(s) \in Nat
  OBVIOUS
<1>1. PICK f : /\ f[0] = 0 /\ Sum(s) = f[Len(s)]
               /\ \A k \in 1..Len(s) : f[k] = f[k - 1] + s[k]
  BY <1>0, SumIs, Zenon
<1> DEFINE S == {k \in 0..Len(s) : f[k] \in Int}
<1>2. 0 \in S
  BY <1>1
<1>3. ASSUME NEW k \in 0..(Len(s) - 1), k \in S PROVE k + 1 \in S
  <2>1. k + 1 \in 1..Len(s) /\ (k + 1) - 1 = k
    OBVIOUS
  <2>2. f[k + 1] = f[k] + s[k + 1] /\ s[k + 1] \in Int
    BY <1>1, <2>1
  <2> QED BY <1>3, <2>1, <2>2
<1> HIDE DEF S
<1>4. \A k \in 0..Len(s) : k \in S
  BY <1>0, <1>2, <1>3, BoundedInduction
<1> QED BY <1>1, <1>4 DEF S

(* A sum of k elements lies between k times their bounds.                  *)
LEMMA SumAtLeast ==
  ASSUME NEW s \in Seq(Int), NEW lo \in Int, \A k \in 1..Len(s) : lo <= s[k]
  PROVE  lo * Len(s) <= Sum(s)
<1>0. Len(s) \in Nat
  OBVIOUS
<1>1. PICK f : /\ f[0] = 0 /\ Sum(s) = f[Len(s)]
               /\ \A k \in 1..Len(s) : f[k] = f[k - 1] + s[k]
  BY <1>0, SumIs, Zenon
<1> DEFINE S == {k \in 0..Len(s) : f[k] \in Int /\ lo * k <= f[k]}
<1>2. 0 \in S
  BY <1>1
<1>3. ASSUME NEW k \in 0..(Len(s) - 1), k \in S PROVE k + 1 \in S
  <2>1. k + 1 \in 1..Len(s) /\ (k + 1) - 1 = k
    OBVIOUS
  <2>2. f[k + 1] = f[k] + s[k + 1] /\ s[k + 1] \in Int /\ lo <= s[k + 1]
    BY <1>1, <2>1
  <2>3. lo * (k + 1) = lo * k + lo /\ lo * k \in Int
    OBVIOUS
  <2>4. f[k] \in Int /\ lo * k <= f[k]
    BY <1>3
  <2>5. k + 1 \in 0..Len(s) /\ lo * (k + 1) <= f[k + 1] /\ f[k + 1] \in Int
    BY <2>1, <2>2, <2>3, <2>4
  <2> QED BY <2>5
<1> HIDE DEF S
<1>4. \A k \in 0..Len(s) : k \in S
  BY <1>0, <1>2, <1>3, BoundedInduction
<1> QED BY <1>1, <1>4 DEF S

LEMMA SumAtMost ==
  ASSUME NEW s \in Seq(Int), NEW hi \in Int, \A k \in 1..Len(s) : s[k] <= hi
  PROVE  Sum(s) <= hi * Len(s)
<1>0. Len(s) \in Nat
  OBVIOUS
<1>1. PICK f : /\ f[0] = 0 /\ Sum(s) = f[Len(s)]
               /\ \A k \in 1..Len(s) : f[k] = f[k - 1] + s[k]
  BY <1>0, SumIs, Zenon
<1> DEFINE S == {k \in 0..Len(s) : f[k] \in Int /\ f[k] <= hi * k}
<1>2. 0 \in S
  BY <1>1
<1>3. ASSUME NEW k \in 0..(Len(s) - 1), k \in S PROVE k + 1 \in S
  <2>1. k + 1 \in 1..Len(s) /\ (k + 1) - 1 = k
    OBVIOUS
  <2>2. f[k + 1] = f[k] + s[k + 1] /\ s[k + 1] \in Int /\ s[k + 1] <= hi
    BY <1>1, <2>1
  <2>3. hi * (k + 1) = hi * k + hi /\ hi * k \in Int
    OBVIOUS
  <2>4. f[k] \in Int /\ f[k] <= hi * k
    BY <1>3
  <2>5. k + 1 \in 0..Len(s) /\ f[k + 1] <= hi * (k + 1) /\ f[k + 1] \in Int
    BY <2>1, <2>2, <2>3, <2>4
  <2> QED BY <2>5
<1> HIDE DEF S
<1>4. \A k \in 0..Len(s) : k \in S
  BY <1>0, <1>2, <1>3, BoundedInduction
<1> QED BY <1>1, <1>4 DEF S

LEMMA SumConcat ==
  ASSUME NEW s \in Seq(Int), NEW t \in Seq(Int)
  PROVE  Sum(s \o t) = Sum(s) + Sum(t)
<1>0. Len(s) \in Nat /\ Len(t) \in Nat
  OBVIOUS
<1>1. PICK f : /\ f[0] = 0 /\ Sum(s) = f[Len(s)]
               /\ \A k \in 1..Len(s) : f[k] = f[k - 1] + s[k]
  BY <1>0, SumIs, Zenon
<1>2. PICK g : /\ g[0] = 0 /\ Sum(t) = g[Len(t)]
               /\ \A k \in 1..Len(t) : g[k] = g[k - 1] + t[k]
  BY <1>0, SumIs, Zenon
<1> DEFINE u == s \o t
           h == [k \in 0..Len(u) |-> IF k <= Len(s) THEN f[k] ELSE Sum(s) + g[k - Len(s)]]
<1>3. Len(u) = Len(s) + Len(t) /\ Len(s) \in Nat /\ Len(t) \in Nat
  OBVIOUS
<1>4. Sum(s) \in Int /\ Sum(t) \in Int
  BY SumInt
<1>5. \A k \in 0..Len(t) : g[k] \in Int
  <2> DEFINE S == {k \in 0..Len(t) : g[k] \in Int}
  <2>1. 0 \in S
    BY <1>2, <1>3
  <2>2. ASSUME NEW k \in 0..(Len(t) - 1), k \in S PROVE k + 1 \in S
    <3>1. k + 1 \in 1..Len(t) /\ (k + 1) - 1 = k
      BY <1>3
    <3>2. g[k + 1] = g[k] + t[k + 1] /\ t[k + 1] \in Int
      BY <1>2, <3>1
    <3> QED BY <2>2, <3>1, <3>2
  <2> HIDE DEF S
  <2>3. \A k \in 0..Len(t) : k \in S
    BY <2>1, <2>2, <1>3, BoundedInduction
  <2> QED BY <2>3 DEF S
<1>6. h[0] = 0
  BY <1>1, <1>3
<1>7. ASSUME NEW k \in 1..Len(u) PROVE h[k] = h[k - 1] + u[k]
  <2>1. CASE k <= Len(s)
    <3>1. u[k] = s[k] /\ h[k] = f[k] /\ h[k - 1] = f[k - 1] /\ f[k] = f[k - 1] + s[k]
      BY <1>1, <1>3, <2>1
    <3> QED BY <3>1
  <2>2. CASE k > Len(s)
    <3> DEFINE j == k - Len(s)
    <3>1. j \in 1..Len(t) /\ j - 1 \in 0..Len(t) /\ k = Len(s) + j
      BY <1>3, <2>2
    <3>2. u[k] = t[j] /\ t[j] \in Int
      BY <1>3, <3>1
    <3>3. g[j] = g[j - 1] + t[j] /\ g[j - 1] \in Int
      BY <1>2, <1>5, <3>1
    <3>4. h[k] = Sum(s) + g[j]
      BY <1>3, <2>2
    <3>5. h[k - 1] = Sum(s) + g[j - 1]
      <4>1. k - 1 \in 0..Len(u) /\ (k - 1) - Len(s) = j - 1
        BY <1>3
      <4>2. CASE k - 1 <= Len(s)
        <5>1. k - 1 = Len(s) /\ j - 1 = 0
          BY <1>3, <2>2, <4>2
        <5>2. h[k - 1] = f[Len(s)]
          BY <4>1, <5>1, <1>3
        <5> QED BY <5>1, <5>2, <1>1, <1>2, <1>4
      <4>3. CASE ~(k - 1 <= Len(s))
        BY <4>1, <4>3
      <4> QED BY <4>2, <4>3
    <3> HIDE DEF j, h, u
    <3> QED BY <1>4, <3>2, <3>3, <3>4, <3>5
  <2> QED BY <1>3, <2>1, <2>2
<1>8. h[Len(u)] = Sum(s) + Sum(t)
  <2>1. CASE Len(t) = 0
    BY <1>1, <1>2, <1>3, <1>4, <2>1
  <2>2. CASE Len(t) # 0
    BY <1>2, <1>3, <2>2
  <2> QED BY <2>1, <2>2
<1> HIDE DEF h, u
<1>9. Sum(u) = h[Len(u)]
  <2>1. Len(u) \in Nat
    BY <1>3
  <2> QED BY <1>6, <1>7, <2>1, SumUnique, Zenon
<1> QED BY <1>8, <1>9 DEF u

-----------------------------------------------------------------------------
(* The numbers between two of a set.  Averages of elements are, and so is
   the rounded mean of a sequence of them.                                 *)
Span(S) == {v \in Int : (\E a \in S : a <= v) /\ (\E a \in S : v <= a)}

LEMMA ElementBetween ==
  ASSUME NEW S \in SUBSET Int, NEW a \in S
  PROVE  a \in Span(S)
BY DEF Span

LEMMA Tap2Between ==
  ASSUME NEW S \in SUBSET Int, NEW a \in S, NEW b \in S
  PROVE  Tap2(a, b) \in Span(S)
<1>1. CASE a <= b
  <2>1. Tap2(a, b) \in Int /\ a <= Tap2(a, b) /\ Tap2(a, b) <= b
    BY <1>1 DEF Tap2
  <2> QED BY <2>1 DEF Span
<1>2. CASE b <= a
  <2>1. Tap2(a, b) \in Int /\ b <= Tap2(a, b) /\ Tap2(a, b) <= a
    BY <1>2 DEF Tap2
  <2> QED BY <2>1 DEF Span
<1> QED BY <1>1, <1>2

LEMMA Tap3Between ==
  ASSUME NEW S \in SUBSET Int, NEW a \in S, NEW b \in S, NEW c \in S
  PROVE  Tap3(a, b, c) \in Span(S)
<1>1. PICK lo \in {a, b, c} : lo <= a /\ lo <= b /\ lo <= c
  <2>1. \E v \in {a, b, c} : v <= a /\ v <= b /\ v <= c
    OBVIOUS
  <2> QED BY <2>1
<1>2. PICK hi \in {a, b, c} : a <= hi /\ b <= hi /\ c <= hi
  <2>1. \E v \in {a, b, c} : a <= v /\ b <= v /\ c <= v
    OBVIOUS
  <2> QED BY <2>1
<1>3. lo \in S /\ hi \in S /\ lo \in Int /\ hi \in Int
  BY <1>1, <1>2
<1>4. Tap3(a, b, c) \in Int /\ lo <= Tap3(a, b, c) /\ Tap3(a, b, c) <= hi
  BY <1>1, <1>2, <1>3 DEF Tap3
<1> QED BY <1>3, <1>4 DEF Span

LEMMA MeanBetween ==
  ASSUME NEW S \in SUBSET Int, NEW s \in Seq(S), s # << >>
  PROVE  Mean(s) \in Span(S)
<1> DEFINE L == Len(s)
           m == Mean(s)
<1>1. L \in Nat /\ L > 0
  <2>1. L \in Nat \ {0}
    BY EmptySeq, Zenon
  <2> QED BY <2>1
<1>2. s \in Seq(Int)
  BY SeqMonotonic, Zenon
<1>9. \A k \in 1..L : s[k] \in S /\ s[k] \in Int
  <2> SUFFICES ASSUME NEW k \in 1..L PROVE s[k] \in S /\ s[k] \in Int
    OBVIOUS
  <2>1. s[k] \in S
    BY ElementOfSeq, Zenon
  <2> QED BY <2>1
<1>3. Sum(s) \in Int
  BY <1>2, SumInt
<1>4. m = (Sum(s) + (L \div 2)) \div L
  BY DEF Mean
<1> HIDE DEF L
<1>5. m \in Int /\ m * L <= Sum(s) + (L \div 2) /\ Sum(s) + (L \div 2) < m * L + L
  <2> DEFINE u == Sum(s) + (L \div 2)
  <2>1. u \in Int
    BY <1>1, <1>3
  <2>2. m = u \div L
    BY <1>4
  <2> HIDE DEF u, m
  <2>3. m \in Int /\ m * L <= u /\ u < m * L + L
    BY <1>1, <2>1, <2>2
  <2> QED BY <2>3 DEF u
<1>6. L \div 2 >= 0 /\ L \div 2 < L
  BY <1>1
<1> HIDE DEF m
<1>7. \E a \in S : a <= m
  <2> SUFFICES ASSUME \A a \in S : ~(a <= m) PROVE FALSE
    OBVIOUS
  <2>1. \A k \in 1..Len(s) : m + 1 <= s[k]
    BY <1>1, <1>5, <1>9 DEF L
  <2>2. (m + 1) * Len(s) <= Sum(s)
    <3>1. m + 1 \in Int
      BY <1>5
    <3> QED BY <1>2, <2>1, <3>1, SumAtLeast, Zenon
  <2>3. (m + 1) * L = m * L + L
    BY <1>1, <1>5
  <2> QED BY <1>1, <1>3, <1>5, <1>6, <2>2, <2>3 DEF L
<1>8. \E a \in S : m <= a
  <2> SUFFICES ASSUME \A a \in S : ~(m <= a) PROVE FALSE
    OBVIOUS
  <2>1. \A k \in 1..Len(s) : s[k] <= m - 1
    BY <1>1, <1>5, <1>9 DEF L
  <2>2. Sum(s) <= (m - 1) * Len(s)
    <3>1. m - 1 \in Int
      BY <1>5
    <3> QED BY <1>2, <2>1, <3>1, SumAtMost, Zenon
  <2>3. (m - 1) * L = m * L - L
    BY <1>1, <1>5
  <2> QED BY <1>1, <1>3, <1>5, <1>6, <2>2, <2>3 DEF L
<1> QED BY <1>5, <1>7, <1>8 DEF Span, m

-----------------------------------------------------------------------------
(* What is known of the neighbours of a block of a side.                   *)
Sides(n, size) ==
  /\ n.top \in Samples8(size) /\ n.left \in Samples8(size)
  /\ n.top_left \in Samples8(1) /\ n.top_right \in Samples8(4)

LEMMA NeighbourSides ==
  ASSUME NEW family \in {4, 16, 8}, NEW n \in Neighbours(family)
  PROVE  Sides(n, family)
<1>1. /\ n.top \in Samples8(family) /\ n.left \in Samples8(family)
      /\ n.top_left \in Samples8(1)
      /\ n.top_right \in IF family = 4 THEN Samples8(4) ELSE {<< >>}
  BY Zenon DEF Neighbours, Size
<1>2. n.top_right \in Samples8(4)
  BY <1>1 DEF Samples8
<1> QED BY <1>1, <1>2 DEF Sides

(* What there is of a row is a row of bytes, and a sequence of them.       *)
LEMMA RowThere ==
  ASSUME NEW k \in Nat, NEW s \in Samples8(k), s # << >>
  PROVE  s \in [1..k -> 0..255] /\ s \in Seq(0..255) /\ Len(s) = k
<1>1. s \in [1..k -> 0..255]
  BY DEF Samples8
<1>2. s \in Seq(0..255)
  BY <1>1
<1>3. Len(s) = k
  BY <1>1
<1> QED BY <1>1, <1>2, <1>3

LEMMA SamplesAreBytes ==
  ASSUME NEW size \in Nat, NEW n, Sides(n, size)
  PROVE  /\ Samples(n) \in SUBSET (0..255) /\ Samples(n) \in SUBSET Int
         /\ n.top \in Seq(Samples(n)) /\ n.left \in Seq(Samples(n))
         /\ n.top_right \in Seq(Samples(n)) /\ n.top_left \in Seq(Samples(n))
<1> DEFINE R(s) == {s[i] : i \in DOMAIN s}
<1>1. ASSUME NEW k \in Nat, NEW s \in Samples8(k), R(s) \subseteq Samples(n)
      PROVE  s \in Seq(Samples(n)) /\ R(s) \subseteq 0..255
  <2>1. CASE s = << >>
    <3>1. s \in Seq(Samples(n))
      BY <2>1
    <3>2. DOMAIN s = {}
      BY <2>1
    <3>3. R(s) = {}
      BY <3>2
    <3> QED BY <3>1, <3>3
  <2>2. CASE s # << >>
    <3>1. s \in [1..k -> 0..255]
      BY <2>2, RowThere
    <3>2. DOMAIN s = 1..k /\ \A i \in 1..k : s[i] \in 0..255
      BY <3>1, Zenon
    <3>3. \A i \in 1..k : s[i] \in R(s)
      BY <3>2
    <3>4. s \in [1..k -> Samples(n)]
      BY <1>1, <3>1, <3>3
    <3>5. s \in Seq(Samples(n))
      BY <3>4
    <3>6. ASSUME NEW v \in R(s) PROVE v \in 0..255
      <4>1. PICK i \in DOMAIN s : v = s[i]
        OBVIOUS
      <4> QED BY <3>2, <4>1, Zenon
    <3> HIDE DEF R
    <3> QED BY <3>5, <3>6
  <2> QED BY <2>1, <2>2
<1>2. Samples(n) = R(n.top) \cup R(n.left) \cup R(n.top_right) \cup R(n.top_left)
  BY Zenon DEF Samples
<1> HIDE DEF R
<1>3. /\ n.top \in Samples8(size) /\ n.left \in Samples8(size)
      /\ n.top_left \in Samples8(1) /\ n.top_right \in Samples8(4)
  BY Zenon DEF Sides
<1>4. n.top \in Seq(Samples(n)) /\ R(n.top) \subseteq 0..255
  <2>1. R(n.top) \subseteq Samples(n)
    BY <1>2
  <2> QED BY <1>1, <1>3, <2>1
<1>5. n.left \in Seq(Samples(n)) /\ R(n.left) \subseteq 0..255
  <2>1. R(n.left) \subseteq Samples(n)
    BY <1>2
  <2> QED BY <1>1, <1>3, <2>1
<1>6. n.top_right \in Seq(Samples(n)) /\ R(n.top_right) \subseteq 0..255
  <2>1. 4 \in Nat /\ R(n.top_right) \subseteq Samples(n)
    BY <1>2
  <2> QED BY <1>1, <1>3, <2>1
<1>7. n.top_left \in Seq(Samples(n)) /\ R(n.top_left) \subseteq 0..255
  <2>1. 1 \in Nat /\ R(n.top_left) \subseteq Samples(n)
    BY <1>2
  <2> QED BY <1>1, <1>3, <2>1
<1>8. Samples(n) \subseteq 0..255
  <2>1. \A v \in Samples(n) : \/ v \in R(n.top) \/ v \in R(n.left)
                              \/ v \in R(n.top_right) \/ v \in R(n.top_left)
    BY <1>2
  <2> QED BY <1>4, <1>5, <1>6, <1>7, <2>1
<1>9. Samples(n) \subseteq Int
  BY <1>8
<1> QED BY <1>4, <1>5, <1>6, <1>7, <1>8, <1>9

-----------------------------------------------------------------------------
(* What lies between the samples is a byte if they are.                    *)
LEMMA SpanOfBytes ==
  ASSUME NEW S \in SUBSET (0..255)
  PROVE  Span(S) \subseteq 0..255
BY DEF Span

(* The pixels of a row, of a column and the corner are among the samples.  *)
LEMMA RowsAreSamples ==
  ASSUME NEW size \in Nat, NEW n, Sides(n, size)
  PROVE  /\ n.top # << >> => \A i \in 0..(size - 1) : n.top[i + 1] \in Samples(n)
         /\ n.left # << >> => \A i \in 0..(size - 1) : n.left[i + 1] \in Samples(n)
         /\ n.top_left # << >> => n.top_left[1] \in Samples(n)
<1>1. /\ n.top \in Samples8(size) /\ n.left \in Samples8(size)
      /\ n.top_left \in Samples8(1)
  BY Zenon DEF Sides
<1>2. /\ n.top \in Seq(Samples(n)) /\ n.left \in Seq(Samples(n))
      /\ n.top_left \in Seq(Samples(n))
  BY SamplesAreBytes
<1>3. ASSUME NEW k \in Nat, NEW s \in Samples8(k), s \in Seq(Samples(n)), s # << >>
      PROVE  \A i \in 0..(k - 1) : s[i + 1] \in Samples(n)
  <2> SUFFICES ASSUME NEW i \in 0..(k - 1) PROVE s[i + 1] \in Samples(n)
    OBVIOUS
  <2>1. Len(s) = k
    BY <1>3, RowThere
  <2>2. i + 1 \in 1..Len(s)
    BY <2>1
  <2> QED BY <1>3, <2>2, ElementOfSeq, Zenon
<1>4. n.top # << >> => \A i \in 0..(size - 1) : n.top[i + 1] \in Samples(n)
  BY <1>1, <1>2, <1>3
<1>5. n.left # << >> => \A i \in 0..(size - 1) : n.left[i + 1] \in Samples(n)
  BY <1>1, <1>2, <1>3
<1>6. n.top_left # << >> => \A i \in 0..(1 - 1) : n.top_left[i + 1] \in Samples(n)
  BY <1>1, <1>2, <1>3
<1>7. 0 \in 0..(1 - 1) /\ 0 + 1 = 1
  OBVIOUS
<1> QED BY <1>4, <1>5, <1>6, <1>7

LEMMA EdgesAreSamples ==
  ASSUME NEW size \in Nat, NEW n, Sides(n, size), n.top_left # << >>
  PROVE  /\ n.top # << >> => \A i \in -1..(size - 1) : TopAt(n, i) \in Samples(n)
         /\ n.left # << >> => \A i \in -1..(size - 1) : LeftAt(n, i) \in Samples(n)
<1>1. ASSUME n.top # << >>, NEW i \in -1..(size - 1) PROVE TopAt(n, i) \in Samples(n)
  <2>1. CASE i = -1
    BY <2>1, RowsAreSamples DEF TopAt
  <2>2. CASE i # -1
    <3>1. i \in 0..(size - 1)
      BY <2>2
    <3> QED BY <1>1, <2>2, <3>1, RowsAreSamples DEF TopAt
  <2> QED BY <2>1, <2>2
<1>2. ASSUME n.left # << >>, NEW i \in -1..(size - 1) PROVE LeftAt(n, i) \in Samples(n)
  <2>1. CASE i = -1
    BY <2>1, RowsAreSamples DEF LeftAt
  <2>2. CASE i # -1
    <3>1. i \in 0..(size - 1)
      BY <2>2
    <3> QED BY <1>2, <2>2, <3>1, RowsAreSamples DEF LeftAt
  <2> QED BY <2>1, <2>2
<1> QED BY <1>1, <1>2

(* Vertical, horizontal and DC.                                            *)
LEMMA StraightSpan ==
  ASSUME NEW size \in Nat, NEW n, Sides(n, size)
  PROVE  /\ n.top # << >> => Vertical(n, size) \in [Pixels(size) -> Span(Samples(n))]
         /\ n.left # << >> => Horizontal(n, size) \in [Pixels(size) -> Span(Samples(n))]
<1>1. Samples(n) \in SUBSET Int
  BY SamplesAreBytes
<1>2. \A a \in Samples(n) : a \in Span(Samples(n))
  BY <1>1, ElementBetween
<1>3. ASSUME n.top # << >>, NEW p \in Pixels(size) PROVE n.top[p[1] + 1] \in Span(Samples(n))
  <2>1. p[1] \in 0..(size - 1)
    BY DEF Pixels
  <2> QED BY <1>2, <1>3, <2>1, RowsAreSamples
<1>4. ASSUME n.left # << >>, NEW p \in Pixels(size) PROVE n.left[p[2] + 1] \in Span(Samples(n))
  <2>1. p[2] \in 0..(size - 1)
    BY DEF Pixels
  <2> QED BY <1>2, <1>4, <2>1, RowsAreSamples
<1> QED BY <1>3, <1>4 DEF Vertical, Horizontal

(* The samples a block is said to lie between, 128 if there are none.      *)
Surround(n) == IF n.top \o n.left = << >> THEN {128} ELSE Samples(n)

LEMMA DcSpan ==
  ASSUME NEW size \in Nat, NEW n, Sides(n, size)
  PROVE  Dc(n, size) \in [Pixels(size) -> Span(Surround(n))]
<1> DEFINE s == n.top \o n.left
           dc == IF s = << >> THEN 128 ELSE Mean(s)
<1>1. /\ Samples(n) \in SUBSET Int
      /\ n.top \in Seq(Samples(n)) /\ n.left \in Seq(Samples(n))
  BY SamplesAreBytes
<1>2. dc \in Span(Surround(n))
  <2>1. CASE s = << >>
    <3>1. 128 \in Span({128})
      BY DEF Span
    <3> QED BY <2>1, <3>1 DEF Surround
  <2>2. CASE s # << >>
    <3>1. s \in Seq(Samples(n))
      BY <1>1, ConcatProperties, Zenon
    <3>2. Mean(s) \in Span(Samples(n))
      BY <1>1, <2>2, <3>1, MeanBetween, Zenon
    <3> QED BY <2>2, <3>2, Zenon DEF Surround
  <2> QED BY <2>1, <2>2
<1>3. Dc(n, size) = [p \in Pixels(size) |-> dc]
  BY Zenon DEF Dc
<1> HIDE DEF dc
<1> QED BY <1>2, <1>3

-----------------------------------------------------------------------------
(* The diagonals: every sample they average is one there is.               *)
LEMMA ConcatRow ==
  ASSUME NEW n, Sides(n, 4), n.top # << >>, n.top_right # << >>
  PROVE  /\ \A k \in 1..8 : (n.top \o n.top_right)[k] \in Samples(n)
         /\ \A k \in 1..4 : (n.top \o n.top_right)[k] = n.top[k]
         /\ \A k \in 5..8 : (n.top \o n.top_right)[k] = n.top_right[k - 4]
<1>1. n.top \in Seq(Samples(n)) /\ n.top_right \in Seq(Samples(n))
  BY SamplesAreBytes
<1>2. Len(n.top) = 4 /\ Len(n.top_right) = 4
  BY RowThere DEF Sides, Samples8
<1>3. /\ n.top \o n.top_right \in Seq(Samples(n))
      /\ Len(n.top \o n.top_right) = Len(n.top) + Len(n.top_right)
      /\ \A k \in 1..(Len(n.top) + Len(n.top_right)) : (n.top \o n.top_right)[k] =
           IF k <= Len(n.top) THEN n.top[k] ELSE n.top_right[k - Len(n.top)]
  BY <1>1, ConcatProperties, Zenon
<1> DEFINE p == n.top \o n.top_right
<1> HIDE DEF p
<1>4. p \in Seq(Samples(n)) /\ Len(p) = 8
  BY <1>2, <1>3 DEF p
<1>5. \A k \in 1..8 : p[k] \in Samples(n)
  BY <1>4, ElementOfSeq
<1>6. \A k \in 1..8 : p[k] = IF k <= 4 THEN n.top[k] ELSE n.top_right[k - 4]
  <2>1. \A k \in 1..(Len(n.top) + Len(n.top_right)) :
          p[k] = IF k <= Len(n.top) THEN n.top[k] ELSE n.top_right[k - Len(n.top)]
    BY <1>3, Zenon DEF p
  <2>2. \A k \in 1..8 : k \in 1..(Len(n.top) + Len(n.top_right))
    BY <1>2
  <2> QED BY <1>2, <2>1, <2>2, Zenon
<1>7. \A k \in 1..4 : p[k] = n.top[k]
  BY <1>6
<1>8. \A k \in 5..8 : p[k] = n.top_right[k - 4]
  BY <1>6
<1> QED BY <1>5, <1>7, <1>8 DEF p

LEMMA DiagonalDownLeftSpan ==
  ASSUME NEW n, Sides(n, 4), n.top # << >>, n.top_right # << >>
  PROVE  DiagonalDownLeft(n) \in [Pixels(4) -> Span(Samples(n))]
<1> DEFINE p == n.top \o n.top_right
           a == [k \in 0..7 |->
                   CASE k = 0 -> Tap3(p[1], p[1], p[2])
                     [] k = 7 -> (p[7] + 3 * p[8] + 2) \div 4
                     [] OTHER -> Tap3(p[k], p[k + 1], p[k + 2])]
<1>1. \A k \in 1..8 : p[k] \in Samples(n)
  BY ConcatRow
<1>2. Samples(n) \in SUBSET Int
  BY SamplesAreBytes
<1> HIDE DEF p
<1>3. ASSUME NEW k \in 0..7 PROVE a[k] \in Span(Samples(n))
  <2>1. CASE k = 0
    <3>1. p[1] \in Samples(n) /\ p[2] \in Samples(n)
      BY <1>1
    <3>2. a[k] = Tap3(p[1], p[1], p[2])
      BY <2>1
    <3> QED BY <1>2, <3>1, <3>2, Tap3Between, Zenon
  <2>2. CASE k = 7
    <3>1. p[7] \in Samples(n) /\ p[8] \in Samples(n) /\ p[7] \in Int /\ p[8] \in Int
      BY <1>1, <1>2
    <3>2. a[k] = (p[7] + 3 * p[8] + 2) \div 4
      BY <2>2
    <3>3. a[k] = Tap3(p[7], p[8], p[8])
      BY <3>1, <3>2 DEF Tap3
    <3> QED BY <1>2, <3>1, <3>3, Tap3Between, Zenon
  <2>3. CASE k # 0 /\ k # 7
    <3>1. p[k] \in Samples(n) /\ p[k + 1] \in Samples(n) /\ p[k + 2] \in Samples(n)
      BY <1>1, <2>3
    <3>2. a[k] = Tap3(p[k], p[k + 1], p[k + 2])
      BY <2>3
    <3> QED BY <1>2, <3>1, <3>2, Tap3Between, Zenon
  <2> QED BY <2>1, <2>2, <2>3
<1>4. DiagonalDownLeft(n) = [q \in Pixels(4) |-> IF q = <<3, 3>> THEN a[7] ELSE a[q[1] + q[2]]]
  BY Zenon DEF DiagonalDownLeft, p
<1> HIDE DEF a
<1>5. ASSUME NEW q \in Pixels(4)
      PROVE  (IF q = <<3, 3>> THEN a[7] ELSE a[q[1] + q[2]]) \in Span(Samples(n))
  <2>1. q = <<q[1], q[2]>> /\ q[1] \in 0..3 /\ q[2] \in 0..3
    BY DEF Pixels
  <2>2. q # <<3, 3>> => q[1] + q[2] \in 0..7
    BY <2>1
  <2> QED BY <1>3, <2>2
<1> QED BY <1>4, <1>5

DiagonalRow(n) ==
  <<n.left[4], n.left[3], n.left[2], n.left[1], n.top_left[1],
    n.top[1], n.top[2], n.top[3], n.top[4]>>

LEMMA DiagonalRowSamples ==
  ASSUME NEW n, Sides(n, 4), n.top # << >>, n.left # << >>, n.top_left # << >>
  PROVE  \A k \in 1..9 : DiagonalRow(n)[k] \in Samples(n)
<1>1. /\ \A i \in 0..(4 - 1) : n.top[i + 1] \in Samples(n)
      /\ \A i \in 0..(4 - 1) : n.left[i + 1] \in Samples(n)
      /\ n.top_left[1] \in Samples(n)
  BY RowsAreSamples
<1>2. /\ n.top[1] \in Samples(n) /\ n.top[2] \in Samples(n)
      /\ n.top[3] \in Samples(n) /\ n.top[4] \in Samples(n)
  BY <1>1
<1>3. /\ n.left[1] \in Samples(n) /\ n.left[2] \in Samples(n)
      /\ n.left[3] \in Samples(n) /\ n.left[4] \in Samples(n)
  BY <1>1
<1> QED BY <1>1, <1>2, <1>3 DEF DiagonalRow

LEMMA DiagonalDownRightSpan ==
  ASSUME NEW n, Sides(n, 4), n.top # << >>, n.left # << >>, n.top_left # << >>
  PROVE  DiagonalDownRight(n) \in [Pixels(4) -> Span(Samples(n))]
<1> DEFINE p == DiagonalRow(n)
           a == [k \in 0..6 |-> Tap3(p[k + 1], p[k + 2], p[k + 3])]
<1>1. \A k \in 1..9 : p[k] \in Samples(n)
  BY DiagonalRowSamples
<1>2. Samples(n) \in SUBSET Int
  BY SamplesAreBytes
<1> HIDE DEF p
<1>3. ASSUME NEW k \in 0..6 PROVE a[k] \in Span(Samples(n))
  <2>1. p[k + 1] \in Samples(n) /\ p[k + 2] \in Samples(n) /\ p[k + 3] \in Samples(n)
    BY <1>1
  <2>2. a[k] = Tap3(p[k + 1], p[k + 2], p[k + 3])
    OBVIOUS
  <2> QED BY <1>2, <2>1, <2>2, Tap3Between, Zenon
<1>4. DiagonalDownRight(n) = [q \in Pixels(4) |-> a[3 + q[1] - q[2]]]
  BY Zenon DEF DiagonalDownRight, DiagonalRow, p
<1> HIDE DEF a
<1>5. \A q \in Pixels(4) : 3 + q[1] - q[2] \in 0..6
  BY DEF Pixels
<1> QED BY <1>3, <1>4, <1>5

LEMMA VerticalRightSpan ==
  ASSUME NEW n, Sides(n, 4), n.top # << >>, n.left # << >>, n.top_left # << >>
  PROVE  VerticalRight(n) \in [Pixels(4) -> Span(Samples(n))]
<1>1. Samples(n) \in SUBSET Int
  BY SamplesAreBytes
<1>2. /\ \A i \in -1..3 : TopAt(n, i) \in Samples(n)
      /\ \A i \in -1..3 : LeftAt(n, i) \in Samples(n)
  BY EdgesAreSamples
<1>3. ASSUME NEW q \in Pixels(4) PROVE VerticalRight(n)[q] \in Span(Samples(n))
  <2> DEFINE x == q[1]
             y == q[2]
             zvr == 2 * x - y
             i == x - (y \div 2) - 1
  <2>1. x \in 0..3 /\ y \in 0..3
    BY DEF Pixels
  <2>2. VerticalRight(n)[q] =
          CASE zvr >= 0 /\ zvr % 2 = 0 -> Tap2(TopAt(n, i), TopAt(n, i + 1))
            [] zvr >= 0 /\ zvr % 2 = 1 -> Tap3(TopAt(n, i - 1), TopAt(n, i), TopAt(n, i + 1))
            [] zvr = -1 -> Tap3(LeftAt(n, 0), LeftAt(n, -1), TopAt(n, 0))
            [] OTHER -> Tap3(LeftAt(n, y - 1), LeftAt(n, y - 2), LeftAt(n, y - 3))
    BY DEF VerticalRight
  <2> HIDE DEF x, y
  <2>3. CASE zvr >= 0 /\ zvr % 2 = 0
    <3>1. i \in -1..3 /\ i + 1 \in -1..3
      BY <2>1, <2>3
    <3>2. VerticalRight(n)[q] = Tap2(TopAt(n, i), TopAt(n, i + 1))
      BY <2>2, <2>3
    <3> HIDE DEF i, zvr
    <3> QED BY <1>1, <1>2, <3>1, <3>2, Tap2Between, Zenon
  <2>4. CASE zvr >= 0 /\ zvr % 2 = 1
    <3>1. i - 1 \in -1..3 /\ i \in -1..3 /\ i + 1 \in -1..3
      BY <2>1, <2>4
    <3>2. VerticalRight(n)[q] = Tap3(TopAt(n, i - 1), TopAt(n, i), TopAt(n, i + 1))
      BY <2>2, <2>4
    <3> HIDE DEF i, zvr
    <3> QED BY <1>1, <1>2, <3>1, <3>2, Tap3Between, Zenon
  <2>5. CASE zvr = -1
    <3>1. LeftAt(n, 0) \in Samples(n) /\ LeftAt(n, -1) \in Samples(n) /\ TopAt(n, 0) \in Samples(n)
      BY <1>2
    <3>2. VerticalRight(n)[q] = Tap3(LeftAt(n, 0), LeftAt(n, -1), TopAt(n, 0))
      BY <2>1, <2>2, <2>5
    <3> HIDE DEF i, zvr
    <3> QED BY <1>1, <3>1, <3>2, Tap3Between, Zenon
  <2>6. CASE zvr < -1
    <3>1. y - 1 \in -1..3 /\ y - 2 \in -1..3 /\ y - 3 \in -1..3
      BY <2>1, <2>6
    <3>2. VerticalRight(n)[q] = Tap3(LeftAt(n, y - 1), LeftAt(n, y - 2), LeftAt(n, y - 3))
      BY <2>1, <2>2, <2>6
    <3> HIDE DEF i, zvr
    <3> QED BY <1>1, <1>2, <3>1, <3>2, Tap3Between, Zenon
  <2>7. (zvr >= 0 /\ zvr % 2 = 0) \/ (zvr >= 0 /\ zvr % 2 = 1) \/ zvr = -1 \/ zvr < -1
    BY <2>1
  <2> QED BY <2>3, <2>4, <2>5, <2>6, <2>7
<1>4. VerticalRight(n) = [q \in Pixels(4) |-> VerticalRight(n)[q]]
  BY DEF VerticalRight
<1> QED BY <1>3, <1>4

(* Neighbours turned by the diagonal of the block: what VerticalRight sees
   in them HorizontalDown sees in the others.                              *)
Turns(m, n) ==
  m.top = n.left /\ m.left = n.top /\ m.top_left = n.top_left /\ m.top_right = n.top_right

LEMMA TurnedSides ==
  ASSUME NEW size, NEW n, NEW m, Turns(m, n), Sides(n, size)
  PROVE  Turns(n, m) /\ Sides(m, size) /\ Samples(m) = Samples(n)
<1>1. Turns(n, m)
  BY Zenon DEF Turns
<1>2. Sides(m, size)
  BY Zenon DEF Turns, Sides
<1>3. Samples(m) = Samples(n)
  <2> DEFINE R(s) == {s[i] : i \in DOMAIN s}
  <2>1. Samples(n) = R(n.top) \cup R(n.left) \cup R(n.top_right) \cup R(n.top_left)
    BY Zenon DEF Samples
  <2>2. Samples(m) = R(m.top) \cup R(m.left) \cup R(m.top_right) \cup R(m.top_left)
    BY Zenon DEF Samples
  <2> HIDE DEF R
  <2> QED BY <2>1, <2>2 DEF Turns
<1> QED BY <1>1, <1>2, <1>3

LEMMA TurnedEdges ==
  ASSUME NEW n, NEW m, Turns(m, n), NEW i
  PROVE  TopAt(m, i) = LeftAt(n, i) /\ LeftAt(m, i) = TopAt(n, i)
BY DEF Turns, TopAt, LeftAt

LEMMA Tap3Mirrored ==
  ASSUME NEW a \in Int, NEW b \in Int, NEW c \in Int
  PROVE  Tap3(a, b, c) = Tap3(c, b, a)
BY DEF Tap3

LEMMA RightIsDownTurned ==
  ASSUME NEW n, NEW m, Turns(m, n), Sides(n, 4),
         n.top # << >>, n.left # << >>, n.top_left # << >>,
         NEW q \in Pixels(4)
  PROVE  /\ <<q[2], q[1]>> \in Pixels(4)
         /\ HorizontalDown(m)[<<q[2], q[1]>>] = VerticalRight(n)[q]
<1> DEFINE x == q[1]
           y == q[2]
           r == <<q[2], q[1]>>
           zvr == 2 * x - y
           i == x - (y \div 2) - 1
<1>1. x \in 0..3 /\ y \in 0..3
  BY DEF Pixels
<1>2. r \in Pixels(4) /\ r[1] = y /\ r[2] = x
  BY <1>1 DEF Pixels
<1>3. VerticalRight(n)[q] =
        CASE zvr >= 0 /\ zvr % 2 = 0 -> Tap2(TopAt(n, i), TopAt(n, i + 1))
          [] zvr >= 0 /\ zvr % 2 = 1 -> Tap3(TopAt(n, i - 1), TopAt(n, i), TopAt(n, i + 1))
          [] zvr = -1 -> Tap3(LeftAt(n, 0), LeftAt(n, -1), TopAt(n, 0))
          [] OTHER -> Tap3(LeftAt(n, y - 1), LeftAt(n, y - 2), LeftAt(n, y - 3))
  BY DEF VerticalRight
<1>4. HorizontalDown(m)[r] =
        CASE zvr >= 0 /\ zvr % 2 = 0 -> Tap2(LeftAt(m, i), LeftAt(m, i + 1))
          [] zvr >= 0 /\ zvr % 2 = 1 -> Tap3(LeftAt(m, i - 1), LeftAt(m, i), LeftAt(m, i + 1))
          [] zvr = -1 -> Tap3(LeftAt(m, 0), TopAt(m, -1), TopAt(m, 0))
          [] OTHER -> Tap3(TopAt(m, y - 1), TopAt(m, y - 2), TopAt(m, y - 3))
  <2> DEFINE At(u, v) ==
               LET w == 2 * v - u
                   j == v - (u \div 2) - 1
               IN CASE w >= 0 /\ w % 2 = 0 -> Tap2(LeftAt(m, j), LeftAt(m, j + 1))
                    [] w >= 0 /\ w % 2 = 1 -> Tap3(LeftAt(m, j - 1), LeftAt(m, j), LeftAt(m, j + 1))
                    [] w = -1 -> Tap3(LeftAt(m, 0), TopAt(m, -1), TopAt(m, 0))
                    [] OTHER -> Tap3(TopAt(m, u - 1), TopAt(m, u - 2), TopAt(m, u - 3))
  <2>1. HorizontalDown(m) = [s \in Pixels(4) |-> At(s[1], s[2])]
    BY Zenon DEF HorizontalDown
  <2> HIDE DEF At
  <2>2. HorizontalDown(m)[r] = At(r[1], r[2])
    BY <1>2, <2>1
  <2>3. HorizontalDown(m)[r] = At(y, x)
    BY <1>2, <2>2, Zenon
  <2> QED BY <2>3 DEF At
<1>5. \A k : TopAt(m, k) = LeftAt(n, k) /\ LeftAt(m, k) = TopAt(n, k)
  BY TurnedEdges, Zenon
<1>6. Tap3(TopAt(n, 0), LeftAt(n, -1), LeftAt(n, 0)) = Tap3(LeftAt(n, 0), LeftAt(n, -1), TopAt(n, 0))
  <2>1. /\ \A k \in -1..3 : TopAt(n, k) \in Samples(n)
        /\ \A k \in -1..3 : LeftAt(n, k) \in Samples(n)
    BY EdgesAreSamples
  <2>2. Samples(n) \in SUBSET Int
    BY SamplesAreBytes
  <2>3. TopAt(n, 0) \in Int /\ LeftAt(n, -1) \in Int /\ LeftAt(n, 0) \in Int
    BY <2>1, <2>2
  <2> QED BY <2>3, Tap3Mirrored, Zenon
<1> HIDE DEF zvr, i, x, y
<1>7. HorizontalDown(m)[r] = VerticalRight(n)[q]
  <2>1. LeftAt(m, 0) = TopAt(n, 0) /\ TopAt(m, -1) = LeftAt(n, -1) /\ TopAt(m, 0) = LeftAt(n, 0)
    BY <1>5
  <2>2. LeftAt(m, i) = TopAt(n, i) /\ LeftAt(m, i + 1) = TopAt(n, i + 1) /\ LeftAt(m, i - 1) = TopAt(n, i - 1)
    BY <1>5
  <2>3. TopAt(m, y - 1) = LeftAt(n, y - 1) /\ TopAt(m, y - 2) = LeftAt(n, y - 2) /\ TopAt(m, y - 3) = LeftAt(n, y - 3)
    BY <1>5
  <2> QED BY <1>3, <1>4, <1>6, <2>1, <2>2, <2>3
<1> QED BY <1>2, <1>7

LEMMA HorizontalDownSpan ==
  ASSUME NEW n, Sides(n, 4), n.top # << >>, n.left # << >>, n.top_left # << >>
  PROVE  HorizontalDown(n) \in [Pixels(4) -> Span(Samples(n))]
<1> DEFINE m == [top |-> n.left, left |-> n.top, top_left |-> n.top_left,
                 top_right |-> n.top_right]
<1>1. Turns(m, n)
  BY DEF Turns
<1> HIDE DEF m
<1>2. Turns(n, m) /\ Sides(m, 4) /\ Samples(m) = Samples(n)
  BY <1>1, TurnedSides
<1>3. m.top # << >> /\ m.left # << >> /\ m.top_left # << >>
  BY <1>1 DEF Turns
<1>4. VerticalRight(m) \in [Pixels(4) -> Span(Samples(n))]
  BY <1>2, <1>3, VerticalRightSpan
<1>5. ASSUME NEW p \in Pixels(4) PROVE HorizontalDown(n)[p] \in Span(Samples(n))
  <2> DEFINE q == <<p[2], p[1]>>
  <2>1. q \in Pixels(4) /\ p = <<q[2], q[1]>>
    BY DEF Pixels
  <2> HIDE DEF q
  <2>2. HorizontalDown(n)[<<q[2], q[1]>>] = VerticalRight(m)[q]
    BY <1>2, <1>3, <2>1, RightIsDownTurned
  <2> QED BY <1>4, <2>1, <2>2
<1>6. HorizontalDown(n) = [p \in Pixels(4) |-> HorizontalDown(n)[p]]
  BY DEF HorizontalDown
<1> QED BY <1>5, <1>6

LEMMA VerticalLeftSpan ==
  ASSUME NEW n, Sides(n, 4), n.top # << >>, n.top_right # << >>
  PROVE  VerticalLeft(n) \in [Pixels(4) -> Span(Samples(n))]
<1> DEFINE p == n.top \o n.top_right
<1>1. \A k \in 1..8 : p[k] \in Samples(n)
  BY ConcatRow
<1>2. Samples(n) \in SUBSET Int
  BY SamplesAreBytes
<1> DEFINE At(q) == LET i == q[1] + (q[2] \div 2) + 1
                    IN IF q[2] % 2 = 0 THEN Tap2(p[i], p[i + 1])
                       ELSE Tap3(p[i], p[i + 1], p[i + 2])
<1>3. VerticalLeft(n) = [q \in Pixels(4) |-> At(q)]
  BY Zenon DEF VerticalLeft
<1> HIDE DEF p
<1>4. ASSUME NEW q \in Pixels(4) PROVE At(q) \in Span(Samples(n))
  <2> DEFINE i == q[1] + (q[2] \div 2) + 1
  <2>1. q[1] \in 0..3 /\ q[2] \in 0..3
    BY DEF Pixels
  <2>2. i \in 1..8 /\ i + 1 \in 1..8 /\ i + 2 \in 1..8
    BY <2>1
  <2>3. At(q) = IF q[2] % 2 = 0 THEN Tap2(p[i], p[i + 1]) ELSE Tap3(p[i], p[i + 1], p[i + 2])
    OBVIOUS
  <2> HIDE DEF i, At
  <2>4. Tap2(p[i], p[i + 1]) \in Span(Samples(n))
    BY <1>1, <1>2, <2>2, Tap2Between, Zenon
  <2>5. Tap3(p[i], p[i + 1], p[i + 2]) \in Span(Samples(n))
    BY <1>1, <1>2, <2>2, Tap3Between, Zenon
  <2> QED BY <2>3, <2>4, <2>5
<1> HIDE DEF At
<1> QED BY <1>3, <1>4

LEMMA HorizontalUpSpan ==
  ASSUME NEW n, Sides(n, 4), n.left # << >>
  PROVE  HorizontalUp(n) \in [Pixels(4) -> Span(Samples(n))]
<1> DEFINE l == n.left
<1>1. \A k \in 1..4 : l[k] \in Samples(n)
  <2>1. \A i \in 0..(4 - 1) : l[i + 1] \in Samples(n)
    BY RowsAreSamples
  <2> SUFFICES ASSUME NEW k \in 1..4 PROVE l[k] \in Samples(n)
    OBVIOUS
  <2>2. k - 1 \in 0..(4 - 1) /\ (k - 1) + 1 = k
    OBVIOUS
  <2> QED BY <2>1, <2>2
<1>2. Samples(n) \in SUBSET Int
  BY SamplesAreBytes
<1> DEFINE At(q) == LET zhu == q[1] + 2 * q[2]
                        j == q[2] + (q[1] \div 2) + 1
                    IN CASE zhu \in {0, 2, 4} -> Tap2(l[j], l[j + 1])
                         [] zhu \in {1, 3} -> Tap3(l[j], l[j + 1], l[j + 2])
                         [] zhu \in {5, 6} -> (l[3] + 3 * l[4] + 2) \div 4
                         [] OTHER -> l[4]
<1>3. HorizontalUp(n) = [q \in Pixels(4) |-> At(q)]
  BY Zenon DEF HorizontalUp
<1> HIDE DEF l
<1>4. ASSUME NEW q \in Pixels(4) PROVE At(q) \in Span(Samples(n))
  <2> DEFINE zhu == q[1] + 2 * q[2]
             j == q[2] + (q[1] \div 2) + 1
  <2>1. q[1] \in 0..3 /\ q[2] \in 0..3
    BY DEF Pixels
  <2>2. CASE zhu \in {0, 2, 4}
    <3>1. j \in 1..4 /\ j + 1 \in 1..4
      BY <2>1, <2>2
    <3>2. At(q) = Tap2(l[j], l[j + 1])
      BY <2>2
    <3> HIDE DEF At, j, zhu
    <3> QED BY <1>1, <1>2, <3>1, <3>2, Tap2Between, Zenon
  <2>3. CASE zhu \in {1, 3}
    <3>1. j \in 1..4 /\ j + 1 \in 1..4 /\ j + 2 \in 1..4
      BY <2>1, <2>3
    <3>2. At(q) = Tap3(l[j], l[j + 1], l[j + 2])
      BY <2>3
    <3> HIDE DEF At, j, zhu
    <3> QED BY <1>1, <1>2, <3>1, <3>2, Tap3Between, Zenon
  <2>4. CASE zhu \in {5, 6}
    <3>1. l[3] \in Samples(n) /\ l[4] \in Samples(n) /\ l[3] \in Int /\ l[4] \in Int
      BY <1>1, <1>2
    <3>2. At(q) = (l[3] + 3 * l[4] + 2) \div 4
      BY <2>4
    <3> HIDE DEF At, j, zhu
    <3>3. At(q) = Tap3(l[3], l[4], l[4])
      BY <3>1, <3>2 DEF Tap3
    <3> QED BY <1>2, <3>1, <3>3, Tap3Between, Zenon
  <2>5. CASE ~(zhu \in {0, 2, 4}) /\ ~(zhu \in {1, 3}) /\ ~(zhu \in {5, 6})
    <3>1. l[4] \in Samples(n)
      BY <1>1
    <3>2. At(q) = l[4]
      BY <2>5
    <3> HIDE DEF At, j, zhu
    <3> QED BY <1>2, <3>1, <3>2, ElementBetween, Zenon
  <2> HIDE DEF zhu, At
  <2> QED BY <2>2, <2>3, <2>4, <2>5
<1> HIDE DEF At
<1> QED BY <1>3, <1>4

(* The chroma DC of a quarter.                                             *)
LEMMA SegmentSamples ==
  ASSUME NEW S, NEW s \in Seq(S), s = << >> \/ Len(s) = 8, NEW k \in 0..1
  PROVE  /\ Segment(s, k) \in Seq(S)
         /\ Segment(s, k) = << >> <=> s = << >>
<1>1. CASE s = << >>
  BY <1>1 DEF Segment
<1>2. CASE s # << >>
  <2>1. Segment(s, k) = SubSeq(s, 4 * k + 1, 4 * k + 4)
    BY <1>2 DEF Segment
  <2> DEFINE a == 4 * k + 1
             b == 4 * k + 4
  <2>2. a \in Int /\ b \in Int /\ a >= 1 /\ b <= 8 /\ a <= b /\ b - a + 1 = 4
    OBVIOUS
  <2>3. Len(s) = 8 /\ Segment(s, k) = SubSeq(s, a, b)
    BY <1>2, <2>1
  <2> HIDE DEF a, b
  <2>4. \A i \in a..b : s[i] \in S
    <3> SUFFICES ASSUME NEW i \in a..b PROVE s[i] \in S
      OBVIOUS
    <3>1. i \in 1..Len(s)
      BY <2>2, <2>3
    <3> QED BY <3>1, ElementOfSeq, Zenon
  <2>5. /\ SubSeq(s, a, b) \in Seq(S)
        /\ Len(SubSeq(s, a, b)) = IF a <= b THEN b - a + 1 ELSE 0
    BY <2>2, <2>4, SubSeqProperties
  <2>6. Len(Segment(s, k)) # 0
    BY <2>2, <2>3, <2>5
  <2>7. Segment(s, k) # << >>
    BY <2>6, EmptySeq
  <2> QED BY <1>2, <2>3, <2>5, <2>7
<1> QED BY <1>1, <1>2

(* What a quarter averages: samples, and none only if there are none.      *)
QuarterSamples(n, x, y) ==
  LET t == Segment(n.top, x)
      l == Segment(n.left, y)
  IN CASE x = y -> t \o l
       [] x = 1 /\ y = 0 -> IF t # << >> THEN t ELSE l
       [] x = 0 /\ y = 1 -> IF l # << >> THEN l ELSE t

LEMMA QuarterDcIs ==
  ASSUME NEW n, NEW x, NEW y
  PROVE  QuarterDc(n, x, y) = IF QuarterSamples(n, x, y) = << >> THEN 128
                              ELSE Mean(QuarterSamples(n, x, y))
BY Zenon DEF QuarterDc, QuarterSamples

LEMMA RowsOfEight ==
  ASSUME NEW n, Sides(n, 8)
  PROVE  /\ n.top = << >> \/ Len(n.top) = 8
         /\ n.left = << >> \/ Len(n.left) = 8
<1>1. n.top \in Samples8(8) /\ n.left \in Samples8(8)
  BY Zenon DEF Sides
<1> QED BY <1>1, RowThere

LEMMA QuarterSpan ==
  ASSUME NEW n, Sides(n, 8), NEW x \in 0..1, NEW y \in 0..1
  PROVE  QuarterDc(n, x, y) \in Span(Surround(n))
<1> DEFINE t == Segment(n.top, x)
           l == Segment(n.left, y)
           u == QuarterSamples(n, x, y)
<1>1. /\ Samples(n) \in SUBSET Int
      /\ n.top \in Seq(Samples(n)) /\ n.left \in Seq(Samples(n))
  BY SamplesAreBytes
<1>2. t \in Seq(Samples(n)) /\ (t = << >> <=> n.top = << >>)
  BY <1>1, RowsOfEight, SegmentSamples, Zenon
<1>3. l \in Seq(Samples(n)) /\ (l = << >> <=> n.left = << >>)
  BY <1>1, RowsOfEight, SegmentSamples, Zenon
<1>4. /\ t \o l \in Seq(Samples(n))
      /\ t \o l = << >> <=> t = << >> /\ l = << >>
      /\ n.top \o n.left = << >> <=> n.top = << >> /\ n.left = << >>
  <2>1. t \o l \in Seq(Samples(n))
    BY <1>2, <1>3, ConcatProperties, Zenon
  <2>2. t \o l = << >> <=> t = << >> /\ l = << >>
    BY <1>2, <1>3, ConcatEqualIffEmpty
  <2>3. n.top \o n.left = << >> <=> n.top = << >> /\ n.left = << >>
    BY <1>1, ConcatEqualIffEmpty
  <2> QED BY <2>1, <2>2, <2>3
<1>5. /\ x = y => u = t \o l
      /\ x = 1 /\ y = 0 => u = IF t # << >> THEN t ELSE l
      /\ x = 0 /\ y = 1 => u = IF l # << >> THEN l ELSE t
  BY DEF QuarterSamples
<1> HIDE DEF t, l, u
<1>6. u \in Seq(Samples(n)) /\ (u = << >> <=> n.top \o n.left = << >>)
  <2>1. CASE x = y
    BY <1>2, <1>3, <1>4, <1>5, <2>1
  <2>2. CASE x = 1 /\ y = 0
    BY <1>2, <1>3, <1>4, <1>5, <2>2
  <2>3. CASE x = 0 /\ y = 1
    BY <1>2, <1>3, <1>4, <1>5, <2>3
  <2> QED BY <2>1, <2>2, <2>3
<1>7. QuarterDc(n, x, y) = IF u = << >> THEN 128 ELSE Mean(u)
  BY QuarterDcIs DEF u
<1>8. CASE u = << >>
  <2>1. 128 \in Span({128})
    BY DEF Span
  <2> QED BY <1>6, <1>7, <1>8, <2>1 DEF Surround
<1>9. CASE u # << >>
  <2>1. Mean(u) \in Span(Samples(n))
    BY <1>1, <1>6, <1>9, MeanBetween, Zenon
  <2>2. Surround(n) = Samples(n)
    BY <1>6, <1>9 DEF Surround
  <2> QED BY <1>7, <1>9, <2>1, <2>2
<1> QED BY <1>8, <1>9

LEMMA ChromaDcAt ==
  ASSUME NEW n, NEW p \in Pixels(8)
  PROVE  /\ p[1] \div 4 \in 0..1 /\ p[2] \div 4 \in 0..1
         /\ ChromaDc(n)[p] = QuarterDc(n, p[1] \div 4, p[2] \div 4)
<1>1. p[1] \in 0..7 /\ p[2] \in 0..7
  BY DEF Pixels
<1> DEFINE qx == p[1] \div 4
           qy == p[2] \div 4
           dc == [q \in (0..1) \X (0..1) |-> QuarterDc(n, q[1], q[2])]
<1>2. qx \in 0..1 /\ qy \in 0..1
  BY <1>1
<1>3. ChromaDc(n) = [r \in Pixels(8) |-> dc[<<r[1] \div 4, r[2] \div 4>>]]
  BY Zenon DEF ChromaDc
<1> HIDE DEF dc
<1>4. ChromaDc(n)[p] = dc[<<qx, qy>>]
  BY <1>3
<1>5. dc[<<qx, qy>>] = QuarterDc(n, qx, qy)
  <2> HIDE DEF qx, qy
  <2> QED BY <1>2 DEF dc
<1> QED BY <1>2, <1>4, <1>5

LEMMA ChromaDcSpan ==
  ASSUME NEW n, Sides(n, 8)
  PROVE  ChromaDc(n) \in [Pixels(8) -> Span(Surround(n))]
<1>1. ChromaDc(n) = [p \in Pixels(8) |-> ChromaDc(n)[p]]
  BY DEF ChromaDc
<1>2. \A p \in Pixels(8) : ChromaDc(n)[p] \in Span(Surround(n))
  BY ChromaDcAt, QuarterSpan
<1> QED BY <1>1, <1>2

-----------------------------------------------------------------------------
(* Plane: whatever the slopes, the clamp leaves a byte.                    *)
LEMMA EdgesAreInts ==
  ASSUME NEW size \in Nat, NEW n, Sides(n, size), n.top_left # << >>,
         n.top # << >>, n.left # << >>
  PROVE  \A i \in -1..(size - 1) : TopAt(n, i) \in Int /\ LeftAt(n, i) \in Int
<1>1. /\ \A i \in -1..(size - 1) : TopAt(n, i) \in Samples(n)
      /\ \A i \in -1..(size - 1) : LeftAt(n, i) \in Samples(n)
  BY EdgesAreSamples
<1>2. Samples(n) \in SUBSET Int
  BY SamplesAreBytes
<1> QED BY <1>1, <1>2

LEMMA SlopeInt ==
  ASSUME NEW half \in {4, 8}, NEW row, \A i \in -1..(2 * half - 1) : row[i] \in Int
  PROVE  Slope(row, half) \in Int
<1> DEFINE s == [i \in 1..half |-> i * (row[half + i - 1] - row[half - 1 - i])]
<1>1. ASSUME NEW i \in 1..half PROVE i * (row[half + i - 1] - row[half - 1 - i]) \in Int
  <2>1. half + i - 1 \in -1..(2 * half - 1) /\ half - 1 - i \in -1..(2 * half - 1)
    OBVIOUS
  <2>2. row[half + i - 1] \in Int /\ row[half - 1 - i] \in Int
    BY <2>1
  <2> QED BY <2>2
<1>2. s \in [1..half -> Int]
  BY <1>1
<1> HIDE DEF s
<1>3. half \in Nat
  OBVIOUS
<1>4. s \in Seq(Int)
  BY <1>2, <1>3
<1>5. Slope(row, half) = Sum(s)
  BY Zenon DEF Slope, s
<1> QED BY <1>4, <1>5, SumInt

(* A plane is a function of its corner value and two slopes.               *)
PlaneSlope(row, size) ==
  ((IF size = 16 THEN 5 ELSE 34) * Slope(row, size \div 2) + 32) \div 64
PlaneOf(a, b, c, size) ==
  [p \in Pixels(size) |->
     ClampPixel((a + b * (p[1] - ((size \div 2) - 1)) + c * (p[2] - ((size \div 2) - 1)) + 16)
                \div 32)]
TopRow(n, size) == [i \in -1..(size - 1) |-> TopAt(n, i)]
LeftRow(n, size) == [i \in -1..(size - 1) |-> LeftAt(n, i)]

LEMMA PlaneIs ==
  ASSUME NEW n, NEW size
  PROVE  Plane(n, size) = PlaneOf(16 * (n.left[size] + n.top[size]),
                                  PlaneSlope(TopRow(n, size), size),
                                  PlaneSlope(LeftRow(n, size), size), size)
BY Zenon DEF Plane, PlaneOf, PlaneSlope, TopRow, LeftRow

LEMMA PlaneSlopesInt ==
  ASSUME NEW size \in {8, 16}, NEW n, Sides(n, size), n.top_left # << >>,
         n.top # << >>, n.left # << >>
  PROVE  /\ PlaneSlope(TopRow(n, size), size) \in Int
         /\ PlaneSlope(LeftRow(n, size), size) \in Int
         /\ n.left[size] \in Int /\ n.top[size] \in Int
<1>1. size \in Nat /\ size \div 2 \in {4, 8} /\ 2 * (size \div 2) - 1 = size - 1
  OBVIOUS
<1>2. \A i \in -1..(size - 1) : TopAt(n, i) \in Int /\ LeftAt(n, i) \in Int
  BY <1>1, EdgesAreInts, Zenon
<1> DEFINE h == size \div 2
<1>3. \A i \in -1..(2 * h - 1) : TopRow(n, size)[i] \in Int /\ LeftRow(n, size)[i] \in Int
  BY <1>1, <1>2 DEF TopRow, LeftRow
<1>4. Slope(TopRow(n, size), h) \in Int /\ Slope(LeftRow(n, size), h) \in Int
  <2>1. h \in {4, 8}
    BY <1>1
  <2> HIDE DEF h
  <2> QED BY <1>3, <2>1, SlopeInt, Zenon
<1>5. PlaneSlope(TopRow(n, size), size) \in Int /\ PlaneSlope(LeftRow(n, size), size) \in Int
  BY <1>4 DEF PlaneSlope
<1>6. size - 1 \in -1..(size - 1) /\ size - 1 # -1 /\ (size - 1) + 1 = size
  OBVIOUS
<1>7. TopAt(n, size - 1) = n.top[size] /\ LeftAt(n, size - 1) = n.left[size]
  BY <1>6 DEF TopAt, LeftAt
<1> QED BY <1>2, <1>5, <1>6, <1>7

LEMMA PlaneBytes ==
  ASSUME NEW size \in {8, 16}, NEW n, Sides(n, size), n.top_left # << >>,
         n.top # << >>, n.left # << >>
  PROVE  Plane(n, size) \in [Pixels(size) -> 0..255]
<1> DEFINE a == 16 * (n.left[size] + n.top[size])
           b == PlaneSlope(TopRow(n, size), size)
           c == PlaneSlope(LeftRow(n, size), size)
<1>1. a \in Int /\ b \in Int /\ c \in Int
  BY PlaneSlopesInt
<1>2. Plane(n, size) = PlaneOf(a, b, c, size)
  BY PlaneIs, Zenon
<1> HIDE DEF a, b, c
<1>3. ASSUME NEW v \in Int PROVE ClampPixel(v) \in 0..255
  BY DEF ClampPixel
<1>4. ASSUME NEW p \in Pixels(size)
      PROVE  (a + b * (p[1] - ((size \div 2) - 1)) + c * (p[2] - ((size \div 2) - 1)) + 16)
             \div 32 \in Int
  <2> DEFINE u == p[1] - ((size \div 2) - 1)
             w == p[2] - ((size \div 2) - 1)
  <2>1. u \in Int /\ w \in Int
    BY DEF Pixels
  <2> HIDE DEF u, w
  <2>2. b * u \in Int /\ c * w \in Int
    BY <1>1, <2>1
  <2>3. a + b * u + c * w + 16 \in Int
    BY <1>1, <2>2
  <2>4. (a + b * u + c * w + 16) \div 32 \in Int
    BY <2>3
  <2> QED BY <2>4 DEF u, w
<1>5. PlaneOf(a, b, c, size) \in [Pixels(size) -> 0..255]
  BY <1>3, <1>4, Zenon DEF PlaneOf
<1> QED BY <1>2, <1>5

-----------------------------------------------------------------------------
(* Reflections: a mode on turned neighbours is its partner, turned.        *)
Swap(p) == <<p[2], p[1]>>

LEMMA SwapPixel ==
  ASSUME NEW size, NEW p \in Pixels(size)
  PROVE  Swap(p) \in Pixels(size) /\ Swap(p)[1] = p[2] /\ Swap(p)[2] = p[1] /\ Swap(Swap(p)) = p
BY DEF Pixels, Swap

LEMMA StraightTurned ==
  ASSUME NEW n, NEW m, Turns(m, n), NEW size, NEW p \in Pixels(size)
  PROVE  /\ Vertical(n, size)[p] = Horizontal(m, size)[Swap(p)]
         /\ Horizontal(n, size)[p] = Vertical(m, size)[Swap(p)]
<1>1. Swap(p) \in Pixels(size) /\ Swap(p)[1] = p[2] /\ Swap(p)[2] = p[1]
  BY SwapPixel
<1> DEFINE q == Swap(p)
<1> HIDE DEF q
<1>2. Vertical(n, size)[p] = n.top[p[1] + 1] /\ Horizontal(n, size)[p] = n.left[p[2] + 1]
  BY DEF Vertical, Horizontal
<1>3. Vertical(m, size)[q] = m.top[q[1] + 1] /\ Horizontal(m, size)[q] = m.left[q[2] + 1]
  BY <1>1 DEF Vertical, Horizontal, q
<1>4. m.top = n.left /\ m.left = n.top
  BY DEF Turns
<1> QED BY <1>1, <1>2, <1>3, <1>4 DEF q

(* A mean does not depend on which of two rows comes first.                *)
LEMMA MeanCommutes ==
  ASSUME NEW s \in Seq(Int), NEW t \in Seq(Int)
  PROVE  /\ s \o t = << >> <=> t \o s = << >>
         /\ Mean(s \o t) = Mean(t \o s)
<1>1. s \o t = << >> <=> t \o s = << >>
  <2>1. s \o t = << >> <=> s = << >> /\ t = << >>
    BY ConcatEqualIffEmpty
  <2>2. t \o s = << >> <=> s = << >> /\ t = << >>
    BY ConcatEqualIffEmpty
  <2> QED BY <2>1, <2>2
<1>2. Sum(s) \in Int /\ Sum(t) \in Int
  BY SumInt
<1>3. Sum(s \o t) = Sum(t \o s)
  <2>1. Sum(s \o t) = Sum(s) + Sum(t)
    BY SumConcat
  <2>2. Sum(t \o s) = Sum(t) + Sum(s)
    BY SumConcat
  <2> QED BY <1>2, <2>1, <2>2
<1>4. Len(s \o t) = Len(t \o s)
  <2>1. Len(s) \in Nat /\ Len(t) \in Nat
    OBVIOUS
  <2>2. Len(s \o t) = Len(s) + Len(t)
    BY ConcatProperties
  <2>3. Len(t \o s) = Len(t) + Len(s)
    BY ConcatProperties
  <2> QED BY <2>1, <2>2, <2>3
<1>5. Mean(s \o t) = Mean(t \o s)
  BY <1>3, <1>4, Zenon DEF Mean
<1> QED BY <1>1, <1>5

LEMMA DcTurned ==
  ASSUME NEW size \in Nat, NEW n, NEW m, Turns(m, n), Sides(n, size), NEW p \in Pixels(size)
  PROVE  Dc(n, size)[p] = Dc(m, size)[Swap(p)]
<1>1. Swap(p) \in Pixels(size)
  BY SwapPixel
<1>2. n.top \in Seq(Int) /\ n.left \in Seq(Int)
  <2>1. /\ Samples(n) \in SUBSET Int
        /\ n.top \in Seq(Samples(n)) /\ n.left \in Seq(Samples(n))
    BY SamplesAreBytes
  <2> QED BY <2>1, SeqMonotonic, Zenon
<1>3. m.top \o m.left = n.left \o n.top
  BY DEF Turns
<1>4. /\ n.top \o n.left = << >> <=> n.left \o n.top = << >>
      /\ Mean(n.top \o n.left) = Mean(n.left \o n.top)
  BY <1>2, MeanCommutes, Zenon
<1>5. Dc(n, size)[p] = IF n.top \o n.left = << >> THEN 128 ELSE Mean(n.top \o n.left)
  BY Zenon DEF Dc
<1>6. Dc(m, size)[Swap(p)] = IF m.top \o m.left = << >> THEN 128 ELSE Mean(m.top \o m.left)
  BY <1>1, Zenon DEF Dc
<1> DEFINE s == n.top \o n.left
           t == n.left \o n.top
<1>7. Dc(m, size)[Swap(p)] = IF t = << >> THEN 128 ELSE Mean(t)
  BY <1>3, <1>6
<1> HIDE DEF s, t
<1> QED BY <1>4, <1>5, <1>7 DEF s, t

LEMMA DiagonalTurned ==
  ASSUME NEW n, NEW m, Turns(m, n), Sides(n, 4),
         n.top # << >>, n.left # << >>, n.top_left # << >>, NEW q \in Pixels(4)
  PROVE  DiagonalDownRight(n)[q] = DiagonalDownRight(m)[Swap(q)]
<1> DEFINE p == DiagonalRow(n)
           r == DiagonalRow(m)
           At(k, s) == LET v == DiagonalRow(k)
                           a == [i \in 0..6 |-> Tap3(v[i + 1], v[i + 2], v[i + 3])]
                       IN a[3 + s[1] - s[2]]
<1>1. \A k \in 1..9 : p[k] \in Int
  <2>1. Samples(n) \in SUBSET Int
    BY SamplesAreBytes
  <2> QED BY <2>1, DiagonalRowSamples
<1>2. \A k \in 1..9 : r[k] = p[10 - k]
  BY DEF Turns, DiagonalRow
<1>3. DiagonalDownRight(n) = [s \in Pixels(4) |-> At(n, s)]
  BY Zenon DEF DiagonalDownRight, DiagonalRow
<1>4. DiagonalDownRight(m) = [s \in Pixels(4) |-> At(m, s)]
  BY Zenon DEF DiagonalDownRight, DiagonalRow
<1>5. q[1] \in 0..3 /\ q[2] \in 0..3
  BY DEF Pixels
<1>6. Swap(q) \in Pixels(4) /\ Swap(q)[1] = q[2] /\ Swap(q)[2] = q[1]
  BY SwapPixel
<1> DEFINE i == 3 + q[1] - q[2]
           j == 3 + q[2] - q[1]
<1>7. i \in 0..6 /\ j \in 0..6 /\ i + j = 6
  BY <1>5
<1>8. At(n, q) = Tap3(p[i + 1], p[i + 2], p[i + 3])
  BY <1>7
<1>9. At(m, Swap(q)) = Tap3(r[j + 1], r[j + 2], r[j + 3])
  BY <1>6, <1>7
<1> HIDE DEF i, j, p, r, At
<1>10. r[j + 1] = p[i + 3] /\ r[j + 2] = p[i + 2] /\ r[j + 3] = p[i + 1]
  BY <1>2, <1>7
<1>11. p[i + 1] \in Int /\ p[i + 2] \in Int /\ p[i + 3] \in Int
  <2>1. i + 1 \in 1..9 /\ i + 2 \in 1..9 /\ i + 3 \in 1..9
    BY <1>7
  <2> QED BY <1>1, <2>1, Zenon
<1>12. At(n, q) = At(m, Swap(q))
  BY <1>8, <1>9, <1>10, <1>11, Tap3Mirrored
<1> QED BY <1>3, <1>4, <1>6, <1>12

LEMMA QuarterTurned ==
  ASSUME NEW n, NEW m, Turns(m, n), Sides(n, 8), NEW x \in 0..1, NEW y \in 0..1
  PROVE  QuarterDc(n, x, y) = QuarterDc(m, y, x)
<1> DEFINE t == Segment(n.top, x)
           l == Segment(n.left, y)
           u == QuarterSamples(n, x, y)
           v == QuarterSamples(m, y, x)
<1>1. t \in Seq(Int) /\ l \in Seq(Int)
  <2>1. /\ Samples(n) \in SUBSET Int
        /\ n.top \in Seq(Samples(n)) /\ n.left \in Seq(Samples(n))
    BY SamplesAreBytes
  <2>2. n.top \in Seq(Int) /\ n.left \in Seq(Int)
    BY <2>1, SeqMonotonic, Zenon
  <2> QED BY <2>2, RowsOfEight, SegmentSamples, Zenon
<1>2. /\ x = y => u = t \o l
      /\ x = 1 /\ y = 0 => u = IF t # << >> THEN t ELSE l
      /\ x = 0 /\ y = 1 => u = IF l # << >> THEN l ELSE t
  BY DEF QuarterSamples
<1>3. Segment(m.top, y) = l /\ Segment(m.left, x) = t
  BY Zenon DEF Turns
<1>4. /\ x = y => v = l \o t
      /\ x = 1 /\ y = 0 => v = IF t # << >> THEN t ELSE l
      /\ x = 0 /\ y = 1 => v = IF l # << >> THEN l ELSE t
  BY <1>3 DEF QuarterSamples
<1> HIDE DEF t, l, u, v
<1>5. (u = << >> <=> v = << >>) /\ Mean(u) = Mean(v)
  <2>1. CASE x = y
    <3>1. (t \o l = << >> <=> l \o t = << >>) /\ Mean(t \o l) = Mean(l \o t)
      BY <1>1, MeanCommutes, Zenon
    <3> QED BY <1>2, <1>4, <2>1, <3>1
  <2>2. CASE x = 1 /\ y = 0
    BY <1>2, <1>4, <2>2
  <2>3. CASE x = 0 /\ y = 1
    BY <1>2, <1>4, <2>3
  <2> QED BY <2>1, <2>2, <2>3
<1>6. QuarterDc(n, x, y) = IF u = << >> THEN 128 ELSE Mean(u)
  BY QuarterDcIs DEF u
<1>7. QuarterDc(m, y, x) = IF v = << >> THEN 128 ELSE Mean(v)
  BY QuarterDcIs DEF v
<1> QED BY <1>5, <1>6, <1>7

LEMMA ChromaDcTurned ==
  ASSUME NEW n, NEW m, Turns(m, n), Sides(n, 8), NEW p \in Pixels(8)
  PROVE  ChromaDc(n)[p] = ChromaDc(m)[Swap(p)]
<1>1. Swap(p) \in Pixels(8) /\ Swap(p)[1] = p[2] /\ Swap(p)[2] = p[1]
  BY SwapPixel
<1> DEFINE qx == p[1] \div 4
           qy == p[2] \div 4
<1>2. qx \in 0..1 /\ qy \in 0..1 /\ ChromaDc(n)[p] = QuarterDc(n, qx, qy)
  BY ChromaDcAt
<1>3. ChromaDc(m)[Swap(p)] = QuarterDc(m, qy, qx)
  BY <1>1, ChromaDcAt
<1> HIDE DEF qx, qy
<1> QED BY <1>2, <1>3, QuarterTurned

LEMMA PlaneTurned ==
  ASSUME NEW size \in {8, 16}, NEW n, NEW m, Turns(m, n), Sides(n, size),
         n.top_left # << >>, n.top # << >>, n.left # << >>, NEW p \in Pixels(size)
  PROVE  Plane(n, size)[p] = Plane(m, size)[Swap(p)]
<1>1. Swap(p) \in Pixels(size) /\ Swap(p)[1] = p[2] /\ Swap(p)[2] = p[1]
  BY SwapPixel
<1> DEFINE a == 16 * (n.left[size] + n.top[size])
           b == PlaneSlope(TopRow(n, size), size)
           c == PlaneSlope(LeftRow(n, size), size)
           h == (size \div 2) - 1
<1>2. /\ a \in Int /\ b \in Int /\ c \in Int
      /\ n.left[size] \in Int /\ n.top[size] \in Int
  BY PlaneSlopesInt
<1>3. Plane(n, size) = PlaneOf(a, b, c, size)
  BY PlaneIs, Zenon
<1>4. TopRow(m, size) = LeftRow(n, size) /\ LeftRow(m, size) = TopRow(n, size)
  <2>1. \A i : TopAt(m, i) = LeftAt(n, i) /\ LeftAt(m, i) = TopAt(n, i)
    BY TurnedEdges, Zenon
  <2> QED BY <2>1 DEF TopRow, LeftRow
<1>5. 16 * (m.left[size] + m.top[size]) = a
  BY <1>2 DEF Turns
<1>6. Plane(m, size) = PlaneOf(a, c, b, size)
  BY <1>4, <1>5, PlaneIs, Zenon
<1> HIDE DEF a, b, c
<1>7. p[1] - h \in Int /\ p[2] - h \in Int
  BY DEF Pixels
<1>8. PlaneOf(a, b, c, size)[p] = ClampPixel((a + b * (p[1] - h) + c * (p[2] - h) + 16) \div 32)
  BY Zenon DEF PlaneOf
<1>9. PlaneOf(a, c, b, size)[Swap(p)] =
        ClampPixel((a + c * (p[2] - h) + b * (p[1] - h) + 16) \div 32)
  <2>1. PlaneOf(a, c, b, size)[Swap(p)] =
          ClampPixel((a + c * (Swap(p)[1] - h) + b * (Swap(p)[2] - h) + 16) \div 32)
    BY <1>1, Zenon DEF PlaneOf
  <2> QED BY <1>1, <2>1, Zenon
<1>10. a + b * (p[1] - h) + c * (p[2] - h) + 16 = a + c * (p[2] - h) + b * (p[1] - h) + 16
  <2> DEFINE u == b * (p[1] - h)
             w == c * (p[2] - h)
  <2>1. u \in Int /\ w \in Int
    BY <1>2, <1>7 DEF b, c
  <2> HIDE DEF u, w
  <2>2. a + u + w + 16 = a + w + u + 16
    BY <1>2, <2>1
  <2> QED BY <2>2 DEF u, w
<1> QED BY <1>3, <1>6, <1>8, <1>9, <1>10, Zenon

-----------------------------------------------------------------------------
(* Pictures of one slope: the neighbours, and the average of two or three
   samples at equal distances, which is the one in the middle.             *)
OnPicture(n, size, a, b, c) ==
  \A i \in -1..(size - 1) : TopAt(n, i) = a + b * i - c /\ LeftAt(n, i) = a - b + c * i

LEMMA Tap2Middle ==
  ASSUME NEW v \in Int, NEW d \in Int
  PROVE  Tap2(v - d, v + d) = v
BY DEF Tap2

LEMMA Tap3Middle ==
  ASSUME NEW v \in Int, NEW d \in Int
  PROVE  Tap3(v - d, v, v + d) = v
BY DEF Tap3

LEMMA TakenOnPicture ==
  ASSUME NEW size \in Nat, NEW n, Sides(n, size), n.top_left # << >>,
         n.top # << >>, n.left # << >>,
         NEW image \in [1..3 -> Int], TakenFrom(image, n, size)
  PROVE  OnPicture(n, size, image[1], image[2], image[3])
<1> DEFINE a == image[1]
           b == image[2]
           c == image[3]
<1>1. a \in Int /\ b \in Int /\ c \in Int
  OBVIOUS
<1>2. \A u, v : Picture(image, <<u, v>>) = a + b * u + c * v
  BY DEF Picture
<1> HIDE DEF a, b, c
<1>3. DOMAIN n.top = 1..size /\ DOMAIN n.left = 1..size /\ DOMAIN n.top_left = 1..1
  BY DEF Sides, Samples8
<1>4. n.top_left[1] = a - b - c
  <2>1. n.top_left[1] = Picture(image, <<-1, -1>>)
    BY <1>3 DEF TakenFrom
  <2> QED BY <1>1, <1>2, <2>1
<1>5. ASSUME NEW i \in 0..(size - 1) PROVE n.top[i + 1] = a + b * i - c
  <2>1. i + 1 \in DOMAIN n.top /\ (i + 1) - 1 = i
    BY <1>3
  <2>2. n.top[i + 1] = Picture(image, <<(i + 1) - 1, -1>>)
    BY <2>1, Zenon DEF TakenFrom
  <2>3. n.top[i + 1] = a + b * i + c * (-1)
    BY <1>2, <2>1, <2>2
  <2> QED BY <1>1, <2>3
<1>6. ASSUME NEW i \in 0..(size - 1) PROVE n.left[i + 1] = a - b + c * i
  <2>1. i + 1 \in DOMAIN n.left /\ (i + 1) - 1 = i
    BY <1>3
  <2>2. n.left[i + 1] = Picture(image, <<-1, (i + 1) - 1>>)
    BY <2>1, Zenon DEF TakenFrom
  <2>3. n.left[i + 1] = a + b * (-1) + c * i
    BY <1>2, <2>1, <2>2
  <2> QED BY <1>1, <2>3
<1>7. ASSUME NEW i \in -1..(size - 1)
      PROVE  TopAt(n, i) = a + b * i - c /\ LeftAt(n, i) = a - b + c * i
  <2>1. CASE i = -1
    <3>1. TopAt(n, i) = n.top_left[1] /\ LeftAt(n, i) = n.top_left[1]
      BY <2>1 DEF TopAt, LeftAt
    <3>2. b * i = -b /\ c * i = -c
      BY <1>1, <2>1
    <3>3. a - b - c = a + (-b) - c /\ a - b - c = a - b + (-c)
      BY <1>1
    <3> QED BY <1>4, <3>1, <3>2, <3>3
  <2>2. CASE i # -1
    <3>1. i \in 0..(size - 1)
      BY <2>2
    <3>2. TopAt(n, i) = n.top[i + 1] /\ LeftAt(n, i) = n.left[i + 1]
      BY <2>2 DEF TopAt, LeftAt
    <3> QED BY <1>5, <1>6, <3>1, <3>2
  <2> QED BY <2>1, <2>2
<1> QED BY <1>7, Zenon DEF OnPicture, a, b, c

(* Diagonal down right, along which x - y is constant.                     *)
LEMMA DiagonalContinues ==
  ASSUME NEW n, NEW a \in Int, NEW b \in Int, OnPicture(n, 4, a, b, -b), NEW q \in Pixels(4)
  PROVE  DiagonalDownRight(n)[q] = a + b * (q[1] - q[2])
<1> DEFINE p == DiagonalRow(n)
           i == 3 + q[1] - q[2]
<1>1. /\ TopAt(n, -1) = n.top_left[1] /\ TopAt(n, 0) = n.top[1] /\ TopAt(n, 1) = n.top[2]
      /\ TopAt(n, 2) = n.top[3] /\ TopAt(n, 3) = n.top[4]
      /\ LeftAt(n, 0) = n.left[1] /\ LeftAt(n, 1) = n.left[2]
      /\ LeftAt(n, 2) = n.left[3] /\ LeftAt(n, 3) = n.left[4]
  BY DEF TopAt, LeftAt
<1>2. \A k \in 1..9 : p[k] = a + b * (k - 5)
  <2>1. /\ n.left[4] = a - 4 * b /\ n.left[3] = a - 3 * b
        /\ n.left[2] = a - 2 * b /\ n.left[1] = a - b
    BY <1>1 DEF OnPicture
  <2>2. /\ n.top_left[1] = a /\ n.top[1] = a + b /\ n.top[2] = a + 2 * b
        /\ n.top[3] = a + 3 * b /\ n.top[4] = a + 4 * b
    BY <1>1 DEF OnPicture
  <2> SUFFICES ASSUME NEW k \in 1..9 PROVE p[k] = a + b * (k - 5)
    OBVIOUS
  <2>3. CASE k \in 1..4
    BY <2>1, <2>3 DEF DiagonalRow
  <2>4. CASE k \in 5..9
    BY <2>2, <2>4 DEF DiagonalRow
  <2> QED BY <2>3, <2>4
<1>3. i \in 0..6 /\ q[1] \in Int /\ q[2] \in Int
  BY DEF Pixels
<1>4. DiagonalDownRight(n)[q] = Tap3(p[i + 1], p[i + 2], p[i + 3])
  <2> DEFINE t == [k \in 0..6 |-> Tap3(p[k + 1], p[k + 2], p[k + 3])]
  <2>1. DiagonalDownRight(n) = [s \in Pixels(4) |-> t[3 + s[1] - s[2]]]
    BY Zenon DEF DiagonalDownRight, DiagonalRow
  <2> HIDE DEF p, t
  <2>2. DiagonalDownRight(n)[q] = t[i]
    BY <2>1
  <2> HIDE DEF i
  <2> QED BY <1>3, <2>2 DEF t
<1> HIDE DEF p
<1> DEFINE v == a + b * (i - 3)
<1>5. v \in Int /\ v = a + b * (q[1] - q[2])
  BY <1>3
<1>6. /\ p[i + 1] = a + b * ((i + 1) - 5) /\ p[i + 2] = a + b * ((i + 2) - 5)
      /\ p[i + 3] = a + b * ((i + 3) - 5)
  BY <1>2, <1>3
<1> HIDE DEF i
<1>7. p[i + 1] = v - b /\ p[i + 2] = v /\ p[i + 3] = v + b
  BY <1>3, <1>6
<1> HIDE DEF v
<1> QED BY <1>4, <1>5, <1>7, Tap3Middle

(* Vertical right, along which 2 x - y is constant.                        *)
LEMMA VerticalRightContinues ==
  ASSUME NEW n, NEW a \in Int, NEW c \in -1..2, OnPicture(n, 4, a, -2 * c, c), NEW q \in Pixels(4)
  PROVE  VerticalRight(n)[q] = a - c * (2 * q[1] - q[2])
<1> DEFINE x == q[1]
           y == q[2]
           zvr == 2 * x - y
           i == x - (y \div 2) - 1
<1>1. x \in 0..3 /\ y \in 0..3
  BY DEF Pixels
<1>2. VerticalRight(n)[q] =
        CASE zvr >= 0 /\ zvr % 2 = 0 -> Tap2(TopAt(n, i), TopAt(n, i + 1))
          [] zvr >= 0 /\ zvr % 2 = 1 -> Tap3(TopAt(n, i - 1), TopAt(n, i), TopAt(n, i + 1))
          [] zvr = -1 -> Tap3(LeftAt(n, 0), LeftAt(n, -1), TopAt(n, 0))
          [] OTHER -> Tap3(LeftAt(n, y - 1), LeftAt(n, y - 2), LeftAt(n, y - 3))
  BY DEF VerticalRight
<1> HIDE DEF x, y
<1> DEFINE v == a - c * zvr
<1>3. v \in Int
  BY <1>1
<1>4. ASSUME NEW k \in -1..3
      PROVE  TopAt(n, k) = a - c * (2 * k + 1) /\ LeftAt(n, k) = a + c * (k + 2)
  <2>1. TopAt(n, k) = a + (-2 * c) * k - c /\ LeftAt(n, k) = a - (-2 * c) + c * k
    BY DEF OnPicture
  <2>2. /\ a + (-2 * c) * k - c = a - c * (2 * k + 1)
        /\ a - (-2 * c) + c * k = a + c * (k + 2)
    OBVIOUS
  <2> QED BY <2>1, <2>2
<1>5. CASE zvr >= 0 /\ zvr % 2 = 0
  <2>1. i \in -1..3 /\ i + 1 \in -1..3 /\ 2 * i + 2 = zvr
    BY <1>1, <1>5
  <2>2. VerticalRight(n)[q] = Tap2(TopAt(n, i), TopAt(n, i + 1))
    BY <1>2, <1>5
  <2>3. TopAt(n, i) = a - c * (2 * i + 1) /\ TopAt(n, i + 1) = a - c * (2 * (i + 1) + 1)
    BY <1>4, <2>1
  <2> HIDE DEF i, zvr
  <2>4. TopAt(n, i) = v - (-c) /\ TopAt(n, i + 1) = v + (-c)
    BY <2>1, <2>3
  <2> HIDE DEF v
  <2>5. Tap2(v - (-c), v + (-c)) = v
    <3>1. -c \in Int
      OBVIOUS
    <3> QED BY <1>3, <3>1, Tap2Middle, Zenon
  <2> QED BY <2>2, <2>4, <2>5 DEF v, zvr, x, y
<1>6. CASE zvr >= 0 /\ zvr % 2 = 1
  <2>1. i - 1 \in -1..3 /\ i \in -1..3 /\ i + 1 \in -1..3 /\ 2 * i + 1 = zvr
    BY <1>1, <1>6
  <2>2. VerticalRight(n)[q] = Tap3(TopAt(n, i - 1), TopAt(n, i), TopAt(n, i + 1))
    BY <1>2, <1>6
  <2>3. /\ TopAt(n, i - 1) = a - c * (2 * (i - 1) + 1) /\ TopAt(n, i) = a - c * (2 * i + 1)
        /\ TopAt(n, i + 1) = a - c * (2 * (i + 1) + 1)
    BY <1>4, <2>1
  <2> HIDE DEF i, zvr
  <2>4. TopAt(n, i - 1) = v - (-2 * c) /\ TopAt(n, i) = v /\ TopAt(n, i + 1) = v + (-2 * c)
    BY <2>1, <2>3
  <2> HIDE DEF v
  <2>5. Tap3(v - (-2 * c), v, v + (-2 * c)) = v
    <3>1. -2 * c \in Int
      OBVIOUS
    <3> QED BY <1>3, <3>1, Tap3Middle, Zenon
  <2> QED BY <2>2, <2>4, <2>5 DEF v, zvr, x, y
<1>7. CASE zvr = -1
  <2>1. VerticalRight(n)[q] = Tap3(LeftAt(n, 0), LeftAt(n, -1), TopAt(n, 0))
    BY <1>1, <1>2, <1>7
  <2>2. LeftAt(n, 0) = a + c * (0 + 2) /\ LeftAt(n, -1) = a + c * (-1 + 2) /\ TopAt(n, 0) = a - c * (2 * 0 + 1)
    BY <1>4
  <2>3. LeftAt(n, 0) = a + 2 * c /\ LeftAt(n, -1) = a + c /\ TopAt(n, 0) = a - c /\ v = a + c
    BY <1>7, <2>2
  <2>4. Tap3(a + 2 * c, a + c, a - c) = a + c
    BY DEF Tap3
  <2> QED BY <2>1, <2>3, <2>4 DEF v, zvr, x, y
<1>8. CASE zvr < -1
  <2>1. y - 1 \in -1..3 /\ y - 2 \in -1..3 /\ y - 3 \in -1..3 /\ zvr = -y
    BY <1>1, <1>8
  <2>2. VerticalRight(n)[q] = Tap3(LeftAt(n, y - 1), LeftAt(n, y - 2), LeftAt(n, y - 3))
    BY <1>1, <1>2, <1>8
  <2>3. /\ LeftAt(n, y - 1) = a + c * ((y - 1) + 2) /\ LeftAt(n, y - 2) = a + c * ((y - 2) + 2)
        /\ LeftAt(n, y - 3) = a + c * ((y - 3) + 2)
    BY <1>4, <2>1
  <2> HIDE DEF i, zvr
  <2>4. LeftAt(n, y - 1) = v - (-c) /\ LeftAt(n, y - 2) = v /\ LeftAt(n, y - 3) = v + (-c)
    BY <1>1, <2>1, <2>3
  <2> HIDE DEF v
  <2>5. Tap3(v - (-c), v, v + (-c)) = v
    <3>1. -c \in Int
      OBVIOUS
    <3> QED BY <1>3, <3>1, Tap3Middle, Zenon
  <2> QED BY <2>2, <2>4, <2>5 DEF v, zvr, x, y
<1>9. (zvr >= 0 /\ zvr % 2 = 0) \/ (zvr >= 0 /\ zvr % 2 = 1) \/ zvr = -1 \/ zvr < -1
  BY <1>1
<1> QED BY <1>5, <1>6, <1>7, <1>8, <1>9

(* Horizontal down is that, turned.                                        *)
LEMMA HorizontalDownContinues ==
  ASSUME NEW n, Sides(n, 4), n.top # << >>, n.left # << >>, n.top_left # << >>,
         NEW a \in Int, NEW b \in -1..2, OnPicture(n, 4, a, b, -2 * b), NEW q \in Pixels(4)
  PROVE  HorizontalDown(n)[q] = a - b * (2 * q[2] - q[1])
<1> DEFINE m == [top |-> n.left, left |-> n.top, top_left |-> n.top_left,
                 top_right |-> n.top_right]
<1>1. Turns(m, n)
  BY DEF Turns
<1> HIDE DEF m
<1>2. Turns(n, m) /\ Sides(m, 4)
  BY <1>1, TurnedSides
<1>3. m.top # << >> /\ m.left # << >> /\ m.top_left # << >>
  BY <1>1 DEF Turns
<1>4. OnPicture(m, 4, a, -2 * b, b)
  <2> SUFFICES ASSUME NEW i \in -1..(4 - 1)
               PROVE  TopAt(m, i) = a + (-2 * b) * i - b /\ LeftAt(m, i) = a - (-2 * b) + b * i
    BY DEF OnPicture
  <2>1. TopAt(n, i) = a + b * i - (-2 * b) /\ LeftAt(n, i) = a - b + (-2 * b) * i
    BY DEF OnPicture
  <2>2. TopAt(m, i) = LeftAt(n, i) /\ LeftAt(m, i) = TopAt(n, i)
    BY <1>1, TurnedEdges
  <2>3. /\ a + b * i - (-2 * b) = a - (-2 * b) + b * i
        /\ a - b + (-2 * b) * i = a + (-2 * b) * i - b
    OBVIOUS
  <2> QED BY <2>1, <2>2, <2>3
<1>5. Swap(q) \in Pixels(4) /\ Swap(q)[1] = q[2] /\ Swap(q)[2] = q[1]
      /\ <<Swap(q)[2], Swap(q)[1]>> = q
  BY SwapPixel DEF Swap
<1>6. HorizontalDown(n)[<<Swap(q)[2], Swap(q)[1]>>] = VerticalRight(m)[Swap(q)]
  BY <1>2, <1>3, <1>5, RightIsDownTurned
<1>7. VerticalRight(m)[Swap(q)] = a - b * (2 * Swap(q)[1] - Swap(q)[2])
  BY <1>4, <1>5, VerticalRightContinues
<1> QED BY <1>5, <1>6, <1>7

(* Vertical left, along which 2 x + y is constant.                         *)
LEMMA VerticalLeftContinues ==
  ASSUME NEW n, NEW a \in Int, NEW c \in Int, NEW q \in Pixels(4),
         \A k \in 1..8 : (n.top \o n.top_right)[k] = a + c * (2 * k - 3)
  PROVE  VerticalLeft(n)[q] = a + c * (2 * q[1] + q[2])
<1> DEFINE p == n.top \o n.top_right
           x == q[1]
           y == q[2]
           i == x + (y \div 2) + 1
           v == a + c * (2 * x + y)
<1>1. x \in 0..3 /\ y \in 0..3
  BY DEF Pixels
<1>2. VerticalLeft(n)[q] = IF y % 2 = 0 THEN Tap2(p[i], p[i + 1]) ELSE Tap3(p[i], p[i + 1], p[i + 2])
  BY Zenon DEF VerticalLeft
<1>3. i \in 1..8 /\ i + 1 \in 1..8 /\ i + 2 \in 1..8
  BY <1>1
<1>4. /\ p[i] = a + c * (2 * i - 3) /\ p[i + 1] = a + c * (2 * (i + 1) - 3)
      /\ p[i + 2] = a + c * (2 * (i + 2) - 3)
  BY <1>3
<1> HIDE DEF p, x, y
<1>5. v \in Int
  BY <1>1
<1>6. CASE y % 2 = 0
  <2>1. 2 * i - 2 = 2 * x + y
    BY <1>1, <1>6
  <2> HIDE DEF i
  <2>2. p[i] = v - c /\ p[i + 1] = v + c
    BY <1>1, <1>3, <1>4, <2>1
  <2> HIDE DEF v
  <2>3. Tap2(v - c, v + c) = v
    BY <1>5, Tap2Middle
  <2> QED BY <1>2, <1>6, <2>2, <2>3 DEF v, x, y
<1>7. CASE y % 2 # 0
  <2>1. 2 * i - 1 = 2 * x + y
    BY <1>1, <1>7
  <2> HIDE DEF i
  <2>2. p[i] = v - 2 * c /\ p[i + 1] = v /\ p[i + 2] = v + 2 * c
    BY <1>1, <1>3, <1>4, <2>1
  <2> HIDE DEF v
  <2>3. Tap3(v - 2 * c, v, v + 2 * c) = v
    <3>1. 2 * c \in Int
      OBVIOUS
    <3> QED BY <1>5, <3>1, Tap3Middle, Zenon
  <2> QED BY <1>2, <1>7, <2>2, <2>3 DEF v, x, y
<1> QED BY <1>6, <1>7

LEMMA HorizontalUpContinues ==
  ASSUME NEW n, NEW a \in Int, NEW b \in Int, NEW q \in Pixels(4), q[1] + 2 * q[2] <= 4,
         \A k \in 1..4 : n.left[k] = a + b * (2 * k - 3)
  PROVE  HorizontalUp(n)[q] = a + b * (q[1] + 2 * q[2])
<1> DEFINE l == n.left
           x == q[1]
           y == q[2]
           h == x + 2 * y
           j == y + (x \div 2) + 1
           v == a + b * h
<1>1. x \in 0..3 /\ y \in 0..3 /\ h \in 0..4
  BY DEF Pixels
<1>2. HorizontalUp(n)[q] = CASE h \in {0, 2, 4} -> Tap2(l[j], l[j + 1])
                             [] h \in {1, 3} -> Tap3(l[j], l[j + 1], l[j + 2])
                             [] h \in {5, 6} -> (l[3] + 3 * l[4] + 2) \div 4
                             [] OTHER -> l[4]
  BY Zenon DEF HorizontalUp
<1>3. \A k \in 1..4 : l[k] = a + b * (2 * k - 3)
  OBVIOUS
<1> HIDE DEF l, x, y
<1>4. v \in Int
  BY <1>1
<1>5. CASE x % 2 = 0
  <2>1. h \in {0, 2, 4} /\ 2 * j - 2 = h /\ j \in 1..4 /\ j + 1 \in 1..4
    BY <1>1, <1>5
  <2> HIDE DEF j, h
  <2>2. l[j] = v - b /\ l[j + 1] = v + b
    BY <1>1, <1>3, <2>1
  <2> HIDE DEF v
  <2>3. Tap2(v - b, v + b) = v
    BY <1>4, Tap2Middle
  <2>4. HorizontalUp(n)[q] = Tap2(l[j], l[j + 1])
    BY <1>2, <2>1
  <2> QED BY <2>2, <2>3, <2>4 DEF v, h, x, y
<1>6. CASE x % 2 # 0
  <2>1. h \in {1, 3} /\ 2 * j - 1 = h /\ j \in 1..4 /\ j + 1 \in 1..4 /\ j + 2 \in 1..4
    BY <1>1, <1>6
  <2> HIDE DEF j, h
  <2>2. l[j] = v - 2 * b /\ l[j + 1] = v /\ l[j + 2] = v + 2 * b
    BY <1>1, <1>3, <2>1
  <2> HIDE DEF v
  <2>3. Tap3(v - 2 * b, v, v + 2 * b) = v
    <3>1. 2 * b \in Int
      OBVIOUS
    <3> QED BY <1>4, <3>1, Tap3Middle, Zenon
  <2>4. HorizontalUp(n)[q] = Tap3(l[j], l[j + 1], l[j + 2])
    BY <1>2, <2>1
  <2> QED BY <2>2, <2>3, <2>4 DEF v, h, x, y
<1> QED BY <1>5, <1>6

(* Plane: the slope of a row of one slope is 204 times its step doubled
   over 16 samples, 30 times over 8, and rounds to 32 times the step.      *)
LEMMA SlopeOfLine ==
  ASSUME NEW half \in {4, 8}, NEW row, NEW e \in Int, NEW d \in Int,
         \A i \in -1..(2 * half - 1) : row[i] = e + d * i
  PROVE  Slope(row, half) = (IF half = 8 THEN 408 ELSE 60) * d
<1> DEFINE s == [i \in 1..half |-> i * (row[half + i - 1] - row[half - 1 - i])]
<1>1. ASSUME NEW i \in 1..half PROVE s[i] = 2 * d * (i * i)
  <2>1. half + i - 1 \in -1..(2 * half - 1) /\ half - 1 - i \in -1..(2 * half - 1)
    OBVIOUS
  <2>2. row[half + i - 1] = e + d * (half + i - 1) /\ row[half - 1 - i] = e + d * (half - 1 - i)
    BY <2>1
  <2>3. s[i] = i * (row[half + i - 1] - row[half - 1 - i])
    OBVIOUS
  <2> HIDE DEF s
  <2>4. (e + d * (half + i - 1)) - (e + d * (half - 1 - i)) = 2 * d * i
    OBVIOUS
  <2>5. s[i] = i * (2 * d * i)
    BY <2>2, <2>3, <2>4
  <2> QED BY <2>5
<1>2. Len(s) = half
  OBVIOUS
<1>3. Slope(row, half) = Sum(s)
  BY Zenon DEF Slope
<1> HIDE DEF s
<1>4. PICK f : /\ f[0] = 0 /\ Sum(s) = f[Len(s)]
               /\ \A k \in 1..Len(s) : f[k] = f[k - 1] + s[k]
  <2>1. Len(s) \in Nat
    BY <1>2
  <2> QED BY <2>1, SumIs, Zenon
<1>5. \A k \in 1..half : f[k] = f[k - 1] + 2 * d * (k * k)
  BY <1>1, <1>2, <1>4
<1>6. f[1] = 2 * d /\ f[2] = 10 * d /\ f[3] = 28 * d /\ f[4] = 60 * d
  <2>1. f[1] = 2 * d
    BY <1>4, <1>5
  <2>2. f[2] = 10 * d
    BY <1>5, <2>1
  <2>3. f[3] = 28 * d
    BY <1>5, <2>2
  <2>4. f[4] = 60 * d
    BY <1>5, <2>3
  <2> QED BY <2>1, <2>2, <2>3, <2>4
<1>7. CASE half = 4
  BY <1>2, <1>3, <1>4, <1>6, <1>7
<1>8. CASE half = 8
  <2>1. f[5] = 110 * d
    BY <1>5, <1>6, <1>8
  <2>2. f[6] = 182 * d
    BY <1>5, <1>8, <2>1
  <2>3. f[7] = 280 * d
    BY <1>5, <1>8, <2>2
  <2>4. f[8] = 408 * d
    BY <1>5, <1>8, <2>3
  <2> QED BY <1>2, <1>3, <1>4, <1>8, <2>4
<1> QED BY <1>7, <1>8

LEMMA PlaneSlopeOfLine ==
  ASSUME NEW size \in {8, 16}, NEW row, NEW e \in Int, NEW d \in -3..4,
         \A i \in -1..(size - 1) : row[i] = e + d * i
  PROVE  PlaneSlope(row, size) = 32 * d
<1> DEFINE half == size \div 2
<1>1. half \in {4, 8} /\ 2 * half = size /\ (half = 8 <=> size = 16)
  OBVIOUS
<1>2. \A i \in -1..(2 * half - 1) : row[i] = e + d * i
  BY <1>1
<1>3. PlaneSlope(row, size) = ((IF size = 16 THEN 5 ELSE 34) * Slope(row, half) + 32) \div 64
  BY Zenon DEF PlaneSlope
<1> HIDE DEF half
<1>4. Slope(row, half) = (IF half = 8 THEN 408 ELSE 60) * d
  BY <1>1, <1>2, SlopeOfLine
<1>5. (IF size = 16 THEN 5 ELSE 34) * Slope(row, half) = 2040 * d
  <2>1. CASE size = 16
    BY <1>1, <1>4, <2>1
  <2>2. CASE size = 8
    BY <1>1, <1>4, <2>2
  <2> QED BY <2>1, <2>2
<1>6. PlaneSlope(row, size) = (2040 * d + 32) \div 64
  BY <1>3, <1>5
<1>7. (2040 * d + 32) \div 64 = 32 * d
  OBVIOUS
<1> QED BY <1>6, <1>7

GentlySloped(n, size, image) ==
  /\ size \in {8, 16} /\ image[1] \in Int /\ image[2] \in -3..4 /\ image[3] \in -3..4
  /\ OnPicture(n, size, image[1], image[2], image[3])

LEMMA PlaneContinues ==
  ASSUME NEW n, NEW size, NEW image, GentlySloped(n, size, image),
         NEW p \in Pixels(size), Picture(image, p) \in 0..255
  PROVE  Plane(n, size)[p] = Picture(image, p)
<1> DEFINE a == image[1]
           b == image[2]
           c == image[3]
<1>0. /\ size \in {8, 16} /\ a \in Int /\ b \in -3..4 /\ c \in -3..4
      /\ \A i \in -1..(size - 1) : TopAt(n, i) = a + b * i - c /\ LeftAt(n, i) = a - b + c * i
  BY Zenon DEF GentlySloped, OnPicture
<1> DEFINE v == a + b * p[1] + c * p[2]
<1>10. v = Picture(image, p)
  BY DEF Picture
<1> HIDE DEF a, b, c
<1>1. PlaneSlope(TopRow(n, size), size) = 32 * b
  <2>1. a - c \in Int
    BY <1>0
  <2>2. \A i \in -1..(size - 1) : TopRow(n, size)[i] = (a - c) + b * i
    <3> SUFFICES ASSUME NEW i \in -1..(size - 1) PROVE TopRow(n, size)[i] = (a - c) + b * i
      BY <1>0
    <3>1. TopRow(n, size)[i] = a + b * i - c
      BY <1>0 DEF TopRow
    <3> QED BY <1>0, <3>1
  <2>3. size \in {8, 16} /\ b \in -3..4
    BY <1>0
  <2> QED BY ONLY <2>1, <2>2, <2>3, PlaneSlopeOfLine
<1>2. PlaneSlope(LeftRow(n, size), size) = 32 * c
  <2>1. a - b \in Int
    BY <1>0
  <2>2. \A i \in -1..(size - 1) : LeftRow(n, size)[i] = (a - b) + c * i
    BY <1>0 DEF LeftRow
  <2> QED BY <1>0, <2>1, <2>2, PlaneSlopeOfLine
<1> DEFINE o == 16 * (n.left[size] + n.top[size])
           h == (size \div 2) - 1
<1>3. o = 32 * a + (16 * (size - 2)) * b + (16 * (size - 2)) * c
  <2>1. size - 1 \in -1..(size - 1) /\ size - 1 # -1 /\ (size - 1) + 1 = size
    BY <1>0
  <2>2. /\ n.top[size] = a + b * (size - 1) - c
        /\ n.left[size] = a - b + c * (size - 1)
    BY <1>0, <2>1 DEF TopAt, LeftAt
  <2>3. CASE size = 8
    BY <1>0, <2>2, <2>3
  <2>4. CASE size = 16
    BY <1>0, <2>2, <2>4
  <2> QED BY <1>0, <2>3, <2>4
<1>4. Plane(n, size) = PlaneOf(o, 32 * b, 32 * c, size)
  BY <1>1, <1>2, PlaneIs, Zenon
<1> HIDE DEF o
<1> DEFINE B == 32 * b
           C == 32 * c
<1>5. PlaneOf(o, B, C, size)[p] = ClampPixel((o + B * (p[1] - h) + C * (p[2] - h) + 16) \div 32)
  BY Zenon DEF PlaneOf
<1>6. p[1] \in Int /\ p[2] \in Int
  BY DEF Pixels
<1>7. o + B * (p[1] - h) + C * (p[2] - h) + 16 = 32 * (a + b * p[1] + c * p[2]) + 16
  <2>1. CASE size = 8
    BY <1>0, <1>3, <1>6, <2>1
  <2>2. CASE size = 16
    BY <1>0, <1>3, <1>6, <2>2
  <2> QED BY <1>0, <2>1, <2>2
<1> HIDE DEF v
<1>9. v \in 0..255
  BY <1>10
<1>8. (32 * v + 16) \div 32 = v /\ ClampPixel(v) = v
  BY <1>9 DEF ClampPixel
<1> QED BY <1>4, <1>5, <1>7, <1>8, <1>10 DEF v

-----------------------------------------------------------------------------
(* All modes: which of the blocks above each one is, and that it has the
   neighbours it needs.                                                    *)
LEMMA ModeNumbers ==
  ASSUME NEW family \in {4, 16, 8}, NEW mode \in Modes(family)
  PROVE  /\ family = 4 => mode \in {0, 1, 2, 3, 4, 5, 6, 7, 8}
         /\ family # 4 => mode \in {0, 1, 2, 3}
BY DEF Modes

LEMMA PredictedIs ==
  ASSUME NEW n
  PROVE  /\ Predicted(4, 0, n) = Vertical(n, 4) /\ Predicted(4, 1, n) = Horizontal(n, 4)
         /\ Predicted(4, 2, n) = Dc(n, 4) /\ Predicted(4, 3, n) = DiagonalDownLeft(n)
         /\ Predicted(4, 4, n) = DiagonalDownRight(n) /\ Predicted(4, 5, n) = VerticalRight(n)
         /\ Predicted(4, 6, n) = HorizontalDown(n) /\ Predicted(4, 7, n) = VerticalLeft(n)
         /\ Predicted(4, 8, n) = HorizontalUp(n)
         /\ Predicted(16, 0, n) = Vertical(n, 16) /\ Predicted(16, 1, n) = Horizontal(n, 16)
         /\ Predicted(16, 2, n) = Dc(n, 16) /\ Predicted(16, 3, n) = Plane(n, 16)
         /\ Predicted(8, 0, n) = ChromaDc(n) /\ Predicted(8, 1, n) = Horizontal(n, 8)
         /\ Predicted(8, 2, n) = Vertical(n, 8) /\ Predicted(8, 3, n) = Plane(n, 8)
<1>1. /\ Predicted(4, 0, n) = Vertical(n, 4) /\ Predicted(4, 1, n) = Horizontal(n, 4)
      /\ Predicted(4, 2, n) = Dc(n, 4) /\ Predicted(4, 3, n) = DiagonalDownLeft(n)
      /\ Predicted(4, 4, n) = DiagonalDownRight(n) /\ Predicted(4, 5, n) = VerticalRight(n)
      /\ Predicted(4, 6, n) = HorizontalDown(n) /\ Predicted(4, 7, n) = VerticalLeft(n)
      /\ Predicted(4, 8, n) = HorizontalUp(n)
  BY DEF Predicted, Predict4x4
<1>2. /\ Predicted(16, 0, n) = Vertical(n, 16) /\ Predicted(16, 1, n) = Horizontal(n, 16)
      /\ Predicted(16, 2, n) = Dc(n, 16) /\ Predicted(16, 3, n) = Plane(n, 16)
  BY DEF Predicted, Predict16x16
<1>3. /\ Predicted(8, 0, n) = ChromaDc(n) /\ Predicted(8, 1, n) = Horizontal(n, 8)
      /\ Predicted(8, 2, n) = Vertical(n, 8) /\ Predicted(8, 3, n) = Plane(n, 8)
  BY DEF Predicted, PredictChroma8x8
<1> QED BY <1>1, <1>2, <1>3

Served(family, mode, n) == \A s \in Needs(family, mode) : n[s] # << >>

LEMMA ServedIs ==
  ASSUME NEW family \in {4, 16, 8}, NEW mode \in Modes(family), NEW n, Served(family, mode, n)
  PROVE  /\ family = 4 /\ mode = 0 => n.top # << >>
         /\ family = 4 /\ mode \in {1, 8} => n.left # << >>
         /\ family = 4 /\ mode \in {3, 7} => n.top # << >> /\ n.top_right # << >>
         /\ family = 4 /\ mode \in {4, 5, 6} =>
              n.top # << >> /\ n.left # << >> /\ n.top_left # << >>
         /\ family = 16 /\ mode = 0 => n.top # << >>
         /\ family \in {16, 8} /\ mode = 1 => n.left # << >>
         /\ family = 8 /\ mode = 2 => n.top # << >>
         /\ family \in {16, 8} /\ mode = 3 =>
              n.top # << >> /\ n.left # << >> /\ n.top_left # << >>
<1>1. CASE family = 4
  BY <1>1 DEF Served, Needs
<1>2. CASE family = 16
  BY <1>2 DEF Served, Needs
<1>3. CASE family = 8
  BY <1>3 DEF Served, Needs
<1> QED BY <1>1, <1>2, <1>3

LEMMA SurroundIs ==
  ASSUME NEW size \in Nat, NEW n, Sides(n, size)
  PROVE  /\ Surround(n) \in SUBSET (0..255)
         /\ n.top # << >> \/ n.left # << >> => Surround(n) = Samples(n)
<1>1. /\ Samples(n) \in SUBSET (0..255)
      /\ n.top \in Seq(Samples(n)) /\ n.left \in Seq(Samples(n))
  BY SamplesAreBytes
<1>2. n.top \o n.left = << >> <=> n.top = << >> /\ n.left = << >>
  BY <1>1, ConcatEqualIffEmpty
<1>3. Surround(n) = {128} \/ Surround(n) = Samples(n)
  BY Zenon DEF Surround
<1>4. Surround(n) \in SUBSET (0..255)
  <2>1. {128} \in SUBSET (0..255)
    OBVIOUS
  <2> QED BY <1>1, <1>3, <2>1
<1>5. n.top # << >> \/ n.left # << >> => Surround(n) = Samples(n)
  BY <1>2, Zenon DEF Surround
<1> QED BY <1>4, <1>5

IsPlaneMode(family, mode) == family # 4 /\ mode = 3

LEMMA PredictedSpan ==
  ASSUME NEW family \in {4, 16, 8}, NEW mode \in Modes(family), NEW n \in Neighbours(family),
         Served(family, mode, n), ~IsPlaneMode(family, mode)
  PROVE  Predicted(family, mode, n) \in [Pixels(family) -> Span(Surround(n))]
<1>1. Sides(n, family) /\ family \in Nat
  BY NeighbourSides
<1>2. n.top # << >> \/ n.left # << >> => Surround(n) = Samples(n)
  BY <1>1, SurroundIs
<1>3. CASE family = 4
  <2>1. mode \in {0, 1, 2, 3, 4, 5, 6, 7, 8}
    BY <1>3, ModeNumbers
  <2>2. CASE mode = 0
    BY <1>1, <1>2, <1>3, <2>2, ServedIs, StraightSpan, PredictedIs
  <2>3. CASE mode = 1
    BY <1>1, <1>2, <1>3, <2>3, ServedIs, StraightSpan, PredictedIs
  <2>4. CASE mode = 2
    BY <1>1, <1>3, <2>4, DcSpan, PredictedIs
  <2>5. CASE mode = 3
    BY <1>1, <1>2, <1>3, <2>5, ServedIs, DiagonalDownLeftSpan, PredictedIs
  <2>6. CASE mode = 4
    BY <1>1, <1>2, <1>3, <2>6, ServedIs, DiagonalDownRightSpan, PredictedIs
  <2>7. CASE mode = 5
    BY <1>1, <1>2, <1>3, <2>7, ServedIs, VerticalRightSpan, PredictedIs
  <2>8. CASE mode = 6
    BY <1>1, <1>2, <1>3, <2>8, ServedIs, HorizontalDownSpan, PredictedIs
  <2>9. CASE mode = 7
    BY <1>1, <1>2, <1>3, <2>9, ServedIs, VerticalLeftSpan, PredictedIs
  <2>10. CASE mode = 8
    BY <1>1, <1>2, <1>3, <2>10, ServedIs, HorizontalUpSpan, PredictedIs
  <2> QED BY <2>1, <2>2, <2>3, <2>4, <2>5, <2>6, <2>7, <2>8, <2>9, <2>10, Zenon
<1>4. CASE family = 16
  <2>1. mode \in {0, 1, 2}
    BY <1>4, ModeNumbers DEF IsPlaneMode
  <2>2. CASE mode = 0
    BY <1>1, <1>2, <1>4, <2>2, ServedIs, StraightSpan, PredictedIs
  <2>3. CASE mode = 1
    BY <1>1, <1>2, <1>4, <2>3, ServedIs, StraightSpan, PredictedIs
  <2>4. CASE mode = 2
    BY <1>1, <1>4, <2>4, DcSpan, PredictedIs
  <2> QED BY <2>1, <2>2, <2>3, <2>4
<1>5. CASE family = 8
  <2>1. mode \in {0, 1, 2}
    BY <1>5, ModeNumbers DEF IsPlaneMode
  <2>2. CASE mode = 0
    BY <1>1, <1>5, <2>2, ChromaDcSpan, PredictedIs
  <2>3. CASE mode = 1
    BY <1>1, <1>2, <1>5, <2>3, ServedIs, StraightSpan, PredictedIs
  <2>4. CASE mode = 2
    BY <1>1, <1>2, <1>5, <2>4, ServedIs, StraightSpan, PredictedIs
  <2> QED BY <2>1, <2>2, <2>3, <2>4
<1> QED BY <1>3, <1>4, <1>5

LEMMA PredictedBytes ==
  ASSUME NEW family \in {4, 16, 8}, NEW mode \in Modes(family), NEW n \in Neighbours(family),
         Served(family, mode, n)
  PROVE  Predicted(family, mode, n) \in [Pixels(family) -> 0..255]
<1>1. Sides(n, family) /\ family \in Nat
  BY NeighbourSides
<1>2. CASE ~IsPlaneMode(family, mode)
  <2>1. Predicted(family, mode, n) \in [Pixels(family) -> Span(Surround(n))]
    BY <1>2, PredictedSpan
  <2>2. Span(Surround(n)) \subseteq 0..255
    BY <1>1, SurroundIs, SpanOfBytes
  <2> QED BY <2>1, <2>2
<1>3. CASE IsPlaneMode(family, mode)
  <2>1. mode = 3 /\ family \in {8, 16}
    BY <1>3 DEF IsPlaneMode
  <2>2. n.top # << >> /\ n.left # << >> /\ n.top_left # << >>
    BY <2>1, ServedIs
  <2>3. Plane(n, family) \in [Pixels(family) -> 0..255]
    BY <1>1, <2>1, <2>2, PlaneBytes
  <2>4. Predicted(family, mode, n) = Plane(n, family)
    <3>1. CASE family = 8
      BY <2>1, <3>1, PredictedIs
    <3>2. CASE family = 16
      BY <2>1, <3>2, PredictedIs
    <3> QED BY <2>1, <3>1, <3>2
  <2> QED BY <2>3, <2>4
<1> QED BY <1>2, <1>3

LEMMA PredictedTurned ==
  ASSUME NEW family \in {4, 16, 8}, NEW mode \in Modes(family), NEW n \in Neighbours(family),
         Served(family, mode, n), Reflected(family, mode) # -1,
         NEW m, Turns(m, n), NEW p \in Pixels(family)
  PROVE  Predicted(family, mode, n)[p] = Predicted(family, Reflected(family, mode), m)[Swap(p)]
<1>1. Sides(n, family) /\ family \in Nat
  BY NeighbourSides
<1>2. Turns(n, m) /\ Sides(m, family)
  BY <1>1, TurnedSides
<1>3. /\ m.top = n.left /\ m.left = n.top /\ m.top_left = n.top_left
  BY DEF Turns
<1>4. CASE family = 4
  <2>1. Reflected(4, mode) = <<1, 0, 2, -1, 4, 6, 5, -1, -1>>[mode + 1]
    BY DEF Reflected
  <2>2. mode \in {0, 1, 2, 4, 5, 6}
    <3>1. mode \in {0, 1, 2, 3, 4, 5, 6, 7, 8}
      BY <1>4, ModeNumbers
    <3> QED BY <1>4, <2>1, <3>1
  <2>3. CASE mode = 0
    <3>1. Reflected(4, mode) = 1
      BY <2>1, <2>3
    <3> QED BY <1>4, <2>3, <3>1, StraightTurned, PredictedIs
  <2>4. CASE mode = 1
    <3>1. Reflected(4, mode) = 0
      BY <2>1, <2>4
    <3> QED BY <1>4, <2>4, <3>1, StraightTurned, PredictedIs
  <2>5. CASE mode = 2
    <3>1. Reflected(4, mode) = 2
      BY <2>1, <2>5
    <3> QED BY <1>1, <1>4, <2>5, <3>1, DcTurned, PredictedIs
  <2>6. CASE mode = 4
    <3>1. Reflected(4, mode) = 4
      BY <2>1, <2>6
    <3> QED BY <1>1, <1>4, <2>6, <3>1, ServedIs, DiagonalTurned, PredictedIs
  <2>7. CASE mode = 5
    <3>1. Reflected(4, mode) = 6
      BY <2>1, <2>7
    <3>2. HorizontalDown(m)[<<p[2], p[1]>>] = VerticalRight(n)[p]
      BY <1>1, <1>4, <2>7, ServedIs, RightIsDownTurned
    <3> QED BY <1>4, <2>7, <3>1, <3>2, PredictedIs DEF Swap
  <2>8. CASE mode = 6
    <3>1. Reflected(4, mode) = 5
      BY <2>1, <2>8
    <3>2. m.top # << >> /\ m.left # << >> /\ m.top_left # << >>
      BY <1>3, <1>4, <2>8, ServedIs
    <3>3. Swap(p) \in Pixels(4) /\ <<Swap(p)[2], Swap(p)[1]>> = p
      BY <1>4, SwapPixel DEF Swap
    <3>4. HorizontalDown(n)[<<Swap(p)[2], Swap(p)[1]>>] = VerticalRight(m)[Swap(p)]
      BY <1>2, <1>4, <3>2, <3>3, RightIsDownTurned
    <3> QED BY <1>4, <2>8, <3>1, <3>3, <3>4, PredictedIs
  <2> QED BY <2>2, <2>3, <2>4, <2>5, <2>6, <2>7, <2>8
<1>5. CASE family = 16
  <2>1. Reflected(16, mode) = <<1, 0, 2, 3>>[mode + 1] /\ mode \in {0, 1, 2, 3}
    BY <1>5, ModeNumbers DEF Reflected
  <2>2. CASE mode = 0
    <3>1. Reflected(16, mode) = 1
      BY <2>1, <2>2
    <3> QED BY <1>5, <2>2, <3>1, StraightTurned, PredictedIs
  <2>3. CASE mode = 1
    <3>1. Reflected(16, mode) = 0
      BY <2>1, <2>3
    <3> QED BY <1>5, <2>3, <3>1, StraightTurned, PredictedIs
  <2>4. CASE mode = 2
    <3>1. Reflected(16, mode) = 2
      BY <2>1, <2>4
    <3> QED BY <1>1, <1>5, <2>4, <3>1, DcTurned, PredictedIs
  <2>5. CASE mode = 3
    <3>1. Reflected(16, mode) = 3
      BY <2>1, <2>5
    <3> QED BY <1>1, <1>5, <2>5, <3>1, ServedIs, PlaneTurned, PredictedIs
  <2> QED BY <2>1, <2>2, <2>3, <2>4, <2>5
<1>6. CASE family = 8
  <2>1. Reflected(8, mode) = <<0, 2, 1, 3>>[mode + 1] /\ mode \in {0, 1, 2, 3}
    BY <1>6, ModeNumbers DEF Reflected
  <2>2. CASE mode = 0
    <3>1. Reflected(8, mode) = 0
      BY <2>1, <2>2
    <3> QED BY <1>1, <1>6, <2>2, <3>1, ChromaDcTurned, PredictedIs
  <2>3. CASE mode = 1
    <3>1. Reflected(8, mode) = 2
      BY <2>1, <2>3
    <3> QED BY <1>6, <2>3, <3>1, StraightTurned, PredictedIs
  <2>4. CASE mode = 2
    <3>1. Reflected(8, mode) = 1
      BY <2>1, <2>4
    <3> QED BY <1>6, <2>4, <3>1, StraightTurned, PredictedIs
  <2>5. CASE mode = 3
    <3>1. Reflected(8, mode) = 3
      BY <2>1, <2>5
    <3> QED BY <1>1, <1>6, <2>5, <3>1, ServedIs, PlaneTurned, PredictedIs
  <2> QED BY <2>1, <2>2, <2>3, <2>4, <2>5
<1> QED BY <1>4, <1>5, <1>6

(* The directional modes and plane, on pictures they continue.             *)
Along(family, mode, b, c, p) ==
  \/ IsPlaneMode(family, mode) /\ b \in -3..4 /\ c \in -3..4
  \/ family = 4 /\ mode = 4 /\ b = -c
  \/ family = 4 /\ mode = 5 /\ b = -2 * c /\ c \in -1..2
  \/ family = 4 /\ mode = 6 /\ c = -2 * b /\ b \in -1..2
  \/ family = 4 /\ mode = 7 /\ b = 2 * c
  \/ family = 4 /\ mode = 8 /\ c = 2 * b /\ p[1] + 2 * p[2] <= 4

LEMMA PredictedContinues ==
  ASSUME NEW family \in {4, 16, 8}, NEW mode \in Modes(family), NEW n \in Neighbours(family),
         Served(family, mode, n), NEW image \in [1..3 -> Int], TakenFrom(image, n, family),
         NEW p \in Pixels(family), Along(family, mode, image[2], image[3], p)
  PROVE  Predicted(family, mode, n)[p] = Picture(image, p)
<1>1. Sides(n, family) /\ family \in Nat
  BY NeighbourSides
<1> DEFINE a == image[1]
           b == image[2]
           c == image[3]
<1>2. a \in Int /\ b \in Int /\ c \in Int
  OBVIOUS
<1>3. Picture(image, p) = a + b * p[1] + c * p[2]
  BY DEF Picture
<1>4. Picture(image, p) \in 0..255
  BY Zenon DEF TakenFrom
<1>5. p[1] \in Int /\ p[2] \in Int
  BY DEF Pixels
<1>6. n.top # << >> /\ n.left # << >> /\ n.top_left # << >> => OnPicture(n, family, a, b, c)
  BY <1>1, TakenOnPicture
<1>7. ASSUME family = 4, n.top # << >>, n.top_right # << >>, NEW k \in 1..8
      PROVE  (n.top \o n.top_right)[k] = a + b * (k - 1) - c
  <2>1. DOMAIN n.top = 1..4 /\ DOMAIN n.top_right = 1..4
    BY <1>1, <1>7 DEF Sides, Samples8
  <2>4. /\ \A j \in 1..4 : (n.top \o n.top_right)[j] = n.top[j]
        /\ \A j \in 5..8 : (n.top \o n.top_right)[j] = n.top_right[j - 4]
    BY <1>1, <1>7, ConcatRow
  <2>2. CASE k \in 1..4
    <3>1. (n.top \o n.top_right)[k] = n.top[k]
      BY <2>2, <2>4
    <3>2. n.top[k] = Picture(image, <<k - 1, -1>>)
      BY <2>1, <2>2, Zenon DEF TakenFrom
    <3>3. Picture(image, <<k - 1, -1>>) = a + b * (k - 1) + c * (-1)
      BY DEF Picture
    <3> HIDE DEF a, b, c
    <3> QED BY <1>2, <3>1, <3>2, <3>3
  <2>3. CASE k \in 5..8
    <3>1. (n.top \o n.top_right)[k] = n.top_right[k - 4] /\ k - 4 \in 1..4
      <4>1. k - 4 \in 1..4
        BY <2>3
      <4>2. (n.top \o n.top_right)[k] = n.top_right[k - 4]
        BY <2>3, <2>4, Zenon
      <4> QED BY <4>1, <4>2
    <3>2. n.top_right[k - 4] = Picture(image, <<family + (k - 4) - 1, -1>>)
      BY <2>1, <3>1, Zenon DEF TakenFrom
    <3>3. Picture(image, <<family + (k - 4) - 1, -1>>) = a + b * (family + (k - 4) - 1) + c * (-1)
      BY DEF Picture
    <3>4. family + (k - 4) - 1 = k - 1
      BY <1>7
    <3> HIDE DEF a, b, c
    <3> QED BY <1>2, <3>1, <3>2, <3>3, <3>4
  <2>5. k \in 1..4 \/ k \in 5..8
    OBVIOUS
  <2> QED BY <2>2, <2>3, <2>5, Zenon
<1>8. Along(family, mode, b, c, p)
  OBVIOUS
<1> HIDE DEF a, b, c
<1>9. CASE IsPlaneMode(family, mode) /\ b \in -3..4 /\ c \in -3..4
  <2>1. mode = 3 /\ family \in {8, 16}
    BY <1>9 DEF IsPlaneMode
  <2>2. n.top # << >> /\ n.left # << >> /\ n.top_left # << >>
    BY <2>1, ServedIs
  <2>3. Plane(n, family)[p] = Picture(image, p)
    <3>1. OnPicture(n, family, a, b, c)
      BY <1>6, <2>2
    <3>2. GentlySloped(n, family, image)
      BY <1>2, <1>9, <2>1, <3>1 DEF GentlySloped, a, b, c
    <3> QED BY <1>4, <3>2, PlaneContinues
  <2>4. Predicted(family, mode, n) = Plane(n, family)
    <3>1. CASE family = 8
      BY <2>1, <3>1, PredictedIs
    <3>2. CASE family = 16
      BY <2>1, <3>2, PredictedIs
    <3> QED BY <2>1, <3>1, <3>2
  <2> QED BY <2>3, <2>4
<1>10. CASE family = 4 /\ mode = 4 /\ b = -c
  <2>1. n.top # << >> /\ n.left # << >> /\ n.top_left # << >>
    BY <1>10, ServedIs
  <2>2. OnPicture(n, 4, a, b, -b)
    <3>1. c = -b
      BY <1>2, <1>10
    <3> QED BY <1>6, <1>10, <2>1, <3>1
  <2>3. DiagonalDownRight(n)[p] = a + b * (p[1] - p[2])
    BY <1>2, <1>10, <2>2, DiagonalContinues
  <2>4. a + b * (p[1] - p[2]) = a + b * p[1] + c * p[2]
    BY <1>2, <1>5, <1>10
  <2> QED BY <1>3, <1>10, <2>3, <2>4, PredictedIs
<1>11. CASE family = 4 /\ mode = 5 /\ b = -2 * c /\ c \in -1..2
  <2>1. n.top # << >> /\ n.left # << >> /\ n.top_left # << >>
    BY <1>11, ServedIs
  <2>2. OnPicture(n, 4, a, -2 * c, c)
    BY <1>6, <1>11, <2>1
  <2>3. VerticalRight(n)[p] = a - c * (2 * p[1] - p[2])
    BY <1>2, <1>11, <2>2, VerticalRightContinues
  <2>4. a - c * (2 * p[1] - p[2]) = a + b * p[1] + c * p[2]
    BY <1>2, <1>5, <1>11
  <2> QED BY <1>3, <1>11, <2>3, <2>4, PredictedIs
<1>12. CASE family = 4 /\ mode = 6 /\ c = -2 * b /\ b \in -1..2
  <2>1. n.top # << >> /\ n.left # << >> /\ n.top_left # << >>
    BY <1>12, ServedIs
  <2>2. OnPicture(n, 4, a, b, -2 * b)
    BY <1>6, <1>12, <2>1
  <2>3. HorizontalDown(n)[p] = a - b * (2 * p[2] - p[1])
    BY <1>1, <1>2, <1>12, <2>1, <2>2, HorizontalDownContinues
  <2>4. a - b * (2 * p[2] - p[1]) = a + b * p[1] + c * p[2]
    BY <1>2, <1>5, <1>12
  <2> QED BY <1>3, <1>12, <2>3, <2>4, PredictedIs
<1>13. CASE family = 4 /\ mode = 7 /\ b = 2 * c
  <2>1. n.top # << >> /\ n.top_right # << >>
    BY <1>13, ServedIs
  <2>2. ASSUME NEW k \in 1..8 PROVE (n.top \o n.top_right)[k] = a + c * (2 * k - 3)
    <3>1. (n.top \o n.top_right)[k] = a + b * (k - 1) - c
      BY <1>7, <1>13, <2>1
    <3> QED BY <1>2, <1>13, <3>1
  <2>3. VerticalLeft(n)[p] = a + c * (2 * p[1] + p[2])
    BY <1>2, <1>13, <2>2, VerticalLeftContinues
  <2>4. a + c * (2 * p[1] + p[2]) = a + b * p[1] + c * p[2]
    BY <1>2, <1>5, <1>13
  <2> QED BY <1>3, <1>13, <2>3, <2>4, PredictedIs
<1>14. CASE family = 4 /\ mode = 8 /\ c = 2 * b /\ p[1] + 2 * p[2] <= 4
  <2>1. n.left # << >>
    BY <1>14, ServedIs
  <2>2. ASSUME NEW k \in 1..4 PROVE n.left[k] = a + b * (2 * k - 3)
    <3>1. DOMAIN n.left = 1..4
      BY <1>1, <1>14, <2>1 DEF Sides, Samples8
    <3>2. n.left[k] = Picture(image, <<-1, k - 1>>)
      BY <3>1, Zenon DEF TakenFrom
    <3>3. Picture(image, <<-1, k - 1>>) = a + b * (-1) + c * (k - 1)
      BY DEF Picture, a, b, c
    <3> QED BY <1>2, <1>14, <3>2, <3>3
  <2>3. HorizontalUp(n)[p] = a + b * (p[1] + 2 * p[2])
    BY <1>2, <1>14, <2>2, HorizontalUpContinues
  <2>4. a + b * (p[1] + 2 * p[2]) = a + b * p[1] + c * p[2]
    BY <1>2, <1>5, <1>14
  <2> QED BY <1>3, <1>14, <2>3, <2>4, PredictedIs
<1> QED BY <1>8, <1>9, <1>10, <1>11, <1>12, <1>13, <1>14 DEF Along

-----------------------------------------------------------------------------
(* A block that was predicted is what its mode makes of neighbours that    *)
(* are all there, and so has all four properties.                          *)
PredictInv ==
  /\ request \in Predictions
  /\ status \in {"asked", "predicted", "refused"}
  /\ status = "predicted" =>
       /\ Served(request.family, request.mode, request.n)
       /\ block = Predicted(request.family, request.mode, request.n)

LEMMA PredictInductive == PredictSpec => []PredictInv
<1>1. PredictInit => PredictInv
  BY DEF PredictInit, PredictInv
<1>2. PredictInv /\ [PredictNext]_predictVars => PredictInv'
  <2> SUFFICES ASSUME PredictInv, [PredictNext]_predictVars PROVE PredictInv'
    OBVIOUS
  <2>1. CASE Predict
    <3>1. request' = request /\ status' = "predicted" /\ ~Missing
          /\ block' = Predicted(request.family, request.mode, request.n)
      BY <2>1 DEF Predict
    <3>2. Served(request.family, request.mode, request.n)
      BY <3>1, Zenon DEF Missing, Served
    <3> QED BY <3>1, <3>2 DEF PredictInv
  <2>2. CASE Refuse
    BY <2>2 DEF Refuse, PredictInv
  <2>3. CASE UNCHANGED predictVars
    BY <2>3 DEF predictVars, PredictInv
  <2> QED BY <2>1, <2>2, <2>3 DEF PredictNext
<1> QED BY <1>1, <1>2, PTL DEF PredictSpec

LEMMA PredictInvSuffices == PredictInv => PredictsItsGeometry
<1> SUFFICES ASSUME PredictInv PROVE PredictsItsGeometry
  OBVIOUS
<1> DEFINE f == request.family
           m == request.mode
           n == request.n
<1>1. /\ f \in {4, 16, 8} /\ m \in Modes(f) /\ n \in Neighbours(f)
      /\ request.image # << >> => /\ request.image \in [1..3 -> Int]
                                  /\ TakenFrom(request.image, n, f)
  BY PredictionsAssumption DEF PredictInv, Size
<1>2. status = "predicted" => Served(f, m, n) /\ block = Predicted(f, m, n)
  BY DEF PredictInv
<1>3. IsPlane <=> IsPlaneMode(f, m)
  BY DEF IsPlane, IsPlaneMode
<1> HIDE DEF f, m, n
<1>4. status = "predicted" => block \in [Pixels(f) -> 0..255] /\ DOMAIN block = Pixels(f)
  <2> SUFFICES ASSUME status = "predicted"
               PROVE  block \in [Pixels(f) -> 0..255] /\ DOMAIN block = Pixels(f)
    OBVIOUS
  <2>1. Served(f, m, n) /\ block = Predicted(f, m, n)
    BY <1>2
  <2>2. block \in [Pixels(f) -> 0..255]
    BY <1>1, <2>1, PredictedBytes
  <2> QED BY <2>2
<1>5. PredictTypeOK
  BY <1>4 DEF PredictTypeOK, PredictInv, Size, f
<1>6. LiesBetween
  <2> SUFFICES ASSUME status = "predicted", ~IsPlane, NEW p \in DOMAIN block
               PROVE  /\ \E v \in Surround(n) : v <= block[p]
                      /\ \E v \in Surround(n) : block[p] <= v
    BY Zenon DEF LiesBetween, Surround, n
  <2>3. Served(f, m, n) /\ block = Predicted(f, m, n) /\ ~IsPlaneMode(f, m)
    BY <1>2, <1>3
  <2>1. block \in [Pixels(f) -> Span(Surround(n))]
    BY <1>1, <2>3, PredictedSpan
  <2>2. block[p] \in Span(Surround(n))
    BY <1>4, <2>1
  <2> QED BY <2>2 DEF Span
<1>7. ReflectsPartner
  <2> DEFINE turned == [n EXCEPT !.top = n.left, !.left = n.top]
  <2> SUFFICES ASSUME status = "predicted", Reflected(f, m) # -1, NEW p \in DOMAIN block
               PROVE  block[p] = Predicted(f, Reflected(f, m), turned)[<<p[2], p[1]>>]
    BY Zenon DEF ReflectsPartner, f, m, n
  <2>1. Turns(turned, n)
    BY <1>1 DEF Turns, Neighbours
  <2> HIDE DEF turned
  <2>2. p \in Pixels(f)
    BY <1>4
  <2>3. Predicted(f, m, n)[p] = Predicted(f, Reflected(f, m), turned)[Swap(p)]
    BY <1>1, <1>2, <2>1, <2>2, PredictedTurned, Zenon
  <2> QED BY <1>2, <2>3 DEF Swap
<1>8. PictureContinued
  <2> SUFFICES ASSUME status = "predicted", request.image # << >>,
                      NEW p \in DOMAIN block, AlongMode(p)
               PROVE  block[p] = Picture(request.image, p)
    BY Zenon DEF PictureContinued
  <2> DEFINE b == request.image[2]
             c == request.image[3]
  <2>1. Along(f, m, b, c, p)
    <3>1. AlongMode(p) = CASE IsPlane -> b \in -3..4 /\ c \in -3..4
                        [] f = 4 /\ m = 4 -> b = -c
                        [] f = 4 /\ m = 5 -> b = -2 * c /\ c \in -1..2
                        [] f = 4 /\ m = 6 -> c = -2 * b /\ b \in -1..2
                        [] f = 4 /\ m = 7 -> b = 2 * c
                        [] f = 4 /\ m = 8 -> c = 2 * b /\ p[1] + 2 * p[2] <= 4
                        [] OTHER -> FALSE
      BY Zenon DEF AlongMode, f, m
    <3> HIDE DEF b, c
    <3>2. IsPlane => f # 4
      BY <1>3 DEF IsPlaneMode
    <3> QED BY <1>3, <3>1, <3>2 DEF Along
  <2>2. p \in Pixels(f)
    BY <1>4
  <2>3. Predicted(f, m, n)[p] = Picture(request.image, p)
    BY <1>1, <1>2, <2>1, <2>2, PredictedContinues
  <2> QED BY <1>2, <2>3
<1> QED BY <1>5, <1>6, <1>7, <1>8 DEF PredictsItsGeometry

(* In every mode of every family, whatever the neighbours and whichever are
   missing, the predicted block is of bytes, lies between its neighbours
   but for plane, mirrors its partner's, and continues the picture it is
   taken from where that is constant along the mode, for modes 4 to 8 and
   plane (intra.rs 145-769).                                               *)
THEOREM PredictionGeometry == PredictSpec => []PredictsItsGeometry
BY PredictInductive, PredictInvSuffices, PTL

=============================================================================
