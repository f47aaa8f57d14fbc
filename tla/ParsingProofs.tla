--------------------------- MODULE ParsingProofs ----------------------------
(***************************************************************************)
(* What is read from the payload of a NAL unit, for every stream.          *)
(*                                                                         *)
(* The placement of a residual block stays in its arrays, for all tables   *)
(* that keep to the free places of a block: what is placed, what is left   *)
(* to place and the zeros left always add up.  Then the lookup in a table  *)
(* that is a prefix code, and the levels.                                  *)
(*                                                                         *)
(* A header parser reads the elements an encoder wrote, in its order: the  *)
(* elements a header leads to are nested, and the agenda of the parser is  *)
(* what is left of the nests it is in.                                     *)
(*                                                                         *)
(* Below them all, the read of an Exp-Golomb code: the word after the      *)
(* zeros grows by a bit a step, and its bits are those of the stream.      *)
(***************************************************************************)
EXTENDS BitReader, CavlcResidual, CavlcLevels, ReadVlc, Headers, FiniteSetTheorems,
        FunctionTheorems, SequenceTheorems, WellFoundedInduction, TLAPS

Conserved == coeff_num + 1 + (total_coeff - i) + zeros_left = total_coeff + total_zeros

Placing ==
  /\ total_zeros \in Int /\ 0 <= total_zeros /\ total_coeff + total_zeros <= 16
  /\ zeros_left \in Int /\ 0 <= zeros_left /\ zeros_left <= total_zeros
  /\ coeff_num \in Int /\ i - 1 <= coeff_num
  /\ i < total_coeff => Conserved
  /\ i = total_coeff => coeff_num = total_coeff + total_zeros - 1
  /\ total_coeff = 0 => total_zeros = 0

IInv ==
  /\ TypeOK
  /\ status \in {"token", "levels", "zeros"} =>
       i = 0 /\ coeff_num = -1 /\ zeros_left = 0 /\ total_zeros = 0
  /\ status \in {"place", "done"} => Placing
  /\ status = "error" => coeff_num \in -1..15 /\ zeros_left \in 0..15

LEMMA InitIInv == Init => IInv
BY DEF Init, IInv, TypeOK, Empty, Positions

(* A run is at most what is left, and for the last level all of it.        *)
LEMMA RunsFit ==
  ASSUME NEW zl \in Int, 0 <= zl, zl <= 14 \/ Last, NEW run \in Runs(zl)
  PROVE  /\ run \in Int /\ 0 <= run /\ run <= zl
         /\ Last => run = zl
<1>1. CASE Last \/ zl = 0
  BY <1>1 DEF Runs
<1>2. CASE ~Last /\ zl # 0
  <2>1. zl \in 1..14
    BY <1>2
  <2>2. PICK r \in RunBefore(zl) : run = Capped(r, zl)
    BY <1>2 DEF Runs
  <2>3. r \in Nat
    BY <2>1, <2>2, ZerosAssumption
  <2> QED BY <1>2, <2>2, <2>3 DEF Capped
<1> QED BY <1>1, <1>2

(* The arithmetic of ReadTotalZeros.                                       *)
LEMMA FreePlaces ==
  ASSUME NEW tc \in 1..15, NEW tz \in 0..(16 - tc)
  PROVE  tz \in Int /\ 0 <= tz /\ tc + tz <= 16
OBVIOUS

LEMMA NothingPlaced ==
  ASSUME NEW tc \in Int, NEW tz \in Int, 0 <= tc, tc = 0 => tz = 0
  PROVE  /\ -1 + 1 + (tc - 0) + tz = tc + tz
         /\ 0 = tc => -1 = tc + tz - 1
OBVIOUS

LEMMA NextIInv ==
  ASSUME IInv, [Next]_vars
  PROVE  IInv'
<1>1. TypeOK
  BY DEF IInv
<1>2. CASE ReadToken
  <2>1. PICK t \in CoeffTokens(variant) :
          total_coeff' = t.total_coeff /\ trailing_ones' = t.trailing_ones
    BY <1>2 DEF ReadToken
  <2>2. total_coeff' \in 0..16 /\ trailing_ones' \in 0..3
    BY <1>1, <2>1, TokensAssumption DEF TypeOK
  <2>3. /\ status = "token" /\ status' = "levels"
        /\ UNCHANGED <<variant, total_zeros, zeros_left, i, coeff_num, zz>>
    BY <1>2 DEF ReadToken
  <2> QED BY <2>2, <2>3 DEF IInv, TypeOK
<1>3. CASE ReadLevels
  BY <1>3 DEF ReadLevels, IInv, TypeOK, token
<1>4. CASE ReadTotalZeros
  <2>1. /\ status = "zeros" /\ status' = "place" /\ zeros_left' = total_zeros'
        /\ UNCHANGED <<variant, total_coeff, trailing_ones, i, coeff_num, zz>>
    BY <1>4 DEF ReadTotalZeros, token
  <2>2. /\ total_zeros' \in Int /\ 0 <= total_zeros' /\ total_coeff + total_zeros' <= 16
        /\ total_coeff = 0 => total_zeros' = 0
    <3>1. CASE total_coeff \in {0, 16}
      BY <1>4, <3>1 DEF ReadTotalZeros
    <3>2. CASE total_coeff \notin {0, 16}
      <4>1. total_coeff \in 1..15
        BY <1>1, <3>2 DEF TypeOK
      <4>2. total_zeros' \in 0..(16 - total_coeff)
        BY <1>4, <3>2, <4>1, ZerosAssumption DEF ReadTotalZeros
      <4>3. total_zeros' \in Int /\ 0 <= total_zeros' /\ total_coeff + total_zeros' <= 16
        BY <4>1, <4>2, FreePlaces
      <4>4. total_coeff # 0
        BY <4>1
      <4> QED BY <4>3, <4>4, Zenon
    <3> QED BY <3>1, <3>2
  <2>3. i = 0 /\ coeff_num = -1
    BY <2>1 DEF IInv
  <2>4. total_coeff \in Int /\ 0 <= total_coeff
    BY <1>1 DEF TypeOK
  <2>5. total_coeff' = total_coeff /\ i' = 0 /\ coeff_num' = -1 /\ zeros_left' = total_zeros'
    BY <2>1, <2>3
  <2>6. Conserved'
    BY <2>2, <2>4, <2>5, NothingPlaced, Zenon DEF Conserved
  <2>7. i' = total_coeff' => coeff_num' = total_coeff' + total_zeros' - 1
    BY <2>2, <2>4, <2>5, NothingPlaced, Zenon
  <2>8. Placing'
    <3>1. zeros_left' <= total_zeros' /\ i' - 1 <= coeff_num' /\ coeff_num' \in Int
      BY <2>2, <2>5
    <3> QED BY <2>2, <2>5, <2>6, <2>7, <3>1, Zenon DEF Placing
  <2> QED BY <1>1, <2>1, <2>8 DEF IInv, TypeOK
<1>5. CASE PlaceLevel
  <2>1. /\ status = "place" /\ status' = "place" /\ i < total_coeff /\ i' = i + 1
        /\ UNCHANGED <<variant, total_coeff, trailing_ones, total_zeros>>
        /\ Last \/ zeros_left <= 14
    BY <1>5 DEF PlaceLevel, More, token
  <2>2. PICK run \in Runs(zeros_left) :
          /\ zeros_left' = IF Last THEN zeros_left ELSE zeros_left - run
          /\ coeff_num' = coeff_num + run + 1
          /\ zz' = [zz EXCEPT ![15 - coeff_num'] = i + 1]
    BY <1>5 DEF PlaceLevel
  <2>3. Placing /\ total_coeff \in Int /\ i \in Int /\ 0 <= i
    BY <1>1, <2>1 DEF IInv, TypeOK
  <2>4. /\ run \in Int /\ 0 <= run /\ run <= zeros_left
        /\ Last => run = zeros_left
    BY <2>1, <2>2, <2>3, RunsFit DEF Placing
  <2>5. Placing'
    BY <2>1, <2>2, <2>3, <2>4 DEF Placing, Conserved, Last
  <2>6. TypeOK'
    <3>1. i' \in 0..total_coeff /\ i' \in 0..16
      BY <1>1, <2>1 DEF TypeOK
    <3>2. zz' \in [Positions -> 0..16]
      BY <1>1, <2>1, <2>2, <3>1 DEF TypeOK
    <3> QED BY <1>1, <2>1, <3>1, <3>2 DEF TypeOK
  <2> QED BY <2>1, <2>5, <2>6 DEF IInv
<1>6. CASE Finish
  BY <1>6 DEF Finish, AllPlaced, IInv, TypeOK, Placing, Conserved, token
<1>7. CASE ReadFails
  <2>1. /\ status' = "error" /\ status \in {"token", "levels", "zeros", "place"}
        /\ UNCHANGED <<variant, total_coeff, trailing_ones, zeros_left, i, coeff_num, zz>>
        /\ status = "place" => i < total_coeff - 1
    BY <1>7 DEF ReadFails, token
  <2>2. coeff_num \in -1..15 /\ zeros_left \in 0..15
    BY <1>1, <2>1 DEF IInv, Placing, Conserved, TypeOK
  <2> QED BY <1>1, <2>1, <2>2 DEF IInv, TypeOK
<1>8. CASE UNCHANGED vars
  BY <1>8 DEF vars, IInv, TypeOK, Placing, Conserved
<1> QED BY <1>2, <1>3, <1>4, <1>5, <1>6, <1>7, <1>8 DEF Next

THEOREM ResidualInductive == Spec => []IInv
BY InitIInv, NextIInv, PTL DEF Spec

THEOREM ResidualTypeOK == Spec => []TypeOK
<1>1. IInv => TypeOK
  BY DEF IInv
<1> QED BY <1>1, ResidualInductive, PTL

(* No stream makes the placement index outside the block, or ask the tables
   for a run they do not have.                                             *)
THEOREM PlacementStaysInBounds == Spec => []PlacementInBounds
<1>1. IInv => PlacementInBounds
  BY DEF IInv, TypeOK, Placing, Conserved, PlacementInBounds
<1> QED BY <1>1, ResidualInductive, PTL

-----------------------------------------------------------------------------
(* What has been placed: the levels of the slots so far, in falling order of
   their positions, the last of them at the position that was reached.     *)
Ordered ==
  /\ \A s \in 1..i : \E k \in Positions : zz[k] = s
  /\ \A k \in Positions : zz[k] \in 0..i
  /\ \A k, l \in Positions : k < l /\ zz[k] # 0 /\ zz[l] # 0 => zz[k] > zz[l]
  /\ \A k \in Positions : k < 15 - coeff_num => zz[k] = 0
  /\ i > 0 => coeff_num \in 0..15 /\ zz[15 - coeff_num] = i

OrderInv ==
  /\ status \in {"token", "levels", "zeros"} => zz = Empty
  /\ status \in {"place", "done"} => Ordered
  /\ status = "done" =>
       /\ i = total_coeff
       /\ raster = [p \in Positions |-> zz[CHOOSE k \in Positions : ZigZag(k) = p]]

LEMMA OrderInvInit == Init => OrderInv
BY DEF Init, OrderInv

LEMMA NothingIsOrdered == i = 0 /\ zz = Empty => Ordered
<1> SUFFICES ASSUME i = 0, zz = Empty PROVE Ordered
  OBVIOUS
<1>1. \A k \in Positions : zz[k] = 0
  BY DEF Empty
<1> QED BY <1>1 DEF Ordered

LEMMA RoomLeft ==
  ASSUME NEW n \in Int, NEW tc \in Int, NEW tz \in Int, NEW zl \in Int, NEW cn \in Int,
         n <= tc, 1 <= n, 0 <= zl, tc + tz <= 16,
         n = tc => cn = tc + tz - 1,
         n < tc => cn + 1 + (tc - n) + zl = tc + tz
  PROVE  cn <= 15
OBVIOUS

LEMMA OrderInvNext ==
  ASSUME IInv, IInv', OrderInv, [Next]_vars
  PROVE  OrderInv'
<1>1. TypeOK /\ TypeOK'
  BY DEF IInv
<1>2. CASE ReadToken
  BY <1>2 DEF ReadToken, OrderInv
<1>3. CASE ReadLevels
  BY <1>3 DEF ReadLevels, OrderInv
<1>4. CASE ReadTotalZeros
  <2>1. /\ status = "zeros" /\ status' = "place"
        /\ UNCHANGED <<i, coeff_num, zz>>
    BY <1>4 DEF ReadTotalZeros
  <2>2. i = 0 /\ zz = Empty
    BY <2>1 DEF IInv, OrderInv
  <2>3. Ordered
    BY <2>2, NothingIsOrdered
  <2>4. Ordered'
    BY <2>1, <2>3 DEF Ordered
  <2> QED BY <2>1, <2>4 DEF OrderInv
<1>5. CASE PlaceLevel
  <2>1. /\ status = "place" /\ status' = "place" /\ i < total_coeff /\ i' = i + 1
        /\ Last \/ zeros_left <= 14
    BY <1>5 DEF PlaceLevel, More
  <2>2. PICK run \in Runs(zeros_left) :
          /\ coeff_num' = coeff_num + run + 1
          /\ zz' = [zz EXCEPT ![15 - coeff_num'] = i + 1]
    BY <1>5 DEF PlaceLevel
  <2>3. Placing /\ total_coeff \in 0..16 /\ i \in Int /\ 0 <= i /\ zz \in [Positions -> 0..16]
    BY <1>1, <2>1 DEF IInv, TypeOK
  <2>4. run \in Int /\ 0 <= run
    BY <2>1, <2>2, <2>3, RunsFit DEF Placing
  <2>5. coeff_num \in Int /\ -1 <= coeff_num
    BY <2>3 DEF Placing
  <2>6. coeff_num' \in 0..15
    <3>1. Placing' /\ i' \in Int /\ i' <= total_coeff' /\ i' >= 1 /\ total_coeff' \in Int
      BY <1>1, <2>1, <2>3 DEF IInv, TypeOK
    <3>2. /\ total_zeros' \in Int /\ zeros_left' \in Int /\ coeff_num' \in Int
          /\ 0 <= zeros_left' /\ total_coeff' + total_zeros' <= 16
      BY <3>1, Zenon DEF Placing
    <3>3. i' = total_coeff' => coeff_num' = total_coeff' + total_zeros' - 1
      BY <3>1, Zenon DEF Placing
    <3>4. i' < total_coeff' =>
            coeff_num' + 1 + (total_coeff' - i') + zeros_left' = total_coeff' + total_zeros'
      BY <3>1, Zenon DEF Placing, Conserved
    <3>5. coeff_num' <= 15
      BY ONLY <3>1, <3>2, <3>3, <3>4, RoomLeft
    <3>6. run >= 0 /\ coeff_num' = coeff_num + run + 1
      BY <2>2, <2>4
    <3> QED BY <2>4, <2>5, <3>5, <3>6
  <2> PICK at : at = 15 - coeff_num'
    OBVIOUS
  <2>7. at \in Positions /\ at < 15 - coeff_num /\ at = 15 - coeff_num'
    BY <2>2, <2>4, <2>5, <2>6 DEF Positions
  <2>8. zz'[at] = i + 1 /\ \A k \in Positions : k # at => zz'[k] = zz[k]
    BY <2>2, <2>3, <2>7
  <2>9. Ordered
    BY <2>1 DEF OrderInv
  <2>10. \A k \in Positions : k <= at => zz[k] = 0
    BY <2>5, <2>7, <2>9 DEF Ordered, Positions
  <2>11. \A k \in Positions : zz'[k] \in 0..i'
    BY <2>1, <2>3, <2>8, <2>9 DEF Ordered
  <2>12. \A s \in 1..i' : \E k \in Positions : zz'[k] = s
    <3> SUFFICES ASSUME NEW s \in 1..i' PROVE \E k \in Positions : zz'[k] = s
      OBVIOUS
    <3>1. CASE s = i + 1
      BY <2>7, <2>8, <3>1
    <3>2. CASE s # i + 1
      <4>1. s \in 1..i
        BY <2>1, <2>3, <3>2
      <4>2. PICK k \in Positions : zz[k] = s
        BY <2>9, <4>1 DEF Ordered
      <4>3. k # at
        BY <2>7, <2>10, <4>1, <4>2
      <4> QED BY <2>8, <4>2, <4>3
    <3> QED BY <3>1, <3>2
  <2>13. \A k, l \in Positions : k < l /\ zz'[k] # 0 /\ zz'[l] # 0 => zz'[k] > zz'[l]
    <3> SUFFICES ASSUME NEW k \in Positions, NEW l \in Positions,
                        k < l, zz'[k] # 0, zz'[l] # 0
                 PROVE  zz'[k] > zz'[l]
      OBVIOUS
    <3>1. k \in Int /\ l \in Int /\ at \in Int
      BY <2>7 DEF Positions
    <3>2. k = at \/ (k > at /\ l > at)
      BY <2>8, <2>10, <3>1
    <3>3. CASE k = at
      BY <2>3, <2>8, <2>9, <3>1, <3>3 DEF Ordered
    <3>4. CASE k > at /\ l > at
      BY <2>8, <2>9, <3>1, <3>4 DEF Ordered
    <3> QED BY <3>2, <3>3, <3>4
  <2>14. \A k \in Positions : k < at => zz'[k] = 0
    BY <2>7, <2>8, <2>10 DEF Positions
  <2>15. Ordered'
    BY <2>1, <2>6, <2>7, <2>8, <2>11, <2>12, <2>13, <2>14 DEF Ordered
  <2> QED BY <2>1, <2>15 DEF OrderInv
<1>6. CASE Finish
  <2>1. /\ status = "place" /\ status' = "done" /\ i = total_coeff
        /\ UNCHANGED <<i, total_coeff, coeff_num, zz>>
        /\ raster' = [p \in Positions |-> zz[CHOOSE k \in Positions : ZigZag(k) = p]]
    BY <1>6 DEF Finish, AllPlaced, token
  <2>2. Ordered'
    BY <2>1 DEF OrderInv, Ordered
  <2> QED BY <2>1, <2>2 DEF OrderInv
<1>7. CASE ReadFails
  BY <1>7 DEF ReadFails, OrderInv
<1>8. CASE UNCHANGED vars
  BY <1>8 DEF vars, OrderInv, Ordered
<1> QED BY <1>2, <1>3, <1>4, <1>5, <1>6, <1>7, <1>8 DEF Next

(* Where the scan passes each place of the raster.                         *)
ScanOf(p) == <<0, 1, 5, 6, 2, 4, 7, 12, 3, 8, 11, 13, 9, 10, 14, 15>>[p + 1]

LEMMA ZigZagIsAPermutation ==
  ASSUME NEW k \in Positions
  PROVE  ZigZag(k) \in Positions /\ ScanOf(ZigZag(k)) = k
BY DEF Positions, ZigZag, ScanOf

LEMMA RasterCoversTheScan ==
  ASSUME NEW p \in Positions
  PROVE  ScanOf(p) \in Positions /\ ZigZag(ScanOf(p)) = p
BY DEF Positions, ZigZag, ScanOf

(* A block of the returned raster is the block of the scan.                *)
LEMMA RasterIsScan ==
  ASSUME raster = [p \in Positions |-> zz[CHOOSE k \in Positions : ZigZag(k) = p]]
  PROVE  \A k \in Positions : raster[ZigZag(k)] = zz[k]
<1> SUFFICES ASSUME NEW k \in Positions PROVE raster[ZigZag(k)] = zz[k]
  OBVIOUS
<1>1. ZigZag(k) \in Positions
  BY ZigZagIsAPermutation
<1>2. \A l \in Positions : ZigZag(l) = ZigZag(k) => l = k
  BY ZigZagIsAPermutation
<1>3. (CHOOSE l \in Positions : ZigZag(l) = ZigZag(k)) = k
  BY <1>2
<1> QED BY <1>1, <1>3

LEMMA OrderInductive == Spec => []OrderInv
<1>1. OrderInv /\ IInv /\ IInv' /\ [Next]_vars => OrderInv'
  BY OrderInvNext
<1> QED BY OrderInvInit, <1>1, ResidualInductive, PTL DEF Spec

(* A decoded block has exactly the levels that were decoded, neighbouring slots
   side by side, with total_zeros zeros among them and at one side.          *)
THEOREM LevelsArePlaced == Spec => []LevelsPlaced
<1>1. IInv /\ OrderInv => LevelsPlaced
  <2> SUFFICES ASSUME IInv, OrderInv, status = "done" PROVE LevelsPlaced
    BY DEF LevelsPlaced
  <2>1. /\ i = total_coeff /\ Ordered /\ Placing /\ total_coeff \in 0..16
        /\ \A k \in Positions : raster[ZigZag(k)] = zz[k]
    BY RasterIsScan DEF OrderInv, IInv, TypeOK
  <2>2. \A s \in 1..total_coeff : \E k \in Positions : raster[ZigZag(k)] = s
    BY <2>1 DEF Ordered
  <2>3. ASSUME NEW s \in 1..total_coeff PROVE At(s) \in Positions /\ zz[At(s)] = s
    <3>1. At(s) \in Positions /\ raster[ZigZag(At(s))] = s
      BY <2>2 DEF At
    <3> QED BY <2>1, <3>1
  <2>4. ASSUME NEW s \in 1..(total_coeff - 1), NEW m \in Positions,
               Between(m, At(s), At(s + 1)), Coefficient(m)
        PROVE  FALSE
    <3>1. s \in 1..total_coeff /\ s + 1 \in 1..total_coeff /\ s \in Int
      BY <2>1
    <3> PICK k : k = At(s)
      OBVIOUS
    <3> PICK l : l = At(s + 1)
      OBVIOUS
    <3>2. k \in Positions /\ zz[k] = s
      BY <2>3, <3>1
    <3>3. l \in Positions /\ zz[l] = s + 1
      BY <2>3, <3>1
    <3>4. ~(k < l) /\ k # l
      BY <2>1, <3>1, <3>2, <3>3 DEF Ordered
    <3>5. k \in Int /\ l \in Int
      BY ONLY <3>2, <3>3 DEF Positions
    <3>6. k > l
      BY ONLY <3>4, <3>5
    <3>7. zz[m] # 0 /\ zz[m] \in Int /\ m \in Int
      BY <2>1, <2>4 DEF Coefficient, Ordered, Positions
    <3>8. l < m /\ m < k
      BY <2>4, <3>5, <3>6, <3>7 DEF Between
    <3>9. s + 1 > zz[m] /\ zz[m] > s
      BY <2>1, <3>1, <3>2, <3>3, <3>7, <3>8 DEF Ordered
    <3> QED BY ONLY <3>1, <3>7, <3>9
  <2>5. ASSUME total_coeff > 0 PROVE FillsAnEnd(total_coeff + total_zeros)
    <3>1. /\ coeff_num \in 0..15 /\ zz[15 - coeff_num] = total_coeff
          /\ coeff_num = total_coeff + total_zeros - 1 /\ total_zeros \in Int
      BY <2>1, <2>5 DEF Ordered, Placing
    <3> PICK l : l = 15 - coeff_num
      OBVIOUS
    <3>2. l \in Positions /\ zz[l] # 0 /\ 16 - (total_coeff + total_zeros) = l
      BY <2>1, <2>5, <3>1 DEF Positions
    <3>3. ASSUME NEW k \in Positions, Coefficient(k) PROVE k >= l
      <4>1. zz[k] # 0 /\ k \in Int /\ l \in Int
        BY <2>1, <3>2, <3>3 DEF Coefficient, Positions
      <4>2. ~(k < l)
        BY <2>1, <4>1 DEF Ordered
      <4> QED BY ONLY <4>1, <4>2
    <3>4. Coefficient(l)
      BY <2>1, <3>2 DEF Coefficient
    <3> QED BY <3>2, <3>3, <3>4, Zenon DEF FillsAnEnd
  <2>6. Cardinality({p \in Positions : raster[p] # 0}) = total_coeff
    <3> DEFINE Filled == {p \in Positions : raster[p] # 0}
               level == [p \in Filled |-> raster[p]]
    <3>1. \A p \in Positions : raster[p] = zz[ScanOf(p)] /\ ScanOf(p) \in Positions
                               /\ ZigZag(ScanOf(p)) = p
      BY <2>1, RasterCoversTheScan
    <3>2. level \in [Filled -> 1..total_coeff]
      BY <2>1, <3>1 DEF Ordered
    <3>3. \A p, q \in Filled : level[p] = level[q] => p = q
      <4> SUFFICES ASSUME NEW p \in Filled, NEW q \in Filled, raster[p] = raster[q]
                   PROVE  p = q
        OBVIOUS
      <4> PICK k : k = ScanOf(p)
        OBVIOUS
      <4> PICK l : l = ScanOf(q)
        OBVIOUS
      <4>1. k \in Positions /\ l \in Positions /\ zz[k] = zz[l] /\ zz[k] # 0 /\ zz[k] \in Int
        BY <2>1, <3>1 DEF Ordered
      <4>2. ~(k < l) /\ ~(l < k)
        BY <2>1, <4>1 DEF Ordered
      <4>3. k = l
        BY <4>1, <4>2 DEF Positions
      <4> QED BY <3>1, <4>3
    <3>4. \A s \in 1..total_coeff : \E p \in Filled : level[p] = s
      <4> SUFFICES ASSUME NEW s \in 1..total_coeff PROVE \E p \in Filled : level[p] = s
        OBVIOUS
      <4>1. PICK k \in Positions : raster[ZigZag(k)] = s
        BY <2>2
      <4>2. ZigZag(k) \in Filled
        BY <4>1, ZigZagIsAPermutation
      <4> QED BY <4>1, <4>2
    <3>5. level \in Bijection(Filled, 1..total_coeff)
      BY <3>2, <3>3, <3>4, Fun_IsBij
    <3>6. IsFiniteSet(1..total_coeff) /\ Cardinality(1..total_coeff) = total_coeff
      <4>1. total_coeff \in Nat /\ total_coeff \in Int /\ 1 \in Int
        BY <2>1
      <4>2. /\ IsFiniteSet(1..total_coeff)
            /\ Cardinality(1..total_coeff) = IF 1 > total_coeff THEN 0 ELSE total_coeff - 1 + 1
        BY ONLY <4>1, FS_Interval
      <4> QED BY ONLY <4>1, <4>2
    <3>7. IsFiniteSet(Positions)
      <4>1. 0 \in Int /\ 15 \in Int
        OBVIOUS
      <4> QED BY <4>1, FS_Interval DEF Positions
    <3>8. IsFiniteSet(Filled)
      BY <3>7, FS_Subset
    <3>9. ExistsBijection(Filled, 1..total_coeff)
      BY <3>5, Fun_ExistsBij
    <3> QED BY <3>6, <3>8, <3>9, FS_Bijection
  <2> QED BY <2>2, <2>4, <2>5, <2>6 DEF LevelsPlaced
<1> QED BY <1>1, ResidualInductive, OrderInductive, PTL
-----------------------------------------------------------------------------
(* The lengths a codeword has.                                             *)
LEMMA PowersOfTwo ==
  /\ 2^0 = 1 /\ 2^1 = 2 /\ 2^2 = 4 /\ 2^3 = 8 /\ 2^4 = 16
  /\ 2^5 = 32 /\ 2^6 = 64 /\ 2^7 = 128 /\ 2^8 = 256 /\ 2^9 = 512
  /\ 2^10 = 1024 /\ 2^11 = 2048 /\ 2^12 = 4096 /\ 2^13 = 8192 /\ 2^14 = 16384
  /\ 2^15 = 32768 /\ 2^16 = 65536
OBVIOUS

(* What a code has in common with its first bits, and what one more bit adds. *)
LEMMA OneMoreBit ==
  ASSUME NEW k \in 1..16
  PROVE  /\ 2^k = 2 * 2^(k - 1) /\ 2^(k - 1) \in Nat \ {0}
         /\ \A c \in Nat : /\ c \div 2^(k - 1) = 2 * (c \div 2^k) + ((c \div 2^(k - 1)) % 2)
                           /\ c < 2^k => c \div 2^k = 0
<1>1. CASE k = 1
  <2>1. 2^k = 2 /\ 2^(k - 1) = 1
    BY <1>1, PowersOfTwo
  <2> QED BY <2>1
<1>2. CASE k = 2
  <2>1. 2^k = 4 /\ 2^(k - 1) = 2
    BY <1>2, PowersOfTwo
  <2> QED BY <2>1
<1>3. CASE k = 3
  <2>1. 2^k = 8 /\ 2^(k - 1) = 4
    BY <1>3, PowersOfTwo
  <2> QED BY <2>1
<1>4. CASE k = 4
  <2>1. 2^k = 16 /\ 2^(k - 1) = 8
    BY <1>4, PowersOfTwo
  <2> QED BY <2>1
<1>5. CASE k = 5
  <2>1. 2^k = 32 /\ 2^(k - 1) = 16
    BY <1>5, PowersOfTwo
  <2> QED BY <2>1
<1>6. CASE k = 6
  <2>1. 2^k = 64 /\ 2^(k - 1) = 32
    BY <1>6, PowersOfTwo
  <2> QED BY <2>1
<1>7. CASE k = 7
  <2>1. 2^k = 128 /\ 2^(k - 1) = 64
    BY <1>7, PowersOfTwo
  <2> QED BY <2>1
<1>8. CASE k = 8
  <2>1. 2^k = 256 /\ 2^(k - 1) = 128
    BY <1>8, PowersOfTwo
  <2> QED BY <2>1
<1>9. CASE k = 9
  <2>1. 2^k = 512 /\ 2^(k - 1) = 256
    BY <1>9, PowersOfTwo
  <2> QED BY <2>1
<1>10. CASE k = 10
  <2>1. 2^k = 1024 /\ 2^(k - 1) = 512
    BY <1>10, PowersOfTwo
  <2> QED BY <2>1
<1>11. CASE k = 11
  <2>1. 2^k = 2048 /\ 2^(k - 1) = 1024
    BY <1>11, PowersOfTwo
  <2> QED BY <2>1
<1>12. CASE k = 12
  <2>1. 2^k = 4096 /\ 2^(k - 1) = 2048
    BY <1>12, PowersOfTwo
  <2> QED BY <2>1
<1>13. CASE k = 13
  <2>1. 2^k = 8192 /\ 2^(k - 1) = 4096
    BY <1>13, PowersOfTwo
  <2> QED BY <2>1
<1>14. CASE k = 14
  <2>1. 2^k = 16384 /\ 2^(k - 1) = 8192
    BY <1>14, PowersOfTwo
  <2> QED BY <2>1
<1>15. CASE k = 15
  <2>1. 2^k = 32768 /\ 2^(k - 1) = 16384
    BY <1>15, PowersOfTwo
  <2> QED BY <2>1
<1>16. CASE k = 16
  <2>1. 2^k = 65536 /\ 2^(k - 1) = 32768
    BY <1>16, PowersOfTwo
  <2> QED BY <2>1
<1> QED BY <1>1, <1>2, <1>3, <1>4, <1>5, <1>6, <1>7, <1>8, <1>9, <1>10, <1>11, <1>12, <1>13, <1>14, <1>15, <1>16

(* The longest codeword of a table: no codeword is longer.                 *)
LEMMA LongestCode ==
  ASSUME NEW t \in Tables
  PROVE  /\ MaxLen(t) \in 1..16
         /\ \A e \in t : e.len <= MaxLen(t)
<1> DEFINE S == {e.len : e \in t}
<1>1. S \subseteq 1..16 /\ S # {}
  BY TablesAssumption
<1>2. \E x \in S : \A y \in S : x >= y
  <2> HIDE DEF S
  <2> DEFINE Bounds == {n \in Nat : \A y \in S : n >= y}
             R == OpToRel(<, Nat)
  <2>1. IsWellFoundedOn(R, Nat)
    BY NatLessThanWellFounded
  <2>2. \A y, x \in Nat : y < x => <<y, x>> \in R
    BY DEF OpToRel
  <2>3. 16 \in Bounds
    BY <1>1
  <2> HIDE DEF R
  <2>4. PICK x \in Bounds : \A y \in Bounds : ~(<<y, x>> \in R)
    BY <2>1, <2>3, WFMin
  <2>5. x \in Nat /\ x >= 1 /\ x - 1 \in Nat
    <3>1. PICK y \in S : y \in 1..16
      BY <1>1
    <3>2. x \in Nat /\ x >= y
      BY <3>1
    <3> QED BY <3>1, <3>2
  <2>6. x - 1 \notin Bounds
    <3>1. x - 1 < x
      BY <2>5
    <3>2. <<x - 1, x>> \in R
      BY <2>2, <2>5, <3>1
    <3> QED BY <2>4, <3>2
  <2>7. PICK y \in S : ~(x - 1 >= y)
    BY <2>5, <2>6
  <2>8. x = y
    BY <1>1, <2>5, <2>7
  <2> QED BY <2>7, <2>8
<1>3. MaxLen(t) \in S /\ \A y \in S : MaxLen(t) >= y
  BY <1>2 DEF MaxLen, Max
<1> QED BY <1>1, <1>3

-----------------------------------------------------------------------------
(* Of the codewords that are the start of a codeword one is the shortest.  *)
LEMMA ShortestExists ==
  ASSUME NEW t \in Tables, NEW e \in t
  PROVE  /\ Shortest(t, e) \in t /\ Begins(Shortest(t, e), e)
         /\ \A g \in t : Begins(g, e) => Shortest(t, e).len <= g.len
<1> DEFINE R == OpToRel(<, Nat)
           S == {n \in Nat : \E f \in t : Begins(f, e) /\ f.len = n}
<1>1. /\ \A f \in t : f.len \in 1..16
      /\ e.len \in 1..16 /\ e.code \in Nat
  BY OneMoreBit, TablesAssumption
<1>2. Begins(e, e)
  <2>1. e.len - e.len = 0 /\ e.len <= e.len
    BY <1>1
  <2>2. 2^0 = 1
    BY ONLY PowersOfTwo
  <2>3. e.code \div 1 = e.code
    BY <1>1
  <2>4. e.code \div 2^(e.len - e.len) = e.code
    BY ONLY <2>1, <2>2, <2>3
  <2> QED BY <2>1, <2>4 DEF Begins
<1>3. IsWellFoundedOn(R, Nat)
  BY NatLessThanWellFounded, Zenon
<1>4. \A y, x \in Nat : y < x => <<y, x>> \in R
  BY DEF OpToRel
<1>5. e.len \in S
  BY <1>1, <1>2
<1>6. PICK n \in S : \A m \in S : ~(<<m, n>> \in R)
  <2> HIDE DEF R, S
  <2>1. S \subseteq Nat
    BY DEF S
  <2> QED BY <1>3, <1>5, <2>1, WFMin
<1>7. PICK f \in t : Begins(f, e) /\ f.len = n
  OBVIOUS
<1>8. ASSUME NEW g \in t, Begins(g, e) PROVE f.len <= g.len
  <2>1. g.len \in Nat /\ g.len \in S /\ n \in Nat
    BY <1>1, <1>8
  <2>2. ~(g.len < n)
    <3> HIDE DEF R, S
    <3> QED BY ONLY <1>4, <1>6, <2>1
  <2> QED BY <1>7, <2>1, <2>2
<1> HIDE DEF R, S
<1> DEFINE Smallest(h) == Begins(h, e) /\ \A g \in t : Begins(g, e) => h.len <= g.len
<1>9. \E h \in t : Smallest(h)
  BY <1>7, <1>8
<1>10. Shortest(t, e) = CHOOSE h \in t : Smallest(h)
  BY DEF Shortest
<1> HIDE DEF Smallest
<1>11. Shortest(t, e) \in t /\ Smallest(Shortest(t, e))
  BY <1>9, <1>10
<1> QED BY <1>11 DEF Smallest

(* What is read of a codeword that somebody wrote.                         *)
Readable == Shortest(table, wrote)

(* The lookup of a codeword somebody wrote: what was peeked is its first bits,
   and nothing matched so far.                                             *)
Peeked ==
  /\ len <= Readable.len /\ avail <= wrote.len
  /\ acc = wrote.code \div 2^(wrote.len - len)
  /\ vlc_status # "invalid"
  /\ vlc_status = "reading" => len < Readable.len
  /\ vlc_status = "truncated" => len = avail /\ len < Readable.len
  /\ vlc_status = "ok" => len = Readable.len /\ value = Readable.value

LEMMA WhatIsReadable ==
  ASSUME table \in Tables, wrote \in table
  PROVE  /\ Readable \in table /\ Readable.len \in 1..16 /\ wrote.len \in 1..16
         /\ Readable.len <= wrote.len
         /\ Readable.code = wrote.code \div 2^(wrote.len - Readable.len)
         /\ \A g \in table : Begins(g, wrote) => Readable.len <= g.len
<1>1. /\ Readable \in table /\ Begins(Readable, wrote)
      /\ \A g \in table : Begins(g, wrote) => Readable.len <= g.len
  BY ShortestExists DEF Readable
<1> QED BY <1>1, TablesAssumption DEF Begins

LookupInv ==
  /\ table \in Tables /\ wrote \in table \union {Garbage}
  /\ avail \in 0..MaxLen(table) /\ len \in 0..16
  /\ LookupTypeOK
  /\ wrote # Garbage => Peeked

LEMMA LookupInvInit == LookupInit => LookupInv
<1> SUFFICES ASSUME LookupInit PROVE LookupInv
  OBVIOUS
<1>1. table \in Tables /\ MaxLen(table) \in 1..16
  BY LongestCode DEF LookupInit
<1>2. 2^0 = 1
  BY PowersOfTwo
<1>3. avail \in 0..MaxLen(table)
  BY <1>1, LongestCode, TablesAssumption DEF LookupInit
<1>4. ASSUME wrote # Garbage PROVE Peeked
  <2>1. wrote \in table /\ wrote.len \in 1..16 /\ wrote.code \in 0..(2^wrote.len - 1)
    BY <1>4, <1>1, TablesAssumption DEF LookupInit
  <2>2. wrote.len - 0 = wrote.len /\ wrote.code \in Nat /\ wrote.code < 2^wrote.len
    BY <2>1, OneMoreBit
  <2>3. wrote.code \div 2^wrote.len = 0
    BY <2>1, <2>2, OneMoreBit
  <2>4. Readable.len \in 1..16
    BY <1>1, <2>1, WhatIsReadable
  <2> QED BY <1>4, <2>1, <2>2, <2>3, <2>4 DEF LookupInit, Peeked
<1> QED BY <1>1, <1>2, <1>3, <1>4 DEF LookupInit, LookupInv, LookupTypeOK

LEMMA LookupInvNext == LookupInv /\ [LookupNext]_lookupVars => LookupInv'
<1> SUFFICES ASSUME LookupInv, [LookupNext]_lookupVars PROVE LookupInv'
  OBVIOUS
<1>1. /\ MaxLen(table) \in 1..16 /\ avail \in 0..16 /\ len \in 0..16
      /\ wrote # Garbage => /\ wrote \in table /\ wrote.len <= MaxLen(table)
                            /\ wrote.len \in 1..16 /\ wrote.code \in Nat
                            /\ Readable.len \in 1..16 /\ Readable.len <= wrote.len
  <2>1. \A e \in table : e.len \in 1..16 /\ 2^e.len \in Nat /\ e.code \in Nat
    BY OneMoreBit, TablesAssumption DEF LookupInv
  <2> QED BY <2>1, LongestCode, WhatIsReadable DEF LookupInv
<1>2. CASE LookupTruncated
  <2>1. wrote # Garbage => Peeked'
    BY <1>1, <1>2 DEF LookupInv, LookupTruncated, Peeked, Readable
  <2> QED BY <1>1, <1>2, <2>1 DEF LookupInv, LookupTruncated, LookupTypeOK
<1>3. CASE PeekBit
  <2> DEFINE hits(bits) == {e \in table : Matches(e, len + 1, bits)}
  <2>1. PICK b \in NextBits :
          /\ acc' = 2 * acc + b /\ len' = len + 1
          /\ hits(2 * acc + b) = {} => UNCHANGED <<vlc_status, value, cursor>>
          /\ hits(2 * acc + b) # {} =>
               \E e \in hits(2 * acc + b) : vlc_status' = "ok" /\ value' = e.value /\ cursor' = e.len
    BY <1>3 DEF PeekBit
  <2>2. /\ vlc_status = "reading" /\ len < MaxLen(table) /\ len < avail
        /\ UNCHANGED <<table, wrote, avail>>
    BY <1>3 DEF PeekBit
  <2>3. /\ len + 1 \in 1..16 /\ (len + 1) - 1 = len /\ len + 1 <= avail
        /\ 2^(len + 1) = 2 * 2^len /\ 2^len \in Nat \ {0}
    <3>1. len + 1 \in 1..16 /\ (len + 1) - 1 = len
      BY <1>1, <2>2
    <3>2. /\ 2^(len + 1) = 2 * 2^((len + 1) - 1)
          /\ 2^((len + 1) - 1) \in Nat \ {0}
      BY <3>1, OneMoreBit
    <3> QED BY <1>1, <2>2, <3>1, <3>2
  <2>4. wrote # Garbage =>
          LET j == wrote.len - len
          IN  /\ j \in 1..16 /\ wrote.len - len - 1 = j - 1 /\ wrote.len - (len + 1) = j - 1
              /\ 2^(j - 1) \in Nat \ {0}
              /\ acc = wrote.code \div 2^j
              /\ b = (wrote.code \div 2^(j - 1)) % 2
              /\ 2 * acc + b = wrote.code \div 2^(j - 1)
    <3> SUFFICES ASSUME wrote # Garbage
                 PROVE  LET j == wrote.len - len
                        IN  /\ j \in 1..16 /\ wrote.len - len - 1 = j - 1
                            /\ wrote.len - (len + 1) = j - 1
                            /\ 2^(j - 1) \in Nat \ {0}
                            /\ acc = wrote.code \div 2^j
                            /\ b = (wrote.code \div 2^(j - 1)) % 2
                            /\ 2 * acc + b = wrote.code \div 2^(j - 1)
      OBVIOUS
    <3> DEFINE j == wrote.len - len
    <3>1. j \in 1..16 /\ wrote.len - len - 1 = j - 1 /\ wrote.len - (len + 1) = j - 1
      BY <1>1, <2>2 DEF LookupInv, Peeked
    <3>2. acc = wrote.code \div 2^j
      BY DEF LookupInv, Peeked
    <3>3. b = (wrote.code \div 2^(j - 1)) % 2
      BY <3>1 DEF NextBits
    <3>4. /\ 2^(j - 1) \in Nat \ {0}
          /\ wrote.code \div 2^(j - 1) = 2 * (wrote.code \div 2^j) + ((wrote.code \div 2^(j - 1)) % 2)
      <4> HIDE DEF j
      <4> QED BY <1>1, <3>1, OneMoreBit
    <3>5. 2 * acc + b = wrote.code \div 2^(j - 1)
      BY ONLY <3>2, <3>3, <3>4
    <3> QED BY ONLY <3>1, <3>2, <3>3, <3>4, <3>5
  <2>5. b \in {0, 1}
    <3>1. CASE wrote = Garbage
      BY <3>1 DEF NextBits
    <3>2. CASE wrote # Garbage
      <4>1. PICK q : q = wrote.code \div 2^(wrote.len - len - 1)
        OBVIOUS
      <4>2. q \in Int /\ b = q % 2
        BY <1>1, <2>4, <3>2, <4>1
      <4> QED BY <4>2
    <3> QED BY <3>1, <3>2
  <2>6. acc' \in 0..(2^len' - 1)
    <3>1. acc \in 0..(2^len - 1)
      BY DEF LookupInv, LookupTypeOK
    <3> QED BY <2>1, <2>3, <2>5, <3>1
  <2>7. /\ vlc_status' \in {"reading", "ok"}
        /\ cursor' = (IF vlc_status' = "ok" THEN len' ELSE 0)
    <3>1. CASE hits(2 * acc + b) = {}
      BY <2>1, <2>2, <3>1 DEF LookupInv, LookupTypeOK
    <3>2. CASE hits(2 * acc + b) # {}
      <4>1. PICK e \in hits(2 * acc + b) : vlc_status' = "ok" /\ value' = e.value /\ cursor' = e.len
        BY <2>1, <3>2
      <4>2. e.len = len + 1
        BY DEF Matches
      <4> QED BY <2>1, <4>1, <4>2
    <3> QED BY <3>1, <3>2
  <2>8. ASSUME wrote # Garbage PROVE Peeked'
    <3> DEFINE j == wrote.len - len
    <3>1. /\ wrote \in table /\ wrote.len \in 1..16 /\ wrote.code \in Nat
          /\ j \in 1..16 /\ wrote.len - (len + 1) = j - 1
          /\ 2 * acc + b = wrote.code \div 2^(j - 1)
      BY <1>1, <2>4, <2>8
    <3>2. acc' = wrote'.code \div 2^(wrote'.len - len')
      BY <2>1, <2>2, <3>1
    <3>3. /\ len' <= Readable'.len /\ avail' <= wrote'.len /\ Readable' = Readable
          /\ len < Readable.len
      BY <1>1, <2>1, <2>2, <2>8, <3>1 DEF LookupInv, Peeked, Readable
    <3>4. /\ Readable \in table /\ Readable.len \in 1..16
          /\ Readable.code = wrote.code \div 2^(wrote.len - Readable.len)
          /\ \A g \in table : Begins(g, wrote) => Readable.len <= g.len
      BY <3>1, WhatIsReadable DEF LookupInv
    <3>5. CASE hits(2 * acc + b) = {}
      <4>1. len + 1 # Readable.len
        <5> SUFFICES ASSUME len + 1 = Readable.len PROVE FALSE
          OBVIOUS
        <5>1. Readable.code = 2 * acc + b
          BY <3>1, <3>4
        <5>2. Readable \in hits(2 * acc + b)
          BY <3>4, <5>1 DEF Matches
        <5> QED BY <3>5, <5>2
      <4>2. vlc_status' = "reading" /\ len' < Readable'.len
        BY <1>1, <2>1, <2>2, <3>3, <3>5, <3>4, <4>1
      <4> QED BY <3>2, <3>3, <4>2 DEF Peeked
    <3>6. CASE hits(2 * acc + b) # {}
      <4>1. PICK e \in hits(2 * acc + b) : vlc_status' = "ok" /\ value' = e.value /\ cursor' = e.len
        BY <2>1, <3>6
      <4>2. e \in table /\ e.len = len + 1 /\ e.code = 2 * acc + b
        BY DEF Matches
      <4>3. e.len <= wrote.len /\ wrote.len - e.len = j - 1 /\ e.len <= Readable.len
        BY <1>1, <2>1, <2>2, <2>8, <3>1, <3>3, <4>2
      <4>4. Readable = e
        <5>1. wrote.code \div 2^(wrote.len - e.len) = e.code
          BY <3>1, <4>2, <4>3
        <5>2. Readable.len <= e.len
          BY <3>4, <4>2, <4>3, <5>1 DEF Begins
        <5>3. e.len = Readable.len
          BY <2>3, <3>4, <4>2, <4>3, <5>2
        <5>4. e.code = Readable.code
          BY <3>4, <5>1, <5>3
        <5> QED BY <3>4, <4>2, <5>3, <5>4, TablesAssumption DEF LookupInv
      <4> QED BY <2>1, <2>2, <3>2, <3>3, <4>1, <4>2, <4>4 DEF Peeked
    <3> QED BY <3>5, <3>6
  <2>9. len' \in 0..MaxLen(table)' /\ len' <= avail'
    BY <1>1, <2>1, <2>2, <2>3
  <2> QED BY <1>1, <2>1, <2>2, <2>6, <2>7, <2>8, <2>9 DEF LookupInv, LookupTypeOK
<1>4. CASE NoMatch
  <2>1. wrote = Garbage
    BY <1>1, <1>4 DEF LookupInv, NoMatch, Peeked
  <2> QED BY <1>1, <1>4, <2>1 DEF LookupInv, NoMatch, LookupTypeOK
<1>5. CASE UNCHANGED lookupVars
  BY <1>5 DEF lookupVars, LookupInv, LookupTypeOK, Peeked, Readable
<1> QED BY <1>2, <1>3, <1>4, <1>5 DEF LookupNext

(* The bits read never outrun the longest codeword of the table.           *)
THEOREM LookupTypes == LookupSpec => []LookupTypeOK
<1>1. LookupInv => LookupTypeOK
  BY DEF LookupInv
<1> QED BY <1>1, LookupInvInit, LookupInvNext, PTL DEF LookupSpec

(* Whatever the table: a codeword is read as the shortest of its codewords that
   starts it, which is the codeword itself unless another shadows it.      *)
THEOREM CodewordsReadBack == LookupSpec => []CodewordsDecode
<1>1. LookupInv => CodewordsDecode
  <2> SUFFICES ASSUME LookupInv, wrote # Garbage, vlc_status # "reading"
               PROVE  IF avail < Readable.len THEN vlc_status = "truncated"
                      ELSE /\ vlc_status = "ok" /\ value = Readable.value
                           /\ cursor = Readable.len
    BY DEF CodewordsDecode, Readable
  <2>1. Readable.len \in 1..16 /\ MaxLen(table) \in 1..16
    BY LongestCode, WhatIsReadable DEF LookupInv
  <2> QED BY <2>1 DEF LookupInv, LookupTypeOK, Peeked
<1> QED BY <1>1, LookupInvInit, LookupInvNext, PTL DEF LookupSpec

-----------------------------------------------------------------------------
(* The suffixes have at most twelve bits, and six but in an escape.        *)
LEMMA SmallPowers ==
  ASSUME NEW n \in Nat, n <= 12
  PROVE  2^n \in Nat \ {0} /\ 2^n <= 4096 /\ (n <= 6 => 2^n <= 64)
<1>1. CASE n = 0
  BY <1>1, PowersOfTwo
<1>2. CASE n = 1
  BY <1>2, PowersOfTwo
<1>3. CASE n = 2
  BY <1>3, PowersOfTwo
<1>4. CASE n = 3
  BY <1>4, PowersOfTwo
<1>5. CASE n = 4
  BY <1>5, PowersOfTwo
<1>6. CASE n = 5
  BY <1>6, PowersOfTwo
<1>7. CASE n = 6
  BY <1>7, PowersOfTwo
<1>8. CASE n = 7
  BY <1>8, PowersOfTwo
<1>9. CASE n = 8
  BY <1>9, PowersOfTwo
<1>10. CASE n = 9
  BY <1>10, PowersOfTwo
<1>11. CASE n = 10
  BY <1>11, PowersOfTwo
<1>12. CASE n = 11
  BY <1>12, PowersOfTwo
<1>13. CASE n = 12
  BY <1>13, PowersOfTwo
<1> QED BY <1>1, <1>2, <1>3, <1>4, <1>5, <1>6, <1>7, <1>8, <1>9, <1>10, <1>11, <1>12, <1>13

(* The range of the levels, as inequalities.                               *)
LEMMA CodedRange == \A x : x \in Coded <=> x \in Int /\ -4577 <= x /\ x <= 4577
<1>1. MaxLevel = 4577 /\ MaxLevel \in Int
  BY DEF MaxLevel
<1>2. MaxLevel \in Int => \A x : x \in Coded <=> x \in Int /\ -MaxLevel <= x /\ x <= MaxLevel
  BY DEF Coded
<1> QED BY <1>1, <1>2

(* A level is never zero, and fits in 14 bits.                             *)
LEMMA LevelRange ==
  ASSUME NEW prefix \in Nat, prefix <= 32, NEW sl \in 0..6, NEW first \in BOOLEAN,
         NEW rest \in 0..(2^SuffixSize(prefix, sl) - 1)
  PROVE  /\ Level(LevelCode(prefix, rest, sl, first)) \in Coded
         /\ Level(LevelCode(prefix, rest, sl, first)) # 0
         /\ \A level \in Int : Adapt(sl, level) \in 0..6
<1>1. 2^sl \in 1..64
  <2>1. sl \in Nat /\ sl <= 12 /\ sl <= 6
    OBVIOUS
  <2>2. 2^sl \in Nat \ {0} /\ 2^sl <= 4096 /\ (sl <= 6 => 2^sl <= 64)
    BY <2>1, SmallPowers
  <2> QED BY <2>1, <2>2
<1>2. rest \in Nat /\ rest <= 4095
  <2>1. SuffixSize(prefix, sl) \in Nat /\ SuffixSize(prefix, sl) <= 12
    BY DEF SuffixSize
  <2>2. 2^SuffixSize(prefix, sl) \in Nat \ {0} /\ 2^SuffixSize(prefix, sl) <= 4096
    BY <2>1, SmallPowers
  <2>3. PICK m : m = 2^SuffixSize(prefix, sl)
    OBVIOUS
  <2>4. m \in Nat \ {0} /\ m <= 4096 /\ rest \in 0..(m - 1)
    BY <2>2, <2>3
  <2> QED BY ONLY <2>4
<1>3. LevelCode(prefix, rest, sl, first) \in Nat /\ LevelCode(prefix, rest, sl, first) <= 9153
  <2>1. PICK p \in 1..64 : p = 2^sl
    BY <1>1
  <2>2. PICK q \in 0..15 : q = IF prefix < 15 THEN prefix ELSE 15
    OBVIOUS
  <2>3. q * p \in Nat /\ q * p <= 960
    BY <2>1, <2>2
  <2>4. PICK x \in {0, 15} : x = IF prefix >= 14 /\ sl = 0 THEN 15 ELSE 0
    OBVIOUS
  <2>5. PICK y \in {0, 4096} : y = IF prefix >= 15 THEN 4096 ELSE 0
    OBVIOUS
  <2>6. PICK z \in {0, 2} : z = IF first THEN 2 ELSE 0
    OBVIOUS
  <2>7. LevelCode(prefix, rest, sl, first) = q * p + rest + x + y + z
    BY <2>1, <2>2, <2>4, <2>5, <2>6 DEF LevelCode
  <2>8. sl = 0 => p = 1
    BY <2>1, PowersOfTwo
  <2>9. x = 15 => q * p <= 15
    BY <2>1, <2>2, <2>4, <2>8
  <2> QED BY ONLY <1>2, <2>3, <2>7, <2>9, <2>4, <2>5, <2>6
<1>4. ASSUME NEW code \in Nat, code <= 9153
      PROVE  Level(code) \in Coded /\ Level(code) # 0
  <2>1. PICK v : v = Level(code)
    OBVIOUS
  <2>2. /\ code % 2 = 0 => v = (code + 2) \div 2
        /\ code % 2 # 0 => v = -((code + 1) \div 2)
    BY <2>1 DEF Level
  <2>3. v \in Int /\ -4577 <= v /\ v <= 4577 /\ v # 0
    BY ONLY <1>4, <2>2
  <2> QED BY <2>1, <2>3, CodedRange
<1>5. \A level \in Int : Adapt(sl, level) \in 0..6
  BY DEF Adapt
<1>6. PICK code : code = LevelCode(prefix, rest, sl, first)
  OBVIOUS
<1>7. Level(code) \in Coded /\ Level(code) # 0
  <2>1. code \in Nat /\ code <= 9153
    BY <1>3, <1>6
  <2> QED BY <1>4, <2>1
<1> QED BY ONLY <1>5, <1>6, <1>7

(* The slots filled so far: the signs from the top, the levels below them. *)
FilledSlots == ((total - n_signs)..(total - 1)) \union ((NLevels - n_read)..(NLevels - 1))

LevelsInv ==
  /\ LevelsTypeOK
  /\ levels \in [Slots -> Int]
  /\ n_signs <= ones
  /\ ones > total => level_status \in {"ok", "invalid"} /\ n_signs = 0 /\ n_read = 0
  /\ ones <= total => n_read <= NLevels
  /\ level_status = "signs" => ones <= total /\ n_read = 0
  /\ level_status = "levels" => ones <= total /\ n_signs = ones /\ n_read < NLevels
  /\ level_status = "ok" =>
       \/ total = 0 /\ n_signs = 0 /\ n_read = 0
       \/ ones <= total /\ n_signs = ones /\ n_read = NLevels
  /\ ones <= total => \A s \in Slots : (levels[s] # 0) <=> (s \in FilledSlots)
  /\ ones > total => \A s \in Slots : levels[s] = 0

LEMMA LevelsInvInit == LevelsInit => LevelsInv
<1> SUFFICES ASSUME LevelsInit PROVE LevelsInv
  OBVIOUS
<1>1. total \in Totals /\ total \in 0..16
  BY LevelsAssumption DEF LevelsInit
<1>2. \A s \in Slots : levels[s] = 0 /\ s \notin FilledSlots
  BY <1>1 DEF LevelsInit, FilledSlots, NLevels, Slots
<1>3. 0 \in Coded
  BY CodedRange
<1>4. \A s \in Slots : levels[s] \in Coded
  BY <1>2, <1>3
<1>5. LevelsTypeOK
  BY <1>1, <1>4 DEF LevelsInit, LevelsTypeOK
<1>6. levels \in [Slots -> Int] /\ level_status \in {"ok", "invalid", "signs"}
  BY DEF LevelsInit
<1>7. /\ ones \in 0..3 /\ n_signs = 0 /\ n_read = 0
      /\ level_status = IF total = 0 THEN "ok" ELSE IF ones > total THEN "invalid" ELSE "signs"
  BY DEF LevelsInit
<1>8. /\ ones <= total => n_read <= NLevels
      /\ level_status = "signs" => ones <= total
      /\ level_status = "ok" => total = 0
      /\ ones > total => level_status \in {"ok", "invalid"}
      /\ level_status # "levels" /\ n_signs <= ones
  <2>1. ones <= total => 0 <= NLevels
    BY ONLY <1>1, <1>7 DEF NLevels
  <2> QED BY ONLY <2>1, <1>1, <1>7
<1>9. /\ ones > total => n_signs = 0 /\ n_read = 0
      /\ level_status = "signs" => n_read = 0
      /\ level_status = "ok" => n_signs = 0 /\ n_read = 0
  BY ONLY <1>7
<1>10. /\ ones <= total => \A s \in Slots : (levels[s] # 0) <=> (s \in FilledSlots)
       /\ ones > total => \A s \in Slots : levels[s] = 0
  BY ONLY <1>2
<1> QED BY ONLY <1>5, <1>6, <1>8, <1>9, <1>10, Zenon DEF LevelsInv

LEMMA LevelsInvNext == LevelsInv /\ [LevelsNext]_levelVars => LevelsInv'
<1> SUFFICES ASSUME LevelsInv, [LevelsNext]_levelVars PROVE LevelsInv'
  OBVIOUS
<1>1. total \in 0..16 /\ ones \in 0..3 /\ n_signs \in 0..3 /\ n_read \in 0..16
  BY LevelsAssumption DEF LevelsInv, LevelsTypeOK
<1>2. CASE LevelsTruncated
  BY <1>1, <1>2 DEF LevelsInv, LevelsTypeOK, LevelsTruncated, levelToken, NLevels, FilledSlots
<1>3. CASE ReadSign
  <2>1. PICK level \in {-1, 1} : levels' = [levels EXCEPT ![SignSlot(n_signs)] = level]
    BY <1>3 DEF ReadSign
  <2>2. /\ UNCHANGED <<total, ones, n_read, suffix_length, level_status>>
        /\ level_status = "signs" /\ n_signs < ones /\ n_signs' = n_signs + 1
        /\ ones <= total /\ n_read = 0
    BY <1>3 DEF ReadSign, levelToken, LevelsInv
  <2>3. SignSlot(n_signs) \in Slots
    BY <1>1, <2>2 DEF SignSlot, Slots
  <2>4. levels' \in [Slots -> Int] /\ \A s \in Slots : levels'[s] \in Coded
    <3>1. levels \in [Slots -> Int] /\ \A s \in Slots : levels[s] \in Coded
      BY DEF LevelsInv, LevelsTypeOK
    <3>2. level \in Int /\ level \in Coded
      BY CodedRange
    <3>3. PICK slot : slot = SignSlot(n_signs)
      OBVIOUS
    <3> QED BY ONLY <2>1, <2>3, <3>1, <3>2, <3>3
  <2>5. \A s \in Slots : (levels'[s] # 0) <=> (s \in FilledSlots')
    <3> SUFFICES ASSUME NEW s \in Slots PROVE (levels'[s] # 0) <=> (s \in FilledSlots')
      OBVIOUS
    <3>1. levels'[s] = IF s = SignSlot(n_signs) THEN level ELSE levels[s]
      BY <2>1, <2>3 DEF LevelsInv
    <3>2. (levels[s] # 0) <=> (s \in FilledSlots)
      BY <2>2 DEF LevelsInv
    <3>3. s \in FilledSlots' <=> s \in FilledSlots \/ s = SignSlot(n_signs)
      BY <1>1, <2>2 DEF FilledSlots, SignSlot, NLevels, Slots
    <3> QED BY <3>1, <3>2, <3>3
  <2> QED BY <1>1, <2>2, <2>4, <2>5 DEF LevelsInv, LevelsTypeOK, NLevels
<1>4. CASE SignsDone
  BY <1>1, <1>4 DEF LevelsInv, LevelsTypeOK, SignsDone, levelToken, NLevels, FilledSlots
<1>5. CASE ReadLevel
  <2>1. PICK prefix \in PrefixSamples(total) :
          IF PrefixInvalid(prefix)
          THEN level_status' = "invalid" /\ UNCHANGED <<n_read, suffix_length, levels>>
          ELSE \E rest \in SuffixSamples(SuffixSize(prefix, suffix_length), total) :
                 LET first == n_read = 0 /\ ones < 3
                     level == Level(LevelCode(prefix, rest, suffix_length, first))
                 IN  /\ levels' = [levels EXCEPT ![NLevels - 1 - n_read] = level]
                     /\ suffix_length' = Adapt(suffix_length, level)
                     /\ n_read' = n_read + 1
                     /\ level_status' = IF n_read + 1 = NLevels THEN "ok" ELSE "levels"
    BY <1>5 DEF ReadLevel
  <2>2. /\ UNCHANGED <<total, ones, n_signs>>
        /\ level_status = "levels" /\ n_read < NLevels
        /\ ones <= total /\ n_signs = ones
    BY <1>5 DEF ReadLevel, levelToken, LevelsInv
  <2>3. CASE PrefixInvalid(prefix)
    BY <1>1, <2>1, <2>2, <2>3 DEF LevelsInv, LevelsTypeOK, NLevels, FilledSlots
  <2>4. CASE ~PrefixInvalid(prefix)
    <3> PICK rest \in SuffixSamples(SuffixSize(prefix, suffix_length), total) :
          LET first == n_read = 0 /\ ones < 3
              level == Level(LevelCode(prefix, rest, suffix_length, first))
          IN  /\ levels' = [levels EXCEPT ![NLevels - 1 - n_read] = level]
              /\ suffix_length' = Adapt(suffix_length, level)
              /\ n_read' = n_read + 1
              /\ level_status' = IF n_read + 1 = NLevels THEN "ok" ELSE "levels"
      BY <2>1, <2>4
    <3>1. PICK level :
            /\ level = Level(LevelCode(prefix, rest, suffix_length, n_read = 0 /\ ones < 3))
            /\ levels' = [levels EXCEPT ![NLevels - 1 - n_read] = level]
            /\ suffix_length' = Adapt(suffix_length, level)
            /\ n_read' = n_read + 1
            /\ level_status' = IF n_read + 1 = NLevels THEN "ok" ELSE "levels"
      OBVIOUS
    <3>2. level \in Coded /\ level # 0 /\ Adapt(suffix_length, level) \in 0..6
      <4>1. prefix \in Nat /\ prefix <= 32 /\ suffix_length \in 0..6
        <5>1. prefix \in Nat
          BY <1>1, LevelsAssumption
        <5>2. prefix <= 32
          BY <2>4, <5>1 DEF PrefixInvalid
        <5> QED BY <5>1, <5>2 DEF LevelsInv, LevelsTypeOK
      <4>2. SuffixSize(prefix, suffix_length) \in 0..12
        <5>1. SuffixSize(prefix, suffix_length) \in {suffix_length, 4, 12}
          BY ONLY Zenon DEF SuffixSize
        <5> QED BY ONLY <4>1, <5>1
      <4>3. rest \in 0..(2^SuffixSize(prefix, suffix_length) - 1)
        BY <1>1, <3>1, <4>2, LevelsAssumption
      <4>4. (n_read = 0 /\ ones < 3) \in BOOLEAN
        OBVIOUS
      <4>5. /\ level \in Coded /\ level # 0
            /\ \A l \in Int : Adapt(suffix_length, l) \in 0..6
        BY ONLY <3>1, <4>1, <4>3, <4>4, LevelRange
      <4>6. level \in Int
        BY ONLY <4>5, CodedRange
      <4> QED BY ONLY <4>5, <4>6
    <3> DEFINE slot == NLevels - 1 - n_read
    <3>3. slot \in Slots
      BY <1>1, <2>2 DEF Slots, NLevels
    <3>4. levels' \in [Slots -> Int] /\ \A s \in Slots : levels'[s] \in Coded
      <4>1. levels \in [Slots -> Int] /\ \A s \in Slots : levels[s] \in Coded
        BY DEF LevelsInv, LevelsTypeOK
      <4>2. level \in Int
        BY <3>2, CodedRange
      <4> HIDE DEF slot
      <4>3. levels' \in [Slots -> Int]
        BY <3>1, <3>3, <4>1, <4>2
      <4>4. \A s \in Slots : levels'[s] = IF s = slot THEN level ELSE levels[s]
        <5>1. levels' = [levels EXCEPT ![slot] = level]
          BY <3>1 DEF slot
        <5> QED BY ONLY <3>3, <4>1, <4>2, <5>1
      <4> QED BY <3>2, <4>1, <4>3, <4>4
    <3>5. ASSUME NEW s \in Slots PROVE (levels'[s] # 0) <=> (s \in FilledSlots')
      <4>1. levels'[s] = IF s = slot THEN level ELSE levels[s]
        BY <3>1, <3>3, <3>5 DEF LevelsInv
      <4>2. (levels[s] # 0) <=> (s \in FilledSlots)
        BY <2>2, <3>5 DEF LevelsInv
      <4>3. s \in FilledSlots' <=> s \in FilledSlots \/ s = slot
        BY <1>1, <2>2, <3>1, <3>5 DEF FilledSlots, NLevels, Slots
      <4> QED BY <3>2, <4>1, <4>2, <4>3
    <3>6. n_read' \in 0..16 /\ n_read' <= NLevels'
      BY <1>1, <2>2, <3>1 DEF NLevels
    <3>7. suffix_length' \in 0..6 /\ level_status' \in {"ok", "levels"}
      BY <3>1, <3>2
    <3>8. LevelsTypeOK'
      BY <1>1, <2>2, <3>4, <3>6, <3>7 DEF LevelsInv, LevelsTypeOK
    <3>9. /\ level_status' = "levels" => n_read' < NLevels'
          /\ level_status' = "ok" => n_read' = NLevels'
      BY <1>1, <2>2, <3>1 DEF NLevels
    <3>10. ~(ones' > total') /\ ones' <= total' /\ n_signs' = ones' /\ n_signs' <= ones'
      BY <1>1, <2>2
    <3> QED BY <3>4, <3>5, <3>6, <3>7, <3>8, <3>9, <3>10 DEF LevelsInv
  <2> QED BY <2>3, <2>4
<1>6. CASE UNCHANGED levelVars
  BY <1>6 DEF levelVars, LevelsInv, LevelsTypeOK, NLevels, FilledSlots
<1> QED BY <1>2, <1>3, <1>4, <1>5, <1>6, Zenon DEF LevelsNext

(* The suffix length stays below 7 and a level within its 14 bits, whatever
   prefixes and suffixes the stream holds.                                 *)
THEOREM LevelTypes == LevelsSpec => []LevelsTypeOK
<1>1. LevelsInv => LevelsTypeOK
  BY DEF LevelsInv
<1> QED BY <1>1, LevelsInvInit, LevelsInvNext, PTL DEF LevelsSpec

(* The signs and the levels meet, for every block, prefix and suffix.      *)
THEOREM SlotsAreFilled == LevelsSpec => []SlotsFilled
<1>1. LevelsInv => SlotsFilled
  <2> SUFFICES ASSUME LevelsInv PROVE SlotsFilled
    BY Zenon
  <2>1. total \in 0..16 /\ ones \in 0..3 /\ n_signs \in 0..3 /\ n_read \in 0..16
    BY LevelsAssumption DEF LevelsInv, LevelsTypeOK
  <2>2. level_status = "ok" => \A s \in Slots : (levels[s] # 0) <=> (s < total)
    BY <2>1 DEF LevelsInv, FilledSlots, NLevels, Slots
  <2>3. Cardinality({s \in Slots : levels[s] # 0}) = n_signs + n_read
    <3>1. CASE ones > total
      <4>1. {s \in Slots : levels[s] # 0} = {}
        BY <3>1 DEF LevelsInv
      <4> QED BY <3>1, <4>1, FS_EmptySet DEF LevelsInv
    <3>2. CASE ones <= total
      <4> DEFINE A == (total - n_signs)..(total - 1)
                 B == (NLevels - n_read)..(NLevels - 1)
      <4>1. NLevels \in 0..16 /\ n_read <= NLevels /\ n_signs <= ones /\ NLevels <= total - n_signs
        BY <2>1, <3>2 DEF LevelsInv, NLevels
      <4>2. {s \in Slots : levels[s] # 0} = A \union B
        <5>1. A \union B = FilledSlots /\ A \union B \subseteq Slots
          BY <2>1, <4>1 DEF FilledSlots, Slots
        <5> HIDE DEF A, B
        <5> QED BY <3>2, <5>1 DEF LevelsInv
      <4>3. IsFiniteSet(A) /\ Cardinality(A) = n_signs
        <5>1. total - n_signs \in Int /\ total - 1 \in Int
          BY <2>1
        <5>2. /\ IsFiniteSet(A)
              /\ Cardinality(A) = IF total - n_signs > total - 1 THEN 0
                                  ELSE (total - 1) - (total - n_signs) + 1
          BY ONLY <5>1, FS_Interval
        <5> QED BY <2>1, <5>2
      <4>4. IsFiniteSet(B) /\ Cardinality(B) = n_read
        <5>1. NLevels - n_read \in Int /\ NLevels - 1 \in Int
          BY <2>1, <4>1
        <5>2. /\ IsFiniteSet(B)
              /\ Cardinality(B) = IF NLevels - n_read > NLevels - 1 THEN 0
                                  ELSE (NLevels - 1) - (NLevels - n_read) + 1
          BY ONLY <5>1, FS_Interval
        <5> QED BY <2>1, <4>1, <5>2
      <4>5. A \cap B = {}
        BY <2>1, <4>1
      <4> HIDE DEF A, B
      <4>6. Cardinality(A \cap B) = 0
        BY <4>5, FS_EmptySet
      <4>7. Cardinality(A \union B) = Cardinality(A) + Cardinality(B) - Cardinality(A \cap B)
        BY <4>3, <4>4, FS_Union
      <4> QED BY <2>1, <4>2, <4>3, <4>4, <4>6, <4>7
    <3> QED BY <2>1, <3>1, <3>2
  <2> QED BY <2>2, <2>3 DEF SlotsFilled
<1> QED BY <1>1, LevelsInvInit, LevelsInvNext, PTL DEF LevelsSpec

-----------------------------------------------------------------------------
(* What the parser does on an element, whichever header it is in.          *)
ReadNext(h, e) ==
  CASE h = "sps" -> SpsReadNext(e[1], e[2])
    [] h = "slice" -> SliceReadNext(e[1], e[2])
    [] OTHER -> << >>

OutOfScope(h, e) ==
  CASE h = "sps" -> SpsOutOfScope(e[1], e[2]) \/ (e[1] = "profile_idc" /\ e[2] # 66)
    [] h = "pps" -> PpsOutOfScope(e[1], e[2])
    [] h = "slice" -> SliceOutOfScope(e[1], e[2])

Names ==
  {"adaptive_ref_pic_marking_mode_flag", "bottom",
   "bottom_field_pic_order_in_frame_present_flag", "chroma_qp_index_offset",
   "constrained_intra_pred_flag", "constraint_flags",
   "deblocking_filter_control_present_flag", "delta_pic_order_always_zero_flag",
   "delta_pic_order_cnt_bottom", "difference_of_pic_nums_minus1",
   "direct_8x8_inference_flag", "disable_deblocking_filter_idc",
   "entropy_coding_mode_flag", "first_mb_in_slice", "frame_cropping_flag",
   "frame_mbs_only_flag", "frame_num", "gaps_in_frame_num_value_allowed_flag",
   "idr_pic_id", "left", "level_idc", "log2_max_frame_num_minus4",
   "log2_max_pic_order_cnt_lsb_minus4", "long_term_frame_idx",
   "long_term_pic_num", "long_term_reference_flag",
   "max_long_term_frame_idx_plus1", "mb_adaptive_frame_field_flag", "mmco",
   "no_output_of_prior_pics_flag", "num_ref_frames",
   "num_ref_idx_l0_default_active_minus1",
   "num_ref_idx_l1_default_active_minus1", "num_slice_groups_minus1",
   "pic_height_in_map_units_minus1", "pic_init_qp_minus26",
   "pic_init_qs_minus26", "pic_order_cnt_lsb", "pic_order_cnt_type",
   "pic_parameter_set_id", "pic_width_in_mbs_minus1", "profile_idc",
   "redundant_pic_cnt", "redundant_pic_cnt_present_flag", "right",
   "seq_parameter_set_id", "slice_alpha_c0_offset_div2",
   "slice_beta_offset_div2", "slice_group_map_type", "slice_qp_delta",
   "slice_type", "top", "vui_parameters", "vui_parameters_present_flag",
   "weighted_bipred_idc", "weighted_pred_flag"}

Elements == Names \X Int

(* The names are those of elements from from on, each the first behind those
   that its predecessor leads to, and they end before to.                  *)
AlignedAt(names, from, to, cd, close, at) ==
  /\ at \in [1..(Len(names) + 1) -> Nat]
  /\ at[1] = from /\ at[Len(names) + 1] = to
  /\ \A j, k \in 1..(Len(names) + 1) : j <= k => at[j] + (k - j) <= at[k]
  /\ \A j \in 1..Len(names) :
       /\ cd[at[j]][1] = names[j]
       /\ at[j + 1] = close[at[j]]

Aligned(names, from, to, cd, close) ==
  \E at : AlignedAt(names, from, to, cd, close, at)

(* A slice header holds what an element leads to even where the element is
   out of scope.                                                           *)
Follows(h, e) == h = "slice" \/ ~OutOfScope(h, e)

(* close says where what an element leads to ends: behind the elements that
   the parser goes on to read because of it.                               *)
Syntax(h, cd, end, close) ==
  \A k \in 1..(end - 1) :
    /\ close[k] \in 1..end
    /\ Follows(h, cd[k]) => Aligned(ReadNext(h, cd[k]), k + 1, close[k], cd, close)

Covers(h, names, cd) ==
  \E close \in [1..Len(cd) -> Nat] :
    Syntax(h, cd, Len(cd) + 1, close) /\ Aligned(names, 1, Len(cd) + 1, cd, close)

LEMMA AlignedTail ==
  ASSUME NEW names \in Seq(Names), names # << >>, NEW from \in Nat, NEW to \in Nat,
         NEW cd, NEW close, Aligned(names, from, to, cd, close)
  PROVE  /\ from < to /\ cd[from][1] = Head(names)
         /\ Aligned(Tail(names), close[from], to, cd, close)
         /\ Len(names) <= to - from
<1>1. PICK at : AlignedAt(names, from, to, cd, close, at)
  BY DEF Aligned
<1> DEFINE n == Len(names)
           rest == [j \in 1..n |-> at[j + 1]]
<1>2. n \in Nat /\ n > 0 /\ Head(names) = names[1]
  OBVIOUS
<1>3. /\ Tail(names) \in Seq(Names) /\ Len(Tail(names)) = n - 1
      /\ \A j \in 1..(n - 1) : Tail(names)[j] = names[j + 1]
  OBVIOUS
<1>4. /\ at \in [1..(n + 1) -> Nat] /\ at[1] = from /\ at[n + 1] = to
      /\ \A j, k \in 1..(n + 1) : j <= k => at[j] + (k - j) <= at[k]
      /\ \A j \in 1..n : cd[at[j]][1] = names[j] /\ at[j + 1] = close[at[j]]
  BY <1>1 DEF AlignedAt
<1> HIDE DEF n
<1>5. from <= to - n /\ cd[from][1] = names[1] /\ at[2] = close[from]
  <2>1. 1 \in 1..(n + 1) /\ n + 1 \in 1..(n + 1) /\ 1 \in 1..n /\ 1 + 1 = 2 /\ (n + 1) - 1 = n
    BY <1>2
  <2>2. at[1] + ((n + 1) - 1) <= at[n + 1]
    BY <2>1, <1>4
  <2>3. cd[at[1]][1] = names[1] /\ at[1 + 1] = close[at[1]]
    BY <2>1, <1>4
  <2> QED BY <2>1, <2>2, <2>3, <1>2, <1>4
<1>6. rest \in [1..((n - 1) + 1) -> Nat] /\ rest[1] = close[from] /\ rest[(n - 1) + 1] = to
  <2>1. (n - 1) + 1 = n /\ 1 \in 1..n /\ n \in 1..n /\ 1 + 1 = 2
    BY <1>2
  <2>2. \A j \in 1..n : at[j + 1] \in Nat
    BY <1>2, <1>4
  <2>3. rest \in [1..n -> Nat] /\ rest[1] = at[1 + 1] /\ rest[n] = at[n + 1]
    BY <2>1, <2>2
  <2> QED BY <1>4, <1>5, <2>1, <2>3
<1>7. \A j, k \in 1..((n - 1) + 1) : j <= k => rest[j] + (k - j) <= rest[k]
  <2> SUFFICES ASSUME NEW j \in 1..n, NEW k \in 1..n, j <= k
               PROVE  at[j + 1] + (k - j) <= at[k + 1]
    BY <1>2
  <2>1. j + 1 \in 1..(n + 1) /\ k + 1 \in 1..(n + 1) /\ j + 1 <= k + 1 /\ (k + 1) - (j + 1) = k - j
    BY <1>2
  <2> QED BY <1>4, <2>1
<1>8. ASSUME NEW j \in 1..(n - 1)
      PROVE cd[rest[j]][1] = names[j + 1] /\ rest[j + 1] = close[rest[j]]
  <2>1. j + 1 \in 1..n /\ j \in 1..n /\ (j + 1) + 1 = j + 2
    BY <1>2
  <2>2. rest[j] = at[j + 1] /\ rest[j + 1] = at[(j + 1) + 1]
    BY <2>1
  <2> QED BY <1>4, <2>1, <2>2
<1> HIDE DEF rest
<1>9. AlignedAt(Tail(names), close[from], to, cd, close, rest)
  BY <1>3, <1>6, <1>7, <1>8 DEF AlignedAt
<1> QED BY <1>2, <1>5, <1>9 DEF Aligned, n

(* Elements aligned one behind the other.                                  *)
LEMMA AlignedAppend ==
  ASSUME NEW a \in Seq(Names), NEW b \in Seq(Names), NEW p, NEW q, NEW r, NEW cd, NEW close,
         Aligned(a, p, q, cd, close), Aligned(b, q, r, cd, close)
  PROVE  Aligned(a \o b, p, r, cd, close)
<1>1. PICK f : AlignedAt(a, p, q, cd, close, f)
  BY DEF Aligned
<1>2. PICK g : AlignedAt(b, q, r, cd, close, g)
  BY DEF Aligned
<1> DEFINE m == Len(a)
           n == Len(b)
           at == [j \in 1..(m + n + 1) |-> IF j <= m THEN f[j] ELSE g[j - m]]
<1>3. m \in Nat /\ n \in Nat
  OBVIOUS
<1>4. /\ a \o b \in Seq(Names) /\ Len(a \o b) = m + n
      /\ \A j \in 1..m : (a \o b)[j] = a[j]
      /\ \A j \in (m + 1)..(m + n) : (a \o b)[j] = b[j - m]
  BY ConcatProperties
<1>5. /\ f \in [1..(m + 1) -> Nat] /\ f[1] = p /\ f[m + 1] = q
      /\ \A j, k \in 1..(m + 1) : j <= k => f[j] + (k - j) <= f[k]
      /\ \A j \in 1..m : cd[f[j]][1] = a[j] /\ f[j + 1] = close[f[j]]
  BY <1>1 DEF AlignedAt
<1>6. /\ g \in [1..(n + 1) -> Nat] /\ g[1] = q /\ g[n + 1] = r
      /\ \A j, k \in 1..(n + 1) : j <= k => g[j] + (k - j) <= g[k]
      /\ \A j \in 1..n : cd[g[j]][1] = b[j] /\ g[j + 1] = close[g[j]]
  BY <1>2 DEF AlignedAt
<1> HIDE DEF m, n
<1>7. \A j \in 1..(m + 1) : at[j] = f[j]
  <2> SUFFICES ASSUME NEW j \in 1..(m + 1) PROVE at[j] = f[j]
    OBVIOUS
  <2>1. CASE j <= m
    BY <2>1, <1>3
  <2>2. CASE j = m + 1
    BY <2>2, <1>3, <1>5, <1>6
  <2> QED BY <1>3, <2>1, <2>2
<1>8. \A j \in 1..(n + 1) : at[m + j] = g[j]
  <2> SUFFICES ASSUME NEW j \in 1..(n + 1) PROVE at[m + j] = g[j]
    OBVIOUS
  <2>1. m + j \in 1..(m + n + 1) /\ ~(m + j <= m) /\ (m + j) - m = j
    BY <1>3
  <2> QED BY <2>1
<1>9. at \in [1..((m + n) + 1) -> Nat]
  <2> SUFFICES ASSUME NEW j \in 1..(m + n + 1) PROVE (IF j <= m THEN f[j] ELSE g[j - m]) \in Nat
    BY <1>3
  <2>1. CASE j <= m
    BY <2>1, <1>3, <1>5
  <2>2. CASE j > m
    <3>1. j - m \in 1..(n + 1)
      BY <1>3, <2>2
    <3> QED BY <2>2, <3>1, <1>3, <1>6
  <2> QED BY <1>3, <2>1, <2>2
<1> HIDE DEF at
<1>10. at[1] = p /\ at[(m + n) + 1] = r
  <2>1. 1 \in 1..(m + 1) /\ n + 1 \in 1..(n + 1) /\ m + (n + 1) = (m + n) + 1
    BY <1>3
  <2>2. at[1] = f[1] /\ at[m + (n + 1)] = g[n + 1]
    BY <2>1, <1>7, <1>8
  <2> QED BY <2>1, <2>2, <1>5, <1>6
<1>11. \A j, k \in 1..((m + n) + 1) : j <= k => at[j] + (k - j) <= at[k]
  <2> SUFFICES ASSUME NEW j \in 1..(m + n + 1), NEW k \in 1..(m + n + 1), j <= k
               PROVE  at[j] + (k - j) <= at[k]
    BY <1>3
  <2>1. CASE k <= m + 1
    <3>1. j \in 1..(m + 1) /\ k \in 1..(m + 1)
      BY <2>1, <1>3
    <3>2. f[j] + (k - j) <= f[k] /\ at[j] = f[j] /\ at[k] = f[k]
      BY <3>1, <1>5, <1>7
    <3> QED BY <3>2
  <2>2. CASE j >= m + 1
    <3>1. /\ j - m \in 1..(n + 1) /\ k - m \in 1..(n + 1) /\ m + (j - m) = j /\ m + (k - m) = k
          /\ j - m <= k - m /\ (k - m) - (j - m) = k - j
      BY <1>3, <2>2
    <3> QED BY <3>1, <1>6, <1>8
  <2>3. CASE j <= m /\ k > m + 1
    <3>1. /\ j \in 1..(m + 1) /\ m + 1 \in 1..(m + 1) /\ j <= m + 1
          /\ 1 \in 1..(n + 1) /\ k - m \in 1..(n + 1) /\ 1 <= k - m /\ m + (k - m) = k
      BY <1>3, <2>3
    <3>2. f[j] + ((m + 1) - j) <= f[m + 1] /\ g[1] + ((k - m) - 1) <= g[k - m]
      BY <3>1, <1>5, <1>6
    <3>3. at[j] = f[j] /\ at[k] = g[k - m] /\ f[m + 1] = g[1]
      BY <3>1, <1>5, <1>6, <1>7, <1>8
    <3>4. f[j] \in Nat /\ g[k - m] \in Nat /\ g[1] \in Nat
      BY <3>1, <1>5, <1>6
    <3>5. \A x, y, z \in Nat :
            x + ((m + 1) - j) <= y /\ y + ((k - m) - 1) <= z => x + (k - j) <= z
      BY <1>3
    <3> QED BY <3>2, <3>3, <3>4, <3>5
  <2> QED BY <1>3, <2>1, <2>2, <2>3
<1>12. ASSUME NEW j \in 1..(m + n)
       PROVE  cd[at[j]][1] = (a \o b)[j] /\ at[j + 1] = close[at[j]]
  <2>1. CASE j <= m
    <3>1. j \in 1..m /\ j \in 1..(m + 1) /\ j + 1 \in 1..(m + 1)
      BY <1>3, <2>1
    <3> QED BY <3>1, <1>4, <1>5, <1>7
  <2>2. CASE j > m
    <3>1. /\ j - m \in 1..n /\ j - m \in 1..(n + 1) /\ (j - m) + 1 \in 1..(n + 1)
          /\ m + (j - m) = j /\ m + ((j - m) + 1) = j + 1 /\ j \in (m + 1)..(m + n)
      BY <1>3, <2>2
    <3>2. at[j] = g[j - m] /\ at[j + 1] = g[(j - m) + 1]
      BY <3>1, <1>8
    <3>3. (a \o b)[j] = b[j - m]
      BY <3>1, <1>4
    <3>4. cd[g[j - m]][1] = b[j - m] /\ g[(j - m) + 1] = close[g[j - m]]
      BY <3>1, <1>6
    <3> QED BY <3>2, <3>3, <3>4
  <2>3. j <= m \/ j > m
    BY <1>3
  <2> QED BY <2>1, <2>2, <2>3
<1>13. AlignedAt(a \o b, p, r, cd, close, at)
  BY <1>4, <1>9, <1>10, <1>11, <1>12 DEF AlignedAt, m, n
<1> QED BY <1>13 DEF Aligned

(* Elements that stand further on are aligned there.                       *)
LEMMA AlignedShift ==
  ASSUME NEW names \in Seq(Names), NEW from \in Nat, NEW to \in Nat, NEW d \in Nat,
         NEW cd, NEW close, NEW cd2, NEW close2, Aligned(names, from, to, cd, close),
         \A k \in from..(to - 1) : cd2[k + d] = cd[k] /\ close2[k + d] = close[k] + d
  PROVE  Aligned(names, from + d, to + d, cd2, close2)
<1>1. PICK f : AlignedAt(names, from, to, cd, close, f)
  BY DEF Aligned
<1> DEFINE n == Len(names)
           at == [j \in 1..(n + 1) |-> f[j] + d]
<1>2. n \in Nat
  OBVIOUS
<1>3. /\ f \in [1..(n + 1) -> Nat] /\ f[1] = from /\ f[n + 1] = to
      /\ \A j, k \in 1..(n + 1) : j <= k => f[j] + (k - j) <= f[k]
      /\ \A j \in 1..n : cd[f[j]][1] = names[j] /\ f[j + 1] = close[f[j]]
  BY <1>1 DEF AlignedAt
<1> HIDE DEF n
<1>4. \A j \in 1..(n + 1) : at[j] = f[j] + d
  OBVIOUS
<1>5. at \in [1..(n + 1) -> Nat] /\ at[1] = from + d /\ at[n + 1] = to + d
  <2>1. \A j \in 1..(n + 1) : f[j] \in Nat
    BY <1>3
  <2>2. at \in [1..(n + 1) -> Nat]
    BY <2>1
  <2>3. 1 \in 1..(n + 1) /\ n + 1 \in 1..(n + 1)
    BY <1>2
  <2> QED BY <1>3, <1>4, <2>2, <2>3
<1> HIDE DEF at
<1>6. ASSUME NEW j \in 1..(n + 1), NEW k \in 1..(n + 1), j <= k PROVE at[j] + (k - j) <= at[k]
  <2>1. f[j] \in Nat /\ f[k] \in Nat /\ f[j] + (k - j) <= f[k]
    BY <1>3, <1>6
  <2> QED BY <2>1, <1>2, <1>4
<1>7. ASSUME NEW j \in 1..n PROVE cd2[at[j]][1] = names[j] /\ at[j + 1] = close2[at[j]]
  <2>1. j \in 1..(n + 1) /\ j + 1 \in 1..(n + 1) /\ 1 \in 1..(n + 1) /\ n + 1 \in 1..(n + 1)
    BY <1>2
  <2>2. f[1] + (j - 1) <= f[j] /\ f[j] + ((n + 1) - j) <= f[n + 1] /\ f[j] \in Nat
    <3>1. 1 <= j /\ j <= n + 1
      BY <1>2
    <3>2. f[1] + (j - 1) <= f[j]
      BY <2>1, <3>1, <1>3
    <3>3. f[j] + ((n + 1) - j) <= f[n + 1]
      BY <2>1, <3>1, <1>3
    <3> QED BY <2>1, <3>2, <3>3, <1>3
  <2>3. f[j] \in from..(to - 1)
    <3>1. f[1] = from /\ f[n + 1] = to /\ 1 <= j /\ j <= n
      BY <1>2, <1>3
    <3> QED BY <1>2, <2>2, <3>1
  <2>4. cd2[f[j] + d] = cd[f[j]] /\ close2[f[j] + d] = close[f[j]] + d
    BY <2>3
  <2>5. cd[f[j]][1] = names[j] /\ f[j + 1] = close[f[j]]
    BY <1>3
  <2>6. at[j] = f[j] + d /\ at[j + 1] = f[j + 1] + d
    BY <2>1, <1>4
  <2> QED BY ONLY <2>4, <2>5, <2>6
<1>8. AlignedAt(names, from + d, to + d, cd2, close2, at)
  BY <1>5, <1>6, <1>7 DEF AlignedAt, n
<1> QED BY <1>8 DEF Aligned

LEMMA AlignedIn ==
  ASSUME NEW names \in Seq(Names), NEW from \in Nat, NEW to \in Nat,
         NEW cd, NEW close, NEW cd2, NEW close2, Aligned(names, from, to, cd, close),
         \A k \in from..(to - 1) : cd2[k] = cd[k] /\ close2[k] = close[k],
         \A k \in from..(to - 1) : close[k] \in Nat
  PROVE  Aligned(names, from, to, cd2, close2)
<1>1. \A k \in from..(to - 1) : cd2[k + 0] = cd[k] /\ close2[k + 0] = close[k] + 0
  OBVIOUS
<1>2. Aligned(names, from + 0, to + 0, cd2, close2)
  BY <1>1, AlignedShift
<1> QED BY <1>2

LEMMA NothingAligned ==
  ASSUME NEW p \in Nat, NEW cd, NEW close
  PROVE  Aligned(<< >>, p, p, cd, close)
<1> DEFINE at == [j \in 1..1 |-> p]
<1>1. Len(<< >>) + 1 = 1 /\ 1..Len(<< >>) = {}
  OBVIOUS
<1>2. at \in [1..1 -> Nat] /\ at[1] = p
  OBVIOUS
<1> HIDE DEF at
<1>3. \A j, k \in 1..1 : j <= k => at[j] + (k - j) <= at[k]
  BY <1>2
<1>4. AlignedAt(<< >>, p, p, cd, close, at)
  BY <1>1, <1>2, <1>3 DEF AlignedAt
<1> QED BY <1>4 DEF Aligned

LEMMA OneAligned ==
  ASSUME NEW name \in Names, NEW p \in Nat, NEW cd, NEW close,
         cd[p][1] = name, close[p] \in Nat, close[p] > p
  PROVE  Aligned(<<name>>, p, close[p], cd, close)
<1> DEFINE at == [j \in 1..2 |-> IF j = 1 THEN p ELSE close[p]]
<1>1. Len(<<name>>) = 1 /\ <<name>>[1] = name
  OBVIOUS
<1>2. at \in [1..2 -> Nat] /\ at[1] = p /\ at[2] = close[p]
  OBVIOUS
<1> HIDE DEF at
<1>3. \A j, k \in 1..2 : j <= k => at[j] + (k - j) <= at[k]
  BY <1>2
<1>4. AlignedAt(<<name>>, p, close[p], cd, close, at)
  BY <1>1, <1>2, <1>3 DEF AlignedAt
<1> QED BY <1>4 DEF Aligned

LEMMA OneName == ASSUME NEW n \in Names PROVE <<n>> \in Seq(Names)
OBVIOUS

LEMMA MmcoOperandsType ==
  ASSUME NEW m PROVE MmcoOperands(m) \in Seq(Names)
<1> DEFINE first ==
      CASE m \in {1, 3} -> <<"difference_of_pic_nums_minus1">>
        [] m = 2 -> <<"long_term_pic_num">>
        [] m = 4 -> <<"max_long_term_frame_idx_plus1">>
        [] m = 6 -> <<"long_term_frame_idx">>
        [] OTHER -> << >>
<1>1. /\ "difference_of_pic_nums_minus1" \in Names /\ "long_term_pic_num" \in Names
      /\ "max_long_term_frame_idx_plus1" \in Names /\ "long_term_frame_idx" \in Names
  BY DEF Names
<1>2. /\ <<"difference_of_pic_nums_minus1">> \in Seq(Names)
      /\ <<"long_term_pic_num">> \in Seq(Names)
      /\ <<"max_long_term_frame_idx_plus1">> \in Seq(Names)
      /\ <<"long_term_frame_idx">> \in Seq(Names) /\ << >> \in Seq(Names)
  BY <1>1, OneName
<1>3. first \in Seq(Names)
  BY <1>2
<1>4. If(m = 3, <<"long_term_frame_idx">>) \in Seq(Names)
  BY <1>2 DEF If
<1> HIDE DEF first
<1>5. first \o If(m = 3, <<"long_term_frame_idx">>) \in Seq(Names)
  BY <1>3, <1>4, ConcatProperties
<1> QED BY <1>5 DEF first, MmcoOperands

LEMMA ReadNextType ==
  ASSUME NEW h, NEW e PROVE ReadNext(h, e) \in Seq(Names)
<1>0. << >> \in Seq(Names)
  OBVIOUS
<1>1. SpsReadNext(e[1], e[2]) \in Seq(Names)
  <2>1. /\ "log2_max_pic_order_cnt_lsb_minus4" \in Names
        /\ "left" \in Names /\ "right" \in Names /\ "top" \in Names /\ "bottom" \in Names
    BY DEF Names
  <2>2. <<"log2_max_pic_order_cnt_lsb_minus4">> \in Seq(Names)
    BY <2>1, OneName
  <2>3. <<"left", "right", "top", "bottom">> \in Seq(Names)
    BY <2>1
  <2> QED BY <1>0, <2>2, <2>3 DEF SpsReadNext
<1>2. <<"mmco">> \in Seq(Names)
  BY OneName DEF Names
<1>3. MmcoOperands(e[2]) \o <<"mmco">> \in Seq(Names)
  BY <1>2, MmcoOperandsType, ConcatProperties
<1>4. FilterOffsets(e[2]) \in Seq(Names)
  <2>1. "slice_alpha_c0_offset_div2" \in Names /\ "slice_beta_offset_div2" \in Names
    BY DEF Names
  <2>2. <<"slice_alpha_c0_offset_div2", "slice_beta_offset_div2">> \in Seq(Names)
    BY <2>1
  <2> QED BY <1>0, <2>2 DEF FilterOffsets, If
<1>5. SliceReadNext(e[1], e[2]) \in Seq(Names)
  BY <1>0, <1>2, <1>3, <1>4 DEF SliceReadNext
<1> QED BY <1>0, <1>1, <1>5 DEF ReadNext

(* Two parts that are read one after the other.                            *)
LEMMA CoversJoin ==
  ASSUME NEW h, NEW a \in Seq(Names), NEW b \in Seq(Names),
         NEW c1 \in Seq(Elements), NEW c2 \in Seq(Elements),
         Covers(h, a, c1), Covers(h, b, c2)
  PROVE  Covers(h, a \o b, c1 \o c2)
<1> DEFINE m == Len(c1)
           n == Len(c2)
           cd == c1 \o c2
<1>1. PICK f \in [1..m -> Nat] :
        Syntax(h, c1, m + 1, f) /\ Aligned(a, 1, m + 1, c1, f)
  BY DEF Covers
<1>2. PICK g \in [1..n -> Nat] :
        Syntax(h, c2, n + 1, g) /\ Aligned(b, 1, n + 1, c2, g)
  BY DEF Covers
<1> DEFINE close == [k \in 1..(m + n) |-> IF k <= m THEN f[k] ELSE g[k - m] + m]
<1>3. m \in Nat /\ n \in Nat
  OBVIOUS
<1>4. /\ cd \in Seq(Elements) /\ Len(cd) = m + n
      /\ \A k \in 1..m : cd[k] = c1[k]
      /\ \A k \in 1..n : cd[k + m] = c2[k]
  <2>1. /\ cd \in Seq(Elements) /\ Len(cd) = m + n
        /\ \A k \in 1..m : cd[k] = c1[k]
        /\ \A k \in (m + 1)..(m + n) : cd[k] = c2[k - m]
    BY ConcatProperties
  <2>2. \A k \in 1..n : k + m \in (m + 1)..(m + n) /\ (k + m) - m = k
    BY <1>3
  <2> QED BY <2>1, <2>2
<1> HIDE DEF m, n, cd
<1>5. \A k \in 1..m : f[k] \in Nat
  OBVIOUS
<1>6. \A k \in 1..n : g[k] \in Nat
  OBVIOUS
<1>7. \A k \in 1..m : close[k] = f[k]
  BY <1>3
<1>8. \A k \in 1..n : close[k + m] = g[k] + m
  <2> SUFFICES ASSUME NEW k \in 1..n PROVE close[k + m] = g[k] + m
    OBVIOUS
  <2>1. k + m \in 1..(m + n) /\ ~(k + m <= m) /\ (k + m) - m = k
    BY <1>3
  <2> QED BY <2>1
<1>9. close \in [1..(m + n) -> Nat]
  <2> SUFFICES ASSUME NEW k \in 1..(m + n) PROVE (IF k <= m THEN f[k] ELSE g[k - m] + m) \in Nat
    OBVIOUS
  <2>1. CASE k <= m
    BY <2>1, <1>3, <1>5
  <2>2. CASE k > m
    <3>1. k - m \in 1..n
      BY <2>2, <1>3
    <3> QED BY <2>2, <3>1, <1>3, <1>6
  <2> QED BY <2>1, <2>2, <1>3
<1> HIDE DEF close
<1>10. ASSUME NEW names \in Seq(Names), NEW from \in Nat \ {0}, NEW to \in 1..(m + 1),
              Aligned(names, from, to, c1, f)
       PROVE  Aligned(names, from, to, cd, close)
  <2>1. \A k \in from..(to - 1) : k \in 1..m
    BY <1>3
  <2>2. to \in Nat /\ from \in Nat
    BY <1>3
  <2>3. \A k \in from..(to - 1) : cd[k] = c1[k] /\ close[k] = f[k] /\ f[k] \in Nat
    BY <2>1, <1>4, <1>5, <1>7
  <2> QED BY <1>10, <2>2, <2>3, AlignedIn
<1>11. ASSUME NEW names \in Seq(Names), NEW from \in Nat \ {0}, NEW to \in 1..(n + 1),
              Aligned(names, from, to, c2, g)
       PROVE  Aligned(names, from + m, to + m, cd, close)
  <2>1. \A k \in from..(to - 1) : k \in 1..n
    BY <1>3
  <2>2. to \in Nat /\ from \in Nat
    BY <1>3
  <2>3. \A k \in from..(to - 1) : cd[k + m] = c2[k] /\ close[k + m] = g[k] + m
    BY <2>1, <1>4, <1>8
  <2> QED BY <1>3, <1>11, <2>2, <2>3, AlignedShift
<1>12. Aligned(a \o b, 1, (m + n) + 1, cd, close)
  <2>1. Aligned(a, 1, m + 1, cd, close)
    BY <1>1, <1>3, <1>10
  <2>2. Aligned(b, 1 + m, (n + 1) + m, cd, close)
    BY <1>2, <1>3, <1>11
  <2>3. 1 + m = m + 1 /\ (n + 1) + m = (m + n) + 1
    BY <1>3
  <2> QED BY <2>1, <2>2, <2>3, AlignedAppend
<1>13. ASSUME NEW k \in 1..(m + n)
       PROVE  /\ close[k] \in 1..((m + n) + 1)
              /\ Follows(h, cd[k]) => Aligned(ReadNext(h, cd[k]), k + 1, close[k], cd, close)
  <2>1. CASE k <= m
    <3>1. k \in 1..m /\ k \in 1..((m + 1) - 1) /\ k + 1 \in Nat \ {0}
      BY <2>1, <1>3
    <3>2. cd[k] = c1[k] /\ close[k] = f[k]
      BY <3>1, <1>4, <1>7
    <3>3. /\ f[k] \in 1..(m + 1)
          /\ Follows(h, c1[k]) => Aligned(ReadNext(h, c1[k]), k + 1, f[k], c1, f)
      BY <3>1, <1>1 DEF Syntax
    <3>4. Follows(h, c1[k]) => Aligned(ReadNext(h, c1[k]), k + 1, f[k], cd, close)
      BY <3>1, <3>3, <1>10, ReadNextType
    <3>5. close[k] \in 1..((m + n) + 1)
      BY <3>2, <3>3, <1>3
    <3> QED BY <3>2, <3>4, <3>5
  <2>2. CASE k > m
    <3> DEFINE l == k - m
    <3>1. l \in 1..n /\ l \in 1..((n + 1) - 1) /\ l + 1 \in Nat \ {0} /\ l + m = k /\ (l + 1) + m = k + 1
      BY <2>2, <1>3
    <3> HIDE DEF l
    <3>2. cd[k] = c2[l] /\ close[k] = g[l] + m
      BY <3>1, <1>4, <1>8
    <3>3. /\ g[l] \in 1..(n + 1)
          /\ Follows(h, c2[l]) => Aligned(ReadNext(h, c2[l]), l + 1, g[l], c2, g)
      BY <3>1, <1>2 DEF Syntax
    <3>4. Follows(h, c2[l]) => Aligned(ReadNext(h, c2[l]), (l + 1) + m, g[l] + m, cd, close)
      BY <3>1, <3>3, <1>11, ReadNextType
    <3>5. close[k] \in 1..((m + n) + 1)
      BY <3>2, <3>3, <1>3
    <3> QED BY <3>1, <3>2, <3>4, <3>5
  <2>3. k <= m \/ k > m
    BY <1>3
  <2> QED BY <2>1, <2>2, <2>3
<1>14. Syntax(h, cd, (m + n) + 1, close)
  <2>1. ((m + n) + 1) - 1 = m + n
    BY <1>3
  <2> QED BY <2>1, <1>13 DEF Syntax
<1>15. Covers(h, a \o b, cd)
  BY <1>4, <1>9, <1>12, <1>14 DEF Covers
<1> QED BY <1>15 DEF cd

(* An element with all that it leads to.                                   *)
LEMMA CoversOne ==
  ASSUME NEW h, NEW e \in Elements, NEW names \in Seq(Names), NEW c2 \in Seq(Elements),
         Covers(h, names, c2), ~Follows(h, e) \/ names = ReadNext(h, e)
  PROVE  Covers(h, <<e[1]>>, <<e>> \o c2)
<1> DEFINE n == Len(c2)
           cd == <<e>> \o c2
<1>1. PICK g \in [1..n -> Nat] :
        Syntax(h, c2, n + 1, g) /\ Aligned(names, 1, n + 1, c2, g)
  BY DEF Covers
<1> DEFINE close == [k \in 1..(n + 1) |-> IF k = 1 THEN n + 2 ELSE g[k - 1] + 1]
<1>2. n \in Nat /\ e[1] \in Names
  BY DEF Elements
<1>3. /\ cd \in Seq(Elements) /\ Len(cd) = n + 1
      /\ cd[1] = e
      /\ \A k \in 1..n : cd[k + 1] = c2[k]
  <2>1. <<e>> \in Seq(Elements) /\ Len(<<e>>) = 1 /\ <<e>>[1] = e
    OBVIOUS
  <2>2. /\ cd \in Seq(Elements) /\ Len(cd) = 1 + n
        /\ \A k \in 1..1 : cd[k] = <<e>>[k]
        /\ \A k \in (1 + 1)..(1 + n) : cd[k] = c2[k - 1]
    BY <2>1, ConcatProperties
  <2>3. \A k \in 1..n : k + 1 \in (1 + 1)..(1 + n) /\ (k + 1) - 1 = k
    BY <1>2
  <2> QED BY <2>1, <2>2, <2>3, <1>2
<1> HIDE DEF n, cd
<1>4. \A k \in 1..n : g[k] \in Nat
  OBVIOUS
<1>5. close[1] = n + 2 /\ \A k \in 1..n : close[k + 1] = g[k] + 1
  <2>1. \A k \in 1..n : k + 1 \in 1..(n + 1) /\ k + 1 # 1 /\ (k + 1) - 1 = k
    BY <1>2
  <2> QED BY <2>1, <1>2
<1>6. close \in [1..(n + 1) -> Nat]
  <2> SUFFICES ASSUME NEW k \in 1..(n + 1) PROVE (IF k = 1 THEN n + 2 ELSE g[k - 1] + 1) \in Nat
    OBVIOUS
  <2>1. CASE k = 1
    BY <2>1, <1>2
  <2>2. CASE k # 1
    <3>1. k - 1 \in 1..n
      BY <2>2, <1>2
    <3> QED BY <2>2, <3>1, <1>4
  <2> QED BY <2>1, <2>2
<1> HIDE DEF close
<1>7. ASSUME NEW ns \in Seq(Names), NEW from \in Nat \ {0}, NEW to \in 1..(n + 1),
             Aligned(ns, from, to, c2, g)
      PROVE  Aligned(ns, from + 1, to + 1, cd, close)
  <2>1. \A k \in from..(to - 1) : k \in 1..n
    BY <1>2
  <2>2. to \in Nat /\ from \in Nat
    BY <1>2
  <2>3. \A k \in from..(to - 1) : cd[k + 1] = c2[k] /\ close[k + 1] = g[k] + 1
    BY <2>1, <1>3, <1>5
  <2> QED BY <1>7, <2>2, <2>3, AlignedShift
<1>8. Aligned(<<e[1]>>, 1, (n + 1) + 1, cd, close)
  <2>1. Aligned(<<e[1]>>, 1, close[1], cd, close)
    <3>1. cd[1][1] = e[1] /\ close[1] \in Nat /\ close[1] > 1 /\ 1 \in Nat
      BY <1>2, <1>3, <1>5
    <3> QED BY <3>1, <1>2, OneAligned
  <2>2. close[1] = (n + 1) + 1
    BY <1>2, <1>5
  <2> QED BY <2>1, <2>2
<1>9. ASSUME NEW k \in 1..(n + 1)
      PROVE  /\ close[k] \in 1..((n + 1) + 1)
             /\ Follows(h, cd[k]) => Aligned(ReadNext(h, cd[k]), k + 1, close[k], cd, close)
  <2>1. CASE k = 1
    <3>1. Aligned(names, 1 + 1, (n + 1) + 1, cd, close)
      BY <1>1, <1>2, <1>7
    <3>2. (n + 1) + 1 = close[1] /\ n + 2 \in 1..((n + 1) + 1)
      BY <1>2, <1>5
    <3> QED BY <2>1, <3>1, <3>2, <1>3, <1>5
  <2>2. CASE k # 1
    <3> DEFINE l == k - 1
    <3>1. l \in 1..n /\ l \in 1..((n + 1) - 1) /\ l + 1 \in Nat \ {0} /\ l + 1 = k
      BY <2>2, <1>2
    <3> HIDE DEF l
    <3>2. cd[k] = c2[l] /\ close[k] = g[l] + 1
      BY <3>1, <1>3, <1>5
    <3>3. /\ g[l] \in 1..(n + 1)
          /\ Follows(h, c2[l]) => Aligned(ReadNext(h, c2[l]), l + 1, g[l], c2, g)
      BY <3>1, <1>1 DEF Syntax
    <3>4. Follows(h, c2[l]) => Aligned(ReadNext(h, c2[l]), (l + 1) + 1, g[l] + 1, cd, close)
      BY <3>1, <3>3, <1>7, ReadNextType
    <3>5. close[k] \in 1..((n + 1) + 1)
      BY <3>2, <3>3, <1>2
    <3> QED BY <3>1, <3>2, <3>4, <3>5
  <2> QED BY <2>1, <2>2
<1>10. Syntax(h, cd, (n + 1) + 1, close)
  <2>1. ((n + 1) + 1) - 1 = n + 1
    BY <1>2
  <2> QED BY <2>1, <1>9 DEF Syntax
<1>11. Covers(h, <<e[1]>>, cd)
  BY <1>3, <1>6, <1>8, <1>10 DEF Covers
<1> QED BY <1>11 DEF cd

(* Elements that lead to nothing.                                          *)
LEMMA CoversPlain ==
  ASSUME NEW h, NEW names \in Seq(Names), NEW cd \in Seq(Elements), Len(names) = Len(cd),
         \A k \in 1..Len(cd) : cd[k][1] = names[k] /\ ReadNext(h, cd[k]) = << >>
  PROVE  Covers(h, names, cd)
<1> DEFINE n == Len(cd)
           close == [k \in 1..n |-> k + 1]
           at == [k \in 1..(n + 1) |-> k]
<1>1. n \in Nat /\ Len(names) = n
  OBVIOUS
<1>2. \A k \in 1..n : cd[k][1] = names[k] /\ ReadNext(h, cd[k]) = << >>
  OBVIOUS
<1> HIDE DEF n
<1>3. close \in [1..n -> Nat] /\ \A k \in 1..n : close[k] = k + 1
  OBVIOUS
<1>4. /\ at \in [1..(n + 1) -> Nat] /\ \A k \in 1..(n + 1) : at[k] = k
      /\ 1 \in 1..(n + 1) /\ n + 1 \in 1..(n + 1)
  BY <1>1
<1> HIDE DEF close, at
<1>5. \A j, k \in 1..(n + 1) : j <= k => at[j] + (k - j) <= at[k]
  BY <1>4
<1>6. ASSUME NEW j \in 1..n PROVE cd[at[j]][1] = names[j] /\ at[j + 1] = close[at[j]]
  <2>1. j \in 1..(n + 1) /\ j + 1 \in 1..(n + 1)
    BY <1>1
  <2>2. at[j] = j /\ at[j + 1] = j + 1
    BY <2>1, <1>4
  <2> QED BY <2>2, <1>2, <1>3
<1>7. AlignedAt(names, 1, n + 1, cd, close, at)
  BY <1>1, <1>4, <1>5, <1>6 DEF AlignedAt
<1>8. ASSUME NEW k \in 1..n
      PROVE  /\ close[k] \in 1..(n + 1)
             /\ Aligned(ReadNext(h, cd[k]), k + 1, close[k], cd, close)
  <2>1. k + 1 \in Nat /\ k + 1 \in 1..(n + 1) /\ close[k] = k + 1
    BY <1>1, <1>3
  <2>2. Aligned(<< >>, k + 1, k + 1, cd, close)
    BY <2>1, NothingAligned
  <2> QED BY <2>1, <2>2, <1>2
<1>9. Syntax(h, cd, n + 1, close)
  <2>1. (n + 1) - 1 = n
    BY <1>1
  <2> QED BY <2>1, <1>8 DEF Syntax
<1> QED BY <1>3, <1>7, <1>9 DEF Covers, Aligned, n

LEMMA CoversNothing ==
  ASSUME NEW h PROVE Covers(h, << >>, << >>) /\ << >> \in Seq(Elements) /\ << >> \in Seq(Names)
<1>1. << >> \in Seq(Elements) /\ << >> \in Seq(Names) /\ Len(<< >>) = 0 /\ 1..0 = {}
  OBVIOUS
<1> QED BY <1>1, CoversPlain

LEMMA CoversPlainOne ==
  ASSUME NEW h, NEW e \in Elements, ReadNext(h, e) = << >>
  PROVE  Covers(h, <<e[1]>>, <<e>>) /\ <<e>> \in Seq(Elements) /\ <<e[1]>> \in Seq(Names)
<1>1. e[1] \in Names
  BY DEF Elements
<1>2. <<e>> \in Seq(Elements) /\ <<e[1]>> \in Seq(Names) /\ Len(<<e>>) = 1 /\ Len(<<e[1]>>) = 1
  BY <1>1
<1>3. \A k \in 1..1 : <<e>>[k][1] = <<e[1]>>[k] /\ ReadNext(h, <<e>>[k]) = << >>
  OBVIOUS
<1> QED BY <1>2, <1>3, CoversPlain

(* No element announces anything that is out of scope.                     *)
Clean(h, cd) == \A k \in 1..Len(cd) : ~OutOfScope(h, cd[k])

LEMMA CleanJoin ==
  ASSUME NEW h, NEW c1 \in Seq(Elements), NEW c2 \in Seq(Elements)
  PROVE  Clean(h, c1 \o c2) <=> Clean(h, c1) /\ Clean(h, c2)
<1> DEFINE m == Len(c1)
           n == Len(c2)
           cd == c1 \o c2
<1>1. m \in Nat /\ n \in Nat
  OBVIOUS
<1>2. /\ Len(cd) = m + n
      /\ \A k \in 1..m : cd[k] = c1[k]
      /\ \A k \in (m + 1)..(m + n) : cd[k] = c2[k - m]
  BY ConcatProperties
<1> HIDE DEF m, n, cd
<1>3. ASSUME \A k \in 1..(m + n) : ~OutOfScope(h, cd[k])
      PROVE  (\A k \in 1..m : ~OutOfScope(h, c1[k])) /\ (\A k \in 1..n : ~OutOfScope(h, c2[k]))
  <2>1. ASSUME NEW k \in 1..m PROVE ~OutOfScope(h, c1[k])
    <3>1. k \in 1..(m + n) /\ cd[k] = c1[k]
      BY <1>1, <1>2
    <3> QED BY <3>1, <1>3
  <2>2. ASSUME NEW k \in 1..n PROVE ~OutOfScope(h, c2[k])
    <3>1. k + m \in 1..(m + n) /\ k + m \in (m + 1)..(m + n) /\ (k + m) - m = k
      BY <1>1
    <3>2. cd[k + m] = c2[k]
      BY <3>1, <1>2
    <3> QED BY <3>1, <3>2, <1>3
  <2> QED BY <2>1, <2>2
<1>4. ASSUME \A k \in 1..m : ~OutOfScope(h, c1[k]), \A k \in 1..n : ~OutOfScope(h, c2[k])
      PROVE  \A k \in 1..(m + n) : ~OutOfScope(h, cd[k])
  <2> SUFFICES ASSUME NEW k \in 1..(m + n) PROVE ~OutOfScope(h, cd[k])
    OBVIOUS
  <2>1. CASE k <= m
    BY <2>1, <1>1, <1>2, <1>4
  <2>2. CASE k > m
    <3>1. k - m \in 1..n /\ k \in (m + 1)..(m + n)
      BY <2>2, <1>1
    <3> QED BY <3>1, <1>2, <1>4
  <2> QED BY <2>1, <2>2, <1>1
<1>5. (\A k \in 1..(m + n) : ~OutOfScope(h, cd[k]))
        <=> (\A k \in 1..m : ~OutOfScope(h, c1[k])) /\ (\A k \in 1..n : ~OutOfScope(h, c2[k]))
  BY <1>3, <1>4
<1> QED BY <1>2, <1>5 DEF Clean, m, n, cd

LEMMA CleanOne ==
  ASSUME NEW h, NEW e PROVE Clean(h, <<e>>) <=> ~OutOfScope(h, e)
<1>1. Len(<<e>>) = 1 /\ <<e>>[1] = e
  OBVIOUS
<1> QED BY <1>1 DEF Clean

LEMMA CleanNothing ==
  ASSUME NEW h PROVE Clean(h, << >>)
<1>1. Len(<< >>) = 0
  OBVIOUS
<1> QED BY <1>1 DEF Clean

(* Parts of a header, and what they announce.                              *)
Reads(h, names, cd) ==
  names \in Seq(Names) /\ cd \in Seq(Elements) /\ Covers(h, names, cd)

LEMMA ReadsJoin ==
  ASSUME NEW h, NEW a, NEW b, NEW c1, NEW c2, Reads(h, a, c1), Reads(h, b, c2)
  PROVE  /\ Reads(h, a \o b, c1 \o c2)
         /\ Clean(h, c1 \o c2) <=> Clean(h, c1) /\ Clean(h, c2)
<1>1. a \o b \in Seq(Names) /\ c1 \o c2 \in Seq(Elements)
  BY ConcatProperties DEF Reads
<1>2. Covers(h, a \o b, c1 \o c2)
  BY CoversJoin DEF Reads
<1> QED BY <1>1, <1>2, CleanJoin DEF Reads

LEMMA ReadsNothing == ASSUME NEW h PROVE Reads(h, << >>, << >>) /\ Clean(h, << >>)
BY CoversNothing, CleanNothing DEF Reads

LEMMA ReadsPlain ==
  ASSUME NEW h, NEW e \in Elements, ReadNext(h, e) = << >>
  PROVE  Reads(h, <<e[1]>>, <<e>>) /\ (Clean(h, <<e>>) <=> ~OutOfScope(h, e))
BY CoversPlainOne, CleanOne DEF Reads

LEMMA ReadsOne ==
  ASSUME NEW h, NEW e \in Elements, NEW names, NEW c2, Reads(h, names, c2),
         ~Follows(h, e) \/ names = ReadNext(h, e)
  PROVE  /\ Reads(h, <<e[1]>>, <<e>> \o c2)
         /\ Clean(h, <<e>> \o c2) <=> ~OutOfScope(h, e) /\ Clean(h, c2)
<1>1. e[1] \in Names /\ <<e>> \in Seq(Elements)
  BY DEF Elements
<1>2. <<e[1]>> \in Seq(Names)
  BY <1>1
<1>3. <<e>> \o c2 \in Seq(Elements)
  BY <1>1, ConcatProperties DEF Reads
<1>4. Covers(h, <<e[1]>>, <<e>> \o c2)
  BY CoversOne DEF Reads
<1>5. Clean(h, <<e>> \o c2) <=> ~OutOfScope(h, e) /\ Clean(h, c2)
  BY <1>1, CleanJoin, CleanOne DEF Reads
<1> QED BY <1>2, <1>3, <1>4, <1>5 DEF Reads

-----------------------------------------------------------------------------
SpsOptionSet ==
  [profile : Nat, frame_num : Nat, poc : 0..2, frames : 0..1, crop : 0..1, vui : 0..1]

LEMMA SpsFirst ==
  ASSUME NEW o \in SpsOptionSet
  PROVE  LET names == <<"profile_idc", "constraint_flags", "level_idc",
                        "seq_parameter_set_id", "log2_max_frame_num_minus4">>
             cd == <<<<"profile_idc", o.profile>>, E("constraint_flags"), E("level_idc"),
                     E("seq_parameter_set_id"), <<"log2_max_frame_num_minus4", o.frame_num>>>>
         IN  Reads("sps", names, cd) /\ (Clean("sps", cd) <=> o.profile = 66 /\ o.frame_num <= 12)
<1> DEFINE names == <<"profile_idc", "constraint_flags", "level_idc",
                        "seq_parameter_set_id", "log2_max_frame_num_minus4">>
           cd == <<<<"profile_idc", o.profile>>, <<"constraint_flags", 0>>, <<"level_idc", 0>>,
                   <<"seq_parameter_set_id", 0>>, <<"log2_max_frame_num_minus4", o.frame_num>>>>
<1>1. names \in Seq(Names)
  BY DEF Names
<1>2. o.profile \in Int /\ o.frame_num \in Int
  BY DEF SpsOptionSet
<1>3. cd \in Seq(Elements)
  BY <1>2 DEF Elements, Names
<1>4. Len(names) = 5 /\ Len(cd) = 5
  OBVIOUS
<1>5. \A k \in 1..5 : cd[k][1] = names[k]
  OBVIOUS
<1>6. \A k \in 1..5 : ReadNext("sps", cd[k]) = << >>
  BY DEF ReadNext, SpsReadNext
<1>7. Covers("sps", names, cd)
  BY <1>1, <1>3, <1>4, <1>5, <1>6, CoversPlain
<1>8. Clean("sps", cd) <=> o.profile = 66 /\ o.frame_num <= 12
  BY <1>2, <1>4 DEF Clean, OutOfScope, SpsOutOfScope
<1> QED BY <1>1, <1>3, <1>7, <1>8 DEF Reads, E

LEMMA SpsOrderCount ==
  ASSUME NEW o \in SpsOptionSet
  PROVE  LET cd == <<<<"pic_order_cnt_type", o.poc>>>>
                     \o (If(o.poc = 0, <<E("log2_max_pic_order_cnt_lsb_minus4")>>)
                           \o If(o.poc = 1, <<E("delta_pic_order_always_zero_flag")>>))
         IN  Reads("sps", <<"pic_order_cnt_type">>, cd) /\ (Clean("sps", cd) <=> o.poc # 1)
<1> DEFINE e == <<"pic_order_cnt_type", o.poc>>
           lsb == <<"log2_max_pic_order_cnt_lsb_minus4", 0>>
           delta == <<"delta_pic_order_always_zero_flag", 0>>
           rest == If(o.poc = 0, <<lsb>>) \o If(o.poc = 1, <<delta>>)
<1>1. o.poc \in 0..2 /\ e[1] = "pic_order_cnt_type" /\ lsb[1] = "log2_max_pic_order_cnt_lsb_minus4"
      /\ delta[1] = "delta_pic_order_always_zero_flag" /\ e[2] = o.poc
  BY DEF SpsOptionSet
<1>2. e \in Elements /\ lsb \in Elements /\ delta \in Elements
  BY <1>1 DEF Elements, Names
<1>3. ReadNext("sps", lsb) = << >> /\ ReadNext("sps", delta) = << >>
  BY DEF ReadNext, SpsReadNext
<1>4. ~OutOfScope("sps", lsb) /\ ~OutOfScope("sps", delta)
  BY DEF OutOfScope, SpsOutOfScope
<1>5. OutOfScope("sps", e) <=> o.poc = 1
  BY <1>1 DEF OutOfScope, SpsOutOfScope
<1>6. ReadNext("sps", e) = If(o.poc = 0, <<"log2_max_pic_order_cnt_lsb_minus4">>)
  BY <1>1 DEF ReadNext, SpsReadNext, If
<1>7. /\ Reads("sps", <<lsb[1]>>, <<lsb>>) /\ Clean("sps", <<lsb>>)
      /\ Reads("sps", <<delta[1]>>, <<delta>>) /\ Clean("sps", <<delta>>)
  BY <1>2, <1>3, <1>4, ReadsPlain
<1> HIDE DEF e, lsb, delta
<1>8. PICK names : Reads("sps", names, rest) /\ Clean("sps", rest)
                   /\ (o.poc # 1 => names = If(o.poc = 0, <<lsb[1]>>))
  <2>1. CASE o.poc = 0
    <3>1. rest = <<lsb>>
      BY <2>1 DEF If
    <3> QED BY <2>1, <3>1, <1>7 DEF If
  <2>2. CASE o.poc = 1
    <3>1. rest = <<delta>>
      BY <2>2 DEF If
    <3> QED BY <2>2, <3>1, <1>7
  <2>3. CASE o.poc = 2
    <3>1. rest = << >>
      BY <2>3 DEF If
    <3> QED BY <2>3, <3>1, ReadsNothing DEF If
  <2>4. o.poc = 0 \/ o.poc = 1 \/ o.poc = 2
    BY <1>1
  <2> QED BY <2>1, <2>2, <2>3, <2>4
<1> HIDE DEF rest
<1>9. ~Follows("sps", e) \/ names = ReadNext("sps", e)
  BY <1>1, <1>5, <1>6, <1>8 DEF Follows
<1>10. /\ Reads("sps", <<e[1]>>, <<e>> \o rest)
       /\ Clean("sps", <<e>> \o rest) <=> ~OutOfScope("sps", e) /\ Clean("sps", rest)
  BY <1>2, <1>8, <1>9, ReadsOne
<1> QED BY <1>1, <1>5, <1>8, <1>10 DEF e, rest, lsb, delta, E

LEMMA SpsSize ==
  LET names == <<"num_ref_frames", "gaps_in_frame_num_value_allowed_flag",
                 "pic_width_in_mbs_minus1", "pic_height_in_map_units_minus1">>
      cd == <<E("num_ref_frames"), E("gaps_in_frame_num_value_allowed_flag"),
              E("pic_width_in_mbs_minus1"), E("pic_height_in_map_units_minus1")>>
  IN  Reads("sps", names, cd) /\ Clean("sps", cd)
<1> DEFINE names == <<"num_ref_frames", "gaps_in_frame_num_value_allowed_flag",
                      "pic_width_in_mbs_minus1", "pic_height_in_map_units_minus1">>
           cd == <<<<"num_ref_frames", 0>>, <<"gaps_in_frame_num_value_allowed_flag", 0>>,
                   <<"pic_width_in_mbs_minus1", 0>>, <<"pic_height_in_map_units_minus1", 0>>>>
<1>1. names \in Seq(Names)
  BY DEF Names
<1>2. cd \in Seq(Elements)
  BY DEF Elements, Names
<1>3. Len(names) = 4 /\ Len(cd) = 4
  OBVIOUS
<1>4. \A k \in 1..4 : cd[k][1] = names[k]
  OBVIOUS
<1>5. \A k \in 1..4 : ReadNext("sps", cd[k]) = << >>
  BY DEF ReadNext, SpsReadNext
<1>6. Covers("sps", names, cd)
  BY <1>1, <1>2, <1>3, <1>4, <1>5, CoversPlain
<1>7. Clean("sps", cd)
  BY <1>3 DEF Clean, OutOfScope, SpsOutOfScope
<1> QED BY <1>1, <1>2, <1>6, <1>7 DEF Reads, E

LEMMA SpsFrames ==
  ASSUME NEW o \in SpsOptionSet
  PROVE  LET cd == <<<<"frame_mbs_only_flag", o.frames>>>>
                     \o If(o.frames = 0, <<E("mb_adaptive_frame_field_flag")>>)
         IN  Reads("sps", <<"frame_mbs_only_flag">>, cd) /\ (Clean("sps", cd) <=> o.frames = 1)
<1> DEFINE e == <<"frame_mbs_only_flag", o.frames>>
           adaptive == <<"mb_adaptive_frame_field_flag", 0>>
           rest == If(o.frames = 0, <<adaptive>>)
<1>1. o.frames \in 0..1 /\ e[1] = "frame_mbs_only_flag" /\ e[2] = o.frames
  BY DEF SpsOptionSet
<1>2. e \in Elements /\ adaptive \in Elements
  BY <1>1 DEF Elements, Names
<1>3. ReadNext("sps", adaptive) = << >> /\ ReadNext("sps", e) = << >>
  BY DEF ReadNext, SpsReadNext
<1>4. ~OutOfScope("sps", adaptive) /\ (OutOfScope("sps", e) <=> o.frames = 0)
  BY <1>1 DEF OutOfScope, SpsOutOfScope
<1>5. Reads("sps", <<adaptive[1]>>, <<adaptive>>) /\ Clean("sps", <<adaptive>>)
  BY <1>2, <1>3, <1>4, ReadsPlain
<1> HIDE DEF e, adaptive
<1>6. PICK names : Reads("sps", names, rest) /\ Clean("sps", rest) /\ (o.frames # 0 => names = << >>)
  <2>1. CASE o.frames = 0
    BY <2>1, <1>5 DEF If
  <2>2. CASE o.frames # 0
    BY <2>2, ReadsNothing DEF If
  <2> QED BY <2>1, <2>2
<1> HIDE DEF rest
<1>7. /\ Reads("sps", <<e[1]>>, <<e>> \o rest)
      /\ Clean("sps", <<e>> \o rest) <=> ~OutOfScope("sps", e) /\ Clean("sps", rest)
  BY <1>2, <1>3, <1>4, <1>6, ReadsOne DEF Follows
<1> QED BY <1>1, <1>4, <1>6, <1>7 DEF e, rest, adaptive, E

LEMMA SpsCropping ==
  ASSUME NEW o \in SpsOptionSet
  PROVE  LET cd == <<<<"frame_cropping_flag", o.crop>>>>
                     \o If(o.crop = 1, <<E("left"), E("right"), E("top"), E("bottom")>>)
         IN  Reads("sps", <<"frame_cropping_flag">>, cd) /\ Clean("sps", cd)
<1> DEFINE e == <<"frame_cropping_flag", o.crop>>
           names == <<"left", "right", "top", "bottom">>
           sides == <<<<"left", 0>>, <<"right", 0>>, <<"top", 0>>, <<"bottom", 0>>>>
           rest == If(o.crop = 1, sides)
<1>1. o.crop \in 0..1 /\ e[1] = "frame_cropping_flag" /\ e[2] = o.crop
  BY DEF SpsOptionSet
<1>2. e \in Elements /\ ~OutOfScope("sps", e)
  BY <1>1 DEF Elements, Names, OutOfScope, SpsOutOfScope
<1>3. ReadNext("sps", e) = If(o.crop = 1, names)
  BY <1>1 DEF ReadNext, SpsReadNext, If
<1>4. Reads("sps", names, sides) /\ Clean("sps", sides)
  <2>1. names \in Seq(Names) /\ Len(names) = 4
    BY DEF Names
  <2>2. sides \in Seq(Elements) /\ Len(sides) = 4
    BY DEF Elements, Names
  <2>3. \A k \in 1..4 : sides[k][1] = names[k]
    OBVIOUS
  <2>4. \A k \in 1..4 : ReadNext("sps", sides[k]) = << >>
    BY DEF ReadNext, SpsReadNext
  <2>5. Covers("sps", names, sides)
    BY <2>1, <2>2, <2>3, <2>4, CoversPlain
  <2>6. Clean("sps", sides)
    BY <2>2 DEF Clean, OutOfScope, SpsOutOfScope
  <2> QED BY <2>1, <2>2, <2>5, <2>6 DEF Reads
<1> HIDE DEF e, names, sides
<1>5. Reads("sps", If(o.crop = 1, names), rest) /\ Clean("sps", rest)
  <2>1. CASE o.crop = 1
    BY <2>1, <1>4 DEF If
  <2>2. CASE o.crop # 1
    BY <2>2, ReadsNothing DEF If
  <2> QED BY <2>1, <2>2
<1> HIDE DEF rest
<1>6. /\ Reads("sps", <<e[1]>>, <<e>> \o rest)
      /\ Clean("sps", <<e>> \o rest) <=> ~OutOfScope("sps", e) /\ Clean("sps", rest)
  BY <1>2, <1>3, <1>5, ReadsOne
<1> QED BY <1>1, <1>2, <1>5, <1>6 DEF e, rest, sides, E

LEMMA SpsFlags ==
  ASSUME NEW o \in SpsOptionSet
  PROVE  /\ Reads("sps", <<"direct_8x8_inference_flag">>, <<E("direct_8x8_inference_flag")>>)
         /\ Clean("sps", <<E("direct_8x8_inference_flag")>>)
         /\ Reads("sps", <<"vui_parameters_present_flag">>,
                  <<<<"vui_parameters_present_flag", o.vui>>>>)
         /\ Clean("sps", <<<<"vui_parameters_present_flag", o.vui>>>>)
<1> DEFINE d == <<"direct_8x8_inference_flag", 0>>
           v == <<"vui_parameters_present_flag", o.vui>>
<1>1. d[1] = "direct_8x8_inference_flag" /\ v[1] = "vui_parameters_present_flag"
  OBVIOUS
<1>2. d \in Elements /\ v \in Elements
  BY DEF Elements, Names, SpsOptionSet
<1>3. /\ ReadNext("sps", d) = << >> /\ ReadNext("sps", v) = << >>
      /\ ~OutOfScope("sps", d) /\ ~OutOfScope("sps", v)
  BY DEF ReadNext, SpsReadNext, OutOfScope, SpsOutOfScope
<1> HIDE DEF d, v
<1>4. /\ Reads("sps", <<d[1]>>, <<d>>) /\ Clean("sps", <<d>>)
      /\ Reads("sps", <<v[1]>>, <<v>>) /\ Clean("sps", <<v>>)
  BY <1>2, <1>3, ReadsPlain
<1> QED BY <1>1, <1>4 DEF d, v, E

(* A sequence parameter set is read up to its VUI, which is not in body.   *)
LEMMA SpsIsRead ==
  ASSUME NEW o \in SpsOptionSet
  PROVE  \E body : /\ WrittenSps(o) = body \o If(o.vui = 1, <<E("vui_parameters")>>)
                   /\ Reads("sps", SpsAgenda, body)
                   /\ Clean("sps", body) <=>
                        /\ o.profile = 66 /\ o.frame_num <= 12
                        /\ o.poc # 1 /\ o.frames = 1
<1> DEFINE n1 == <<"profile_idc", "constraint_flags", "level_idc",
                   "seq_parameter_set_id", "log2_max_frame_num_minus4">>
           n2 == <<"pic_order_cnt_type">>
           n3 == <<"num_ref_frames", "gaps_in_frame_num_value_allowed_flag",
                   "pic_width_in_mbs_minus1", "pic_height_in_map_units_minus1">>
           n4 == <<"frame_mbs_only_flag">>
           n5 == <<"direct_8x8_inference_flag">>
           n6 == <<"frame_cropping_flag">>
           n7 == <<"vui_parameters_present_flag">>
           c1 == <<<<"profile_idc", o.profile>>, E("constraint_flags"), E("level_idc"),
                   E("seq_parameter_set_id"), <<"log2_max_frame_num_minus4", o.frame_num>>>>
           c2 == <<<<"pic_order_cnt_type", o.poc>>>>
                   \o (If(o.poc = 0, <<E("log2_max_pic_order_cnt_lsb_minus4")>>)
                         \o If(o.poc = 1, <<E("delta_pic_order_always_zero_flag")>>))
           c3 == <<E("num_ref_frames"), E("gaps_in_frame_num_value_allowed_flag"),
                   E("pic_width_in_mbs_minus1"), E("pic_height_in_map_units_minus1")>>
           c4 == <<<<"frame_mbs_only_flag", o.frames>>>>
                   \o If(o.frames = 0, <<E("mb_adaptive_frame_field_flag")>>)
           c5 == <<E("direct_8x8_inference_flag")>>
           c6 == <<<<"frame_cropping_flag", o.crop>>>>
                   \o If(o.crop = 1, <<E("left"), E("right"), E("top"), E("bottom")>>)
           c7 == <<<<"vui_parameters_present_flag", o.vui>>>>
           tail == If(o.vui = 1, <<E("vui_parameters")>>)
<1>1. Reads("sps", n1, c1) /\ (Clean("sps", c1) <=> o.profile = 66 /\ o.frame_num <= 12)
  BY SpsFirst
<1>2. Reads("sps", n2, c2) /\ (Clean("sps", c2) <=> o.poc # 1)
  BY SpsOrderCount
<1>3. Reads("sps", n3, c3) /\ Clean("sps", c3)
  BY SpsSize
<1>4. Reads("sps", n4, c4) /\ (Clean("sps", c4) <=> o.frames = 1)
  BY SpsFrames
<1>5. Reads("sps", n5, c5) /\ Clean("sps", c5) /\ Reads("sps", n7, c7) /\ Clean("sps", c7)
  BY SpsFlags
<1>6. Reads("sps", n6, c6) /\ Clean("sps", c6)
  BY SpsCropping
<1>7. WrittenSps(o) = c1 \o c2 \o c3 \o c4 \o c5 \o c6 \o c7 \o tail
  BY DEF WrittenSps
<1>8. SpsAgenda = n1 \o n2 \o n3 \o n4 \o n5 \o n6 \o n7
  BY DEF SpsAgenda
<1> HIDE DEF n1, n2, n3, n4, n5, n6, n7, c1, c2, c3, c4, c5, c6, c7, tail
<1>9. /\ Reads("sps", n1 \o n2, c1 \o c2)
      /\ Clean("sps", c1 \o c2) <=> Clean("sps", c1) /\ Clean("sps", c2)
  BY <1>1, <1>2, ReadsJoin
<1>10. /\ Reads("sps", n1 \o n2 \o n3, c1 \o c2 \o c3)
       /\ Clean("sps", c1 \o c2 \o c3) <=> Clean("sps", c1 \o c2) /\ Clean("sps", c3)
  BY <1>3, <1>9, ReadsJoin
<1>11. /\ Reads("sps", n1 \o n2 \o n3 \o n4, c1 \o c2 \o c3 \o c4)
       /\ Clean("sps", c1 \o c2 \o c3 \o c4)
            <=> Clean("sps", c1 \o c2 \o c3) /\ Clean("sps", c4)
  BY <1>4, <1>10, ReadsJoin
<1>12. /\ Reads("sps", n1 \o n2 \o n3 \o n4 \o n5, c1 \o c2 \o c3 \o c4 \o c5)
       /\ Clean("sps", c1 \o c2 \o c3 \o c4 \o c5)
            <=> Clean("sps", c1 \o c2 \o c3 \o c4) /\ Clean("sps", c5)
  BY <1>5, <1>11, ReadsJoin
<1>13. /\ Reads("sps", n1 \o n2 \o n3 \o n4 \o n5 \o n6, c1 \o c2 \o c3 \o c4 \o c5 \o c6)
       /\ Clean("sps", c1 \o c2 \o c3 \o c4 \o c5 \o c6)
            <=> Clean("sps", c1 \o c2 \o c3 \o c4 \o c5) /\ Clean("sps", c6)
  BY <1>6, <1>12, ReadsJoin
<1>14. /\ Reads("sps", n1 \o n2 \o n3 \o n4 \o n5 \o n6 \o n7,
                 c1 \o c2 \o c3 \o c4 \o c5 \o c6 \o c7)
       /\ Clean("sps", c1 \o c2 \o c3 \o c4 \o c5 \o c6 \o c7)
            <=> Clean("sps", c1 \o c2 \o c3 \o c4 \o c5 \o c6) /\ Clean("sps", c7)
  BY <1>5, <1>13, ReadsJoin
<1>15. Clean("sps", c1 \o c2 \o c3 \o c4 \o c5 \o c6 \o c7)
         <=> o.profile = 66 /\ o.frame_num <= 12 /\ o.poc # 1 /\ o.frames = 1
  BY <1>1, <1>2, <1>3, <1>4, <1>5, <1>6, <1>9, <1>10, <1>11, <1>12, <1>13, <1>14
<1> QED BY <1>7, <1>8, <1>14, <1>15 DEF tail

-----------------------------------------------------------------------------
PpsOptionSet == [cabac : 0..1, groups : Nat, weighted : 0..1, bipred : Nat]

LEMMA PpsFirst ==
  ASSUME NEW o \in PpsOptionSet
  PROVE  LET names == <<"pic_parameter_set_id", "seq_parameter_set_id",
                        "entropy_coding_mode_flag",
                        "bottom_field_pic_order_in_frame_present_flag">>
             cd == <<E("pic_parameter_set_id"), E("seq_parameter_set_id"),
                     <<"entropy_coding_mode_flag", o.cabac>>,
                     E("bottom_field_pic_order_in_frame_present_flag")>>
         IN  Reads("pps", names, cd) /\ (Clean("pps", cd) <=> o.cabac = 0)
<1> DEFINE names == <<"pic_parameter_set_id", "seq_parameter_set_id",
                      "entropy_coding_mode_flag",
                      "bottom_field_pic_order_in_frame_present_flag">>
           cd == <<<<"pic_parameter_set_id", 0>>, <<"seq_parameter_set_id", 0>>,
                   <<"entropy_coding_mode_flag", o.cabac>>,
                   <<"bottom_field_pic_order_in_frame_present_flag", 0>>>>
<1>1. names \in Seq(Names)
  BY DEF Names
<1>2. o.cabac \in 0..1
  BY DEF PpsOptionSet
<1>3. cd \in Seq(Elements)
  BY <1>2 DEF Elements, Names
<1>4. Len(names) = 4 /\ Len(cd) = 4
  OBVIOUS
<1>5. \A k \in 1..4 : cd[k][1] = names[k]
  OBVIOUS
<1>6. \A k \in 1..4 : ReadNext("pps", cd[k]) = << >>
  BY DEF ReadNext
<1>7. Covers("pps", names, cd)
  BY <1>1, <1>3, <1>4, <1>5, <1>6, CoversPlain
<1>8. Clean("pps", cd) <=> o.cabac = 0
  BY <1>2, <1>4 DEF Clean, OutOfScope, PpsOutOfScope
<1> QED BY <1>1, <1>3, <1>7, <1>8 DEF Reads, E

LEMMA PpsGroups ==
  ASSUME NEW o \in PpsOptionSet
  PROVE  LET cd == <<<<"num_slice_groups_minus1", o.groups>>>>
                     \o If(o.groups > 0, <<E("slice_group_map_type")>>)
         IN  Reads("pps", <<"num_slice_groups_minus1">>, cd) /\ (Clean("pps", cd) <=> o.groups = 0)
<1> DEFINE e == <<"num_slice_groups_minus1", o.groups>>
           map == <<"slice_group_map_type", 0>>
           rest == If(o.groups > 0, <<map>>)
<1>1. o.groups \in Nat /\ e[1] = "num_slice_groups_minus1" /\ e[2] = o.groups
  BY DEF PpsOptionSet
<1>2. e \in Elements /\ map \in Elements
  BY <1>1 DEF Elements, Names
<1>3. ReadNext("pps", map) = << >> /\ ReadNext("pps", e) = << >>
  BY DEF ReadNext
<1>4. ~OutOfScope("pps", map) /\ (OutOfScope("pps", e) <=> o.groups > 0)
  BY <1>1 DEF OutOfScope, PpsOutOfScope
<1>5. Reads("pps", <<map[1]>>, <<map>>) /\ Clean("pps", <<map>>)
  BY <1>2, <1>3, <1>4, ReadsPlain
<1> HIDE DEF e, map
<1>6. PICK names : Reads("pps", names, rest) /\ Clean("pps", rest)
                   /\ (~(o.groups > 0) => names = << >>)
  <2>1. CASE o.groups > 0
    BY <2>1, <1>5 DEF If
  <2>2. CASE ~(o.groups > 0)
    BY <2>2, ReadsNothing DEF If
  <2> QED BY <2>1, <2>2
<1> HIDE DEF rest
<1>7. /\ Reads("pps", <<e[1]>>, <<e>> \o rest)
      /\ Clean("pps", <<e>> \o rest) <=> ~OutOfScope("pps", e) /\ Clean("pps", rest)
  BY <1>2, <1>3, <1>4, <1>6, ReadsOne DEF Follows
<1>8. o.groups = 0 <=> ~(o.groups > 0)
  BY <1>1
<1> QED BY <1>1, <1>4, <1>6, <1>7, <1>8 DEF e, rest, map, E

LEMMA PpsLast ==
  ASSUME NEW o \in PpsOptionSet
  PROVE  LET names == <<"num_ref_idx_l0_default_active_minus1",
                        "num_ref_idx_l1_default_active_minus1",
                        "weighted_pred_flag", "weighted_bipred_idc", "pic_init_qp_minus26",
                        "pic_init_qs_minus26", "chroma_qp_index_offset",
                        "deblocking_filter_control_present_flag",
                        "constrained_intra_pred_flag", "redundant_pic_cnt_present_flag">>
             cd == <<E("num_ref_idx_l0_default_active_minus1"),
                     E("num_ref_idx_l1_default_active_minus1"),
                     <<"weighted_pred_flag", o.weighted>>, <<"weighted_bipred_idc", o.bipred>>,
                     E("pic_init_qp_minus26"), E("pic_init_qs_minus26"),
                     E("chroma_qp_index_offset"), E("deblocking_filter_control_present_flag"),
                     E("constrained_intra_pred_flag"), E("redundant_pic_cnt_present_flag")>>
         IN  Reads("pps", names, cd) /\ (Clean("pps", cd) <=> o.weighted = 0 /\ o.bipred = 0)
<1> DEFINE names == <<"num_ref_idx_l0_default_active_minus1",
                      "num_ref_idx_l1_default_active_minus1",
                      "weighted_pred_flag", "weighted_bipred_idc", "pic_init_qp_minus26",
                      "pic_init_qs_minus26", "chroma_qp_index_offset",
                      "deblocking_filter_control_present_flag",
                      "constrained_intra_pred_flag", "redundant_pic_cnt_present_flag">>
           cd == <<<<"num_ref_idx_l0_default_active_minus1", 0>>,
                   <<"num_ref_idx_l1_default_active_minus1", 0>>,
                   <<"weighted_pred_flag", o.weighted>>, <<"weighted_bipred_idc", o.bipred>>,
                   <<"pic_init_qp_minus26", 0>>, <<"pic_init_qs_minus26", 0>>,
                   <<"chroma_qp_index_offset", 0>>,
                   <<"deblocking_filter_control_present_flag", 0>>,
                   <<"constrained_intra_pred_flag", 0>>,
                   <<"redundant_pic_cnt_present_flag", 0>>>>
<1>1. names \in Seq(Names)
  BY DEF Names
<1>2. o.weighted \in 0..1 /\ o.bipred \in Nat
  BY DEF PpsOptionSet
<1>3. cd \in Seq(Elements)
  BY <1>2 DEF Elements, Names
<1>4. Len(names) = 10 /\ Len(cd) = 10
  OBVIOUS
<1>5. \A k \in 1..10 : cd[k][1] = names[k]
  OBVIOUS
<1>6. \A k \in 1..10 : ReadNext("pps", cd[k]) = << >>
  BY DEF ReadNext
<1>7. Covers("pps", names, cd)
  BY <1>1, <1>3, <1>4, <1>5, <1>6, CoversPlain
<1>8. Clean("pps", cd) <=> o.weighted = 0 /\ o.bipred = 0
  BY <1>2, <1>4 DEF Clean, OutOfScope, PpsOutOfScope
<1> QED BY <1>1, <1>3, <1>7, <1>8 DEF Reads, E

LEMMA PpsIsRead ==
  ASSUME NEW o \in PpsOptionSet
  PROVE  /\ Reads("pps", PpsAgenda, WrittenPps(o))
         /\ Clean("pps", WrittenPps(o)) <=>
              o.cabac = 0 /\ o.groups = 0 /\ o.weighted = 0 /\ o.bipred = 0
<1> DEFINE n1 == <<"pic_parameter_set_id", "seq_parameter_set_id", "entropy_coding_mode_flag",
                   "bottom_field_pic_order_in_frame_present_flag">>
           n2 == <<"num_slice_groups_minus1">>
           n3 == <<"num_ref_idx_l0_default_active_minus1",
                   "num_ref_idx_l1_default_active_minus1",
                   "weighted_pred_flag", "weighted_bipred_idc", "pic_init_qp_minus26",
                   "pic_init_qs_minus26", "chroma_qp_index_offset",
                   "deblocking_filter_control_present_flag",
                   "constrained_intra_pred_flag", "redundant_pic_cnt_present_flag">>
           c1 == <<E("pic_parameter_set_id"), E("seq_parameter_set_id"),
                   <<"entropy_coding_mode_flag", o.cabac>>,
                   E("bottom_field_pic_order_in_frame_present_flag")>>
           c2 == <<<<"num_slice_groups_minus1", o.groups>>>>
                   \o If(o.groups > 0, <<E("slice_group_map_type")>>)
           c3 == <<E("num_ref_idx_l0_default_active_minus1"),
                   E("num_ref_idx_l1_default_active_minus1"),
                   <<"weighted_pred_flag", o.weighted>>, <<"weighted_bipred_idc", o.bipred>>,
                   E("pic_init_qp_minus26"), E("pic_init_qs_minus26"),
                   E("chroma_qp_index_offset"), E("deblocking_filter_control_present_flag"),
                   E("constrained_intra_pred_flag"), E("redundant_pic_cnt_present_flag")>>
<1>1. Reads("pps", n1, c1) /\ (Clean("pps", c1) <=> o.cabac = 0)
  BY PpsFirst
<1>2. Reads("pps", n2, c2) /\ (Clean("pps", c2) <=> o.groups = 0)
  BY PpsGroups
<1>3. Reads("pps", n3, c3) /\ (Clean("pps", c3) <=> o.weighted = 0 /\ o.bipred = 0)
  BY PpsLast
<1>4. WrittenPps(o) = c1 \o c2 \o c3 /\ PpsAgenda = n1 \o n2 \o n3
  BY DEF WrittenPps, PpsAgenda
<1> HIDE DEF n1, n2, n3, c1, c2, c3
<1>5. /\ Reads("pps", n1 \o n2, c1 \o c2)
      /\ Clean("pps", c1 \o c2) <=> Clean("pps", c1) /\ Clean("pps", c2)
  BY <1>1, <1>2, ReadsJoin
<1>6. /\ Reads("pps", n1 \o n2 \o n3, c1 \o c2 \o c3)
      /\ Clean("pps", c1 \o c2 \o c3) <=> Clean("pps", c1 \o c2) /\ Clean("pps", c3)
  BY <1>3, <1>5, ReadsJoin
<1> QED BY <1>1, <1>2, <1>3, <1>4, <1>5, <1>6

-----------------------------------------------------------------------------
LEMMA Least ==
  ASSUME NEW T, T \subseteq Nat, T # {}
  PROVE  \E x \in T : \A y \in T : x <= y
<1> DEFINE R == OpToRel(<, Nat)
<1>1. IsWellFoundedOn(R, Nat)
  BY NatLessThanWellFounded, Zenon
<1>2. \A y, x \in Nat : y < x => <<y, x>> \in R
  BY DEF OpToRel
<1> HIDE DEF R
<1>3. PICK x \in T : \A y \in T : ~(<<y, x>> \in R)
  BY <1>1, WFMin
<1>4. \A y \in T : ~(y < x)
  BY <1>2, <1>3
<1> QED BY <1>3, <1>4

LEMMA SetInduction ==
  ASSUME NEW S, 0 \in S, \A n \in Nat : n \in S => n + 1 \in S
  PROVE  \A n \in Nat : n \in S
<1> DEFINE T == Nat \ S
<1> SUFFICES ASSUME T # {} PROVE FALSE
  OBVIOUS
<1>1. PICK x \in T : \A y \in T : x <= y
  BY Least
<1>2. x # 0 /\ x - 1 \in Nat
  BY <1>1
<1>3. x - 1 \in S
  BY <1>1, <1>2
<1> QED BY <1>1, <1>2, <1>3

(* The same up to a bound.                                                 *)
LEMMA BoundedInduction ==
  ASSUME NEW m \in Nat, NEW S, 0 \in S, \A n \in 0..(m - 1) : n \in S => n + 1 \in S
  PROVE  \A n \in 0..m : n \in S
<1> DEFINE T == {n \in Nat : n <= m => n \in S}
<1>1. 0 \in T
  OBVIOUS
<1>2. \A n \in Nat : n \in T => n + 1 \in T
  OBVIOUS
<1> HIDE DEF T
<1>3. \A n \in Nat : n \in T
  BY <1>1, <1>2, SetInduction
<1> QED BY <1>3 DEF T

(* The recursive definitions have a value: what one of n elements is extends to
   one of n + 1.                                                           *)
LEMMA OperationsExist ==
  ASSUME NEW mmcos, NEW m \in Nat
  PROVE  \E g : g = [n \in 0..m |->
           IF n = 0 THEN <<<<"mmco", 0>>>>
           ELSE LET mmco == mmcos[Len(mmcos) + 1 - n]
                IN <<<<"mmco", mmco>>>> \o (Operands(mmco) \o g[n - 1])]
<1> DEFINE Then(k, s) == LET mmco == mmcos[Len(mmcos) + 1 - k]
                         IN <<<<"mmco", mmco>>>> \o (Operands(mmco) \o s)
           P(g, n) == g = [k \in 0..n |-> IF k = 0 THEN <<<<"mmco", 0>>>> ELSE Then(k, g[k - 1])]
           S == {n \in Nat : \E g : P(g, n)}
<1>1. 0 \in S
  <2>1. P([k \in 0..0 |-> <<<<"mmco", 0>>>>], 0)
    OBVIOUS
  <2> QED BY <2>1
<1>2. ASSUME NEW n \in Nat, n \in S PROVE n + 1 \in S
  <2>1. PICK g : P(g, n)
    BY <1>2
  <2> HIDE DEF Then
  <2> DEFINE h == [k \in 0..(n + 1) |-> IF k = 0 THEN <<<<"mmco", 0>>>> ELSE Then(k, g[k - 1])]
  <2>2. \A k \in 0..n : h[k] = g[k]
    <3>1. g = [k \in 0..n |-> IF k = 0 THEN <<<<"mmco", 0>>>> ELSE Then(k, g[k - 1])]
      BY <2>1
    <3> SUFFICES ASSUME NEW k \in 0..n PROVE h[k] = g[k]
      OBVIOUS
    <3>2. k \in 0..(n + 1)
      OBVIOUS
    <3>3. h[k] = IF k = 0 THEN <<<<"mmco", 0>>>> ELSE Then(k, g[k - 1])
      BY <3>2, Zenon
    <3>4. g[k] = IF k = 0 THEN <<<<"mmco", 0>>>> ELSE Then(k, g[k - 1])
      BY ONLY <3>1, k \in 0..n, Zenon
    <3> QED BY <3>3, <3>4
  <2>3. h[0] = <<<<"mmco", 0>>>> /\ \A k \in 1..(n + 1) : h[k] = Then(k, g[k - 1])
    OBVIOUS
  <2>4. h = [k \in 0..(n + 1) |-> h[k]]
    OBVIOUS
  <2> HIDE DEF h
  <2>5. \A k \in 1..(n + 1) : h[k] = Then(k, h[k - 1])
    <3> SUFFICES ASSUME NEW k \in 1..(n + 1) PROVE h[k] = Then(k, h[k - 1])
      OBVIOUS
    <3>1. k - 1 \in 0..n /\ h[k] = Then(k, g[k - 1])
      BY <2>3
    <3> QED BY <2>2, <3>1
  <2>6. \A k \in 0..(n + 1) : h[k] = IF k = 0 THEN <<<<"mmco", 0>>>> ELSE Then(k, h[k - 1])
    BY <2>3, <2>5
  <2>7. P(h, n + 1)
    BY <2>4, <2>6, Zenon
  <2> QED BY <2>7
<1> HIDE DEF S
<1>3. m \in S
  BY <1>1, <1>2, SetInduction
<1>4. PICK g : P(g, m)
  BY <1>3 DEF S
<1> QED BY <1>4, Zenon

LEMMA OperationsIs ==
  ASSUME NEW mmcos, Len(mmcos) \in Nat
  PROVE  /\ Operations(mmcos)[0] = <<<<"mmco", 0>>>>
         /\ \A n \in 1..Len(mmcos) :
              LET mmco == mmcos[Len(mmcos) + 1 - n]
              IN  Operations(mmcos)[n] =
                    <<<<"mmco", mmco>>>> \o (Operands(mmco) \o Operations(mmcos)[n - 1])
<1> DEFINE Then(k, s) == LET mmco == mmcos[Len(mmcos) + 1 - k]
                         IN <<<<"mmco", mmco>>>> \o (Operands(mmco) \o s)
           P(g) == g = [n \in 0..Len(mmcos) |->
                          IF n = 0 THEN <<<<"mmco", 0>>>> ELSE Then(n, g[n - 1])]
           f == Operations(mmcos)
<1>1. \E g : P(g)
  BY OperationsExist, Zenon
<1>2. f = CHOOSE g : P(g)
  BY Zenon DEF Operations
<1>3. P(f)
  <2> HIDE DEF P, f
  <2> QED BY <1>1, <1>2, Zenon
<1> HIDE DEF f, Then
<1>4. f[0] = <<<<"mmco", 0>>>>
  BY <1>3
<1>5. ASSUME NEW n \in 1..Len(mmcos) PROVE f[n] = Then(n, f[n - 1])
  <2>1. n \in 0..Len(mmcos) /\ n # 0
    OBVIOUS
  <2> QED BY <1>3, <2>1, Zenon
<1> QED BY <1>4, <1>5, Zenon DEF f, Then

(* The operands of an operation are passed over.                           *)
LEMMA OperandsAreRead ==
  ASSUME NEW m
  PROVE  Reads("slice", MmcoOperands(m), Operands(m)) /\ Clean("slice", Operands(m))
<1> DEFINE d == <<"difference_of_pic_nums_minus1", 0>>
           p == <<"long_term_pic_num", 0>>
           x == <<"max_long_term_frame_idx_plus1", 0>>
           l == <<"long_term_frame_idx", 0>>
<1>1. /\ d[1] = "difference_of_pic_nums_minus1" /\ p[1] = "long_term_pic_num"
      /\ x[1] = "max_long_term_frame_idx_plus1" /\ l[1] = "long_term_frame_idx"
  OBVIOUS
<1>2. d \in Elements /\ p \in Elements /\ x \in Elements /\ l \in Elements
  BY DEF Elements, Names
<1>3. /\ ReadNext("slice", d) = << >> /\ ReadNext("slice", p) = << >>
      /\ ReadNext("slice", x) = << >> /\ ReadNext("slice", l) = << >>
  BY DEF ReadNext, SliceReadNext
<1>4. /\ ~OutOfScope("slice", d) /\ ~OutOfScope("slice", p)
      /\ ~OutOfScope("slice", x) /\ ~OutOfScope("slice", l)
  BY DEF OutOfScope, SliceOutOfScope
<1>5. Operands(m) = CASE m = 1 -> <<d>> [] m = 2 -> <<p>> [] m = 3 -> <<d, l>>
                      [] m = 4 -> <<x>> [] m = 6 -> <<l>> [] OTHER -> << >>
  BY DEF Operands, E
<1>6. MmcoOperands(m) = CASE m = 1 -> <<d[1]>> [] m = 2 -> <<p[1]>> [] m = 3 -> <<d[1], l[1]>>
                          [] m = 4 -> <<x[1]>> [] m = 6 -> <<l[1]>> [] OTHER -> << >>
  <2>1. CASE m = 3
    <3>1. MmcoOperands(m) = <<d[1]>> \o <<l[1]>>
      BY <2>1, <1>1 DEF MmcoOperands, If
    <3> QED BY <2>1, <3>1
  <2>2. CASE m = 1
    BY <2>2, <1>1 DEF MmcoOperands, If
  <2>3. CASE m \notin {1, 3}
    BY <2>3, <1>1 DEF MmcoOperands, If
  <2> QED BY <2>1, <2>2, <2>3
<1> HIDE DEF d, p, x, l
<1>7. /\ Reads("slice", <<d[1]>>, <<d>>) /\ Clean("slice", <<d>>)
      /\ Reads("slice", <<p[1]>>, <<p>>) /\ Clean("slice", <<p>>)
      /\ Reads("slice", <<x[1]>>, <<x>>) /\ Clean("slice", <<x>>)
      /\ Reads("slice", <<l[1]>>, <<l>>) /\ Clean("slice", <<l>>)
  BY <1>2, <1>3, <1>4, ReadsPlain
<1>8. Reads("slice", <<d[1], l[1]>>, <<d, l>>) /\ Clean("slice", <<d, l>>)
  <2>1. <<d[1], l[1]>> = <<d[1]>> \o <<l[1]>> /\ <<d, l>> = <<d>> \o <<l>>
    OBVIOUS
  <2>2. Reads("slice", <<d[1]>> \o <<l[1]>>, <<d>> \o <<l>>) /\ Clean("slice", <<d>> \o <<l>>)
    BY <1>7, ReadsJoin, Zenon
  <2> QED BY <2>1, <2>2
<1>9. Reads("slice", << >>, << >>) /\ Clean("slice", << >>)
  BY ReadsNothing
<1>10. CASE m = 1
  BY <1>10, <1>5, <1>6, <1>7
<1>11. CASE m = 2
  BY <1>11, <1>5, <1>6, <1>7
<1>12. CASE m = 3
  BY <1>12, <1>5, <1>6, <1>8
<1>13. CASE m = 4
  BY <1>13, <1>5, <1>6, <1>7
<1>14. CASE m = 6
  BY <1>14, <1>5, <1>6, <1>7
<1>15. CASE m \notin {1, 2, 3, 4, 6}
  BY <1>15, <1>5, <1>6, <1>9
<1> QED BY <1>10, <1>11, <1>12, <1>13, <1>14, <1>15

(* The operations, one behind the other up to the 0 that ends them.        *)
LEMMA OperationsAreRead ==
  ASSUME NEW mmcos \in Seq(Nat \ {0})
  PROVE  \A n \in 0..Len(mmcos) :
           /\ Reads("slice", <<"mmco">>, Operations(mmcos)[n])
           /\ Clean("slice", Operations(mmcos)[n])
                <=> \A k \in 1..n : mmcos[Len(mmcos) + 1 - k] <= 6
<1> DEFINE N == Len(mmcos)
           last == Operations(mmcos)
           Good(n) == /\ Reads("slice", <<"mmco">>, last[n])
                      /\ Clean("slice", last[n]) <=> \A k \in 1..n : mmcos[N + 1 - k] <= 6
           S == {n \in 0..N : Good(n)}
<1>1. N \in Nat
  OBVIOUS
<1>2. /\ last[0] = <<<<"mmco", 0>>>>
      /\ \A n \in 1..N :
           last[n] = <<<<"mmco", mmcos[N + 1 - n]>>>> \o (Operands(mmcos[N + 1 - n]) \o last[n - 1])
  BY <1>1, OperationsIs
<1> HIDE DEF N, last
<1>3. 0 \in S
  <2> DEFINE e == <<"mmco", 0>>
  <2>1. e \in Elements /\ e[1] = "mmco" /\ ReadNext("slice", e) = << >> /\ ~OutOfScope("slice", e)
    BY DEF Elements, Names, ReadNext, SliceReadNext, OutOfScope, SliceOutOfScope
  <2> HIDE DEF e
  <2>2. Reads("slice", <<e[1]>>, <<e>>) /\ Clean("slice", <<e>>)
    BY <2>1, ReadsPlain
  <2>3. \A k \in 1..0 : mmcos[N + 1 - k] <= 6
    OBVIOUS
  <2> QED BY <1>1, <1>2, <2>1, <2>2, <2>3 DEF e
<1>4. ASSUME NEW n \in 0..(N - 1), n \in S PROVE n + 1 \in S
  <2> DEFINE j == N + 1 - (n + 1)
             e == <<"mmco", mmcos[j]>>
             rest == Operands(mmcos[j]) \o last[n]
  <2>1. n + 1 \in 1..N /\ j \in 1..N /\ (n + 1) - 1 = n /\ n + 1 \in 0..N
    BY <1>1
  <2>2. last[n + 1] = <<e>> \o rest
    BY <1>2, <2>1
  <2>3. mmcos[j] \in Nat \ {0}
    BY <2>1 DEF N
  <2>4. e \in Elements /\ e[1] = "mmco" /\ e[2] = mmcos[j]
    BY <2>3 DEF Elements, Names
  <2> HIDE DEF j
  <2>5. ReadNext("slice", e) = MmcoOperands(mmcos[j]) \o <<"mmco">>
    BY <2>3 DEF ReadNext, SliceReadNext
  <2>6. OutOfScope("slice", e) <=> mmcos[j] > 6
    BY <2>3 DEF OutOfScope, SliceOutOfScope
  <2> HIDE DEF e
  <2>7. Good(n)
    BY <1>4
  <2>8. /\ Reads("slice", MmcoOperands(mmcos[j]) \o <<"mmco">>, rest)
        /\ Clean("slice", rest) <=> Clean("slice", last[n])
    BY <2>7, OperandsAreRead, ReadsJoin
  <2> HIDE DEF rest
  <2>9. /\ Reads("slice", <<e[1]>>, <<e>> \o rest)
        /\ Clean("slice", <<e>> \o rest) <=> ~OutOfScope("slice", e) /\ Clean("slice", rest)
    BY <2>4, <2>5, <2>8, ReadsOne
  <2>10. (\A k \in 1..(n + 1) : mmcos[N + 1 - k] <= 6)
           <=> mmcos[j] <= 6 /\ \A k \in 1..n : mmcos[N + 1 - k] <= 6
    <3>1. n + 1 \in 1..(n + 1) /\ \A k \in 1..(n + 1) : k = n + 1 \/ k \in 1..n
      OBVIOUS
    <3>2. \A k \in 1..n : k \in 1..(n + 1)
      OBVIOUS
    <3> QED BY <3>1, <3>2 DEF j
  <2>11. Clean("slice", last[n + 1]) <=> \A k \in 1..(n + 1) : mmcos[N + 1 - k] <= 6
    <3>1. ~(mmcos[j] > 6) <=> mmcos[j] <= 6
      BY <2>3
    <3> QED BY <2>2, <2>6, <2>7, <2>8, <2>9, <2>10, <3>1, Zenon
  <2>12. Reads("slice", <<"mmco">>, last[n + 1])
    BY <2>2, <2>4, <2>9
  <2> QED BY <2>1, <2>11, <2>12
<1> HIDE DEF S
<1>5. \A n \in 0..N : n \in S
  BY <1>1, <1>3, <1>4, BoundedInduction
<1> QED BY <1>5, Zenon DEF S, N, last

SliceOptionSet ==
  {o \in [first : Nat, type : 0..9, poc : {0, 2}, deblocking : -1..2, bottom_field : BOOLEAN,
          redundant : BOOLEAN, reference : BOOLEAN, idr : BOOLEAN, mmcos : Seq(Nat \ {0})] :
     o.idr => o.mmcos = << >>}

MarkingAgenda(o) ==
  IF o.idr THEN <<"no_output_of_prior_pics_flag", "long_term_reference_flag">>
  ELSE <<"adaptive_ref_pic_marking_mode_flag">>

LEMMA MarkingIsRead ==
  ASSUME NEW o \in SliceOptionSet
  PROVE  /\ Reads("slice", MarkingAgenda(o), WrittenMarking(o))
         /\ Clean("slice", WrittenMarking(o)) <=> \A n \in DOMAIN o.mmcos : o.mmcos[n] <= 6
<1>0. o.mmcos \in Seq(Nat \ {0}) /\ o.idr \in BOOLEAN /\ (o.idr => o.mmcos = << >>)
  BY DEF SliceOptionSet
<1>1. CASE o.idr
  <2> DEFINE names == <<"no_output_of_prior_pics_flag", "long_term_reference_flag">>
             cd == <<<<"no_output_of_prior_pics_flag", 0>>, <<"long_term_reference_flag", 0>>>>
  <2>1. names \in Seq(Names) /\ Len(names) = 2
    BY DEF Names
  <2>2. cd \in Seq(Elements) /\ Len(cd) = 2
    BY DEF Elements, Names
  <2>3. \A k \in 1..2 : cd[k][1] = names[k]
    OBVIOUS
  <2>4. \A k \in 1..2 : ReadNext("slice", cd[k]) = << >>
    BY DEF ReadNext, SliceReadNext
  <2>5. Covers("slice", names, cd)
    BY <2>1, <2>2, <2>3, <2>4, CoversPlain
  <2>6. Clean("slice", cd)
    BY <2>2 DEF Clean, OutOfScope, SliceOutOfScope
  <2>7. \A n \in DOMAIN o.mmcos : o.mmcos[n] <= 6
    BY <1>0, <1>1
  <2> QED BY <1>1, <2>1, <2>2, <2>5, <2>6, <2>7 DEF Reads, E, MarkingAgenda, WrittenMarking
<1>2. CASE ~o.idr /\ o.mmcos = << >>
  <2> DEFINE e == <<"adaptive_ref_pic_marking_mode_flag", 0>>
  <2>1. e \in Elements /\ e[1] = "adaptive_ref_pic_marking_mode_flag"
        /\ ReadNext("slice", e) = << >> /\ ~OutOfScope("slice", e)
    BY DEF Elements, Names, ReadNext, SliceReadNext, OutOfScope, SliceOutOfScope
  <2> HIDE DEF e
  <2>2. Reads("slice", <<e[1]>>, <<e>>) /\ Clean("slice", <<e>>)
    BY <2>1, ReadsPlain
  <2>3. \A n \in DOMAIN o.mmcos : o.mmcos[n] <= 6
    BY <1>2
  <2> QED BY <1>2, <2>1, <2>2, <2>3 DEF e, E, MarkingAgenda, WrittenMarking
<1>3. CASE ~o.idr /\ o.mmcos # << >>
  <2> DEFINE N == Len(o.mmcos)
             e == <<"adaptive_ref_pic_marking_mode_flag", 1>>
             rest == Operations(o.mmcos)[N]
  <2>1. e \in Elements /\ e[1] = "adaptive_ref_pic_marking_mode_flag"
        /\ ReadNext("slice", e) = <<"mmco">> /\ ~OutOfScope("slice", e)
    BY DEF Elements, Names, ReadNext, SliceReadNext, OutOfScope, SliceOutOfScope
  <2>2. N \in Nat /\ N \in 0..N /\ DOMAIN o.mmcos = 1..N
    BY <1>0
  <2>3. WrittenMarking(o) = <<e>> \o rest
    BY <1>3 DEF WrittenMarking
  <2> HIDE DEF e
  <2>4. /\ Reads("slice", <<"mmco">>, rest)
        /\ Clean("slice", rest) <=> \A k \in 1..N : o.mmcos[N + 1 - k] <= 6
    BY <1>0, <2>2, OperationsAreRead
  <2> HIDE DEF rest
  <2>5. /\ Reads("slice", <<e[1]>>, <<e>> \o rest)
        /\ Clean("slice", <<e>> \o rest) <=> ~OutOfScope("slice", e) /\ Clean("slice", rest)
    BY <2>1, <2>4, ReadsOne
  <2> HIDE DEF N
  <2>6. (\A k \in 1..N : o.mmcos[N + 1 - k] <= 6) <=> (\A n \in 1..N : o.mmcos[n] <= 6)
    <3>1. \A k \in 1..N : N + 1 - k \in 1..N /\ N + 1 - (N + 1 - k) = k
      BY <2>2
    <3> QED BY <3>1
  <2> QED BY <1>3, <2>1, <2>2, <2>3, <2>4, <2>5, <2>6 DEF MarkingAgenda
<1> QED BY <1>0, <1>1, <1>2, <1>3

LEMMA SliceFirst ==
  ASSUME NEW o \in SliceOptionSet
  PROVE  LET names == <<"first_mb_in_slice", "slice_type", "pic_parameter_set_id", "frame_num">>
             cd == <<<<"first_mb_in_slice", o.first>>, <<"slice_type", o.type>>,
                     E("pic_parameter_set_id"), E("frame_num")>>
         IN  Reads("slice", names, cd)
             /\ (Clean("slice", cd) <=> o.first = 0 /\ o.type \in {2, 7})
<1> DEFINE names == <<"first_mb_in_slice", "slice_type", "pic_parameter_set_id", "frame_num">>
           cd == <<<<"first_mb_in_slice", o.first>>, <<"slice_type", o.type>>,
                   <<"pic_parameter_set_id", 0>>, <<"frame_num", 0>>>>
<1>1. names \in Seq(Names)
  BY DEF Names
<1>2. o.first \in Nat /\ o.type \in 0..9
  BY DEF SliceOptionSet
<1>3. cd \in Seq(Elements)
  BY <1>2 DEF Elements, Names
<1>4. Len(names) = 4 /\ Len(cd) = 4
  OBVIOUS
<1>5. \A k \in 1..4 : cd[k][1] = names[k]
  OBVIOUS
<1>6. \A k \in 1..4 : ReadNext("slice", cd[k]) = << >>
  BY DEF ReadNext, SliceReadNext
<1>7. Covers("slice", names, cd)
  BY <1>1, <1>3, <1>4, <1>5, <1>6, CoversPlain
<1>8. IsI(o.type) <=> o.type \in {2, 7}
  BY <1>2 DEF IsI
<1>9. /\ OutOfScope("slice", cd[1]) <=> o.first # 0
      /\ OutOfScope("slice", cd[2]) <=> ~IsI(o.type)
      /\ ~OutOfScope("slice", cd[3]) /\ ~OutOfScope("slice", cd[4])
  BY DEF OutOfScope, SliceOutOfScope
<1> HIDE DEF cd
<1>10. Clean("slice", cd) <=> \A k \in 1..4 : ~OutOfScope("slice", cd[k])
  BY <1>4 DEF Clean
<1>11. Clean("slice", cd) <=> o.first = 0 /\ IsI(o.type)
  <2>1. 1..4 = {1, 2, 3, 4}
    OBVIOUS
  <2> QED BY <1>9, <1>10, <2>1
<1> QED BY <1>1, <1>3, <1>7, <1>8, <1>11 DEF Reads, E, cd

LEMMA SliceSmall ==
  ASSUME NEW o \in SliceOptionSet
  PROVE  /\ Reads("slice", If(o.idr, <<"idr_pic_id">>), If(o.idr, <<E("idr_pic_id")>>))
         /\ Clean("slice", If(o.idr, <<E("idr_pic_id")>>))
         /\ Reads("slice", If(o.poc = 0, <<"pic_order_cnt_lsb">>),
                  If(o.poc = 0, <<E("pic_order_cnt_lsb")>>))
         /\ Clean("slice", If(o.poc = 0, <<E("pic_order_cnt_lsb")>>))
         /\ Reads("slice", <<"slice_qp_delta">>, <<E("slice_qp_delta")>>)
         /\ Clean("slice", <<E("slice_qp_delta")>>)
<1> DEFINE i1 == <<"idr_pic_id", 0>>
           i2 == <<"pic_order_cnt_lsb", 0>>
           i3 == <<"slice_qp_delta", 0>>
<1>1. i1[1] = "idr_pic_id" /\ i2[1] = "pic_order_cnt_lsb" /\ i3[1] = "slice_qp_delta"
  OBVIOUS
<1>2. i1 \in Elements /\ i2 \in Elements /\ i3 \in Elements
  BY DEF Elements, Names
<1>3. /\ ReadNext("slice", i1) = << >> /\ ReadNext("slice", i2) = << >>
      /\ ReadNext("slice", i3) = << >>
      /\ ~OutOfScope("slice", i1) /\ ~OutOfScope("slice", i2) /\ ~OutOfScope("slice", i3)
  BY DEF ReadNext, SliceReadNext, OutOfScope, SliceOutOfScope
<1> HIDE DEF i1, i2, i3
<1>4. /\ Reads("slice", <<i1[1]>>, <<i1>>) /\ Clean("slice", <<i1>>)
      /\ Reads("slice", <<i2[1]>>, <<i2>>) /\ Clean("slice", <<i2>>)
      /\ Reads("slice", <<i3[1]>>, <<i3>>) /\ Clean("slice", <<i3>>)
  BY <1>2, <1>3, ReadsPlain
<1>5. Reads("slice", << >>, << >>) /\ Clean("slice", << >>)
  BY ReadsNothing
<1>6. Reads("slice", If(o.idr, <<i1[1]>>), If(o.idr, <<i1>>)) /\ Clean("slice", If(o.idr, <<i1>>))
  BY <1>4, <1>5, Zenon DEF If
<1>7. /\ Reads("slice", If(o.poc = 0, <<i2[1]>>), If(o.poc = 0, <<i2>>))
      /\ Clean("slice", If(o.poc = 0, <<i2>>))
  BY <1>4, <1>5, Zenon DEF If
<1> QED BY <1>1, <1>4, <1>6, <1>7 DEF i1, i2, i3, E

WrittenFilter(o) ==
  If(o.deblocking >= 0,
     <<<<"disable_deblocking_filter_idc", o.deblocking>>>>
       \o If(o.deblocking # 1,
             <<E("slice_alpha_c0_offset_div2"), E("slice_beta_offset_div2")>>))

LEMMA SliceFilter ==
  ASSUME NEW o \in SliceOptionSet
  PROVE  /\ Reads("slice", If(o.deblocking >= 0, <<"disable_deblocking_filter_idc">>),
                  WrittenFilter(o))
         /\ Clean("slice", WrittenFilter(o))
<1> DEFINE e == <<"disable_deblocking_filter_idc", o.deblocking>>
           names == <<"slice_alpha_c0_offset_div2", "slice_beta_offset_div2">>
           offsets == <<<<"slice_alpha_c0_offset_div2", 0>>, <<"slice_beta_offset_div2", 0>>>>
           rest == If(o.deblocking # 1, offsets)
<1>1. /\ o.deblocking \in Int /\ e[1] = "disable_deblocking_filter_idc" /\ e[2] = o.deblocking
  BY DEF SliceOptionSet
<1>2. e \in Elements /\ ~OutOfScope("slice", e)
  BY <1>1 DEF Elements, Names, OutOfScope, SliceOutOfScope
<1>3. ReadNext("slice", e) = If(o.deblocking # 1, names)
  BY <1>1 DEF ReadNext, SliceReadNext, FilterOffsets, If
<1>4. Reads("slice", names, offsets) /\ Clean("slice", offsets)
  <2>1. names \in Seq(Names) /\ Len(names) = 2
    BY DEF Names
  <2>2. offsets \in Seq(Elements) /\ Len(offsets) = 2
    BY DEF Elements, Names
  <2>3. \A k \in 1..2 : offsets[k][1] = names[k]
    OBVIOUS
  <2>4. \A k \in 1..2 : ReadNext("slice", offsets[k]) = << >>
    BY DEF ReadNext, SliceReadNext
  <2>5. Covers("slice", names, offsets)
    BY <2>1, <2>2, <2>3, <2>4, CoversPlain
  <2>6. Clean("slice", offsets)
    BY <2>2 DEF Clean, OutOfScope, SliceOutOfScope
  <2> QED BY <2>1, <2>2, <2>5, <2>6 DEF Reads
<1> HIDE DEF e, names, offsets
<1>5. Reads("slice", If(o.deblocking # 1, names), rest) /\ Clean("slice", rest)
  <2>1. CASE o.deblocking # 1
    BY <2>1, <1>4 DEF If
  <2>2. CASE ~(o.deblocking # 1)
    BY <2>2, ReadsNothing DEF If
  <2> QED BY <2>1, <2>2
<1> HIDE DEF rest
<1>6. /\ Reads("slice", <<e[1]>>, <<e>> \o rest)
      /\ Clean("slice", <<e>> \o rest) <=> ~OutOfScope("slice", e) /\ Clean("slice", rest)
  BY <1>2, <1>3, <1>5, ReadsOne
<1>7. WrittenFilter(o) = If(o.deblocking >= 0, <<e>> \o rest)
  BY DEF WrittenFilter, e, rest, offsets, E
<1>8. CASE o.deblocking >= 0
  BY <1>8, <1>1, <1>2, <1>5, <1>6, <1>7 DEF If
<1>9. CASE ~(o.deblocking >= 0)
  BY <1>9, <1>7, ReadsNothing DEF If
<1> QED BY <1>8, <1>9

LEMMA SliceIsRead ==
  ASSUME NEW o \in SliceOptionSet,
         ~(o.poc = 0 /\ o.bottom_field), ~o.redundant, o.reference
  PROVE  /\ Reads("slice", SliceAgenda(o), WrittenSlice(o))
         /\ Clean("slice", WrittenSlice(o)) <=>
              /\ o.first = 0 /\ o.type \in {2, 7}
              /\ \A n \in DOMAIN o.mmcos : o.mmcos[n] <= 6
<1> DEFINE n1 == <<"first_mb_in_slice", "slice_type", "pic_parameter_set_id", "frame_num">>
           n2 == If(o.idr, <<"idr_pic_id">>)
           n3 == If(o.poc = 0, <<"pic_order_cnt_lsb">>)
           n4 == MarkingAgenda(o)
           n5 == <<"slice_qp_delta">>
           n6 == If(o.deblocking >= 0, <<"disable_deblocking_filter_idc">>)
           c1 == <<<<"first_mb_in_slice", o.first>>, <<"slice_type", o.type>>,
                   E("pic_parameter_set_id"), E("frame_num")>>
           c2 == If(o.idr, <<E("idr_pic_id")>>)
           c3 == If(o.poc = 0, <<E("pic_order_cnt_lsb")>>)
           c4 == WrittenMarking(o)
           c5 == <<E("slice_qp_delta")>>
           c6 == WrittenFilter(o)
<1>1. Reads("slice", n1, c1) /\ (Clean("slice", c1) <=> o.first = 0 /\ o.type \in {2, 7})
  BY SliceFirst
<1>2. /\ Reads("slice", n2, c2) /\ Clean("slice", c2) /\ Reads("slice", n3, c3) /\ Clean("slice", c3)
      /\ Reads("slice", n5, c5) /\ Clean("slice", c5)
  BY SliceSmall
<1>3. /\ Reads("slice", n4, c4)
      /\ Clean("slice", c4) <=> \A n \in DOMAIN o.mmcos : o.mmcos[n] <= 6
  BY MarkingIsRead
<1>4. Reads("slice", n6, c6) /\ Clean("slice", c6)
  BY SliceFilter
<1>6. WrittenSlice(o) = c1 \o c2 \o c3 \o c4 \o c5 \o c6
  <2>1. c1 \o c2 \o c3 \in Seq(Elements)
    BY <1>1, <1>2, ReadsJoin DEF Reads
  <2>2. WrittenSlice(o) = c1 \o c2 \o c3 \o << >> \o << >> \o c4 \o c5 \o c6
    BY DEF WrittenSlice, WrittenFilter, If
  <2> HIDE DEF c1, c2, c3, c4, c5, c6
  <2>3. (c1 \o c2 \o c3) \o << >> = c1 \o c2 \o c3
    BY <2>1
  <2> QED BY <2>2, <2>3
<1>7. SliceAgenda(o) = n1 \o n2 \o n3 \o n4 \o n5 \o n6
  BY DEF SliceAgenda, MarkingAgenda
<1> HIDE DEF n1, n2, n3, n4, n5, n6, c1, c2, c3, c4, c5, c6
<1>9. /\ Reads("slice", n1 \o n2, c1 \o c2)
      /\ Clean("slice", c1 \o c2) <=> Clean("slice", c1) /\ Clean("slice", c2)
  BY <1>1, <1>2, ReadsJoin
<1>10. /\ Reads("slice", n1 \o n2 \o n3, c1 \o c2 \o c3)
       /\ Clean("slice", c1 \o c2 \o c3) <=> Clean("slice", c1 \o c2) /\ Clean("slice", c3)
  BY <1>2, <1>9, ReadsJoin
<1>11. /\ Reads("slice", n1 \o n2 \o n3 \o n4, c1 \o c2 \o c3 \o c4)
       /\ Clean("slice", c1 \o c2 \o c3 \o c4)
            <=> Clean("slice", c1 \o c2 \o c3) /\ Clean("slice", c4)
  BY <1>3, <1>10, ReadsJoin
<1>12. /\ Reads("slice", n1 \o n2 \o n3 \o n4 \o n5, c1 \o c2 \o c3 \o c4 \o c5)
       /\ Clean("slice", c1 \o c2 \o c3 \o c4 \o c5)
            <=> Clean("slice", c1 \o c2 \o c3 \o c4) /\ Clean("slice", c5)
  BY <1>2, <1>11, ReadsJoin
<1>13. /\ Reads("slice", n1 \o n2 \o n3 \o n4 \o n5 \o n6, c1 \o c2 \o c3 \o c4 \o c5 \o c6)
       /\ Clean("slice", c1 \o c2 \o c3 \o c4 \o c5 \o c6)
            <=> Clean("slice", c1 \o c2 \o c3 \o c4 \o c5) /\ Clean("slice", c6)
  BY <1>4, <1>12, ReadsJoin
<1> QED BY <1>1, <1>2, <1>3, <1>4, <1>6, <1>7, <1>9, <1>10, <1>11, <1>12, <1>13

-----------------------------------------------------------------------------
(* What has yet to be read is laid out from from on, up to end.            *)
Laid(h, names, from, end, cd) ==
  \E close : Syntax(h, cd, end, close) /\ Aligned(names, from, end, cd, close)

LEMMA AlignedLength ==
  ASSUME NEW names \in Seq(Names), NEW from \in Nat, NEW to \in Nat, NEW cd, NEW close,
         Aligned(names, from, to, cd, close)
  PROVE  Len(names) <= to - from /\ (names = << >> => from = to)
<1>1. PICK at : AlignedAt(names, from, to, cd, close, at)
  BY DEF Aligned
<1>2. Len(names) \in Nat
  OBVIOUS
<1>3. 1 \in 1..(Len(names) + 1) /\ Len(names) + 1 \in 1..(Len(names) + 1) /\ 1 <= Len(names) + 1
  BY <1>2
<1>4. at[1] = from /\ at[Len(names) + 1] = to
      /\ at[1] + ((Len(names) + 1) - 1) <= at[Len(names) + 1]
  BY <1>1, <1>3, Zenon DEF AlignedAt
<1>5. names = << >> => Len(names) = 0
  OBVIOUS
<1>6. names = << >> => from = to
  BY <1>4, <1>5
<1> QED BY <1>2, <1>4, <1>6

LEMMA CoversIsLaid ==
  ASSUME NEW h, NEW names \in Seq(Names), NEW body \in Seq(Elements),
         NEW tail \in Seq(Elements), Covers(h, names, body)
  PROVE  /\ Laid(h, names, 1, Len(body) + 1, body \o tail)
         /\ body \o tail \in Seq(Elements) /\ Len(body \o tail) = Len(body) + Len(tail)
         /\ \A k \in 1..Len(body) : (body \o tail)[k] = body[k]
<1> DEFINE n == Len(body)
           cd == body \o tail
<1>1. PICK close \in [1..n -> Nat] :
        Syntax(h, body, n + 1, close) /\ Aligned(names, 1, n + 1, body, close)
  BY DEF Covers
<1>2. n \in Nat
  OBVIOUS
<1>3. /\ cd \in Seq(Elements) /\ Len(cd) = n + Len(tail)
      /\ \A k \in 1..n : cd[k] = body[k]
  BY ConcatProperties
<1> HIDE DEF n, cd
<1>4. \A k \in 1..n : close[k] \in Nat
  OBVIOUS
<1>5. ASSUME NEW ns \in Seq(Names), NEW from \in 1..(n + 1), NEW to \in 1..(n + 1),
             Aligned(ns, from, to, body, close)
      PROVE  Aligned(ns, from, to, cd, close)
  <2>1. \A k \in from..(to - 1) : k \in 1..n
    BY <1>2
  <2>2. \A k \in from..(to - 1) : cd[k] = body[k] /\ close[k] = close[k] /\ close[k] \in Nat
    BY <2>1, <1>3, <1>4
  <2>3. from \in Nat /\ to \in Nat
    BY <1>2
  <2> QED BY <2>2, <2>3, <1>5, AlignedIn
<1>6. Aligned(names, 1, n + 1, cd, close)
  <2>1. 1 \in 1..(n + 1) /\ n + 1 \in 1..(n + 1)
    BY <1>2
  <2> QED BY <2>1, <1>1, <1>5
<1>7. Syntax(h, cd, n + 1, close)
  <2> SUFFICES ASSUME NEW k \in 1..((n + 1) - 1)
               PROVE  /\ close[k] \in 1..(n + 1)
                      /\ Follows(h, cd[k])
                           => Aligned(ReadNext(h, cd[k]), k + 1, close[k], cd, close)
    BY DEF Syntax
  <2>1. k \in 1..n /\ k + 1 \in 1..(n + 1) /\ cd[k] = body[k]
    BY <1>2, <1>3
  <2>2. /\ close[k] \in 1..(n + 1)
        /\ Follows(h, body[k]) => Aligned(ReadNext(h, body[k]), k + 1, close[k], body, close)
    BY <1>1 DEF Syntax
  <2> QED BY <2>1, <2>2, <1>5, ReadNextType
<1> QED BY <1>3, <1>6, <1>7 DEF Laid, n, cd

(* An element of what has yet to be read is read.                          *)
LEMMA LaidNext ==
  ASSUME NEW h, NEW names \in Seq(Names), names # << >>, NEW from \in Nat \ {0},
         NEW end \in Nat, NEW cd, Laid(h, names, from, end, cd)
  PROVE  /\ from < end /\ cd[from][1] = Head(names)
         /\ Follows(h, cd[from]) =>
              Laid(h, ReadNext(h, cd[from]) \o Tail(names), from + 1, end, cd)
<1>1. PICK close : Syntax(h, cd, end, close) /\ Aligned(names, from, end, cd, close)
  BY DEF Laid
<1>2. /\ from < end /\ cd[from][1] = Head(names)
      /\ Aligned(Tail(names), close[from], end, cd, close)
  BY <1>1, AlignedTail
<1>3. ASSUME Follows(h, cd[from])
      PROVE  Aligned(ReadNext(h, cd[from]) \o Tail(names), from + 1, end, cd, close)
  <2>1. from \in 1..(end - 1)
    BY <1>2
  <2>2. Aligned(ReadNext(h, cd[from]), from + 1, close[from], cd, close)
    BY <1>1, <1>3, <2>1 DEF Syntax
  <2>3. Tail(names) \in Seq(Names)
    OBVIOUS
  <2> QED BY <1>2, <2>2, <2>3, ReadNextType, AlignedAppend
<1> QED BY <1>1, <1>2, <1>3 DEF Laid

LEMMA LaidLength ==
  ASSUME NEW h, NEW names \in Seq(Names), NEW from \in Nat, NEW end \in Nat, NEW cd,
         Laid(h, names, from, end, cd)
  PROVE  from + Len(names) <= end /\ (names = << >> => from = end)
<1>1. PICK close : Aligned(names, from, end, cd, close)
  BY DEF Laid
<1>2. Len(names) <= end - from /\ (names = << >> => from = end)
  BY <1>1, AlignedLength
<1> QED BY <1>2

(* Where the parser is done: a sequence parameter set's VUI is left.       *)
HeaderEnd == IF header = "sps" /\ options.vui = 1 THEN Len(coded) ELSE Len(coded) + 1

(* What has been read was in scope, what has yet to be read lies ahead, and
   what was written is in scope if all its elements are.                   *)
Accepted == InScope \/ LetThrough

SteadyInv ==
  /\ ~Departs
  /\ header \in {"sps", "pps", "slice"} /\ coded \in Seq(Elements)
  /\ HeaderEnd \in 1..(Len(coded) + 1)
  /\ agenda \in Seq(Names) /\ read_pos \in 1..HeaderEnd /\ read_pos + Len(agenda) <= HeaderEnd
  /\ header_status \in {"reading", "parsed", "out_of_scope", "unsupported", "truncated"}
  /\ Accepted <=> \A k \in 1..(HeaderEnd - 1) : ~OutOfScope(header, coded[k])
  /\ header_status = "reading" => Laid(header, agenda, read_pos, HeaderEnd, coded)
  /\ header_status \in {"reading", "parsed"}
       => \A k \in 1..(read_pos - 1) : ~OutOfScope(header, coded[k])
  /\ header_status = "parsed" => read_pos = HeaderEnd
  /\ header_status \in {"out_of_scope", "unsupported"}
       => \E k \in 1..(HeaderEnd - 1) : OutOfScope(header, coded[k])

LEMMA SteadySps ==
  ASSUME header = "sps", options \in SpsOptionSet, coded = WrittenSps(options),
         agenda = SpsAgenda, read_pos = 1, header_status = "reading"
  PROVE  SteadyInv
<1> DEFINE tail == If(options.vui = 1, <<E("vui_parameters")>>)
<1>1. PICK body : /\ coded = body \o tail /\ Reads("sps", agenda, body)
                  /\ Clean("sps", body) <=>
                       /\ options.profile = 66 /\ options.frame_num <= 12
                       /\ options.poc # 1 /\ options.frames = 1
  BY SpsIsRead
<1>2. tail \in Seq(Elements) /\ Len(tail) = IF options.vui = 1 THEN 1 ELSE 0
  <2> DEFINE e == <<"vui_parameters", 0>>
  <2>1. e \in Elements
    BY DEF Elements, Names
  <2>2. tail = IF options.vui = 1 THEN <<e>> ELSE << >>
    BY DEF If, E
  <2> HIDE DEF e, tail
  <2>3. <<e>> \in Seq(Elements) /\ Len(<<e>>) = 1 /\ << >> \in Seq(Elements) /\ Len(<< >>) = 0
    BY <2>1
  <2> QED BY <2>2, <2>3
<1> HIDE DEF tail
<1>3. agenda \in Seq(Names) /\ body \in Seq(Elements) /\ Covers("sps", agenda, body)
  BY <1>1 DEF Reads
<1>4. /\ Laid("sps", agenda, 1, Len(body) + 1, coded)
      /\ coded \in Seq(Elements) /\ Len(coded) = Len(body) + Len(tail)
      /\ \A k \in 1..Len(body) : coded[k] = body[k]
  <2>1. /\ Laid("sps", agenda, 1, Len(body) + 1, body \o tail)
        /\ body \o tail \in Seq(Elements) /\ Len(body \o tail) = Len(body) + Len(tail)
        /\ \A k \in 1..Len(body) : (body \o tail)[k] = body[k]
    <3>1. agenda \in Seq(Names) /\ body \in Seq(Elements) /\ Covers("sps", agenda, body)
      BY <1>3
    <3>2. tail \in Seq(Elements)
      BY <1>2
    <3> QED BY ONLY <3>1, <3>2, CoversIsLaid
  <2>2. coded = body \o tail
    BY <1>1
  <2> QED BY <2>1, <2>2, Zenon
<1>5. Len(body) \in Nat /\ HeaderEnd = Len(body) + 1
  BY <1>2, <1>3, <1>4 DEF HeaderEnd
<1>6. HeaderEnd \in Nat /\ HeaderEnd - 1 = Len(body) /\ HeaderEnd \in 1..(Len(coded) + 1)
  BY <1>2, <1>4, <1>5
<1>7. Accepted <=> \A k \in 1..(HeaderEnd - 1) : ~OutOfScope(header, coded[k])
  <2>1. Accepted <=> Clean("sps", body)
    BY <1>1 DEF Accepted, InScope, LetThrough, SpsOptionSet
  <2>2. Clean("sps", body) <=> \A k \in 1..Len(body) : ~OutOfScope("sps", coded[k])
    BY <1>4 DEF Clean
  <2> QED BY <1>6, <2>1, <2>2
<1>8. 1 + Len(agenda) <= HeaderEnd /\ 1 \in 1..HeaderEnd
  <2>1. 1 + Len(agenda) <= HeaderEnd
    BY <1>3, <1>4, <1>5, <1>6, LaidLength
  <2> QED BY <2>1, <1>5
<1>9. \A k \in 1..(1 - 1) : ~OutOfScope("sps", coded[k])
  OBVIOUS
<1>10. ~Departs
  BY DEF Departs
<1> HIDE DEF HeaderEnd
<1> QED BY <1>3, <1>4, <1>5, <1>6, <1>7, <1>8, <1>9, <1>10, Zenon DEF SteadyInv

LEMMA SteadyOther ==
  ASSUME ~Departs, header \in {"pps", "slice"}, Reads(header, agenda, coded),
         Accepted <=> Clean(header, coded), read_pos = 1, header_status = "reading"
  PROVE  SteadyInv
<1>1. agenda \in Seq(Names) /\ coded \in Seq(Elements) /\ Covers(header, agenda, coded)
  BY DEF Reads
<1>2. Laid(header, agenda, 1, Len(coded) + 1, coded)
  BY <1>1 DEF Covers, Laid
<1>3. HeaderEnd = Len(coded) + 1 /\ Len(coded) \in Nat
  BY <1>1 DEF HeaderEnd
<1>4. HeaderEnd \in Nat /\ HeaderEnd \in 1..(Len(coded) + 1) /\ HeaderEnd - 1 = Len(coded)
  BY <1>3
<1>5. 1 + Len(agenda) <= HeaderEnd /\ 1 \in 1..HeaderEnd
  <2>1. 1 + Len(agenda) <= HeaderEnd
    BY <1>1, <1>2, <1>3, <1>4, LaidLength
  <2> QED BY <2>1, <1>3
<1>6. \A k \in 1..(1 - 1) : ~OutOfScope(header, coded[k])
  OBVIOUS
<1>7. Accepted <=> \A k \in 1..(HeaderEnd - 1) : ~OutOfScope(header, coded[k])
  BY <1>4 DEF Clean
<1> HIDE DEF HeaderEnd
<1>8. header \in {"sps", "pps", "slice"}
  OBVIOUS
<1> QED BY <1>1, <1>2, <1>3, <1>4, <1>5, <1>6, <1>7, <1>8, Zenon DEF SteadyInv

LEMMA SpsLeadsNowhere ==
  ASSUME NEW e, e[2] \in Int, OutOfScope("sps", e) PROVE ReadNext("sps", e) = << >>
BY DEF OutOfScope, SpsOutOfScope, ReadNext, SpsReadNext

(* An element is read: what it announces is in scope, or the header is
   turned down.                                                            *)
LEMMA HeaderTaken ==
  ASSUME SteadyInv, Reading, UNCHANGED <<header, options, coded>>,
         read_pos' = read_pos + 1,
         \/ /\ header_status' = "reading" /\ ~OutOfScope(header, coded[read_pos])
            /\ agenda' = ReadNext(header, coded[read_pos]) \o Tail(agenda)
         \/ /\ header_status' \in {"out_of_scope", "unsupported"}
            /\ OutOfScope(header, coded[read_pos])
            /\ \/ agenda' = ReadNext(header, coded[read_pos]) \o Tail(agenda)
               \/ agenda' = Tail(agenda)
  PROVE  SteadyInv'
<1> DEFINE e == coded[read_pos]
           end == HeaderEnd
           ahead == ReadNext(header, e) \o Tail(agenda)
<1>1. /\ header \in {"sps", "pps", "slice"} /\ coded \in Seq(Elements)
      /\ end \in 1..(Len(coded) + 1) /\ agenda \in Seq(Names) /\ read_pos \in 1..end
      /\ read_pos + Len(agenda) <= end
      /\ Accepted <=> \A k \in 1..(end - 1) : ~OutOfScope(header, coded[k])
      /\ Laid(header, agenda, read_pos, end, coded)
      /\ \A k \in 1..(read_pos - 1) : ~OutOfScope(header, coded[k])
      /\ agenda # << >>
  BY DEF SteadyInv, Reading, Due
<1>2. HeaderEnd' = end /\ (Accepted' <=> Accepted) /\ ~Departs'
  BY DEF SteadyInv, HeaderEnd, Departs, Accepted, InScope, LetThrough
<1>3. Len(coded) \in Nat /\ Len(agenda) \in Nat /\ end \in Nat /\ read_pos \in Nat \ {0}
  BY <1>1
<1> HIDE DEF end, e, ahead
<1>4. /\ read_pos < end
      /\ Follows(header, e) => Laid(header, ahead, read_pos + 1, end, coded)
  BY <1>1, <1>3, LaidNext DEF e, ahead
<1>5. Tail(agenda) \in Seq(Names) /\ Len(Tail(agenda)) = Len(agenda) - 1
  BY <1>1
<1>6. ahead \in Seq(Names)
  BY <1>5, ReadNextType, ConcatProperties DEF ahead
<1>7. e[2] \in Int
  <2>1. read_pos \in 1..Len(coded)
    BY <1>1, <1>3, <1>4
  <2>2. e \in Elements
    BY <1>1, <2>1 DEF e
  <2> QED BY <2>2 DEF Elements
<1>8. read_pos + 1 + Len(ahead) <= end
  <2>1. CASE Follows(header, e)
    BY <2>1, <1>3, <1>4, <1>6, LaidLength
  <2>2. CASE ~Follows(header, e)
    <3>1. ReadNext(header, e) = << >>
      <4>1. CASE header = "sps"
        BY <4>1, <2>2, <1>7, SpsLeadsNowhere DEF Follows
      <4>2. CASE header = "pps"
        BY <4>2 DEF ReadNext
      <4> QED BY <2>2, <4>1, <4>2, <1>1 DEF Follows
    <3>2. ahead = Tail(agenda)
      BY <3>1, <1>5 DEF ahead
    <3> QED BY <3>2, <1>1, <1>3, <1>5
  <2> QED BY <2>1, <2>2
<1>9. read_pos + 1 \in 1..end /\ read_pos \in 1..(end - 1)
  BY <1>3, <1>4
<1>10. agenda' \in Seq(Names) /\ read_pos + 1 + Len(agenda') <= end
  <2>1. CASE agenda' = ahead
    BY <2>1, <1>6, <1>8
  <2>2. CASE agenda' = Tail(agenda)
    <3>1. read_pos + 1 + (Len(agenda) - 1) <= end
      BY <1>1, <1>3
    <3>2. /\ agenda' \in Seq(Names) /\ Len(agenda') = Len(agenda) - 1
      BY <2>2, <1>5, Zenon
    <3> QED BY <3>1, <3>2
  <2>3. agenda' = ahead \/ agenda' = Tail(agenda)
    BY DEF ahead, e
  <2> QED BY <2>1, <2>2, <2>3
<1>11. /\ header' = header /\ coded' = coded /\ read_pos' = read_pos + 1
  OBVIOUS
<1>12. CASE header_status' = "reading"
  <2>1. ~OutOfScope(header, e) /\ agenda' = ahead
    BY <1>12 DEF e, ahead
  <2>2. Laid(header, agenda', read_pos + 1, end, coded)
    BY <2>1, <1>4 DEF Follows
  <2>3. \A k \in 1..((read_pos + 1) - 1) : ~OutOfScope(header, coded[k])
    <3>1. \A k \in 1..((read_pos + 1) - 1) : k = read_pos \/ k \in 1..(read_pos - 1)
      BY <1>3
    <3> QED BY <3>1, <2>1, <1>1 DEF e
  <2> QED BY <1>1, <1>2, <1>9, <1>10, <1>11, <1>12, <2>2, <2>3 DEF SteadyInv, end
<1>13. CASE header_status' \in {"out_of_scope", "unsupported"}
  <2>1. OutOfScope(header, coded[read_pos])
    BY <1>13
  <2> QED BY <1>1, <1>2, <1>9, <1>10, <1>11, <1>13, <2>1 DEF SteadyInv, end
<1> QED BY <1>12, <1>13

LEMMA SteadyNext == SteadyInv /\ [HeadersNext]_headerVars => SteadyInv'
<1> SUFFICES ASSUME SteadyInv, [HeadersNext]_headerVars PROVE SteadyInv'
  OBVIOUS
<1> DEFINE e == coded[read_pos]
<1>0. ASSUME Reading PROVE Name = e[1] /\ Value = e[2]
  <2>1. /\ Laid(header, agenda, read_pos, HeaderEnd, coded) /\ agenda \in Seq(Names)
        /\ agenda # << >> /\ read_pos \in Nat \ {0} /\ HeaderEnd \in Nat
    BY <1>0 DEF SteadyInv, Reading, Due
  <2>2. coded[read_pos][1] = Head(agenda)
    BY <2>1, LaidNext
  <2> QED BY <2>2 DEF Name, Value
<1>1. CASE ReadSps
  <2>1. /\ Reading /\ header = "sps" /\ ~(e[1] = "profile_idc" /\ e[2] # 66)
        /\ Take(SpsReadNext(e[1], e[2]), SpsOutOfScope(e[1], e[2]))
    BY <1>0, <1>1 DEF ReadSps
  <2> HIDE DEF e
  <2>2. ReadNext(header, e) = SpsReadNext(e[1], e[2])
        /\ (OutOfScope(header, e) <=> SpsOutOfScope(e[1], e[2]))
    BY <2>1 DEF ReadNext, OutOfScope
  <2>3. /\ read_pos' = read_pos + 1 /\ UNCHANGED <<header, options, coded>>
        /\ agenda' = ReadNext(header, e) \o Tail(agenda)
        /\ header_status' = IF OutOfScope(header, e) THEN "out_of_scope" ELSE "reading"
    BY <2>1, <2>2, Zenon DEF Take
  <2> QED BY <2>1, <2>3, HeaderTaken DEF e
<1>2. CASE UnsupportedProfile
  <2>1. /\ Reading /\ header = "sps" /\ e[1] = "profile_idc" /\ e[2] # 66
        /\ read_pos' = read_pos + 1 /\ agenda' = Tail(agenda)
        /\ header_status' = "unsupported" /\ UNCHANGED <<header, options, coded>>
    BY <1>0, <1>2 DEF UnsupportedProfile
  <2> HIDE DEF e
  <2>2. OutOfScope(header, e)
    BY <2>1 DEF OutOfScope
  <2> QED BY <2>1, <2>2, HeaderTaken DEF e
<1>3. CASE ReadPps
  <2>1. /\ Reading /\ header = "pps" /\ Take(<< >>, PpsOutOfScope(e[1], e[2]))
    BY <1>0, <1>3 DEF ReadPps
  <2> HIDE DEF e
  <2>2. ReadNext(header, e) = << >> /\ (OutOfScope(header, e) <=> PpsOutOfScope(e[1], e[2]))
    BY <2>1 DEF ReadNext, OutOfScope
  <2>3. /\ read_pos' = read_pos + 1 /\ UNCHANGED <<header, options, coded>>
        /\ agenda' = ReadNext(header, e) \o Tail(agenda)
        /\ header_status' = IF OutOfScope(header, e) THEN "out_of_scope" ELSE "reading"
    BY <2>1, <2>2, Zenon DEF Take
  <2> QED BY <2>1, <2>3, HeaderTaken DEF e
<1>4. CASE ReadSlice
  <2>1. /\ Reading /\ header = "slice"
        /\ Take(SliceReadNext(e[1], e[2]), SliceOutOfScope(e[1], e[2]))
    BY <1>0, <1>4 DEF ReadSlice
  <2> HIDE DEF e
  <2>2. ReadNext(header, e) = SliceReadNext(e[1], e[2])
        /\ (OutOfScope(header, e) <=> SliceOutOfScope(e[1], e[2]))
    BY <2>1 DEF ReadNext, OutOfScope
  <2>3. /\ read_pos' = read_pos + 1 /\ UNCHANGED <<header, options, coded>>
        /\ agenda' = ReadNext(header, e) \o Tail(agenda)
        /\ header_status' = IF OutOfScope(header, e) THEN "out_of_scope" ELSE "reading"
    BY <2>1, <2>2, Zenon DEF Take
  <2> QED BY <2>1, <2>3, HeaderTaken DEF e
<1>5. CASE HeaderTruncated
  <2>1. HeaderEnd' = HeaderEnd /\ (Accepted' <=> Accepted) /\ ~Departs'
    BY <1>5 DEF SteadyInv, HeaderTruncated, HeaderEnd, Departs, Accepted, InScope, LetThrough
  <2> HIDE DEF HeaderEnd, Departs, Accepted, InScope, LetThrough
  <2> QED BY <1>5, <2>1 DEF HeaderTruncated, SteadyInv
<1>6. CASE HeaderParsed
  <2>1. HeaderEnd' = HeaderEnd /\ (Accepted' <=> Accepted) /\ ~Departs'
    BY <1>6 DEF SteadyInv, HeaderParsed, HeaderEnd, Departs, Accepted, InScope, LetThrough
  <2>2. read_pos = HeaderEnd
    <3>1. /\ agenda \in Seq(Names) /\ agenda = << >> /\ read_pos \in Nat /\ HeaderEnd \in Nat
          /\ Laid(header, agenda, read_pos, HeaderEnd, coded)
      BY <1>6 DEF HeaderParsed, SteadyInv
    <3> QED BY <3>1, LaidLength
  <2>3. \A k \in 1..(read_pos - 1) : ~OutOfScope(header, coded[k])
    BY <1>6 DEF HeaderParsed, SteadyInv
  <2> QED BY <1>6, <2>1, <2>2, <2>3 DEF HeaderParsed, SteadyInv
<1>7. CASE UNCHANGED headerVars
  <2>1. HeaderEnd' = HeaderEnd /\ (Accepted' <=> Accepted) /\ ~Departs'
    BY <1>7 DEF SteadyInv, headerVars, HeaderEnd, Departs, Accepted, InScope, LetThrough
  <2> QED BY <1>7, <2>1 DEF headerVars, SteadyInv
<1>8. CASE Astray
  <2>1. /\ Laid(header, agenda, read_pos, HeaderEnd, coded) /\ agenda \in Seq(Names)
        /\ agenda # << >> /\ read_pos \in Nat \ {0} /\ HeaderEnd \in Nat
    BY <1>8 DEF SteadyInv, Astray, Due
  <2>2. coded[read_pos][1] = Head(agenda)
    BY <2>1, LaidNext
  <2> QED BY <2>2, <1>8 DEF Astray, Name
<1> QED BY <1>1, <1>2, <1>3, <1>4, <1>5, <1>6, <1>7, <1>8 DEF HeadersNext

-----------------------------------------------------------------------------
(* A slice header that departs: what it shares with those that do not, and
   where it stops being like them.                                         *)
Shared(o) ==
  (<<<<"first_mb_in_slice", o.first>>, <<"slice_type", o.type>>,
     E("pic_parameter_set_id"), E("frame_num")>>
   \o If(o.idr, <<E("idr_pic_id")>>))
  \o If(o.poc = 0, <<E("pic_order_cnt_lsb")>>)
SharedNames(o) ==
  (<<"first_mb_in_slice", "slice_type", "pic_parameter_set_id", "frame_num">>
   \o If(o.idr, <<"idr_pic_id">>))
  \o If(o.poc = 0, <<"pic_order_cnt_lsb">>)
SharedLength(o) == 4 + (IF o.idr THEN 1 ELSE 0) + (IF o.poc = 0 THEN 1 ELSE 0)

Joined(S, s, t, x, P) ==
  /\ t \in Seq(S) /\ Len(t) = Len(s) + (IF P THEN 1 ELSE 0)
  /\ \A k \in 1..Len(s) : t[k] = s[k]
  /\ P => t[Len(s) + 1] = x

LEMMA JoinIf ==
  ASSUME NEW S, NEW s \in Seq(S), NEW x \in S, NEW P \in BOOLEAN
  PROVE  Joined(S, s, s \o If(P, <<x>>), x, P)
<1>1. CASE P
  <2>1. <<x>> \in Seq(S) /\ Len(<<x>>) = 1 /\ <<x>>[1] = x /\ Len(s) \in Nat
    OBVIOUS
  <2>2. /\ s \o <<x>> \in Seq(S) /\ Len(s \o <<x>>) = Len(s) + 1
        /\ \A k \in 1..(Len(s) + 1) : (s \o <<x>>)[k] = IF k <= Len(s) THEN s[k] ELSE <<x>>[k - Len(s)]
    BY <2>1, ConcatProperties
  <2>3. If(P, <<x>>) = <<x>>
    BY <1>1 DEF If
  <2>4. (s \o <<x>>)[Len(s) + 1] = x
    <3>1. Len(s) + 1 \in 1..(Len(s) + 1) /\ ~(Len(s) + 1 <= Len(s)) /\ Len(s) + 1 - Len(s) = 1
      BY <2>1
    <3> QED BY <2>1, <2>2, <3>1
  <2>5. \A k \in 1..Len(s) : (s \o <<x>>)[k] = s[k]
    <3>1. \A k \in 1..Len(s) : k \in 1..(Len(s) + 1) /\ k <= Len(s)
      BY <2>1
    <3> QED BY <2>2, <3>1
  <2>6. Joined(S, s, s \o <<x>>, x, TRUE)
    BY <2>2, <2>4, <2>5 DEF Joined
  <2> QED BY <1>1, <2>3, <2>6
<1>2. CASE ~P
  <2>1. If(P, <<x>>) = << >> /\ s \o << >> = s /\ Len(s) \in Nat
    BY <1>2, ConcatEmptySeq DEF If
  <2> QED BY <1>2, <2>1 DEF Joined
<1> QED BY <1>1, <1>2

LEMMA SharedPart ==
  ASSUME NEW o \in SliceOptionSet
  PROVE  /\ Shared(o) \in Seq(Elements) /\ SharedNames(o) \in Seq(Names)
         /\ SharedLength(o) \in 4..6
         /\ Len(Shared(o)) = SharedLength(o) /\ Len(SharedNames(o)) = SharedLength(o)
         /\ \A k \in 1..SharedLength(o) : Shared(o)[k][1] = SharedNames(o)[k]
         /\ Shared(o)[1] = <<"first_mb_in_slice", o.first>>
         /\ Shared(o)[2] = <<"slice_type", o.type>>
         /\ \A k \in 3..SharedLength(o) :
              Shared(o)[k][1] \in {"pic_parameter_set_id", "frame_num", "idr_pic_id",
                                   "pic_order_cnt_lsb"}
<1> DEFINE a == <<"first_mb_in_slice", o.first>>
           b == <<"slice_type", o.type>>
           c == <<"pic_parameter_set_id", 0>>
           d == <<"frame_num", 0>>
           e == <<"idr_pic_id", 0>>
           f == <<"pic_order_cnt_lsb", 0>>
<1>1. /\ a[1] = "first_mb_in_slice" /\ b[1] = "slice_type" /\ c[1] = "pic_parameter_set_id"
      /\ d[1] = "frame_num" /\ e[1] = "idr_pic_id" /\ f[1] = "pic_order_cnt_lsb"
  OBVIOUS
<1>2. o.first \in Nat /\ o.type \in 0..9 /\ o.idr \in BOOLEAN
  BY DEF SliceOptionSet
<1>3. {a, b, c, d, e, f} \subseteq Elements
  BY <1>2 DEF Elements, Names
<1>4. {a[1], b[1], c[1], d[1], e[1], f[1]} \subseteq Names
  BY <1>1 DEF Names
<1>5. Shared(o) = (<<a, b, c, d>> \o If(o.idr, <<e>>)) \o If(o.poc = 0, <<f>>)
  BY DEF Shared, E
<1>6. SharedNames(o) = (<<a[1], b[1], c[1], d[1]>> \o If(o.idr, <<e[1]>>))
                         \o If(o.poc = 0, <<f[1]>>)
  BY <1>1 DEF SharedNames
<1> HIDE DEF a, b, c, d, e, f
<1>7. <<a, b, c, d>> \in Seq(Elements) /\ <<a[1], b[1], c[1], d[1]>> \in Seq(Names)
  BY <1>3, <1>4
<1> DEFINE s1 == <<a, b, c, d>> \o If(o.idr, <<e>>)
           t1 == <<a[1], b[1], c[1], d[1]>> \o If(o.idr, <<e[1]>>)
           m == 4 + (IF o.idr THEN 1 ELSE 0)
           n == SharedLength(o)
<1>8. /\ s1 \in Seq(Elements) /\ Len(s1) = m /\ t1 \in Seq(Names) /\ Len(t1) = m
      /\ s1[1] = a /\ s1[2] = b /\ s1[3] = c /\ s1[4] = d
      /\ t1[1] = a[1] /\ t1[2] = b[1] /\ t1[3] = c[1] /\ t1[4] = d[1]
      /\ m > 4 => o.idr /\ s1[5] = e /\ t1[5] = e[1]
  <2>1. /\ s1 \in Seq(Elements) /\ Len(s1) = 4 + (IF o.idr THEN 1 ELSE 0)
        /\ \A k \in 1..4 : s1[k] = <<a, b, c, d>>[k]
        /\ o.idr => s1[5] = e
    <3>1. Len(<<a, b, c, d>>) = 4 /\ 4 + 1 = 5
      OBVIOUS
    <3>2. Joined(Elements, <<a, b, c, d>>, s1, e, o.idr)
      <4>1. e \in Elements
        BY <1>3
      <4> QED BY <1>2, <1>7, <4>1, JoinIf
    <3> HIDE DEF s1
    <3> QED BY <3>1, <3>2 DEF Joined
  <2>2. /\ t1 \in Seq(Names) /\ Len(t1) = 4 + (IF o.idr THEN 1 ELSE 0)
        /\ \A k \in 1..4 : t1[k] = <<a[1], b[1], c[1], d[1]>>[k]
        /\ o.idr => t1[5] = e[1]
    <3>1. Len(<<a[1], b[1], c[1], d[1]>>) = 4 /\ 4 + 1 = 5
      OBVIOUS
    <3>2. Joined(Names, <<a[1], b[1], c[1], d[1]>>, t1, e[1], o.idr)
      <4>1. e[1] \in Names
        BY <1>4
      <4> QED BY <1>2, <1>7, <4>1, JoinIf
    <3> HIDE DEF t1
    <3> QED BY <3>1, <3>2 DEF Joined
  <2> HIDE DEF s1, t1
  <2> QED BY <2>1, <2>2
<1>9. m \in 4..5 /\ n = m + (IF o.poc = 0 THEN 1 ELSE 0) /\ n \in 4..6
  BY DEF SharedLength
<1> HIDE DEF s1, t1
<1>10. /\ Shared(o) \in Seq(Elements) /\ Len(Shared(o)) = n
       /\ \A k \in 1..m : Shared(o)[k] = s1[k]
       /\ o.poc = 0 => Shared(o)[m + 1] = f
  <2>1. f \in Elements /\ (o.poc = 0) \in BOOLEAN
    BY <1>3
  <2>2. Joined(Elements, s1, s1 \o If(o.poc = 0, <<f>>), f, o.poc = 0)
    BY <1>8, <2>1, JoinIf
  <2>3. Shared(o) = s1 \o If(o.poc = 0, <<f>>)
    BY <1>5 DEF s1
  <2> QED BY <1>8, <1>9, <2>2, <2>3 DEF Joined
<1>11. /\ SharedNames(o) \in Seq(Names) /\ Len(SharedNames(o)) = n
       /\ \A k \in 1..m : SharedNames(o)[k] = t1[k]
       /\ o.poc = 0 => SharedNames(o)[m + 1] = f[1]
  <2>1. f[1] \in Names /\ (o.poc = 0) \in BOOLEAN
    BY <1>4
  <2>2. Joined(Names, t1, t1 \o If(o.poc = 0, <<f[1]>>), f[1], o.poc = 0)
    BY <1>8, <2>1, JoinIf
  <2>3. SharedNames(o) = t1 \o If(o.poc = 0, <<f[1]>>)
    BY <1>6 DEF t1
  <2> QED BY <1>8, <1>9, <2>2, <2>3 DEF Joined
<1> HIDE DEF m, n
<1>12. ASSUME NEW k \in 1..n
       PROVE  /\ Shared(o)[k][1] = SharedNames(o)[k]
              /\ k = 1 => Shared(o)[k] = a
              /\ k = 2 => Shared(o)[k] = b
              /\ k \in 3..n => Shared(o)[k] \in {c, d, e, f}
  <2>1. CASE k \in 1..4
    <3>1. Shared(o)[k] = s1[k] /\ SharedNames(o)[k] = t1[k]
      BY <1>9, <1>10, <1>11, <2>1
    <3> QED BY <1>8, <2>1, <3>1
  <2>2. CASE k = 5 /\ m = 5
    <3>1. Shared(o)[k] = s1[k] /\ SharedNames(o)[k] = t1[k]
      BY <1>9, <1>10, <1>11, <2>2
    <3> QED BY <1>8, <2>2, <3>1
  <2>3. CASE k = m + 1
    <3>1. o.poc = 0
      BY <1>9, <2>3
    <3>2. k # 1 /\ k # 2
      BY <1>9, <2>3
    <3> QED BY <1>10, <1>11, <2>3, <3>1, <3>2
  <2> QED BY <1>9, <2>1, <2>2, <2>3
<1>13. \A k \in {1, 2} : k \in 1..n
  BY <1>9
<1>14. \A k \in 3..n : k \in 1..n
  BY <1>9
<1>15. \A x \in {c, d, e, f} : x[1] \in {"pic_parameter_set_id", "frame_num", "idr_pic_id",
                                         "pic_order_cnt_lsb"}
  BY <1>1
<1> QED BY <1>9, <1>10, <1>11, <1>12, <1>13, <1>14, <1>15 DEF a, b, n

(* A sequence that goes on, after a shared part, with a value of a set; more
   may follow.                                                             *)
GoesOn(s, S, shared, T) ==
  /\ s \in Seq(S) /\ Len(s) > Len(shared)
  /\ \A k \in 1..Len(shared) : s[k] = shared[k]
  /\ s[Len(shared) + 1] \in T

LEMMA GoesOnFurther ==
  ASSUME NEW S, NEW T, NEW shared \in Seq(S), NEW s, GoesOn(s, S, shared, T), NEW t \in Seq(S)
  PROVE  GoesOn(s \o t, S, shared, T)
<1>1. /\ s \in Seq(S) /\ Len(s) \in Nat /\ Len(t) \in Nat /\ Len(shared) \in Nat
      /\ Len(shared) < Len(s) /\ s \o t \in Seq(S) /\ Len(s \o t) = Len(s) + Len(t)
      /\ \A k \in 1..(Len(s) + Len(t)) :
           (s \o t)[k] = IF k <= Len(s) THEN s[k] ELSE t[k - Len(s)]
  BY ConcatProperties DEF GoesOn
<1>2. \A k \in 1..(Len(shared) + 1) : (s \o t)[k] = s[k]
  BY <1>1
<1> QED BY <1>1, <1>2 DEF GoesOn

LEMMA GoesOnNow ==
  ASSUME NEW S, NEW T, NEW shared \in Seq(S), NEW t \in Seq(S), t # << >>, t[1] \in T
  PROVE  GoesOn(shared \o t, S, shared, T)
<1>1. /\ Len(t) \in Nat /\ 0 < Len(t) /\ Len(shared) \in Nat
      /\ shared \o t \in Seq(S) /\ Len(shared \o t) = Len(shared) + Len(t)
      /\ \A k \in 1..(Len(shared) + Len(t)) :
           (shared \o t)[k] = IF k <= Len(shared) THEN shared[k] ELSE t[k - Len(shared)]
  BY ConcatProperties
<1>2. (shared \o t)[Len(shared) + 1] = t[1]
  BY <1>1
<1> QED BY <1>1, <1>2 DEF GoesOn

Unexpected ==
  {e \in Elements : e[1] \in {"delta_pic_order_cnt_bottom", "redundant_pic_cnt",
                              "slice_qp_delta"}}
MarkingNames == {"no_output_of_prior_pics_flag", "adaptive_ref_pic_marking_mode_flag"}

LEMMA WrittenDeparts ==
  ASSUME NEW o \in SliceOptionSet,
         (o.poc = 0 /\ o.bottom_field) \/ o.redundant \/ ~o.reference
  PROVE  GoesOn(WrittenSlice(o), Elements, Shared(o), Unexpected)
<1> DEFINE p == Shared(o)
           Stop(s) == GoesOn(s, Elements, p, Unexpected)
           u == <<"delta_pic_order_cnt_bottom", 0>>
           v == <<"redundant_pic_cnt", 0>>
           w == <<"slice_qp_delta", 0>>
           t1 == If(o.poc = 0 /\ o.bottom_field, <<u>>)
           t2 == If(o.redundant, <<v>>)
           t3 == If(o.reference, WrittenMarking(o))
           t4 == <<w>>
           t5 == WrittenFilter(o)
<1>1. u \in Unexpected /\ v \in Unexpected /\ w \in Unexpected
  BY DEF Unexpected, Elements, Names
<1>2. p \in Seq(Elements) /\ p \o << >> = p
  BY SharedPart, ConcatEmptySeq
<1>3. WrittenSlice(o) = p \o t1 \o t2 \o t3 \o t4 \o t5
  BY DEF WrittenSlice, Shared, WrittenFilter, E
<1>4. t3 \in Seq(Elements) /\ t5 \in Seq(Elements)
  <2>1. WrittenMarking(o) \in Seq(Elements) /\ WrittenFilter(o) \in Seq(Elements)
    BY MarkingIsRead, SliceFilter DEF Reads
  <2> QED BY <2>1 DEF If
<1>5. ASSUME NEW e \in Unexpected
      PROVE  <<e>> \in Seq(Elements) /\ <<e>> # << >> /\ <<e>>[1] \in Unexpected
  <2>1. e \in Elements
    BY DEF Unexpected
  <2> QED BY <2>1
<1>6. ASSUME NEW s, Stop(s), NEW t \in Seq(Elements) PROVE Stop(s \o t)
  BY <1>2, <1>6, GoesOnFurther
<1>7. ASSUME NEW e \in Unexpected PROVE Stop(p \o <<e>>)
  BY <1>2, <1>5, GoesOnNow
<1> HIDE DEF p, Stop, u, v, w
<1>8. IF o.poc = 0 /\ o.bottom_field THEN Stop(p \o t1) ELSE p \o t1 = p
  BY <1>1, <1>2, <1>7, Zenon DEF If
<1>9. IF (o.poc = 0 /\ o.bottom_field) \/ o.redundant THEN Stop(p \o t1 \o t2)
                                                    ELSE p \o t1 \o t2 = p
  <2>1. t2 \in Seq(Elements)
    BY <1>1, <1>5 DEF If
  <2>2. CASE o.poc = 0 /\ o.bottom_field
    <3> HIDE DEF t1, t2
    <3> QED BY <1>6, <1>8, <2>1, <2>2
  <2>3. CASE ~(o.poc = 0 /\ o.bottom_field)
    <3>1. p \o t1 = p
      BY <1>8, <2>3
    <3>2. IF o.redundant THEN Stop(p \o t2) ELSE p \o t2 = p
      BY <1>1, <1>2, <1>7, Zenon DEF If
    <3> HIDE DEF t1, t2
    <3> QED BY <2>3, <3>1, <3>2
  <2> QED BY <2>2, <2>3
<1>10. Stop(p \o t1 \o t2 \o t3 \o t4)
  <2>1. t4 \in Seq(Elements)
    BY <1>1, <1>5
  <2>2. CASE (o.poc = 0 /\ o.bottom_field) \/ o.redundant
    <3> HIDE DEF t1, t2, t3, t4
    <3> QED BY <1>4, <1>6, <1>9, <2>1, <2>2
  <2>3. CASE ~((o.poc = 0 /\ o.bottom_field) \/ o.redundant)
    <3>1. t3 = << >>
      BY <2>3 DEF If
    <3>2. p \o t1 \o t2 \o t3 = p
      BY <1>2, <1>9, <2>3, <3>1
    <3>3. Stop(p \o t4)
      BY <1>1, <1>7
    <3> HIDE DEF t1, t2, t3, t4
    <3> QED BY <3>2, <3>3
  <2> QED BY <2>2, <2>3
<1> HIDE DEF t1, t2, t3, t4, t5
<1>11. Stop(p \o t1 \o t2 \o t3 \o t4 \o t5)
  BY <1>4, <1>6, <1>10
<1> QED BY <1>3, <1>11 DEF Stop, p

LEMMA AgendaGoesOn ==
  ASSUME NEW o \in SliceOptionSet
  PROVE  GoesOn(SliceAgenda(o), Names, SharedNames(o), MarkingNames)
<1> DEFINE p == SharedNames(o)
           t1 == MarkingAgenda(o)
           t2 == <<"slice_qp_delta">>
           t3 == If(o.deblocking >= 0, <<"disable_deblocking_filter_idc">>)
<1>1. SliceAgenda(o) = p \o t1 \o t2 \o t3
  BY DEF SliceAgenda, SharedNames, MarkingAgenda
<1>2. p \in Seq(Names)
  BY SharedPart
<1>3. t1 \in Seq(Names) /\ t1 # << >> /\ t1[1] \in MarkingNames
  <2>1. <<"no_output_of_prior_pics_flag", "long_term_reference_flag">> \in Seq(Names)
    BY DEF Names
  <2>2. <<"adaptive_ref_pic_marking_mode_flag">> \in Seq(Names)
    BY OneName DEF Names
  <2> QED BY <2>1, <2>2 DEF MarkingAgenda, MarkingNames
<1>4. t2 \in Seq(Names) /\ t3 \in Seq(Names)
  <2>1. <<"disable_deblocking_filter_idc">> \in Seq(Names) /\ << >> \in Seq(Names)
        /\ <<"slice_qp_delta">> \in Seq(Names)
    BY OneName DEF Names
  <2> QED BY <2>1 DEF If
<1> HIDE DEF p, t1, t2, t3
<1>5. GoesOn(p \o t1, Names, p, MarkingNames)
  BY <1>2, <1>3, GoesOnNow
<1>6. GoesOn(p \o t1 \o t2, Names, p, MarkingNames)
  BY <1>2, <1>4, <1>5, GoesOnFurther
<1>7. GoesOn(p \o t1 \o t2 \o t3, Names, p, MarkingNames)
  BY <1>2, <1>4, <1>6, GoesOnFurther
<1> QED BY <1>1, <1>7 DEF p

(* It is read element for element up to its departure, where the names differ. *)
LEMMA DepartingHeader ==
  ASSUME header = "slice", options \in SliceOptionSet, Departs, coded = WrittenSlice(options)
  PROVE  LET names == SliceAgenda(options) IN
         /\ Departure \in 5..7
         /\ coded \in Seq(Elements) /\ Len(coded) \in Nat /\ Departure <= Len(coded)
         /\ names \in Seq(Names) /\ Len(names) \in Nat /\ Departure <= Len(names)
         /\ coded[Departure][1] # names[Departure]
         /\ \A k \in 1..(Departure - 1) :
              /\ coded[k][1] = names[k] /\ SliceReadNext(coded[k][1], coded[k][2]) = << >>
              /\ SliceOutOfScope(coded[k][1], coded[k][2]) <=>
                   \/ k = 1 /\ options.first # 0
                   \/ k = 2 /\ options.type \notin {2, 7}
<1> DEFINE names == SliceAgenda(options)
           p == Shared(options)
           q == SharedNames(options)
           n == SharedLength(options)
<1>1. Departure = n + 1
  BY DEF Departure, SharedLength
<1>2. GoesOn(coded, Elements, p, Unexpected)
  BY WrittenDeparts DEF Departs
<1>3. GoesOn(names, Names, q, MarkingNames)
  BY AgendaGoesOn
<1>4. /\ p \in Seq(Elements) /\ q \in Seq(Names) /\ n \in 4..6 /\ Len(p) = n /\ Len(q) = n
      /\ \A k \in 1..n : p[k][1] = q[k]
      /\ p[1] = <<"first_mb_in_slice", options.first>> /\ p[2] = <<"slice_type", options.type>>
      /\ \A k \in 3..n : p[k][1] \in {"pic_parameter_set_id", "frame_num", "idr_pic_id",
                                      "pic_order_cnt_lsb"}
  BY SharedPart
<1> HIDE DEF names, p, q, n
<1>5. /\ coded \in Seq(Elements) /\ Len(coded) \in Nat /\ n < Len(coded)
      /\ \A k \in 1..n : coded[k] = p[k]
      /\ coded[n + 1] \in Unexpected
  BY <1>2, <1>4 DEF GoesOn
<1>6. /\ names \in Seq(Names) /\ Len(names) \in Nat /\ n < Len(names)
      /\ \A k \in 1..n : names[k] = q[k]
      /\ names[n + 1] \in MarkingNames
  BY <1>3, <1>4 DEF GoesOn
<1>7. coded[n + 1][1] # names[n + 1]
  BY <1>5, <1>6 DEF Unexpected, MarkingNames
<1>8. ASSUME NEW k \in 1..n
      PROVE  /\ coded[k][1] = names[k] /\ SliceReadNext(coded[k][1], coded[k][2]) = << >>
             /\ SliceOutOfScope(coded[k][1], coded[k][2]) <=>
                  \/ k = 1 /\ options.first # 0
                  \/ k = 2 /\ options.type \notin {2, 7}
  <2>1. coded[k][1] = names[k] /\ coded[k] = p[k]
    BY <1>4, <1>5, <1>6
  <2>2. CASE k = 1
    <3>1. coded[k][1] = "first_mb_in_slice" /\ coded[k][2] = options.first
      BY <1>4, <2>1, <2>2
    <3> QED BY <2>1, <2>2, <3>1 DEF SliceReadNext, SliceOutOfScope
  <2>3. CASE k = 2
    <3>1. coded[k][1] = "slice_type" /\ coded[k][2] = options.type
      BY <1>4, <2>1, <2>3
    <3>2. IsI(options.type) <=> options.type \in {2, 7}
      <4>1. options.type \in 0..9
        BY DEF SliceOptionSet
      <4> QED BY <4>1 DEF IsI
    <3> QED BY <2>1, <2>3, <3>1, <3>2 DEF SliceReadNext, SliceOutOfScope
  <2>4. CASE k \in 3..n
    <3>1. coded[k][1] \in {"pic_parameter_set_id", "frame_num", "idr_pic_id", "pic_order_cnt_lsb"}
      BY <1>4, <2>1, <2>4
    <3>2. k # 1 /\ k # 2
      BY <1>4, <2>4
    <3> QED BY <2>1, <3>1, <3>2 DEF SliceReadNext, SliceOutOfScope
  <2> QED BY <1>4, <2>2, <2>3, <2>4
<1>9. /\ Departure \in 5..7 /\ Departure - 1 = n /\ Departure <= Len(coded)
      /\ Departure <= Len(names)
  BY <1>1, <1>4, <1>5, <1>6
<1> QED BY <1>1, <1>5, <1>6, <1>7, <1>8, <1>9 DEF names

DepartInv ==
  LET names == SliceAgenda(options) IN
  /\ Departs /\ header = "slice" /\ options \in SliceOptionSet /\ coded = WrittenSlice(options)
  /\ read_pos \in 1..Departure
  /\ header_status \in {"reading", "parsed", "out_of_scope", "unsupported", "truncated"}
  /\ header_status = "reading" =>
       /\ agenda \in Seq(Names) /\ Len(agenda) = Len(names) + 1 - read_pos
       /\ \A j \in 1..Len(agenda) : agenda[j] = names[read_pos + j - 1]
  /\ header_status \in {"reading", "parsed"} =>
       /\ read_pos > 1 => options.first = 0
       /\ read_pos > 2 => options.type \in {2, 7}
  /\ header_status = "parsed" => read_pos = Departure

HeaderInv == SteadyInv \/ DepartInv

LEMMA DepartingStart ==
  ASSUME header = "slice", options \in SliceOptionSet, Departs,
         coded = WrittenSlice(options), agenda = SliceAgenda(options),
         read_pos = 1, header_status = "reading"
  PROVE  DepartInv
<1>1. Departure \in 5..7 /\ agenda \in Seq(Names)
  BY DepartingHeader
<1>2. read_pos \in 1..Departure
  BY <1>1
<1>3. Len(agenda) = Len(agenda) + 1 - read_pos
  BY <1>1
<1>4. \A j \in 1..Len(agenda) : agenda[j] = agenda[read_pos + j - 1]
  BY <1>1
<1> QED BY <1>1, <1>2, <1>3, <1>4 DEF DepartInv

LEMMA DepartNext == DepartInv /\ [HeadersNext]_headerVars => DepartInv'
<1> SUFFICES ASSUME DepartInv, [HeadersNext]_headerVars PROVE DepartInv'
  OBVIOUS
<1> DEFINE names == SliceAgenda(options)
           e == coded[read_pos]
<1>1. /\ Departure \in 5..7 /\ coded[Departure][1] # names[Departure]
      /\ coded \in Seq(Elements) /\ Len(coded) \in Nat /\ Departure <= Len(coded)
      /\ names \in Seq(Names) /\ Len(names) \in Nat /\ Departure <= Len(names)
      /\ \A k \in 1..(Departure - 1) :
           /\ coded[k][1] = names[k] /\ SliceReadNext(coded[k][1], coded[k][2]) = << >>
           /\ SliceOutOfScope(coded[k][1], coded[k][2]) <=>
                \/ k = 1 /\ options.first # 0
                \/ k = 2 /\ options.type \notin {2, 7}
  BY DepartingHeader DEF DepartInv
<1>3. header = "slice" /\ options \in SliceOptionSet /\ coded = WrittenSlice(options)
      /\ read_pos \in 1..Departure
  BY DEF DepartInv
<1>2. ASSUME UNCHANGED <<header, options, coded>>
      PROVE  /\ Departs' /\ Departure' = Departure /\ header' = "slice"
             /\ options' \in SliceOptionSet /\ coded' = WrittenSlice(options)'
             /\ SliceAgenda(options)' = SliceAgenda(options)
  <2>1. options' = options /\ header' = header /\ coded' = coded
    BY <1>2
  <2>2. WrittenSlice(options)' = WrittenSlice(options)
        /\ SliceAgenda(options)' = SliceAgenda(options)
    BY <2>1
  <2>3. Departs' /\ Departure' = Departure
    BY <2>1 DEF DepartInv, Departs, Departure
  <2> QED BY <1>3, <2>1, <2>2, <2>3
<1>4. ASSUME header_status = "reading"
      PROVE  agenda # << >> /\ Head(agenda) = names[read_pos] /\ agenda \in Seq(Names)
             /\ Len(agenda) = Len(names) + 1 - read_pos
  <2>1. /\ agenda \in Seq(Names) /\ Len(agenda) = Len(names) + 1 - read_pos
        /\ \A j \in 1..Len(agenda) : agenda[j] = names[read_pos + j - 1]
    BY <1>4 DEF DepartInv
  <2>2. Len(agenda) > 0 /\ read_pos + 1 - 1 = read_pos
    BY <1>1, <1>3, <2>1
  <2>3. agenda[1] = names[read_pos]
    BY <2>1, <2>2
  <2> QED BY <2>1, <2>2, <2>3
<1> HIDE DEF names
<1>5. CASE ReadSlice
  <2>1. /\ header_status = "reading" /\ e[1] = Name /\ Name = Head(agenda) /\ Value = e[2]
        /\ Take(SliceReadNext(Name, Value), SliceOutOfScope(Name, Value))
    BY <1>5 DEF ReadSlice, Reading, Due, Name, Value
  <2>2. read_pos # Departure
    BY <1>1, <1>4, <2>1
  <2>3. read_pos \in 1..(Departure - 1) /\ read_pos + 1 \in 1..Departure
    BY <1>1, <1>3, <2>2
  <2>4. /\ SliceReadNext(e[1], e[2]) = << >>
        /\ SliceOutOfScope(e[1], e[2]) <=>
             \/ read_pos = 1 /\ options.first # 0
             \/ read_pos = 2 /\ options.type \notin {2, 7}
    BY <1>1, <2>3
  <2>5. /\ read_pos' = read_pos + 1 /\ UNCHANGED <<header, options, coded>>
        /\ agenda' = << >> \o Tail(agenda)
        /\ header_status' = IF SliceOutOfScope(e[1], e[2]) THEN "out_of_scope" ELSE "reading"
    BY <2>1, <2>4 DEF Take
  <2>6. /\ agenda' \in Seq(Names) /\ Len(agenda') = Len(names) + 1 - (read_pos + 1)
        /\ \A j \in 1..Len(agenda') : agenda'[j] = names[(read_pos + 1) + j - 1]
    <3>1. /\ agenda \in Seq(Names) /\ agenda # << >> /\ Len(agenda) = Len(names) + 1 - read_pos
          /\ \A j \in 1..Len(agenda) : agenda[j] = names[read_pos + j - 1]
      BY <1>4, <2>1 DEF DepartInv, names
    <3>2. agenda' = Tail(agenda)
      BY <2>5, <3>1
    <3>3. /\ Tail(agenda) \in Seq(Names) /\ Len(Tail(agenda)) = Len(agenda) - 1
          /\ \A j \in 1..(Len(agenda) - 1) : Tail(agenda)[j] = agenda[j + 1]
      BY <3>1
    <3>4. \A j \in 1..(Len(agenda) - 1) : Tail(agenda)[j] = names[(read_pos + 1) + j - 1]
      <4> SUFFICES ASSUME NEW j \in 1..(Len(agenda) - 1)
                   PROVE  Tail(agenda)[j] = names[(read_pos + 1) + j - 1]
        OBVIOUS
      <4>1. j + 1 \in 1..Len(agenda) /\ read_pos + (j + 1) - 1 = (read_pos + 1) + j - 1
        BY <1>1, <1>3, <3>1
      <4> QED BY <3>1, <3>3, <4>1
    <3> QED BY <1>1, <1>3, <3>1, <3>2, <3>3, <3>4
  <2>7. header_status' \in {"reading", "parsed"} =>
          /\ read_pos + 1 > 1 => options.first = 0
          /\ read_pos + 1 > 2 => options.type \in {2, 7}
    <3>1. header_status' \in {"reading", "parsed"} => ~SliceOutOfScope(e[1], e[2])
      BY <2>5
    <3>2. /\ read_pos > 1 => options.first = 0
          /\ read_pos > 2 => options.type \in {2, 7}
      BY <2>1 DEF DepartInv
    <3> QED BY <1>3, <2>3, <2>4, <3>1, <3>2
  <2>8. SliceAgenda(options)' = names
    BY <1>2, <2>5 DEF names
  <2>9. header_status' # "parsed"
        /\ header_status' \in {"reading", "parsed", "out_of_scope", "unsupported", "truncated"}
    BY <2>5
  <2>10. /\ Departs' /\ Departure' = Departure /\ header' = "slice"
         /\ options' \in SliceOptionSet /\ coded' = WrittenSlice(options)'
    BY <1>2, <2>5
  <2> QED BY <2>3, <2>5, <2>6, <2>7, <2>8, <2>9, <2>10 DEF DepartInv
<1>6. CASE Astray
  <2>1. /\ header_status = "reading" /\ e[1] # Head(agenda)
        /\ header_status' \in {"parsed", "out_of_scope", "truncated"}
        /\ UNCHANGED <<header, options, coded, read_pos, agenda>>
    BY <1>6 DEF Astray, Due, Name
  <2>2. read_pos = Departure
    <3>1. e[1] # names[read_pos]
      BY <1>4, <2>1
    <3>2. ~(read_pos \in 1..(Departure - 1))
      BY <1>1, <3>1
    <3> QED BY <1>1, <1>3, <3>2
  <2>3. options.first = 0 /\ options.type \in {2, 7}
    <3>1. /\ read_pos > 1 => options.first = 0
          /\ read_pos > 2 => options.type \in {2, 7}
      BY <2>1 DEF DepartInv
    <3> QED BY <1>1, <2>2, <3>1
  <2>4. /\ Departs' /\ Departure' = Departure /\ header' = "slice"
        /\ options' \in SliceOptionSet /\ coded' = WrittenSlice(options)'
    BY <1>2, <2>1
  <2> QED BY <1>3, <2>1, <2>2, <2>3, <2>4 DEF DepartInv
<1>7. CASE HeaderTruncated
  <2>1. /\ header_status' = "truncated" /\ UNCHANGED <<header, options, coded, read_pos, agenda>>
    BY <1>7 DEF HeaderTruncated
  <2>2. /\ Departs' /\ Departure' = Departure /\ header' = "slice"
        /\ options' \in SliceOptionSet /\ coded' = WrittenSlice(options)'
    BY <1>2, <2>1
  <2> QED BY <1>3, <2>1, <2>2 DEF DepartInv
<1>8. CASE HeaderParsed
  BY <1>4, <1>8 DEF HeaderParsed
<1>9. CASE ReadSps \/ UnsupportedProfile \/ ReadPps
  BY <1>3, <1>9 DEF ReadSps, UnsupportedProfile, ReadPps
<1>10. CASE UNCHANGED headerVars
  <2>1. /\ UNCHANGED <<header, options, coded>> /\ read_pos' = read_pos /\ agenda' = agenda
        /\ header_status' = header_status
    BY <1>10 DEF headerVars
  <2>2. /\ Departs' /\ Departure' = Departure /\ header' = "slice"
        /\ options' \in SliceOptionSet /\ coded' = WrittenSlice(options)'
    BY <1>2, <2>1
  <2>3. SliceAgenda(options)' = SliceAgenda(options)
    BY <1>2, <2>1
  <2> QED BY <2>1, <2>2, <2>3 DEF DepartInv
<1> QED BY <1>5, <1>6, <1>7, <1>8, <1>9, <1>10 DEF HeadersNext

LEMMA HeadersNextInv == HeaderInv /\ [HeadersNext]_headerVars => HeaderInv'
<1>1. SteadyInv /\ [HeadersNext]_headerVars => SteadyInv'
  BY SteadyNext
<1>2. DepartInv /\ [HeadersNext]_headerVars => DepartInv'
  BY DepartNext
<1> QED BY <1>1, <1>2 DEF HeaderInv

LEMMA HeadersInitInv == HeadersInit => HeaderInv
<1> SUFFICES ASSUME HeadersInit PROVE HeaderInv
  OBVIOUS
<1>0. read_pos = 1 /\ header_status = "reading"
  BY DEF HeadersInit
<1>1. CASE /\ header = "sps" /\ options \in SpsOptions
           /\ coded = WrittenSps(options) /\ agenda = SpsAgenda
  <2>1. options \in SpsOptionSet
    BY <1>1, SpsAssumption DEF SpsOptionSet
  <2> QED BY <1>0, <1>1, <2>1, SteadySps DEF HeaderInv
<1>2. CASE /\ header = "pps" /\ options \in PpsOptions
           /\ coded = WrittenPps(options) /\ agenda = PpsAgenda
  <2>1. options \in PpsOptionSet
    BY <1>2, PpsAssumption DEF PpsOptionSet
  <2>2. /\ Reads("pps", agenda, coded)
        /\ Clean("pps", coded) <=>
             /\ options.cabac = 0 /\ options.groups = 0
             /\ options.weighted = 0 /\ options.bipred = 0
    BY <1>2, <2>1, PpsIsRead
  <2>3. (Accepted <=> Clean("pps", coded)) /\ ~Departs
    BY <1>2, <2>2 DEF Accepted, InScope, LetThrough, Departs
  <2> QED BY <1>0, <1>2, <2>2, <2>3, SteadyOther DEF HeaderInv
<1>3. CASE /\ header = "slice" /\ options \in SliceOptions
           /\ coded = WrittenSlice(options) /\ agenda = SliceAgenda(options)
  <2>1. options \in SliceOptionSet
    BY <1>3, SliceAssumption DEF SliceOptionSet
  <2>2. CASE ~Departs
    <3>1. /\ Reads("slice", agenda, coded)
          /\ Clean("slice", coded) <=>
               /\ options.first = 0 /\ options.type \in {2, 7}
               /\ \A n \in DOMAIN options.mmcos : options.mmcos[n] <= 6
      BY <1>3, <2>1, <2>2, SliceIsRead DEF Departs
    <3>2. Accepted <=> Clean("slice", coded)
      BY <1>3, <3>1 DEF Accepted, InScope, LetThrough
    <3> QED BY <1>0, <1>3, <2>2, <3>1, <3>2, SteadyOther DEF HeaderInv
  <2>3. CASE Departs
    BY <1>0, <1>3, <2>1, <2>3, DepartingStart DEF HeaderInv
  <2> QED BY <2>2, <2>3
<1> QED BY <1>1, <1>2, <1>3 DEF HeadersInit

LEMMA HeadersInductive == HeadersSpec => []HeaderInv
BY HeadersInitInv, HeadersNextInv, PTL DEF HeadersSpec

(* Of a header that is read in step no more is ever asked for than is left of
   what was written: the parser cannot run past one whose options it knows. *)
THEOREM HeadersTyped == HeadersSpec => []HeadersTypeOK
<1>1. SteadyInv => HeadersTypeOK
  <2> SUFFICES ASSUME SteadyInv PROVE HeadersTypeOK
    OBVIOUS
  <2>1. /\ Len(coded) \in Nat /\ Len(agenda) \in Nat /\ HeaderEnd \in 1..(Len(coded) + 1)
        /\ read_pos \in 1..HeaderEnd /\ read_pos + Len(agenda) <= HeaderEnd
    BY DEF SteadyInv
  <2>2. read_pos \in 1..(Len(coded) + 1) /\ read_pos + Len(agenda) <= Len(coded) + 1
    BY <2>1
  <2> QED BY <2>2 DEF SteadyInv, HeadersTypeOK
<1>2. DepartInv => HeadersTypeOK
  <2> SUFFICES ASSUME DepartInv PROVE HeadersTypeOK
    OBVIOUS
  <2>1. Departure \in 5..7 /\ Len(coded) \in Nat /\ Departure <= Len(coded)
    BY DepartingHeader DEF DepartInv
  <2>2. read_pos \in 1..(Len(coded) + 1)
    BY <2>1 DEF DepartInv
  <2> QED BY <2>2 DEF DepartInv, HeadersTypeOK
<1>3. HeaderInv => HeadersTypeOK
  BY <1>1, <1>2 DEF HeaderInv
<1> QED BY <1>3, HeadersInductive, PTL

(* Whatever options a header is written with, the parser reads the element
   that was written at every step, and a slice header to its end, except for
   the slice headers that Departs names: those are read in step up to their
   Departure and no further (slice.rs 304-391).                            *)
THEOREM HeadersStayInStep == HeadersSpec => []InStep
<1>1. SteadyInv => InStep
  <2> SUFFICES ASSUME SteadyInv PROVE InStep
    OBVIOUS
  <2>1. /\ agenda \in Seq(Names) /\ read_pos \in Nat \ {0} /\ HeaderEnd \in Nat
        /\ HeaderEnd <= Len(coded) + 1 /\ Len(coded) \in Nat /\ ~Departs
    BY DEF SteadyInv
  <2>2. ASSUME header_status = "reading", agenda # << >>
        PROVE  read_pos <= Len(coded) /\ coded[read_pos][1] = Head(agenda)
    <3>1. Laid(header, agenda, read_pos, HeaderEnd, coded)
      BY <2>2 DEF SteadyInv
    <3>2. read_pos < HeaderEnd /\ coded[read_pos][1] = Head(agenda)
      BY <3>1, <2>1, <2>2, LaidNext
    <3> QED BY <3>2, <2>1
  <2>3. ASSUME header_status = "parsed", header = "slice" PROVE read_pos = Len(coded) + 1
    BY <2>3 DEF SteadyInv, HeaderEnd
  <2> QED BY <2>1, <2>2, <2>3 DEF InStep
<1>2. DepartInv => InStep
  <2> SUFFICES ASSUME DepartInv PROVE InStep
    OBVIOUS
  <2>1. LET names == SliceAgenda(options) IN
        /\ Departure \in 5..7 /\ coded[Departure][1] # names[Departure]
        /\ Len(coded) \in Nat /\ Departure <= Len(coded)
        /\ Len(names) \in Nat /\ Departure <= Len(names)
        /\ \A k \in 1..(Departure - 1) : coded[k][1] = names[k]
    BY DepartingHeader DEF DepartInv
  <2>2. read_pos \in 1..Departure /\ Departs
    BY DEF DepartInv
  <2>3. read_pos <= Departure /\ read_pos <= Len(coded)
    BY <2>1, <2>2
  <2>4. ASSUME header_status = "reading", agenda # << >>
        PROVE  coded[read_pos][1] = Head(agenda) <=> ~(read_pos = Departure)
    <3> DEFINE names == SliceAgenda(options)
    <3>1. /\ agenda \in Seq(Names)
          /\ \A j \in 1..Len(agenda) : agenda[j] = names[read_pos + j - 1]
      BY <2>4 DEF DepartInv
    <3>2. Head(agenda) = agenda[1] /\ 1 \in 1..Len(agenda) /\ read_pos + 1 - 1 = read_pos
      BY <2>1, <2>2, <2>4, <3>1
    <3>3. Head(agenda) = names[read_pos]
      BY <3>1, <3>2
    <3>4. read_pos # Departure => read_pos \in 1..(Departure - 1)
      BY <2>1, <2>2
    <3> QED BY <2>1, <3>3, <3>4
  <2>5. header_status = "parsed" => read_pos = Departure
    BY DEF DepartInv
  <2> QED BY <2>2, <2>3, <2>4, <2>5 DEF InStep
<1>3. HeaderInv => InStep
  BY <1>1, <1>2 DEF HeaderInv
<1> QED BY <1>3, HeadersInductive, PTL

(* Exactly the headers that announce nothing out of scope are accepted, and
   those with VUI parameters or pic_order_cnt_type 2, which the file declares
   out of scope and lets through; of the slice headers read out of step, those
   whose first two elements are in scope at most.                          *)
THEOREM HeaderScopeIsEnforced == HeadersSpec => []ScopeEnforced
<1>1. SteadyInv => ScopeEnforced
  <2> SUFFICES ASSUME SteadyInv PROVE ScopeEnforced
    OBVIOUS
  <2>1. ASSUME header_status = "parsed" PROVE Accepted
    <3>1. /\ read_pos = HeaderEnd
          /\ \A k \in 1..(read_pos - 1) : ~OutOfScope(header, coded[k])
          /\ Accepted <=> \A k \in 1..(HeaderEnd - 1) : ~OutOfScope(header, coded[k])
      BY <2>1 DEF SteadyInv
    <3> QED BY <3>1
  <2>2. ASSUME header_status \in {"out_of_scope", "unsupported"} PROVE ~Accepted
    <3>1. /\ \E k \in 1..(HeaderEnd - 1) : OutOfScope(header, coded[k])
          /\ Accepted <=> \A k \in 1..(HeaderEnd - 1) : ~OutOfScope(header, coded[k])
      BY <2>2 DEF SteadyInv
    <3> QED BY <3>1
  <2> QED BY <2>1, <2>2 DEF ScopeEnforced, Accepted
<1>2. DepartInv => ScopeEnforced
  <2> SUFFICES ASSUME DepartInv PROVE ScopeEnforced
    OBVIOUS
  <2>1. Departure \in 5..7 /\ Departs
    BY DepartingHeader DEF DepartInv
  <2>2. header_status = "parsed" => options.first = 0 /\ options.type \in {2, 7}
    BY <2>1 DEF DepartInv
  <2> QED BY <2>1, <2>2 DEF ScopeEnforced
<1>3. HeaderInv => ScopeEnforced
  BY <1>1, <1>2 DEF HeaderInv
<1> QED BY <1>3, HeadersInductive, PTL
-----------------------------------------------------------------------------
(* Powers of two.                                                          *)
LEMMA PowersExist ==
  ASSUME NEW m \in Nat
  PROVE  \E g : g = [k \in 0..m |-> IF k = 0 THEN 1 ELSE 2 * g[k - 1]]
<1> DEFINE P(g, n) == g = [k \in 0..n |-> IF k = 0 THEN 1 ELSE 2 * g[k - 1]]
           S == {n \in Nat : \E g : P(g, n)}
<1>1. 0 \in S
  <2>1. P([k \in 0..0 |-> 1], 0)
    OBVIOUS
  <2> QED BY <2>1
<1>2. ASSUME NEW n \in Nat, n \in S PROVE n + 1 \in S
  <2>1. PICK g : P(g, n)
    BY <1>2
  <2> DEFINE h == [k \in 0..(n + 1) |-> IF k = 0 THEN 1 ELSE 2 * g[k - 1]]
  <2>2. \A k \in 0..n : h[k] = g[k]
    BY <2>1
  <2>3. \A k \in 1..(n + 1) : k - 1 \in 0..n
    OBVIOUS
  <2>4. \A k \in 0..(n + 1) : h[k] = IF k = 0 THEN 1 ELSE 2 * h[k - 1]
    <3> SUFFICES ASSUME NEW k \in 0..(n + 1) PROVE h[k] = IF k = 0 THEN 1 ELSE 2 * h[k - 1]
      OBVIOUS
    <3>1. h[k] = IF k = 0 THEN 1 ELSE 2 * g[k - 1]
      OBVIOUS
    <3>2. k # 0 => k - 1 \in 0..n
      OBVIOUS
    <3> HIDE DEF h
    <3> QED BY <2>2, <3>1, <3>2
  <2>5. h = [k \in 0..(n + 1) |-> h[k]]
    OBVIOUS
  <2> HIDE DEF h
  <2>6. P(h, n + 1)
    BY <2>4, <2>5, Zenon
  <2> HIDE DEF P
  <2> QED BY <2>6
<1> HIDE DEF S
<1>3. m \in S
  BY <1>1, <1>2, SetInduction
<1> QED BY <1>3 DEF S

LEMMA PowersIs ==
  Pow2[0] = 1 /\ \A n \in Nat : Pow2[n + 1] = 2 * Pow2[n]
<1> DEFINE P(g, n) == g = [k \in 0..n |-> IF k = 0 THEN 1 ELSE 2 * g[k - 1]]
           G(n) == CHOOSE g : P(g, n)
           h == [n \in Nat |-> G(n)[n]]
           Q(f) == f = [n \in Nat |-> IF n = 0 THEN 1 ELSE 2 * f[n - 1]]
<1>1. \A n \in Nat : P(G(n), n)
  <2> SUFFICES ASSUME NEW n \in Nat PROVE P(G(n), n)
    OBVIOUS
  <2>1. \E g : P(g, n)
    BY PowersExist
  <2> HIDE DEF P
  <2> QED BY <2>1, Zenon
<1> HIDE DEF G
<1>2. ASSUME NEW n \in Nat PROVE G(n + 1)[n] = G(n)[n]
  <2> DEFINE S == {k \in 0..n : G(n + 1)[k] = G(n)[k]}
  <2>0. n + 1 \in Nat
    OBVIOUS
  <2>1. P(G(n), n) /\ P(G(n + 1), n + 1)
    BY <1>1, <2>0, Zenon
  <2>2. 0 \in S
    BY <2>1
  <2>3. ASSUME NEW k \in 0..(n - 1), k \in S PROVE k + 1 \in S
    <3>1. /\ k + 1 \in 0..n /\ k + 1 \in 0..(n + 1) /\ k + 1 # 0 /\ (k + 1) - 1 = k
      OBVIOUS
    <3>2. G(n)[k + 1] = 2 * G(n)[k] /\ G(n + 1)[k + 1] = 2 * G(n + 1)[k]
      BY <2>1, <3>1
    <3> QED BY <2>3, <3>1, <3>2
  <2> HIDE DEF S
  <2>4. n \in S
    BY <2>2, <2>3, BoundedInduction
  <2> QED BY <2>4 DEF S
<1>3. h[0] = 1
  BY <1>1
<1>4. ASSUME NEW n \in Nat PROVE h[n + 1] = 2 * h[n]
  <2>1. n + 1 \in Nat /\ n + 1 \in 0..(n + 1) /\ n + 1 # 0 /\ (n + 1) - 1 = n
    OBVIOUS
  <2>2. P(G(n + 1), n + 1)
    BY <1>1, <2>1
  <2>3. G(n + 1)[n + 1] = 2 * G(n + 1)[n]
    BY <2>1, <2>2
  <2> QED BY <1>2, <2>1, <2>3
<1>5. h = [n \in Nat |-> h[n]]
  OBVIOUS
<1> HIDE DEF h
<1>6. \A n \in Nat : h[n] = IF n = 0 THEN 1 ELSE 2 * h[n - 1]
  <2> SUFFICES ASSUME NEW n \in Nat, n # 0 PROVE h[n] = 2 * h[n - 1]
    BY <1>3
  <2>1. n - 1 \in Nat /\ (n - 1) + 1 = n
    OBVIOUS
  <2> QED BY <1>4, <2>1
<1>7. Q(h)
  BY <1>5, <1>6, Zenon
<1>8. Q(Pow2)
  <2>1. Pow2 = CHOOSE f : Q(f)
    BY Zenon DEF Pow2
  <2> HIDE DEF Q
  <2> QED BY <1>7, <2>1, Zenon
<1>9. Pow2[0] = 1
  BY <1>8
<1>10. ASSUME NEW n \in Nat PROVE Pow2[n + 1] = 2 * Pow2[n]
  <2>1. n + 1 \in Nat /\ n + 1 # 0 /\ (n + 1) - 1 = n
    OBVIOUS
  <2> QED BY <1>8, <2>1
<1> QED BY <1>9, <1>10

LEMMA PowersPositive == \A n \in Nat : Pow2[n] \in Nat /\ 0 < Pow2[n]
<1> DEFINE S == {n \in Nat : Pow2[n] \in Nat /\ 0 < Pow2[n]}
<1>1. 0 \in S
  BY PowersIs
<1>2. ASSUME NEW n \in Nat, n \in S PROVE n + 1 \in S
  BY <1>2, PowersIs
<1> HIDE DEF S
<1>3. \A n \in Nat : n \in S
  BY <1>1, <1>2, SetInduction
<1> QED BY <1>3 DEF S

LEMMA PowersGrow ==
  ASSUME NEW m \in Nat, NEW n \in Nat, m <= n
  PROVE  Pow2[m] <= Pow2[n]
<1> DEFINE S == {k \in Nat : Pow2[m] <= Pow2[m + k]}
<1>1. 0 \in S
  BY PowersPositive
<1>2. ASSUME NEW k \in Nat, k \in S PROVE k + 1 \in S
  <2>1. m + k \in Nat /\ (m + k) + 1 = m + (k + 1)
    OBVIOUS
  <2>2. Pow2[m + (k + 1)] = 2 * Pow2[m + k]
    BY <2>1, PowersIs
  <2>3. Pow2[m] \in Nat /\ Pow2[m + k] \in Nat
    BY <2>1, PowersPositive
  <2> QED BY <1>2, <2>2, <2>3
<1> HIDE DEF S
<1>3. n - m \in Nat /\ m + (n - m) = n
  OBVIOUS
<1>4. n - m \in S
  BY <1>1, <1>2, <1>3, SetInduction
<1> QED BY <1>3, <1>4 DEF S

(* Every positive number has one number of bits.                           *)
LEMMA BitLength ==
  ASSUME NEW m \in Nat, NEW w \in Nat, 0 < w, w < Pow2[m]
  PROVE  \E n \in 0..(m - 1) : Pow2[n] <= w /\ w < Pow2[n + 1]
<1> DEFINE T == {n \in Nat : w < Pow2[n]}
<1>1. m \in T /\ T \subseteq Nat
  OBVIOUS
<1>2. PICK n \in T : \A y \in T : n <= y
  BY <1>1, Least
<1>3. n # 0 /\ n \in Nat /\ w < Pow2[n] /\ n <= m
  BY <1>1, <1>2, PowersIs
<1>4. n - 1 \in Nat /\ n - 1 \in 0..(m - 1) /\ (n - 1) + 1 = n /\ ~(n <= n - 1)
  BY <1>3
<1>5. n - 1 \notin T
  BY <1>2, <1>4
<1>6. ~(w < Pow2[n - 1]) /\ Pow2[n - 1] \in Nat
  BY <1>4, <1>5, PowersPositive
<1> QED BY <1>3, <1>4, <1>6

LEMMA OneBitLength ==
  ASSUME NEW m \in Nat, NEW n \in Nat, NEW w \in Nat,
         Pow2[m] <= w, w < Pow2[m + 1], Pow2[n] <= w, w < Pow2[n + 1]
  PROVE  m = n
<1>1. ASSUME NEW a \in Nat, NEW b \in Nat, a < b, w < Pow2[a + 1], Pow2[b] <= w PROVE FALSE
  <2>1. a + 1 \in Nat /\ a + 1 <= b
    BY <1>1
  <2>2. Pow2[a + 1] <= Pow2[b] /\ Pow2[a + 1] \in Nat /\ Pow2[b] \in Nat
    BY <2>1, PowersGrow, PowersPositive
  <2> QED BY <1>1, <2>2
<1> QED BY <1>1
-----------------------------------------------------------------------------
(* The word that starts at a position: a one and j bits after it.          *)
WordAt(pos, j, w) ==
  /\ Pow2[j] <= w /\ w < Pow2[j + 1]
  /\ \A k \in 0..j : Bit(bytes, pos + k) = (w \div Pow2[j - k]) % 2

LEMMA AppendBit ==
  ASSUME NEW w \in Nat, NEW d \in Nat, 0 < d, NEW b \in {0, 1}
  PROVE  (2 * w + b) \div (2 * d) = w \div d
OBVIOUS

LEMMA BitIsBit ==
  ASSUME bytes \in Seq(0..255), NEW pos \in Nat, pos < Bits(bytes)
  PROVE  Bit(bytes, pos) \in {0, 1}
<1>1. pos \div 8 + 1 \in 1..Len(bytes) /\ 7 - (pos % 8) \in Nat
  BY DEF Bits
<1>2. bytes[pos \div 8 + 1] \in Nat
  <2>1. ASSUME NEW e \in 1..Len(bytes) PROVE bytes[e] \in Nat
    <3>1. bytes[e] \in 0..255
      BY ElementOfSeq
    <3>2. \A z \in 0..255 : z \in Nat
      OBVIOUS
    <3> QED BY <3>1, <3>2, Zenon
  <2> QED BY <1>1, <2>1, Zenon
<1>3. Pow2[7 - (pos % 8)] \in Nat /\ 0 < Pow2[7 - (pos % 8)]
  BY <1>1, PowersPositive
<1> QED BY <1>2, <1>3 DEF Bit

LEMMA WordStarts ==
  ASSUME NEW pos \in Nat, Bit(bytes, pos) = 1
  PROVE  WordAt(pos, 0, 1)
<1>1. Pow2[0] = 1 /\ Pow2[0 + 1] = 2
  BY PowersIs
<1>2. \A k \in 0..0 : k = 0
  OBVIOUS
<1>3. (1 \div 1) % 2 = 1
  <2>1. ASSUME NEW d \in Nat, d = 1 PROVE (1 \div d) % 2 = 1
    BY <2>1
  <2> QED BY <2>1
<1>4. \A k \in 0..0 : Bit(bytes, pos + k) = (1 \div Pow2[0 - k]) % 2
  <2>1. pos + 0 = pos /\ 0 - 0 = 0
    OBVIOUS
  <2>2. Bit(bytes, pos + 0) = (1 \div Pow2[0 - 0]) % 2
    BY <1>1, <1>3, <2>1
  <2> QED BY <1>2, <2>2
<1> QED BY <1>1, <1>4 DEF WordAt

LEMMA WordGrows ==
  ASSUME NEW pos \in Nat, NEW j \in Nat, NEW w \in Nat, NEW b \in {0, 1},
         WordAt(pos, j, w), Bit(bytes, pos + (j + 1)) = b
  PROVE  WordAt(pos, j + 1, 2 * w + b)
<1>1. /\ Pow2[j] \in Nat /\ Pow2[j + 1] = 2 * Pow2[j]
      /\ j + 1 \in Nat /\ Pow2[(j + 1) + 1] = 2 * Pow2[j + 1]
  BY PowersIs, PowersPositive
<1>2. Pow2[j + 1] <= 2 * w + b /\ 2 * w + b < Pow2[(j + 1) + 1]
  BY <1>1 DEF WordAt
<1>3. ASSUME NEW k \in 0..(j + 1)
      PROVE  Bit(bytes, pos + k) = ((2 * w + b) \div Pow2[(j + 1) - k]) % 2
  <2>1. CASE k \in 0..j
    <3>1. j - k \in Nat /\ (j + 1) - k = (j - k) + 1
      BY <2>1
    <3>2. Pow2[(j + 1) - k] = 2 * Pow2[j - k] /\ Pow2[j - k] \in Nat /\ 0 < Pow2[j - k]
      BY <3>1, PowersIs, PowersPositive
    <3>3. (2 * w + b) \div Pow2[(j + 1) - k] = w \div Pow2[j - k]
      BY <3>2, AppendBit
    <3> QED BY <2>1, <3>3 DEF WordAt
  <2>2. CASE k = j + 1
    <3>1. Pow2[(j + 1) - k] = 1
      BY <2>2, PowersIs
    <3>2. ((2 * w + b) \div 1) % 2 = b
      OBVIOUS
    <3> QED BY <2>2, <3>1, <3>2
  <2> QED BY <2>1, <2>2
<1> QED BY <1>2, <1>3 DEF WordAt

-----------------------------------------------------------------------------
(* The code of a word of the standard: its length less one in zeros, then it. *)
LEMMA ZerosOfValue ==
  ASSUME NEW n \in 0..W, NEW v \in Nat, Pow2[n] <= v + 1, v + 1 < Pow2[n + 1]
  PROVE  UeZeros(v) = n
<1> DEFINE Fits(m) == Pow2[m] <= v + 1 /\ v + 1 < Pow2[m + 1]
<1>1. \A m \in 0..W : Fits(m) => m = n
  BY OneBitLength, WidthAssumption
<1>2. Fits(n)
  OBVIOUS
<1>3. UeZeros(v) = CHOOSE m \in 0..W : Fits(m)
  BY DEF UeZeros
<1> HIDE DEF Fits
<1> QED BY <1>1, <1>2, <1>3

LEMMA CodeOfWord ==
  ASSUME NEW n \in 0..W, NEW v \in Nat, Pow2[n] <= v + 1, v + 1 < Pow2[n + 1]
  PROVE  /\ Len(UeCode(v)) = 2 * n + 1 /\ DOMAIN UeCode(v) = 1..(2 * n + 1)
         /\ \A e \in 1..(2 * n + 1) :
              UeCode(v)[e] = IF e <= n THEN 0 ELSE ((v + 1) \div Pow2[2 * n + 1 - e]) % 2
         /\ UeCode(v)[n + 1] = 1
<1> DEFINE c == [e \in 1..(2 * n + 1) |->
                   IF e <= n THEN 0 ELSE ((v + 1) \div Pow2[2 * n + 1 - e]) % 2]
<1>1. UeCode(v) = c
  BY ZerosOfValue, Zenon DEF UeCode
<1>2. n \in Nat /\ 2 * n + 1 \in Nat /\ n + 1 \in 1..(2 * n + 1) /\ ~(n + 1 <= n)
      /\ 2 * n + 1 - (n + 1) = n
  BY WidthAssumption
<1>3. \A e \in 1..(2 * n + 1) : c[e] \in Int
  <2> SUFFICES ASSUME NEW e \in 1..(2 * n + 1), ~(e <= n)
               PROVE  ((v + 1) \div Pow2[2 * n + 1 - e]) % 2 \in Int
    OBVIOUS
  <2>1. 2 * n + 1 - e \in Nat
    BY <1>2
  <2>2. Pow2[2 * n + 1 - e] \in Nat /\ 0 < Pow2[2 * n + 1 - e]
    BY <2>1, PowersPositive
  <2> QED BY <2>2
<1>4. DOMAIN c = 1..(2 * n + 1)
  OBVIOUS
<1>5. Len(c) = 2 * n + 1
  <2>1. c \in Seq(Int)
    BY <1>2, <1>3
  <2> QED BY <1>2, <1>4, <2>1
<1>6. ((v + 1) \div Pow2[n]) % 2 = 1
  <2>1. Pow2[n + 1] = 2 * Pow2[n] /\ Pow2[n] \in Nat /\ 0 < Pow2[n]
    BY <1>2, PowersIs, PowersPositive
  <2>2. (v + 1) \div Pow2[n] = 1
    BY <2>1
  <2> QED BY <2>2
<1>7. c[n + 1] = 1
  BY <1>2, <1>6
<1>8. \A e \in 1..(2 * n + 1) :
        c[e] = IF e <= n THEN 0 ELSE ((v + 1) \div Pow2[2 * n + 1 - e]) % 2
  OBVIOUS
<1> HIDE DEF c
<1> QED BY <1>1, <1>4, <1>5, <1>7, <1>8

(* A code stands at the start exactly if its zeros and its word do.        *)
LEMMA CodeStands ==
  ASSUME start \in Nat, NEW n \in 0..W, NEW w \in Nat, 0 < w, WordAt(start + n, n, w),
         \A k \in 0..(n - 1) : Bit(bytes, start + k) = 0,
         start + 2 * n + 1 <= Bits(bytes), Bits(bytes) \in Nat
  PROVE  Stands(w - 1) /\ start + Len(UeCode(w - 1)) = start + 2 * n + 1
<1> DEFINE v == w - 1
<1>1. n \in Nat /\ v \in Nat /\ v + 1 = w /\ Pow2[n] <= v + 1 /\ v + 1 < Pow2[n + 1]
  BY WidthAssumption DEF WordAt
<1> HIDE DEF v
<1>2. /\ Len(UeCode(v)) = 2 * n + 1 /\ DOMAIN UeCode(v) = 1..(2 * n + 1)
      /\ \A e \in 1..(2 * n + 1) :
           UeCode(v)[e] = IF e <= n THEN 0 ELSE (w \div Pow2[2 * n + 1 - e]) % 2
  BY <1>1, CodeOfWord
<1>3. ASSUME NEW e \in 1..(2 * n + 1)
      PROVE  Bit(bytes, start + e - 1) = UeCode(v)[e]
  <2>1. CASE e <= n
    <3>1. e - 1 \in 0..(n - 1) /\ start + e - 1 = start + (e - 1)
      BY <1>1, <2>1
    <3> QED BY <1>2, <2>1, <3>1
  <2>2. CASE ~(e <= n)
    <3>1. /\ e - n - 1 \in 0..n /\ start + e - 1 = (start + n) + (e - n - 1)
          /\ n - (e - n - 1) = 2 * n + 1 - e
      BY <1>1, <2>2
    <3>2. Bit(bytes, (start + n) + (e - n - 1)) = (w \div Pow2[n - (e - n - 1)]) % 2
      BY <3>1 DEF WordAt
    <3> QED BY <1>2, <2>2, <3>1, <3>2
  <2> QED BY <2>1, <2>2
<1>4. Stands(v)
  BY <1>1, <1>2, <1>3 DEF Stands
<1>5. start + Len(UeCode(v)) = start + 2 * n + 1
  BY <1>2
<1> QED BY <1>4, <1>5, Zenon DEF v

(* A code that stands shows how many zeros it starts with.                 *)
LEMMA StandingCode ==
  ASSUME start \in Nat, NEW v \in 0..(2 * Pow2[W] - 2), Stands(v)
  PROVE  \E n \in 0..W :
           /\ start + 2 * n + 1 <= Bits(bytes)
           /\ Bit(bytes, start + n) = 1
           /\ \A k \in 0..(n - 1) : Bit(bytes, start + k) = 0
           /\ Pow2[n] <= v + 1
<1>1. W \in Nat /\ Pow2[W] \in Nat /\ W + 1 \in Nat /\ Pow2[W + 1] = 2 * Pow2[W]
  BY WidthAssumption, PowersPositive, PowersIs
<1>2. v + 1 \in Nat /\ 0 < v + 1 /\ v + 1 < Pow2[W + 1] /\ v \in Nat
  BY <1>1
<1>3. PICK n \in 0..W : Pow2[n] <= v + 1 /\ v + 1 < Pow2[n + 1]
  <2>1. (W + 1) - 1 = W
    BY <1>1
  <2> QED BY <1>1, <1>2, <2>1, BitLength
<1>4. n \in 0..W /\ n \in Nat
  BY <1>1
<1>5. /\ Len(UeCode(v)) = 2 * n + 1 /\ DOMAIN UeCode(v) = 1..(2 * n + 1)
      /\ \A e \in 1..(2 * n + 1) :
           UeCode(v)[e] = IF e <= n THEN 0 ELSE ((v + 1) \div Pow2[2 * n + 1 - e]) % 2
      /\ UeCode(v)[n + 1] = 1
  BY <1>2, <1>3, <1>4, CodeOfWord
<1>6. Bit(bytes, start + n) = 1
  <2>1. n + 1 \in 1..(2 * n + 1) /\ start + (n + 1) - 1 = start + n
    BY <1>4
  <2> QED BY <1>5, <2>1 DEF Stands
<1>7. ASSUME NEW k \in 0..(n - 1) PROVE Bit(bytes, start + k) = 0
  <2>1. k + 1 \in 1..(2 * n + 1) /\ k + 1 <= n /\ start + (k + 1) - 1 = start + k
    BY <1>4
  <2> QED BY <1>5, <2>1 DEF Stands
<1>8. start + 2 * n + 1 <= Bits(bytes)
  BY <1>4, <1>5 DEF Stands
<1> QED BY <1>3, <1>6, <1>7, <1>8
-----------------------------------------------------------------------------
(* The inductive invariant: the zeros read, and the word after them as far as
   it has been read.                                                       *)
Word == Pow2[zeros - more] + suffix

Requested ==
  /\ bytes \in Seq(0..255) /\ bytes \in Streams
  /\ start \in Nat /\ start \in Starts /\ start <= Bits(bytes)
  /\ kind \in {"ue", "se", "te"}

NothingYet == suffix = 0 /\ more = 0 /\ read_value = 0

ZerosRead ==
  /\ zeros \in Nat /\ zeros <= W + 1
  /\ \A k \in 0..(zeros - 1) : Bit(bytes, start + k) = 0
  /\ Flag => zeros = 0

RunsOut ==
  \/ bit_pos = start + zeros /\ Bits(bytes) <= bit_pos
  \/ /\ ~Flag /\ bit_pos = start + zeros + 1
     /\ Bit(bytes, start + zeros) = 1 /\ Bits(bytes) < start + 2 * zeros + 1

WordRead ==
  /\ zeros <= W /\ more \in Nat /\ more <= zeros /\ suffix \in Nat
  /\ WordAt(start + zeros, zeros - more, Word)
  /\ bit_pos = start + 2 * zeros + 1 - more
  /\ start + 2 * zeros + 1 <= Bits(bytes)

(* What the shift and the addition make of the word.                       *)
Number == IF zeros < W THEN Word - 1 ELSE Word - Pow2[W]

NumberRead == WordRead /\ more = 0 /\ (zeros = W => ~checked)

FlagRead ==
  /\ start < Bits(bytes) /\ bit_pos = start + 1
  /\ suffix = 0 /\ more = 0
  /\ read_value = 1 - Bit(bytes, start)

ReaderInv ==
  /\ Requested /\ ZerosRead
  /\ bit_pos \in Nat /\ start <= bit_pos /\ bit_pos <= Bits(bytes)
  /\ read_status \in {"zeros", "suffix", "map", "ok", "too_long", "truncated", "panic"}
  /\ read_status = "zeros" => NothingYet /\ bit_pos = start + zeros /\ zeros <= W
  /\ read_status = "too_long" => NothingYet /\ ~Flag /\ zeros = W + 1
  /\ read_status = "truncated" =>
       suffix = 0 /\ more \in 0..zeros /\ read_value = 0 /\ zeros <= W /\ RunsOut
  /\ read_status = "suffix" => ~Flag /\ WordRead /\ read_value = 0
  /\ read_status = "panic" =>
       ~Flag /\ WordRead /\ more = 0 /\ zeros = W /\ checked /\ read_value = 0
  /\ read_status = "map" => ~Flag /\ NumberRead /\ read_value = Number
  /\ read_status = "ok" => IF Flag THEN FlagRead
                           ELSE /\ NumberRead
                                /\ read_value = (IF kind = "se" THEN SeOf(Number) ELSE Number)

LEMMA ReaderInvInit == ReaderInit => ReaderInv
<1> SUFFICES ASSUME ReaderInit PROVE ReaderInv
  OBVIOUS
<1>1. /\ bytes \in Streams /\ start \in Starts /\ start <= Bits(bytes)
      /\ kind \in {"ue", "se", "te"}
      /\ bit_pos = start /\ zeros = 0 /\ suffix = 0 /\ more = 0 /\ read_value = 0
      /\ read_status = "zeros"
  BY DEF ReaderInit
<1>2. bytes \in Seq(0..255) /\ start \in Nat
  BY <1>1, StreamsAssumption
<1>3. Requested
  BY <1>1, <1>2 DEF Requested
<1>4. ZerosRead
  BY <1>1, WidthAssumption DEF ZerosRead
<1>5. bit_pos = start + zeros /\ zeros <= W
  BY <1>1, <1>2, WidthAssumption
<1> QED BY <1>1, <1>2, <1>3, <1>4, <1>5 DEF ReaderInv, NothingYet

LEMMA BitsAreCounted == ASSUME Requested PROVE Bits(bytes) \in Nat
BY DEF Requested, Bits

LEMMA ReaderInvNext == ReaderInv /\ [ReaderNext]_readerVars => ReaderInv'
<1> SUFFICES ASSUME ReaderInv, [ReaderNext]_readerVars PROVE ReaderInv'
  OBVIOUS
<1>1. Requested /\ ZerosRead /\ bit_pos \in Nat /\ start <= bit_pos /\ bit_pos <= Bits(bytes)
  BY DEF ReaderInv
<1>2. Bits(bytes) \in Nat /\ start \in Nat /\ zeros \in Nat /\ W \in Nat
  BY <1>1, BitsAreCounted, WidthAssumption DEF Requested, ZerosRead
<1>3. ASSUME UNCHANGED request
      PROVE  Requested' /\ Bits(bytes)' = Bits(bytes) /\ start' = start /\ bytes' = bytes
             /\ (Flag' <=> Flag) /\ kind' = kind /\ checked' = checked
  <2>1. bytes' = bytes /\ start' = start /\ kind' = kind /\ te_x' = te_x /\ checked' = checked
    BY <1>3 DEF request
  <2> QED BY <1>1, <2>1 DEF Requested, Bits, Flag
<1>4. ASSUME UNCHANGED request, UNCHANGED zeros
      PROVE  ZerosRead'
  BY <1>1, <1>3, <1>4 DEF ZerosRead, Bit
<1>5. ASSUME ~EndOfStream
      PROVE  NextBit \in {0, 1} /\ bit_pos + 1 <= Bits(bytes)
  <2>1. bit_pos < Bits(bytes)
    BY <1>1, <1>2, <1>5 DEF EndOfStream
  <2> QED BY <1>1, <1>2, <2>1, BitIsBit DEF NextBit, Requested
<1>6. CASE ReadFlag
  <2>1. /\ read_status = "zeros" /\ Flag /\ ~EndOfStream /\ UNCHANGED request
        /\ read_value' = 1 - NextBit /\ bit_pos' = bit_pos + 1 /\ read_status' = "ok"
        /\ UNCHANGED zeros /\ suffix' = suffix /\ more' = more
    BY <1>6 DEF ReadFlag, Flag
  <2>2. bit_pos = start /\ suffix = 0 /\ more = 0
    BY <1>1, <1>2, <2>1 DEF ReaderInv, ZerosRead, NothingYet
  <2>3. Requested' /\ ZerosRead' /\ Flag' /\ Bits(bytes)' = Bits(bytes) /\ start' = start
    BY <1>3, <1>4, <2>1
  <2>4. bit_pos' \in Nat /\ start' <= bit_pos' /\ bit_pos' <= Bits(bytes)'
    BY <1>1, <1>2, <1>5, <2>1, <2>3
  <2>5. Bit(bytes, start)' = NextBit
    BY <1>3, <2>1, <2>2 DEF NextBit, Bit
  <2>6. FlagRead'
    BY <1>2, <1>5, <2>1, <2>2, <2>3, <2>5 DEF FlagRead
  <2> QED BY <2>1, <2>3, <2>4, <2>6 DEF ReaderInv
<1>7. ASSUME Leading
      PROVE  /\ NothingYet /\ bit_pos = start + zeros /\ zeros <= W /\ ~Flag
             /\ read_status = "zeros" /\ NextBit \in {0, 1} /\ bit_pos + 1 <= Bits(bytes)
             /\ NextBit = Bit(bytes, start + zeros)
  BY <1>5, <1>7 DEF Leading, ReaderInv, Flag, NextBit
<1>8. CASE LeadingZero
  <2>1. /\ Leading /\ NextBit = 0 /\ UNCHANGED request
        /\ bit_pos' = bit_pos + 1 /\ zeros' = zeros + 1
        /\ read_status' = IF zeros' > W THEN "too_long" ELSE "zeros"
        /\ suffix' = suffix /\ more' = more /\ read_value' = read_value
    BY <1>8 DEF LeadingZero, MAX_EXP_GOLOMB_LEADING_ZEROS
  <2>2. Requested' /\ ~Flag' /\ Bits(bytes)' = Bits(bytes) /\ start' = start /\ bytes' = bytes
    BY <1>3, <1>7, <2>1
  <2>3. zeros' \in Nat /\ zeros' <= W + 1 /\ bit_pos' = start + zeros'
        /\ start <= bit_pos' /\ bit_pos' <= Bits(bytes)
    BY <1>1, <1>2, <1>7, <2>1
  <2>4. ASSUME NEW k \in 0..(zeros' - 1) PROVE Bit(bytes, start + k) = 0
    <3>1. k \in 0..(zeros - 1) \/ k = zeros
      BY <1>2, <2>1
    <3> QED BY <1>1, <1>7, <2>1, <3>1 DEF ZerosRead
  <2>5. ZerosRead'
    <3>1. \A k \in 0..(zeros' - 1) : Bit(bytes', start' + k) = 0
      BY <2>2, <2>4
    <3> QED BY <2>2, <2>3, <3>1 DEF ZerosRead, Bit
  <2>6. NothingYet'
    BY <1>7, <2>1 DEF NothingYet
  <2>7. bit_pos' \in Nat
    BY <1>1, <2>1
  <2>8. CASE zeros' > W
    <3>1. zeros' = W + 1 /\ read_status' = "too_long"
      BY <1>2, <2>1, <2>3, <2>8
    <3> QED BY <2>2, <2>3, <2>5, <2>6, <2>7, <3>1 DEF ReaderInv
  <2>9. CASE ~(zeros' > W)
    <3>1. zeros' <= W /\ read_status' = "zeros"
      BY <1>2, <2>1, <2>3, <2>9
    <3> QED BY <2>2, <2>3, <2>5, <2>6, <2>7, <3>1 DEF ReaderInv
  <2> QED BY <2>8, <2>9
<1>9. CASE Marker
  <2>1. /\ Leading /\ NextBit = 1 /\ UNCHANGED request
        /\ bit_pos' = bit_pos + 1 /\ more' = zeros
        /\ read_status' = IF zeros > 0 /\ bit_pos' + zeros > Bits(bytes)
                          THEN "truncated" ELSE "suffix"
        /\ zeros' = zeros /\ suffix' = suffix /\ read_value' = read_value
    BY <1>9 DEF Marker
  <2>2. /\ Requested' /\ ~Flag' /\ Bits(bytes)' = Bits(bytes) /\ start' = start /\ bytes' = bytes
        /\ ZerosRead'
    BY <1>3, <1>4, <1>7, <2>1
  <2>3. /\ bit_pos' = start + zeros + 1 /\ bit_pos' \in Nat
        /\ start <= bit_pos' /\ bit_pos' <= Bits(bytes)
        /\ suffix' = 0 /\ read_value' = 0 /\ zeros <= W /\ Bit(bytes, start + zeros) = 1
    BY <1>1, <1>2, <1>7, <2>1 DEF NothingYet
  <2>4. CASE zeros > 0 /\ bit_pos' + zeros > Bits(bytes)
    <3>1. read_status' = "truncated" /\ more' \in 0..zeros'
      BY <1>2, <2>1, <2>4
    <3>2. Bits(bytes) < start + 2 * zeros + 1
      BY <1>2, <2>3, <2>4
    <3>3. Bit(bytes, start + zeros)' = 1
      BY <2>1, <2>2, <2>3 DEF Bit
    <3>4. RunsOut'
      BY <2>1, <2>2, <2>3, <3>2, <3>3 DEF RunsOut
    <3> QED BY <2>1, <2>2, <2>3, <3>1, <3>4 DEF ReaderInv
  <2>5. CASE ~(zeros > 0 /\ bit_pos' + zeros > Bits(bytes))
    <3>1. read_status' = "suffix"
      BY <2>1, <2>5
    <3>2. start + 2 * zeros + 1 <= Bits(bytes) /\ bit_pos' = start + 2 * zeros + 1 - zeros
      BY <1>2, <2>3, <2>5
    <3>3. WordAt(start + zeros, 0, 1)
      <4>1. start + zeros \in Nat
        BY <1>2
      <4> QED BY <2>3, <4>1, WordStarts
    <3>4. zeros' - more' = 0 /\ Word' = 1
      <4>1. zeros' - more' = 0
        BY <1>2, <2>1
      <4>2. Word' = Pow2[0] + 0
        BY <2>3, <4>1 DEF Word
      <4> QED BY <4>1, <4>2, PowersIs
    <3>5. WordAt(start + zeros, zeros - more, Word)'
      BY <2>1, <2>2, <3>3, <3>4 DEF WordAt, Bit
    <3>6. WordRead'
      BY <1>2, <2>1, <2>2, <2>3, <3>2, <3>5 DEF WordRead
    <3> QED BY <2>1, <2>2, <2>3, <3>1, <3>6 DEF ReaderInv
  <2> QED BY <2>4, <2>5
<1>10. CASE ReadSuffixBit
  <2>1. /\ read_status = "suffix" /\ more > 0 /\ UNCHANGED request
        /\ suffix' = 2 * suffix + NextBit /\ bit_pos' = bit_pos + 1 /\ more' = more - 1
        /\ zeros' = zeros /\ read_value' = read_value /\ read_status' = "suffix"
    BY <1>10 DEF ReadSuffixBit
  <2>2. ~Flag /\ WordRead /\ read_value = 0
    BY <2>1 DEF ReaderInv
  <2>3. /\ zeros <= W /\ more \in Nat /\ more <= zeros /\ suffix \in Nat
        /\ WordAt(start + zeros, zeros - more, Word)
        /\ bit_pos = start + 2 * zeros + 1 - more
        /\ start + 2 * zeros + 1 <= Bits(bytes)
    BY <2>2 DEF WordRead
  <2>4. ~EndOfStream
    BY <1>1, <1>2, <2>1, <2>3 DEF EndOfStream
  <2>5. NextBit \in {0, 1} /\ bit_pos + 1 <= Bits(bytes)
    BY <1>5, <2>4
  <2>6. /\ Requested' /\ ~Flag' /\ Bits(bytes)' = Bits(bytes) /\ start' = start /\ bytes' = bytes
        /\ ZerosRead'
    BY <1>3, <1>4, <2>1, <2>2
  <2> DEFINE j == zeros - more
  <2>7. /\ j \in Nat /\ zeros' - more' = j + 1 /\ start + zeros \in Nat
        /\ (start + zeros) + (j + 1) = bit_pos
    BY <1>1, <1>2, <2>1, <2>3
  <2>8. Word \in Nat /\ Word = Pow2[j] + suffix /\ Pow2[j + 1] = 2 * Pow2[j] /\ Pow2[j] \in Nat
    BY <2>3, <2>7, PowersIs, PowersPositive DEF Word
  <2>9. WordAt(start + zeros, j, Word) /\ Bit(bytes, (start + zeros) + (j + 1)) = NextBit
    BY <2>3, <2>7 DEF NextBit
  <2> HIDE DEF j
  <2>10. WordAt(start + zeros, j + 1, 2 * Word + NextBit)
    BY <2>5, <2>7, <2>8, <2>9, WordGrows
  <2>11. Word' = 2 * Word + NextBit
    <3>1. Word' = Pow2[j + 1] + (2 * suffix + NextBit)
      BY <2>1, <2>7 DEF Word
    <3> QED BY <2>3, <2>5, <2>8, <3>1
  <2>12. WordAt(start + zeros, zeros - more, Word)'
    BY <2>1, <2>6, <2>7, <2>10, <2>11 DEF WordAt, Bit
  <2>13. /\ more' \in Nat /\ more' <= zeros' /\ suffix' \in Nat
         /\ bit_pos' = start' + 2 * zeros' + 1 - more'
    BY <1>1, <1>2, <2>1, <2>3, <2>5, <2>6
  <2>14. WordRead'
    BY <2>1, <2>3, <2>6, <2>12, <2>13 DEF WordRead
  <2>15. bit_pos' \in Nat /\ start' <= bit_pos' /\ bit_pos' <= Bits(bytes)'
    BY <1>1, <1>2, <2>1, <2>5, <2>6
  <2> QED BY <2>1, <2>2, <2>6, <2>14, <2>15 DEF ReaderInv
<1>11. CASE Truncated
  <2>1. /\ read_status = "zeros" /\ EndOfStream /\ read_status' = "truncated"
        /\ UNCHANGED request /\ bit_pos' = bit_pos /\ zeros' = zeros
        /\ suffix' = suffix /\ more' = more /\ read_value' = read_value
    BY <1>11 DEF Truncated
  <2>2. /\ Requested' /\ Bits(bytes)' = Bits(bytes) /\ start' = start /\ bytes' = bytes
        /\ ZerosRead'
    BY <1>3, <1>4, <2>1
  <2>3. NothingYet /\ bit_pos = start + zeros /\ zeros <= W
    BY <2>1 DEF ReaderInv
  <2>4. RunsOut'
    BY <2>1, <2>2, <2>3 DEF RunsOut, EndOfStream
  <2>5. suffix' = 0 /\ more' \in 0..zeros' /\ read_value' = 0
    BY <1>2, <2>1, <2>3 DEF NothingYet
  <2> QED BY <1>1, <2>1, <2>2, <2>3, <2>4, <2>5 DEF ReaderInv
<1>12. ASSUME WordRead, UNCHANGED <<request, bit_pos, zeros, suffix, more>>
       PROVE  WordRead' /\ Word' = Word
  <2>1. /\ Bits(bytes)' = Bits(bytes) /\ start' = start /\ bytes' = bytes
        /\ bit_pos' = bit_pos /\ zeros' = zeros /\ suffix' = suffix /\ more' = more
    BY <1>3, <1>12
  <2>2. Word' = Word
    BY <2>1 DEF Word
  <2>3. WordAt(start + zeros, zeros - more, Word)'
    BY <1>12, <2>1, <2>2 DEF WordRead, WordAt, Bit
  <2> QED BY <1>12, <2>1, <2>2, <2>3 DEF WordRead
<1>13. CASE AddSuffix
  <2>1. /\ read_status = "suffix" /\ more = 0
        /\ IF zeros = W /\ checked
           THEN read_status' = "panic" /\ read_value' = read_value
           ELSE read_status' = "map" /\ read_value' = Pow2[zeros % W] - 1 + suffix
        /\ UNCHANGED request /\ bit_pos' = bit_pos /\ zeros' = zeros
        /\ suffix' = suffix /\ more' = more
    BY <1>13 DEF AddSuffix
  <2>2. ~Flag /\ WordRead /\ read_value = 0
    BY <2>1 DEF ReaderInv
  <2>3. /\ Requested' /\ ~Flag' /\ Bits(bytes)' = Bits(bytes) /\ start' = start
        /\ checked' = checked /\ ZerosRead' /\ WordRead' /\ Word' = Word
    BY <1>3, <1>4, <1>12, <2>1, <2>2
  <2>4. CASE zeros = W /\ checked
    <3>1. zeros' = W /\ checked' /\ read_status' = "panic" /\ read_value' = 0 /\ more' = 0
      BY <2>1, <2>2, <2>3, <2>4
    <3> QED BY <1>1, <2>1, <2>3, <3>1 DEF ReaderInv
  <2>5. CASE ~(zeros = W /\ checked)
    <3>1. zeros - more = zeros /\ zeros <= W
      BY <1>2, <2>1, <2>2 DEF WordRead
    <3>2. /\ Word = Pow2[zeros] + suffix /\ suffix \in Nat /\ Pow2[zeros] \in Nat
          /\ Pow2[0] = 1 /\ Pow2[W] \in Nat
      BY <1>2, <2>2, <3>1, PowersIs, PowersPositive DEF Word, WordRead
    <3>3. Pow2[zeros % W] - 1 + suffix = Number
      <4>1. CASE zeros < W
        <5>1. zeros % W = zeros
          BY <1>2, <4>1
        <5> QED BY <3>2, <4>1, <5>1 DEF Number
      <4>2. CASE ~(zeros < W)
        <5>1. zeros = W /\ zeros % W = 0
          BY <1>2, <3>1, <4>2, WidthAssumption
        <5> QED BY <3>2, <4>2, <5>1 DEF Number
      <4> QED BY <4>1, <4>2
    <3>4. read_value' = Number' /\ read_status' = "map" /\ NumberRead'
      <4>1. Number' = Number
        BY <2>1, <2>3 DEF Number
      <4> QED BY <2>1, <2>3, <2>5, <3>3, <4>1 DEF NumberRead
    <3> QED BY <1>1, <2>1, <2>3, <3>4 DEF ReaderInv
  <2> QED BY <2>4, <2>5
<1>14. CASE Map
  <2>1. /\ read_status = "map" /\ read_status' = "ok"
        /\ read_value' = IF kind = "se" THEN SeOf(read_value) ELSE read_value
        /\ UNCHANGED request /\ bit_pos' = bit_pos /\ zeros' = zeros
        /\ suffix' = suffix /\ more' = more
    BY <1>14 DEF Map
  <2>2. ~Flag /\ NumberRead /\ WordRead /\ read_value = Number
    BY <2>1 DEF ReaderInv, NumberRead
  <2>3. /\ Requested' /\ ~Flag' /\ Bits(bytes)' = Bits(bytes) /\ start' = start /\ kind' = kind
        /\ checked' = checked /\ ZerosRead' /\ WordRead' /\ Word' = Word
    BY <1>3, <1>4, <1>12, <2>1, <2>2
  <2>4. Number' = Number /\ NumberRead'
    BY <2>1, <2>2, <2>3 DEF Number, NumberRead
  <2>5. read_value' = IF kind' = "se" THEN SeOf(Number') ELSE Number'
    BY <2>1, <2>2, <2>3, <2>4
  <2> QED BY <1>1, <2>1, <2>3, <2>4, <2>5 DEF ReaderInv
<1>15. CASE UNCHANGED readerVars
  <2>1. /\ UNCHANGED request /\ bit_pos' = bit_pos /\ zeros' = zeros
        /\ suffix' = suffix /\ more' = more
        /\ read_value' = read_value /\ read_status' = read_status
    BY <1>15 DEF readerVars
  <2>2. /\ Requested' /\ Bits(bytes)' = Bits(bytes) /\ start' = start /\ bytes' = bytes
        /\ kind' = kind /\ checked' = checked /\ (Flag' <=> Flag) /\ ZerosRead'
    BY <1>3, <1>4, <2>1
  <2>3. WordRead => WordRead' /\ Word' = Word /\ Number' = Number /\ (NumberRead => NumberRead')
    BY <1>12, <2>1, <2>2 DEF Number, NumberRead
  <2>4. NothingYet => NothingYet'
    BY <2>1 DEF NothingYet
  <2>5. RunsOut => RunsOut'
    BY <2>1, <2>2 DEF RunsOut, Bit
  <2>6. FlagRead => FlagRead'
    BY <2>1, <2>2 DEF FlagRead, Bit
  <2>7. NumberRead => WordRead
    BY DEF NumberRead
  <2> QED BY <1>1, <2>1, <2>2, <2>3, <2>4, <2>5, <2>6, <2>7 DEF ReaderInv
<1> QED BY <1>6, <1>8, <1>9, <1>10, <1>11, <1>13, <1>14, <1>15 DEF ReaderNext
LEMMA ReaderInductive == ReaderSpec => []ReaderInv
BY ReaderInvInit, ReaderInvNext, PTL DEF ReaderSpec

(* A word that is shorter than W.                                          *)
LEMMA WordFits ==
  ASSUME ReaderInv, WordRead
  PROVE  /\ suffix < Pow2[W] /\ Word \in Nat /\ 0 < Word
         /\ more = 0 /\ zeros < W => Word - 1 \in 0..(Pow2[W] - 2)
         /\ more = 0 /\ zeros = W => Word - Pow2[W] = suffix
<1>1. /\ zeros \in Nat /\ W \in Nat /\ more \in Nat /\ more <= zeros /\ zeros <= W
      /\ suffix \in Nat
  BY WidthAssumption DEF WordRead, ReaderInv, ZerosRead
<1> DEFINE j == zeros - more
<1>2. j \in Nat /\ j <= W
  BY <1>1
<1>3. /\ Pow2[j] \in Nat /\ 0 < Pow2[j] /\ Pow2[j + 1] = 2 * Pow2[j]
      /\ Pow2[W] \in Nat /\ Pow2[j] <= Pow2[W]
  BY <1>1, <1>2, PowersIs, PowersPositive, PowersGrow
<1>4. Word = Pow2[j] + suffix /\ Word < Pow2[j + 1]
  BY DEF WordRead, WordAt, Word
<1>5. ASSUME more = 0, zeros < W PROVE Pow2[j + 1] <= Pow2[W]
  <2>1. j + 1 \in Nat /\ j + 1 <= W
    BY <1>1, <1>5
  <2> QED BY <1>1, <2>1, PowersGrow
<1>6. ASSUME more = 0, zeros = W PROVE j = W
  BY <1>1, <1>6
<1> HIDE DEF j
<1> QED BY <1>1, <1>3, <1>4, <1>5, <1>6

(* The two mappings of read_se.                                            *)
Index(v) == IF v > 0 THEN 2 * v - 1 ELSE -2 * v

LEMMA TopPower ==
  /\ Pow2[W] \in Nat /\ Pow2[W - 1] \in Nat /\ 1 < Pow2[W - 1]
  /\ Pow2[W] = 2 * Pow2[W - 1]
<1>1. W - 1 \in Nat /\ (W - 1) + 1 = W /\ W - 2 \in Nat /\ (W - 2) + 1 = W - 1
  BY WidthAssumption
<1>2. Pow2[W] = 2 * Pow2[W - 1] /\ Pow2[W - 1] = 2 * Pow2[W - 2]
  BY <1>1, PowersIs
<1>3. Pow2[W - 1] \in Nat /\ Pow2[W - 2] \in Nat /\ 0 < Pow2[W - 2]
  BY <1>1, PowersPositive
<1> QED BY <1>2, <1>3

LEMMA SignedIndex ==
  ASSUME NEW k \in 0..(Pow2[W] - 2)
  PROVE  SeOf(k) \in -(Pow2[W - 1] - 1)..(Pow2[W - 1] - 1) /\ Index(SeOf(k)) = k
<1>1. PICK p : p = Pow2[W - 1]
  OBVIOUS
<1>2. p \in Nat /\ Pow2[W] = 2 * p /\ k \in Nat /\ k <= 2 * p - 2
  BY <1>1, TopPower
<1>3. CASE k % 2 = 1
  <2>1. (k + 1) % Pow2[W] = k + 1
    BY <1>2
  <2>2. SeOf(k) = (k + 1) \div 2
    BY <1>3, <2>1 DEF SeOf
  <2>3. (k + 1) \div 2 \in Int /\ (k + 1) \div 2 > 0 /\ 2 * ((k + 1) \div 2) = k + 1
    BY <1>2, <1>3
  <2> QED BY <1>1, <1>2, <2>2, <2>3 DEF Index
<1>4. CASE k % 2 # 1
  <2>1. SeOf(k) = -(k \div 2)
    BY <1>4 DEF SeOf
  <2>2. k \div 2 \in Nat /\ 2 * (k \div 2) = k
    BY <1>2, <1>4
  <2> QED BY <1>1, <1>2, <2>1, <2>2 DEF Index
<1> QED BY <1>3, <1>4

(* The mapping of the largest word stays in its range as well.             *)
LEMMA SignedRange ==
  ASSUME NEW k \in 0..(Pow2[W] - 1)
  PROVE  SeOf(k) \in -(Pow2[W - 1] - 1)..(Pow2[W] - 1)
<1>1. PICK p : p = Pow2[W - 1]
  OBVIOUS
<1>2. p \in Nat /\ Pow2[W] = 2 * p /\ k \in Nat /\ k <= 2 * p - 1 /\ 1 < p
  BY <1>1, TopPower
<1>3. CASE k = 2 * p - 1
  <2>1. (k + 1) % Pow2[W] = 0
    BY <1>2, <1>3
  <2>2. k % 2 = 1
    BY <1>2, <1>3
  <2>3. SeOf(k) = 0
    BY <2>1, <2>2 DEF SeOf
  <2> QED BY <1>1, <1>2, <2>3
<1>4. CASE k # 2 * p - 1
  <2>1. k \in 0..(Pow2[W] - 2)
    BY <1>2, <1>4
  <2>2. SeOf(k) \in -(p - 1)..(p - 1)
    BY <1>1, <2>1, SignedIndex
  <2> QED BY <1>1, <1>2, <2>2
<1> QED BY <1>3, <1>4

LEMMA IndexInRange ==
  ASSUME NEW p \in Nat, NEW v \in -(p - 1)..(p - 1)
  PROVE  Index(v) \in 0..(2 * p - 2)
BY DEF Index

(* What a read that succeeds returns.                                      *)
LEMMA ReturnedValue ==
  ASSUME ReaderInv, read_status = "ok"
  PROVE  /\ read_value \in -(Pow2[W - 1] - 1)..(Pow2[W] - 1)
         /\ \/ /\ read_value \in ReadValues
               /\ CodedAtStart(read_value) /\ bit_pos = start + Len(Code(read_value))
            \/ /\ ~checked /\ ~Flag
               /\ \E v \in LongNumbers : /\ Stands(v) /\ bit_pos = start + Len(UeCode(v))
                                         /\ read_value = Wrapped(v)
<1>1. Requested /\ ZerosRead
  BY DEF ReaderInv
<1>2. Bits(bytes) \in Nat /\ start \in Nat
  BY <1>1, BitsAreCounted DEF Requested
<1>3. CASE Flag
  <2>1. FlagRead /\ kind # "se"
    BY <1>3 DEF ReaderInv, Flag
  <2>2. start < Bits(bytes) /\ Bit(bytes, start) \in {0, 1}
    BY <1>1, <1>2, <2>1, BitIsBit DEF FlagRead, Requested
  <2>3. read_value \in 0..1 /\ 1 - read_value = Bit(bytes, start)
    BY <2>1, <2>2 DEF FlagRead
  <2>4. ReadValues = 0..1 /\ Code(read_value) = <<1 - read_value>>
    BY <1>3, <2>1, Zenon DEF ReadValues, Code
  <2>5. CodedAtStart(read_value)
    <3>1. Len(<<1 - read_value>>) = 1 /\ DOMAIN <<1 - read_value>> = 1..1
      OBVIOUS
    <3>2. start + 1 <= Bits(bytes)
      BY <1>2, <2>2
    <3>3. \A e \in 1..1 : Bit(bytes, start + e - 1) = <<1 - read_value>>[e]
      <4>1. start + 1 - 1 = start
        BY <1>2
      <4>2. \A e \in 1..1 : e = 1
        OBVIOUS
      <4>3. Bit(bytes, start + 1 - 1) = <<1 - read_value>>[1]
        BY <2>3, <4>1
      <4> QED BY <4>2, <4>3, Zenon
    <3> QED BY <2>4, <3>1, <3>2, <3>3, Zenon DEF CodedAtStart
  <2>6. \A z \in 0..1 : z \in -(Pow2[W - 1] - 1)..(Pow2[W] - 1)
    BY TopPower
  <2>7. Len(Code(read_value)) = 1
    BY <2>4
  <2> QED BY <2>1, <2>3, <2>4, <2>5, <2>6, <2>7 DEF FlagRead
<1>4. CASE ~Flag /\ zeros < W
  <2>1. /\ WordRead /\ more = 0 /\ zeros < W
        /\ read_value = (IF kind = "se" THEN SeOf(Word - 1) ELSE Word - 1)
    BY <1>4 DEF ReaderInv, NumberRead, Number
  <2>2. Word \in Nat /\ 0 < Word /\ Word - 1 \in 0..(Pow2[W] - 2)
    BY <2>1, WordFits
  <2>3. /\ zeros \in 0..W /\ zeros - more = zeros
        /\ start + 2 * zeros + 1 <= Bits(bytes)
        /\ WordAt(start + zeros, zeros, Word)
        /\ \A k \in 0..(zeros - 1) : Bit(bytes, start + k) = 0
        /\ bit_pos = start + 2 * zeros + 1
    BY <1>1, <1>2, <2>1, WidthAssumption DEF WordRead, ZerosRead
  <2>4. Stands(Word - 1) /\ bit_pos = start + Len(UeCode(Word - 1))
    BY <1>2, <2>2, <2>3, CodeStands
  <2>5. /\ read_value \in ReadValues /\ Code(read_value) = UeCode(Word - 1)
        /\ read_value \in -(Pow2[W - 1] - 1)..(Pow2[W] - 1)
    <3>1. CASE kind = "se"
      <4>1. /\ SeOf(Word - 1) \in -(Pow2[W - 1] - 1)..(Pow2[W - 1] - 1)
            /\ Index(SeOf(Word - 1)) = Word - 1
        BY <2>2, SignedIndex
      <4>2. ReadValues = -(Pow2[W - 1] - 1)..(Pow2[W - 1] - 1)
        BY <1>4, <3>1 DEF ReadValues
      <4>3. Code(read_value) = UeCode(Index(read_value))
        BY <1>4, <3>1 DEF Code, Index
      <4>4. read_value = SeOf(Word - 1)
        BY <2>1, <3>1
      <4>5. \A z \in -(Pow2[W - 1] - 1)..(Pow2[W - 1] - 1) : z \in -(Pow2[W - 1] - 1)..(Pow2[W] - 1)
        BY TopPower
      <4> QED BY <4>1, <4>2, <4>3, <4>4, <4>5, Zenon
    <3>2. CASE kind # "se"
      <4>1. ReadValues = 0..(Pow2[W] - 2) /\ Code(read_value) = UeCode(read_value)
        BY <1>4, <3>2 DEF ReadValues, Code
      <4>2. read_value = Word - 1
        BY <2>1, <3>2
      <4>3. \A z \in 0..(Pow2[W] - 2) : z \in -(Pow2[W - 1] - 1)..(Pow2[W] - 1)
        BY TopPower
      <4> QED BY <2>2, <4>1, <4>2, <4>3, Zenon
    <3> QED BY <3>1, <3>2
  <2> QED BY <2>4, <2>5 DEF CodedAtStart, Stands
<1>5. CASE ~Flag /\ ~(zeros < W)
  <2>1. /\ WordRead /\ more = 0 /\ zeros = W /\ ~checked
        /\ read_value = (IF kind = "se" THEN SeOf(Word - Pow2[W]) ELSE Word - Pow2[W])
    <3>1. NumberRead
      BY <1>5 DEF ReaderInv
    <3>2. zeros = W
      BY <1>2, <1>5, <3>1, WidthAssumption DEF NumberRead, WordRead, Requested, ReaderInv, ZerosRead
    <3> QED BY <1>5, <3>1, <3>2 DEF ReaderInv, NumberRead, Number
  <2>2. /\ suffix \in Nat /\ suffix < Pow2[W] /\ Word \in Nat /\ 0 < Word
        /\ Word - Pow2[W] = suffix
    BY <2>1, WordFits DEF WordRead
  <2>3. /\ zeros \in 0..W /\ zeros - more = zeros
        /\ start + 2 * zeros + 1 <= Bits(bytes)
        /\ WordAt(start + zeros, zeros, Word)
        /\ \A k \in 0..(zeros - 1) : Bit(bytes, start + k) = 0
        /\ bit_pos = start + 2 * zeros + 1
    BY <1>1, <1>2, <2>1, WidthAssumption DEF WordRead, ZerosRead
  <2>4. Stands(Word - 1) /\ bit_pos = start + Len(UeCode(Word - 1))
    BY <1>2, <2>2, <2>3, CodeStands
  <2>5. Word - 1 \in LongNumbers /\ (Word - 1) - (Pow2[W] - 1) = suffix
        /\ suffix \in 0..(Pow2[W] - 1)
    BY <2>2, TopPower DEF LongNumbers
  <2>6. read_value = Wrapped(Word - 1)
    BY <2>1, <2>2, <2>5 DEF Wrapped
  <2>7. read_value \in -(Pow2[W - 1] - 1)..(Pow2[W] - 1)
    <3>1. SeOf(suffix) \in -(Pow2[W - 1] - 1)..(Pow2[W] - 1)
      BY <2>5, SignedRange
    <3>2. suffix \in -(Pow2[W - 1] - 1)..(Pow2[W] - 1)
      BY <2>5, TopPower
    <3> QED BY <2>1, <2>2, <3>1, <3>2
  <2> QED BY <1>5, <2>1, <2>4, <2>5, <2>6, <2>7
<1> QED BY <1>3, <1>4, <1>5

(* Where a read runs out, or meets too many zeros, no number's code stands. *)
LEMMA NoNumberStands ==
  ASSUME ReaderInv, read_status \in {"too_long", "truncated"}, ~Flag,
         NEW u \in 0..(2 * Pow2[W] - 2), Stands(u)
  PROVE  FALSE
<1>1. Requested /\ ZerosRead
  BY DEF ReaderInv
<1>2. Bits(bytes) \in Nat /\ start \in Nat /\ zeros \in Nat /\ W \in Nat
  BY <1>1, BitsAreCounted, WidthAssumption DEF Requested, ZerosRead
<1>3. PICK n \in 0..W : /\ start + 2 * n + 1 <= Bits(bytes)
                        /\ Bit(bytes, start + n) = 1
                        /\ \A k \in 0..(n - 1) : Bit(bytes, start + k) = 0
  BY <1>2, StandingCode
<1>4. ~(n \in 0..(zeros - 1))
  BY <1>1, <1>3 DEF ZerosRead
<1>5. n \in Nat /\ zeros <= n /\ n <= W
  BY <1>2, <1>4
<1>6. read_status = "truncated" /\ RunsOut
  BY <1>2, <1>5 DEF ReaderInv
<1>7. CASE bit_pos = start + zeros /\ Bits(bytes) <= bit_pos
  BY <1>2, <1>3, <1>5, <1>7
<1>8. CASE Bit(bytes, start + zeros) = 1 /\ Bits(bytes) < start + 2 * zeros + 1
  <2>1. zeros < n
    BY <1>2, <1>3, <1>5, <1>8
  <2>2. zeros \in 0..(n - 1)
    BY <1>2, <1>5, <2>1
  <2> QED BY <1>3, <1>8, <2>2
<1> QED BY <1>6, <1>7, <1>8 DEF RunsOut

(* Where a read fails no code stands.                                      *)
LEMMA NoCodeStands ==
  ASSUME ReaderInv, read_status \in {"too_long", "truncated"},
         NEW v \in ReadValues, CodedAtStart(v)
  PROVE  FALSE
<1>1. Requested /\ ZerosRead
  BY DEF ReaderInv
<1>2. Bits(bytes) \in Nat /\ start \in Nat /\ zeros \in Nat /\ W \in Nat
  BY <1>1, BitsAreCounted, WidthAssumption DEF Requested, ZerosRead
<1>3. CASE Flag
  <2>1. read_status = "truncated" /\ zeros = 0 /\ RunsOut
    BY <1>1, <1>2, <1>3 DEF ReaderInv, ZerosRead
  <2>2. Bits(bytes) <= start
    BY <1>2, <1>3, <2>1 DEF RunsOut
  <2>3. Len(Code(v)) = 1
    <3>1. Code(v) = <<1 - v>>
      BY <1>3, Zenon DEF Code, Flag
    <3> QED BY <3>1
  <2> QED BY <1>2, <2>2, <2>3 DEF CodedAtStart
<1>4. CASE ~Flag
  <2>1. PICK u \in 0..(Pow2[W] - 2) : Code(v) = UeCode(u)
    <3>1. CASE kind = "se"
      <4>1. v \in -(Pow2[W - 1] - 1)..(Pow2[W - 1] - 1) /\ Code(v) = UeCode(Index(v))
        BY <1>4, <3>1 DEF ReadValues, Code, Index
      <4>2. Index(v) \in 0..(Pow2[W] - 2)
        BY <4>1, TopPower, IndexInRange
      <4> QED BY <4>1, <4>2
    <3>2. CASE kind # "se"
      BY <1>4, <3>2 DEF ReadValues, Code
    <3> QED BY <3>1, <3>2
  <2>2. Stands(u)
    BY <2>1 DEF Stands, CodedAtStart
  <2>3. u \in 0..(2 * Pow2[W] - 2)
    BY TopPower
  <2> QED BY <1>4, <2>2, <2>3, NoNumberStands
<1> QED BY <1>3, <1>4

(* Where a read panics a long code stands.                                 *)
LEMMA PanicStands ==
  ASSUME ReaderInv, read_status = "panic"
  PROVE  checked /\ \E v \in LongNumbers : Stands(v)
<1>1. /\ WordRead /\ more = 0 /\ zeros = W /\ checked /\ Requested /\ ZerosRead
  BY DEF ReaderInv
<1>2. Bits(bytes) \in Nat /\ start \in Nat
  BY <1>1, BitsAreCounted DEF Requested
<1>3. /\ suffix \in Nat /\ suffix < Pow2[W] /\ Word \in Nat /\ 0 < Word
      /\ Word - Pow2[W] = suffix
  BY <1>1, WordFits DEF WordRead
<1>4. /\ zeros \in 0..W /\ zeros - more = zeros
      /\ start + 2 * zeros + 1 <= Bits(bytes)
      /\ WordAt(start + zeros, zeros, Word)
      /\ \A k \in 0..(zeros - 1) : Bit(bytes, start + k) = 0
  BY <1>1, <1>2, WidthAssumption DEF WordRead, ZerosRead
<1>5. Stands(Word - 1)
  BY <1>2, <1>3, <1>4, CodeStands
<1>6. Word - 1 \in LongNumbers
  BY <1>3, TopPower DEF LongNumbers
<1> QED BY <1>1, <1>5, <1>6

(* In words of any width, from any position of any bytes: a read stays in the
   stream and returns the value whose code stands where it began, having taken
   that code and no bit more, and it fails only where there is no such code.
   The codes with W zeros are the exception: they panic in a build that checks
   for overflow and are read as another number, the Wrapped one, in one that
   does not.
   bit_pos, the suffix and the value keep their ranges (bitreader.rs 64-146). *)
THEOREM ReaderReadsOwnCode == ReaderSpec => []ReadsOwnCode
<1>1. ASSUME ReaderInv PROVE ReaderTypeOK
  <2>1. /\ Requested /\ zeros \in Nat /\ zeros <= W + 1 /\ W \in Nat /\ Bits(bytes) \in Nat
        /\ bit_pos \in Nat /\ start <= bit_pos /\ bit_pos <= Bits(bytes)
        /\ read_status \in {"zeros", "suffix", "map", "ok", "too_long", "truncated", "panic"}
    BY <1>1, BitsAreCounted, WidthAssumption DEF ReaderInv, ZerosRead
  <2>2. start \in Nat /\ bytes \in Streams /\ start \in Starts /\ kind \in {"ue", "se", "te"}
    BY <2>1 DEF Requested
  <2>3. /\ suffix \in 0..(Pow2[W] - 1) /\ more \in 0..zeros
        /\ read_value \in -(Pow2[W - 1] - 1)..(Pow2[W] - 1)
    <3> DEFINE Fine == /\ suffix \in 0..(Pow2[W] - 1) /\ more \in 0..zeros
                       /\ read_value \in -(Pow2[W - 1] - 1)..(Pow2[W] - 1)
    <3>1. 0 \in 0..(Pow2[W] - 1) /\ 0 \in -(Pow2[W - 1] - 1)..(Pow2[W] - 1) /\ 0 \in 0..zeros
      BY <2>1, TopPower
    <3>2. WordRead => suffix \in 0..(Pow2[W] - 1) /\ more \in 0..zeros
      <4>1. WordRead => suffix \in Nat /\ suffix < Pow2[W] /\ more \in Nat /\ more <= zeros
        BY <1>1, WordFits DEF WordRead
      <4> QED BY <2>1, <4>1, TopPower
    <3>3. CASE read_status \in {"zeros", "too_long", "truncated"}
      BY <1>1, <3>1, <3>3 DEF ReaderInv, NothingYet
    <3>4. CASE read_status \in {"suffix", "panic"}
      BY <1>1, <3>1, <3>2, <3>4 DEF ReaderInv
    <3>5. CASE read_status = "map"
      <4>1. WordRead /\ more = 0 /\ read_value = Number
        BY <1>1, <3>5 DEF ReaderInv, NumberRead
      <4>2. read_value \in -(Pow2[W - 1] - 1)..(Pow2[W] - 1)
        <5>1. CASE zeros < W
          <6>1. Word - 1 \in 0..(Pow2[W] - 2) /\ read_value = Word - 1
            BY <1>1, <4>1, <5>1, WordFits DEF Number
          <6> QED BY <6>1, TopPower
        <5>2. CASE ~(zeros < W)
          <6>1. zeros = W
            BY <2>1, <4>1, <5>2 DEF WordRead
          <6>2. read_value = suffix /\ suffix \in Nat /\ suffix < Pow2[W]
            BY <1>1, <4>1, <5>2, <6>1, WordFits DEF Number, WordRead
          <6> QED BY <6>2, TopPower
        <5> QED BY <5>1, <5>2
      <4> QED BY <3>2, <4>1, <4>2
    <3>6. CASE read_status = "ok"
      <4>1. read_value \in -(Pow2[W - 1] - 1)..(Pow2[W] - 1)
        BY <1>1, <3>6, ReturnedValue
      <4>2. WordRead \/ (suffix = 0 /\ more = 0)
        BY <1>1, <3>6 DEF ReaderInv, FlagRead, NumberRead
      <4> QED BY <3>1, <3>2, <4>1, <4>2
    <3> QED BY <2>1, <3>3, <3>4, <3>5, <3>6
  <2>4. bit_pos \in start..Bits(bytes) /\ zeros \in 0..(W + 1)
    BY <2>1, <2>2
  <2> QED BY <2>1, <2>2, <2>3, <2>4 DEF ReaderTypeOK
<1>2. ASSUME ReaderInv PROVE ReadsOneCode
  <2>1. read_status \in {"too_long", "truncated"} /\ ~Flag => \A v \in LongNumbers : ~Stands(v)
    <3>1. \A v \in LongNumbers : v \in 0..(2 * Pow2[W] - 2)
      BY TopPower DEF LongNumbers
    <3> QED BY <1>2, <3>1, NoNumberStands
  <2> QED BY <1>2, <2>1, ReturnedValue, NoCodeStands, PanicStands DEF ReadsOneCode
<1>3. ReaderInv => ReadsOwnCode
  BY <1>1, <1>2 DEF ReadsOwnCode
<1> QED BY <1>3, ReaderInductive, PTL
=============================================================================
