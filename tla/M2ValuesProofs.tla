--------------------------- MODULE M2ValuesProofs ---------------------------
(***************************************************************************)
(* The values a claim is made of.                                          *)
(*                                                                         *)
(* A block survives the codec to within half a quantisation step, for      *)
(* every block of pixels and every step.  The argument is on single        *)
(* butterflies: each is additive, doubles every bound, commutes with the   *)
(* others, and applied twice doubles; the transform is six of them.        *)
(* A plane is its blocks, the combined figure of three planes a weighted   *)
(* average, and the bytes of public inputs can be read back.               *)
(***************************************************************************)
EXTENDS M2Values, SequenceTheorems, FiniteSetTheorems, TLAPS

Strides == {1, 2, 4, 8, 16, 32}

Blocks == [Cells -> Int]

Within(x, b) == \A i \in Cells : -b <= x[i] /\ x[i] <= b

Plus(x, e) == [i \in Cells |-> x[i] + e[i]]

Times(k, x) == [i \in Cells |-> k * x[i]]

(* The partner of a cell in a butterfly is in the block, on the other side. *)
LEMMA Partner ==
  ASSUME NEW i \in Cells, NEW s \in Strides
  PROVE  /\ Upper(i, s) => i + s \in Cells /\ ~Upper(i + s, s)
         /\ ~Upper(i, s) => i - s \in Cells /\ Upper(i - s, s)
<1>1. CASE s = 1  BY <1>1 DEF Cells, Upper
<1>2. CASE s = 2  BY <1>2 DEF Cells, Upper
<1>3. CASE s = 4  BY <1>3 DEF Cells, Upper
<1>4. CASE s = 8  BY <1>4 DEF Cells, Upper
<1>5. CASE s = 16 BY <1>5 DEF Cells, Upper
<1>6. CASE s = 32 BY <1>6 DEF Cells, Upper
<1> QED BY <1>1, <1>2, <1>3, <1>4, <1>5, <1>6 DEF Strides

(* Moving to the partner for one stride keeps the side for another.        *)
LEMMA OtherStride ==
  ASSUME NEW i \in Cells, NEW s \in Strides, NEW t \in Strides, s # t
  PROVE  /\ Upper(i, s) => (Upper(i + s, t) <=> Upper(i, t))
         /\ ~Upper(i, s) => (Upper(i - s, t) <=> Upper(i, t))
<1>1. CASE s = 1  BY <1>1 DEF Cells, Upper, Strides
<1>2. CASE s = 2  BY <1>2 DEF Cells, Upper, Strides
<1>3. CASE s = 4  BY <1>3 DEF Cells, Upper, Strides
<1>4. CASE s = 8  BY <1>4 DEF Cells, Upper, Strides
<1>5. CASE s = 16 BY <1>5 DEF Cells, Upper, Strides
<1>6. CASE s = 32 BY <1>6 DEF Cells, Upper, Strides
<1> QED BY <1>1, <1>2, <1>3, <1>4, <1>5, <1>6 DEF Strides

LEMMA ButterflyIsBlock ==
  ASSUME NEW x \in Blocks, NEW s \in Strides
  PROVE  Butterfly(x, s) \in Blocks
<1> SUFFICES ASSUME NEW i \in Cells PROVE Butterfly(x, s)[i] \in Int
  BY DEF Butterfly, Blocks
<1> QED BY Partner DEF Butterfly, Blocks, Cells

LEMMA ButterflyTwice ==
  ASSUME NEW x \in Blocks, NEW s \in Strides
  PROVE  Butterfly(Butterfly(x, s), s) = Times(2, x)
<1> SUFFICES ASSUME NEW i \in Cells
             PROVE Butterfly(Butterfly(x, s), s)[i] = 2 * x[i]
  BY DEF Butterfly, Times
<1>1. CASE Upper(i, s)
  <2>1. i + s \in Cells /\ ~Upper(i + s, s) /\ (i + s) - s = i
    BY <1>1, Partner DEF Cells, Strides
  <2>2. Butterfly(x, s)[i] = x[i] + x[i + s] /\ Butterfly(x, s)[i + s] = x[i] - x[i + s]
    BY <1>1, <2>1 DEF Butterfly
  <2> QED BY <1>1, <2>1, <2>2 DEF Butterfly, Blocks
<1>2. CASE ~Upper(i, s)
  <2>1. i - s \in Cells /\ Upper(i - s, s) /\ (i - s) + s = i
    BY <1>2, Partner DEF Cells, Strides
  <2>2. Butterfly(x, s)[i] = x[i - s] - x[i] /\ Butterfly(x, s)[i - s] = x[i - s] + x[i]
    BY <1>2, <2>1 DEF Butterfly
  <2> QED BY <1>2, <2>1, <2>2 DEF Butterfly, Blocks
<1> QED BY <1>1, <1>2

LEMMA ButterfliesCommute ==
  ASSUME NEW x \in Blocks, NEW s \in Strides, NEW t \in Strides, s # t
  PROVE  Butterfly(Butterfly(x, s), t) = Butterfly(Butterfly(x, t), s)
<1> SUFFICES ASSUME NEW i \in Cells
             PROVE Butterfly(Butterfly(x, s), t)[i] = Butterfly(Butterfly(x, t), s)[i]
  BY DEF Butterfly
<1> DEFINE Mate(j, u) == IF Upper(j, u) THEN j + u ELSE j - u
<1>1. \A j \in Cells, u \in Strides : Mate(j, u) \in Cells
  BY Partner
<1>2. /\ Upper(Mate(i, s), t) <=> Upper(i, t)
      /\ Upper(Mate(i, t), s) <=> Upper(i, s)
  BY OtherStride
<1>3. Mate(Mate(i, s), t) = Mate(Mate(i, t), s)
  BY <1>2 DEF Cells, Strides
<1>4. ASSUME NEW y \in Blocks, NEW j \in Cells, NEW u \in Strides
      PROVE  Butterfly(y, u)[j] = IF Upper(j, u) THEN y[j] + y[Mate(j, u)]
                                  ELSE y[Mate(j, u)] - y[j]
  BY DEF Butterfly
<1> DEFINE a == x[i]  b == x[Mate(i, s)]  c == x[Mate(i, t)]  d == x[Mate(Mate(i, s), t)]
<1>5. a \in Int /\ b \in Int /\ c \in Int /\ d \in Int
  BY <1>1 DEF Blocks
<1>6. Butterfly(Butterfly(x, s), t)[i] =
        IF Upper(i, t)
        THEN (IF Upper(i, s) THEN a + b ELSE b - a) + (IF Upper(i, s) THEN c + d ELSE d - c)
        ELSE (IF Upper(i, s) THEN c + d ELSE d - c) - (IF Upper(i, s) THEN a + b ELSE b - a)
  <2>1. Butterfly(x, s)[i] = IF Upper(i, s) THEN a + b ELSE b - a
    BY <1>4
  <2>2. Butterfly(x, s)[Mate(i, t)] = IF Upper(i, s) THEN c + d ELSE d - c
    <3> HIDE DEF Mate
    <3> QED BY <1>1, <1>2, <1>3, <1>4
  <2>3. Butterfly(x, s) \in Blocks
    BY ButterflyIsBlock
  <2> HIDE DEF Mate, a, b, c, d
  <2> QED BY <1>4, <2>1, <2>2, <2>3
<1>7. Butterfly(Butterfly(x, t), s)[i] =
        IF Upper(i, s)
        THEN (IF Upper(i, t) THEN a + c ELSE c - a) + (IF Upper(i, t) THEN b + d ELSE d - b)
        ELSE (IF Upper(i, t) THEN b + d ELSE d - b) - (IF Upper(i, t) THEN a + c ELSE c - a)
  <2>1. Butterfly(x, t)[i] = IF Upper(i, t) THEN a + c ELSE c - a
    BY <1>4
  <2>2. Butterfly(x, t)[Mate(i, s)] = IF Upper(i, t) THEN b + d ELSE d - b
    <3> HIDE DEF Mate
    <3> QED BY <1>1, <1>2, <1>4
  <2>3. Butterfly(x, t) \in Blocks
    BY ButterflyIsBlock
  <2> HIDE DEF Mate, a, b, c, d
  <2> QED BY <1>4, <2>1, <2>2, <2>3
<1> HIDE DEF a, b, c, d
<1> QED BY <1>5, <1>6, <1>7

LEMMA ButterflyAdds ==
  ASSUME NEW x \in Blocks, NEW e \in Blocks, NEW s \in Strides
  PROVE  Butterfly(Plus(x, e), s) = Plus(Butterfly(x, s), Butterfly(e, s))
<1> SUFFICES ASSUME NEW i \in Cells
             PROVE Butterfly(Plus(x, e), s)[i] = Butterfly(x, s)[i] + Butterfly(e, s)[i]
  BY DEF Butterfly, Plus
<1>1. CASE Upper(i, s)
  <2>1. i + s \in Cells
    BY <1>1, Partner
  <2> QED BY <1>1, <2>1 DEF Butterfly, Plus, Blocks
<1>2. CASE ~Upper(i, s)
  <2>1. i - s \in Cells
    BY <1>2, Partner
  <2> QED BY <1>2, <2>1 DEF Butterfly, Plus, Blocks
<1> QED BY <1>1, <1>2

LEMMA ButterflyScales ==
  ASSUME NEW x \in Blocks, NEW s \in Strides
  PROVE  Butterfly(Times(2, x), s) = Times(2, Butterfly(x, s))
<1> SUFFICES ASSUME NEW i \in Cells
             PROVE Butterfly(Times(2, x), s)[i] = 2 * Butterfly(x, s)[i]
  BY DEF Butterfly, Times
<1>1. CASE Upper(i, s)
  <2>1. i + s \in Cells
    BY <1>1, Partner
  <2> QED BY <1>1, <2>1 DEF Butterfly, Times, Blocks
<1>2. CASE ~Upper(i, s)
  <2>1. i - s \in Cells
    BY <1>2, Partner
  <2> QED BY <1>2, <2>1 DEF Butterfly, Times, Blocks
<1> QED BY <1>1, <1>2

LEMMA ButterflyBound ==
  ASSUME NEW x \in Blocks, NEW s \in Strides, NEW b \in Nat, Within(x, b)
  PROVE  Within(Butterfly(x, s), 2 * b)
<1> SUFFICES ASSUME NEW i \in Cells
             PROVE -(2 * b) <= Butterfly(x, s)[i] /\ Butterfly(x, s)[i] <= 2 * b
  BY DEF Within
<1>1. CASE Upper(i, s)
  <2>1. i + s \in Cells
    BY <1>1, Partner
  <2> QED BY <1>1, <2>1 DEF Butterfly, Within, Blocks
<1>2. CASE ~Upper(i, s)
  <2>1. i - s \in Cells
    BY <1>2, Partner
  <2> QED BY <1>2, <2>1 DEF Butterfly, Within, Blocks
<1> QED BY <1>1, <1>2

LEMMA ScaledButterfly ==
  ASSUME NEW x \in Blocks, NEW s \in Strides, NEW k \in {2, 4, 8}
  PROVE  /\ Times(k, x) \in Blocks
         /\ Butterfly(Times(k, x), s) = Times(k, Butterfly(x, s))
<1>1. Times(k, x) \in Blocks
  BY DEF Times, Blocks
<1>2. ASSUME NEW i \in Cells
      PROVE  Butterfly(Times(k, x), s)[i] = k * Butterfly(x, s)[i]
  <2>1. CASE Upper(i, s)
    <3>1. i + s \in Cells
      BY <2>1, Partner
    <3> QED BY <2>1, <3>1 DEF Butterfly, Times, Blocks
  <2>2. CASE ~Upper(i, s)
    <3>1. i - s \in Cells
      BY <2>2, Partner
    <3> QED BY <2>2, <3>1 DEF Butterfly, Times, Blocks
  <2> QED BY <2>1, <2>2
<1> QED BY <1>1, <1>2 DEF Butterfly, Times

(* If a butterfly turns x into twice y, it still does so once both have gone
   through another one.                                                    *)
LEMMA PassThrough ==
  ASSUME NEW x \in Blocks, NEW y \in Blocks, NEW s \in Strides, NEW t \in Strides,
         s # t, Butterfly(x, s) = Times(2, y)
  PROVE  Butterfly(Butterfly(x, t), s) = Times(2, Butterfly(y, t))
<1>1. Butterfly(Butterfly(x, t), s) = Butterfly(Times(2, y), t)
  BY ButterfliesCommute
<1> QED BY <1>1, ScaledButterfly

(* The three butterflies of one direction.                                 *)
Triple(x, s, t, u) == Butterfly(Butterfly(Butterfly(x, s), t), u)

LEMMA TripleTwice ==
  ASSUME NEW x \in Blocks, NEW s \in Strides, NEW t \in Strides, NEW u \in Strides,
         s # t, t # u, s # u
  PROVE  Triple(Triple(x, s, t, u), s, t, u) = Times(8, x)
<1> DEFINE xs == Butterfly(x, s)   xst == Butterfly(xs, t)   xt == Butterfly(x, t)
           xtu == Butterfly(xt, u)  xu == Butterfly(x, u)
<1>1. xs \in Blocks /\ xst \in Blocks /\ xt \in Blocks /\ xtu \in Blocks /\ xu \in Blocks
  BY ButterflyIsBlock
<1>2. Butterfly(xs, s) = Times(2, x) /\ Butterfly(xt, t) = Times(2, x)
      /\ Butterfly(xu, u) = Times(2, x)
  BY ButterflyTwice
<1>3. Butterfly(xst, s) = Times(2, xt)
  <2> HIDE DEF xs
  <2> QED BY <1>1, <1>2, PassThrough
<1>4. Butterfly(Butterfly(xst, u), s) = Times(2, xtu)
  <2> HIDE DEF xst, xt
  <2> QED BY <1>1, <1>3, PassThrough
<1>5. Butterfly(xtu, t) = Times(2, xu)
  <2> HIDE DEF xt
  <2> QED BY <1>1, <1>2, PassThrough
<1>6. Triple(Triple(x, s, t, u), s, t, u) = Butterfly(Butterfly(Times(2, xtu), t), u)
  BY <1>4 DEF Triple
<1>7. Butterfly(Times(2, xtu), t) = Times(2, Times(2, xu))
  <2> HIDE DEF xtu, xu
  <2> QED BY <1>1, <1>5, ScaledButterfly
<1>8. Butterfly(Times(2, Times(2, xu)), u) = Times(2, Times(2, Times(2, x)))
  <2>1. Times(2, xu) \in Blocks
    BY <1>1, ScaledButterfly
  <2> HIDE DEF xu
  <2> QED BY <1>1, <1>2, <2>1, ScaledButterfly
<1>9. Times(2, Times(2, Times(2, x))) = Times(8, x)
  BY DEF Times, Blocks
<1> QED BY <1>6, <1>7, <1>8, <1>9

LEMMA TripleIsBlock ==
  ASSUME NEW x \in Blocks, NEW s \in Strides, NEW t \in Strides, NEW u \in Strides
  PROVE  Triple(x, s, t, u) \in Blocks
BY ButterflyIsBlock DEF Triple

LEMMA TripleScales ==
  ASSUME NEW x \in Blocks, NEW s \in Strides, NEW t \in Strides, NEW u \in Strides
  PROVE  Triple(Times(8, x), s, t, u) = Times(8, Triple(x, s, t, u))
BY ButterflyIsBlock, ScaledButterfly DEF Triple

LEMMA TripleCommutes ==
  ASSUME NEW x \in Blocks, NEW s \in Strides, NEW t \in Strides, NEW u \in Strides,
         NEW w \in Strides, w \notin {s, t, u}
  PROVE  Triple(Butterfly(x, w), s, t, u) = Butterfly(Triple(x, s, t, u), w)
BY ButterflyIsBlock, ButterfliesCommute DEF Triple

LEMMA TripleAdds ==
  ASSUME NEW x \in Blocks, NEW e \in Blocks,
         NEW s \in Strides, NEW t \in Strides, NEW u \in Strides
  PROVE  Triple(Plus(x, e), s, t, u) = Plus(Triple(x, s, t, u), Triple(e, s, t, u))
BY ButterflyIsBlock, ButterflyAdds DEF Triple

LEMMA TripleBound ==
  ASSUME NEW x \in Blocks, NEW s \in Strides, NEW t \in Strides, NEW u \in Strides,
         NEW b \in Nat, Within(x, b)
  PROVE  Within(Triple(x, s, t, u), 8 * b)
<1>1. Within(Butterfly(x, s), 2 * b)
  BY ButterflyBound
<1>2. Within(Butterfly(Butterfly(x, s), t), 4 * b)
  <2>1. 2 * b \in Nat /\ 2 * (2 * b) = 4 * b
    OBVIOUS
  <2> QED BY <1>1, <2>1, ButterflyBound, ButterflyIsBlock
<1>3. 4 * b \in Nat /\ 2 * (4 * b) = 8 * b
  OBVIOUS
<1> QED BY <1>2, <1>3, ButterflyBound, ButterflyIsBlock DEF Triple

LEMMA WhtIsTwoTriples ==
  ASSUME NEW x \in Blocks
  PROVE  /\ WhtRows(x) = Triple(x, 1, 2, 4)
         /\ WhtColumns(x) = Triple(x, 8, 16, 32)
         /\ WhtRows(x) \in Blocks /\ WhtColumns(x) \in Blocks /\ Wht8x8(x) \in Blocks
<1>1. WhtRows(x) = Triple(x, 1, 2, 4) /\ WhtColumns(x) = Triple(x, 8, 16, 32)
  BY DEF WhtRows, WhtColumns, Triple
<1>2. WhtRows(x) \in Blocks
  BY <1>1, TripleIsBlock DEF Strides
<1>3. Wht8x8(x) = Triple(WhtRows(x), 8, 16, 32)
  BY DEF Wht8x8, WhtColumns, Triple
<1> QED BY <1>1, <1>2, <1>3, TripleIsBlock DEF Strides

(* Two transforms in a row only scale: the exact inverse of the encoder's
   transform is the decoder's and a division by 64.                        *)
THEOREM WhtTwice ==
  ASSUME NEW x \in Blocks
  PROVE  Wht8x8(Wht8x8(x)) = Times(64, x)
<1> DEFINE R(y) == WhtRows(y)   C(y) == WhtColumns(y)
<1>1. ASSUME NEW y \in Blocks PROVE R(C(y)) = C(R(y))
  <2>1. ASSUME NEW z \in Blocks, NEW w \in {8, 16, 32}
        PROVE  WhtRows(Butterfly(z, w)) = Butterfly(WhtRows(z), w)
    <3>1. w \in Strides /\ w \notin {1, 2, 4} /\ {1, 2, 4} \subseteq Strides
      BY DEF Strides
    <3>2. Butterfly(z, w) \in Blocks
      BY <3>1, ButterflyIsBlock
    <3> QED BY <3>1, <3>2, TripleCommutes, WhtIsTwoTriples
  <2>2. Butterfly(y, 8) \in Blocks /\ Butterfly(Butterfly(y, 8), 16) \in Blocks
    BY ButterflyIsBlock DEF Strides
  <2> QED BY <2>1, <2>2 DEF WhtColumns
<1>2. ASSUME NEW y \in Blocks PROVE R(R(y)) = Times(8, y) /\ C(C(y)) = Times(8, y)
  BY TripleTwice, WhtIsTwoTriples DEF Strides
<1>3. ASSUME NEW y \in Blocks PROVE C(Times(8, y)) = Times(8, C(y))
  <2>1. Times(8, y) \in Blocks
    BY ScaledButterfly DEF Strides
  <2> QED BY <2>1, TripleScales, WhtIsTwoTriples DEF Strides
<1>4. R(x) \in Blocks /\ C(R(x)) \in Blocks /\ C(x) \in Blocks
  BY WhtIsTwoTriples
<1>5. Wht8x8(Wht8x8(x)) = C(R(C(R(x))))
  BY DEF Wht8x8
<1>6. R(C(R(x))) = C(Times(8, x))
  <2> HIDE DEF R, C
  <2> QED BY <1>1, <1>2, <1>4
<1>7. C(C(Times(8, x))) = Times(8, Times(8, x))
  <2>1. C(Times(8, x)) = Times(8, C(x))
    BY <1>3
  <2>2. C(Times(8, C(x))) = Times(8, C(C(x)))
    <3> HIDE DEF C
    <3> QED BY <1>3, <1>4
  <2> QED BY <1>2, <2>1, <2>2
<1>8. Times(8, Times(8, x)) = Times(64, x)
  BY DEF Times, Blocks
<1> QED BY <1>5, <1>6, <1>7, <1>8

LEMMA WhtIsAdditive ==
  ASSUME NEW x \in Blocks, NEW e \in Blocks
  PROVE  Wht8x8(Plus(x, e)) = Plus(Wht8x8(x), Wht8x8(e))
<1>1. Plus(x, e) \in Blocks
  BY DEF Plus, Blocks
<1>2. WhtRows(Plus(x, e)) = Plus(WhtRows(x), WhtRows(e))
  BY <1>1, WhtIsTwoTriples, TripleAdds DEF Strides
<1>3. /\ WhtRows(x) \in Blocks /\ WhtRows(e) \in Blocks
      /\ Plus(WhtRows(x), WhtRows(e)) \in Blocks
  <2>1. WhtRows(x) \in Blocks /\ WhtRows(e) \in Blocks
    BY WhtIsTwoTriples
  <2> QED BY <2>1 DEF Plus, Blocks
<1>4. WhtColumns(Plus(WhtRows(x), WhtRows(e)))
        = Plus(WhtColumns(WhtRows(x)), WhtColumns(WhtRows(e)))
  BY <1>3, WhtIsTwoTriples, TripleAdds DEF Strides
<1> QED BY <1>2, <1>4 DEF Wht8x8

LEMMA WhtBound ==
  ASSUME NEW x \in Blocks, NEW b \in Nat, Within(x, b)
  PROVE  Within(Wht8x8(x), 64 * b)
<1>1. Within(WhtRows(x), 8 * b)
  BY WhtIsTwoTriples, TripleBound DEF Strides
<1>2. 8 * b \in Nat /\ 8 * (8 * b) = 64 * b
  OBVIOUS
<1>3. WhtRows(x) \in Blocks
  BY WhtIsTwoTriples
<1>4. Within(WhtColumns(WhtRows(x)), 64 * b)
  BY <1>1, <1>2, <1>3, WhtIsTwoTriples, TripleBound DEF Strides
<1> QED BY <1>4 DEF Wht8x8

LEMMA Division ==
  ASSUME NEW a \in Nat, NEW d \in Nat \ {0}
  PROVE  /\ a \div d \in Nat
         /\ (a \div d) * d <= a
         /\ a < (a \div d) * d + d
OBVIOUS

Between(a, n, b) == n \in Int /\ a <= n /\ n <= b

(* The ranges of the code's samples, of what a coefficient needs of its
   i16, and of the quantisation steps.                                     *)
Sample == {n \in Int : Between(0, n, 255)}
Coefficient == {n \in Int : Between(-8192, n, 8192)}
Step == {n \in Int : Between(1, n, 51)}

LEMMA Ranges ==
  ASSUME NEW n
  PROVE  /\ n \in Sample <=> Between(0, n, 255)
         /\ n \in Coefficient <=> Between(-8192, n, 8192)
         /\ n \in Step <=> Between(1, n, 51)
BY DEF Sample, Coefficient, Step, Between

LEMMA Product ==
  ASSUME NEW a \in Int, NEW b \in Int
  PROVE  a * b \in Int /\ (-a) * b = -(a * b)
OBVIOUS

(* The quantiser is off by half a step at most, and its output needs no
   more bits than its input.                                               *)
LEMMA QuantiserError ==
  ASSUME NEW n \in Int, -8192 <= n, n <= 8192, NEW step \in Int, 1 <= step,
         NEW q, q = DivRound(n, step)
  PROVE  /\ Between(-8192, q, 8192)
         /\ q * step \in Int
         /\ -step <= 2 * (q * step - n)
         /\ 2 * (q * step - n) <= step
<1> PICK m \in Int : m = IF n >= 0 THEN n ELSE -n
  OBVIOUS
<1> PICK half \in Int : half = step \div 2
  OBVIOUS
<1>1. 0 <= m /\ m <= 8192 /\ 0 <= half /\ 2 * half <= step /\ step <= 2 * half + 1
  OBVIOUS
<1> PICK r : r = (m + half) \div step
  OBVIOUS
<1>2. r \in Nat /\ r * step <= m + half /\ m + half < r * step + step
  <2>1. m + half \in Nat /\ step \in Nat \ {0}
    BY <1>1
  <2> QED BY ONLY <2>1, Division, r = (m + half) \div step
<1> PICK rs : rs = r * step
  OBVIOUS
<1> r \in Int
  BY ONLY <1>2
<1>3. rs \in Int
  BY ONLY r \in Int, Product, rs = r * step, step \in Int
<1>4. -step <= 2 * (rs - m) /\ 2 * (rs - m) <= step
  <2>1. rs <= m + half /\ m + half < rs + step
    BY ONLY <1>2, rs = r * step
  <2> QED BY ONLY <1>1, <1>3, <2>1, m \in Int, half \in Int, step \in Int
<1>5. ~(r > 8192)
  <2>1. SUFFICES ASSUME r > 8192 PROVE FALSE
    OBVIOUS
  <2>2. r * step >= 8193 * step
    BY ONLY r \in Int, <2>1, step \in Int, 1 <= step
  <2>3. rs >= 8193 * step
    BY ONLY <2>2, rs = r * step
  <2> QED BY ONLY <1>1, <1>3, <1>4, <2>3, m \in Int, step \in Int, 1 <= step
<1>6. CASE n >= 0
  <2>1. q = r
    BY <1>6 DEF DivRound
  <2> QED BY ONLY <1>2, <1>3, <1>4, <1>5, <1>6, <2>1, rs = r * step,
                  m = (IF n >= 0 THEN n ELSE -n), n \in Int DEF Between
<1>7. CASE ~(n >= 0)
  <2>1. q = -r
    BY <1>7 DEF DivRound
  <2>2. q * step = -rs
    BY ONLY <1>2, <2>1, Product, rs = r * step, step \in Int
  <2>3. m = -n
    BY <1>7
  <2> QED BY ONLY <1>2, <1>3, <1>4, <1>5, <2>1, <2>2, <2>3, n \in Int, step \in Int DEF Between
<1> QED BY <1>6, <1>7

(* The decoder's rounding and clamping of a sample p with an error e.      *)
Unscaled(p, e) == Clamp(DivRound(64 * (p - 128) + e, 64) + 128, 0, 255)

SmallError(e, step) == -(32 * step) <= e /\ e <= 32 * step

LEMMA UnscaleError ==
  ASSUME NEW p \in Int, 0 <= p, p <= 255, NEW step \in Int, 1 <= step,
         NEW e \in Int, SmallError(e, step)
  PROVE  /\ Between(0, Unscaled(p, e), 255)
         /\ 2 * Distance(Unscaled(p, e), p) <= step + 1
         /\ e = 0 => Unscaled(p, e) = p
<1> PICK n : n = 64 * (p - 128) + e
  OBVIOUS
<1> PICK r : r = DivRound(n, 64)
  OBVIOUS
<1>1. n \in Int /\ r \in Int /\ -32 <= 64 * r - n /\ 64 * r - n <= 32
  BY DEF DivRound
<1>2. e = 0 => r = p - 128
  BY DEF DivRound
<1>3. 2 * (r + 128 - p) <= step + 1 /\ 2 * (p - 128 - r) <= step + 1
  BY <1>1 DEF SmallError
<1> PICK o : o = Unscaled(p, e)
  OBVIOUS
<1>4. o = Clamp(r + 128, 0, 255)
  BY DEF Unscaled
<1>5. Between(0, o, 255) /\ 2 * Distance(o, p) <= step + 1 /\ (e = 0 => o = p)
  BY ONLY <1>1, <1>2, <1>3, <1>4, p \in Int, 0 <= p, p <= 255, step \in Int, 1 <= step
     DEF Clamp, Distance, Between
<1> QED BY ONLY <1>5, o = Unscaled(p, e)

Quantised(x, step) == [i \in Cells |-> DivRound(x[i], step)]

LEMMA QuantisedAt ==
  ASSUME NEW x, NEW step, NEW i \in Cells
  PROVE  Quantised(x, step)[i] = DivRound(x[i], step)
BY DEF Quantised

Dequantised(c, step) == [i \in Cells |-> c[i] * step]

Difference(y, x) == [i \in Cells |-> y[i] - x[i]]

(* What quantising does to a block of coefficients.                        *)
LEMMA CoefficientError ==
  ASSUME NEW x \in Blocks, Within(x, 8192), NEW step \in Int, 1 <= step,
         NEW c, c = Quantised(x, step),
         NEW y, y = Dequantised(c, step),
         NEW e, e = Difference(y, x)
  PROVE  /\ \A i \in Cells : Between(-8192, c[i], 8192)
         /\ y \in Blocks /\ e \in Blocks /\ y = Plus(x, e)
         /\ \A i \in Cells : -step <= 2 * e[i] /\ 2 * e[i] <= step
<1>1. ASSUME NEW i \in Cells
      PROVE  c[i] = DivRound(x[i], step) /\ y[i] = c[i] * step /\ e[i] = y[i] - x[i]
  BY DEF Quantised, Dequantised, Difference
<1>2. y = [i \in Cells |-> y[i]] /\ e = [i \in Cells |-> e[i]]
  BY DEF Dequantised, Difference
<1>3. ASSUME NEW i \in Cells
      PROVE  /\ Between(-8192, c[i], 8192)
             /\ y[i] \in Int /\ e[i] \in Int /\ y[i] = x[i] + e[i]
             /\ -step <= 2 * e[i] /\ 2 * e[i] <= step
  <2>1. x[i] \in Int /\ -8192 <= x[i] /\ x[i] <= 8192
    BY DEF Blocks, Within
  <2>2. /\ Between(-8192, c[i], 8192)
        /\ c[i] * step \in Int
        /\ -step <= 2 * (c[i] * step - x[i])
        /\ 2 * (c[i] * step - x[i]) <= step
    <3> PICK n, qi : n = x[i] /\ qi = c[i]
      OBVIOUS
    <3>1. qi = DivRound(n, step)
      BY ONLY <1>1, i \in Cells, n = x[i], qi = c[i]
    <3>2. n \in Int /\ -8192 <= n /\ n <= 8192
      BY ONLY <2>1, n = x[i]
    <3>3. /\ Between(-8192, qi, 8192)
          /\ qi * step \in Int
          /\ -step <= 2 * (qi * step - n)
          /\ 2 * (qi * step - n) <= step
      BY ONLY <3>1, <3>2, step \in Int, 1 <= step, QuantiserError
    <3> QED BY ONLY <3>3, n = x[i], qi = c[i]
  <2>3. PICK yi : yi = y[i]
    OBVIOUS
  <2>4. yi \in Int /\ -step <= 2 * (yi - x[i]) /\ 2 * (yi - x[i]) <= step
    BY ONLY <1>1, <2>2, <2>3, i \in Cells
  <2>5. e[i] = yi - x[i]
    BY ONLY <1>1, <2>3, i \in Cells
  <2> QED BY ONLY <2>1, <2>2, <2>3, <2>4, <2>5, step \in Int
<1>4. y \in Blocks /\ e \in Blocks
  BY ONLY <1>2, <1>3 DEF Blocks
<1>5. y = Plus(x, e)
  BY ONLY <1>2, <1>3 DEF Plus
<1> QED BY ONLY <1>3, <1>4, <1>5

(* What the inverse transform does to the error.                           *)
LEMMA ErrorSpread ==
  ASSUME NEW e \in Blocks, NEW step \in Int, 1 <= step,
         \A i \in Cells : -step <= 2 * e[i] /\ 2 * e[i] <= step
  PROVE  /\ Wht8x8(e) \in Blocks
         /\ \A i \in Cells : -(32 * step) <= Wht8x8(e)[i] /\ Wht8x8(e)[i] <= 32 * step
         /\ step = 1 => \A i \in Cells : Wht8x8(e)[i] = 0
<1>1. Wht8x8(e) \in Blocks
  BY WhtIsTwoTriples
<1>2. ASSUME NEW i \in Cells PROVE e[i] \in Int /\ Wht8x8(e)[i] \in Int
  BY <1>1 DEF Blocks
<1>3. Plus(e, e) \in Blocks /\ Within(Plus(e, e), step)
  BY <1>2 DEF Plus, Within, Blocks
<1>4. Wht8x8(Plus(e, e)) = Plus(Wht8x8(e), Wht8x8(e))
  BY WhtIsAdditive
<1>5. Within(Plus(Wht8x8(e), Wht8x8(e)), 64 * step)
  BY <1>3, <1>4, WhtBound
<1>6. ASSUME NEW i \in Cells
      PROVE  -(32 * step) <= Wht8x8(e)[i] /\ Wht8x8(e)[i] <= 32 * step
  <2>1. Plus(Wht8x8(e), Wht8x8(e))[i] = Wht8x8(e)[i] + Wht8x8(e)[i]
    BY DEF Plus
  <2> QED BY <1>2, <1>5, <2>1 DEF Within
<1>7. ASSUME step = 1, NEW i \in Cells PROVE Wht8x8(e)[i] = 0
  <2>1. \A j \in Cells : -0 <= e[j] /\ e[j] <= 0
    BY <1>2, <1>7
  <2>2. Within(e, 0)
    BY <2>1 DEF Within
  <2>3. 0 \in Nat /\ 64 * 0 = 0
    OBVIOUS
  <2>4. Within(Wht8x8(e), 0)
    BY <2>2, <2>3, WhtBound
  <2>5. -0 <= Wht8x8(e)[i] /\ Wht8x8(e)[i] <= 0
    BY <2>4 DEF Within
  <2> QED BY <1>2, <2>5
<1> QED BY <1>1, <1>6, <1>7

(* What the decoder makes of the encoder's coefficients.                   *)
LEMMA DecodedCell ==
  ASSUME NEW centred \in Blocks, NEW e \in Blocks, NEW y \in Blocks,
         y = Plus(Wht8x8(centred), e), NEW i \in Cells
  PROVE  Wht8x8(y)[i] = 64 * centred[i] + Wht8x8(e)[i]
<1>1. Wht8x8(centred) \in Blocks
  BY WhtIsTwoTriples
<1>2. Wht8x8(y) = Plus(Times(64, centred), Wht8x8(e))
  BY <1>1, WhtIsAdditive, WhtTwice
<1> QED BY <1>2 DEF Plus, Times

Centred(pixels) == [i \in Cells |-> pixels[i] - 128]

(* The encoder's clip to an i16 never cuts anything.                       *)
LEMMA EncodeIsQuantise ==
  ASSUME NEW pixels, NEW step, NEW q, q = Quantised(Wht8x8(Centred(pixels)), step),
         \A i \in Cells : Between(-8192, q[i], 8192)
  PROVE  EncodeBlock(pixels, step) = q
<1>1. q = [i \in Cells |-> q[i]]
  BY DEF Quantised
<1>2. EncodeBlock(pixels, step) = [i \in Cells |-> Clamp(q[i], I16Min, I16Max)]
  <2>1. EncodeBlock(pixels, step) =
          [i \in Cells |-> Clamp(DivRound(Wht8x8(Centred(pixels))[i], step), I16Min, I16Max)]
    BY ONLY DEF EncodeBlock, Centred
  <2>2. \A i \in Cells : q[i] = DivRound(Wht8x8(Centred(pixels))[i], step)
    BY ONLY q = Quantised(Wht8x8(Centred(pixels)), step), QuantisedAt
  <2> QED BY ONLY <2>1, <2>2
<1>3. ASSUME NEW i \in Cells PROVE Clamp(q[i], I16Min, I16Max) = q[i]
  <2>1. Between(-8192, q[i], 8192)
    OBVIOUS
  <2> QED BY ONLY <2>1 DEF Clamp, I16Min, I16Max, Between
<1> QED BY ONLY <1>1, <1>2, <1>3

(* encode_block then decode_block, for every block of samples and every QP
   of encode_toy: the coefficients fit an i16 with no clipping, the result
   is a block of samples, each within half a step and the rounding of what
   it was, and exactly what it was when the step is 1.                     *)
THEOREM BlockRoundTrip ==
  ASSUME NEW pixels \in [Cells -> Sample], NEW step \in Step,
         NEW coded, coded = EncodeBlock(pixels, step),
         NEW back, back = DecodeBlock(coded, step)
  PROVE  /\ coded \in [Cells -> Coefficient]
         /\ back \in [Cells -> Sample]
         /\ \A i \in Cells : 2 * Distance(back[i], pixels[i]) <= step + 1
         /\ step = 1 => back = pixels
<1>1. step \in Int /\ 1 <= step
  BY Ranges DEF Between
<1>2. \A i \in Cells : pixels[i] \in Int /\ 0 <= pixels[i] /\ pixels[i] <= 255
  BY Ranges DEF Between
<1> PICK centred : centred = Centred(pixels)
  OBVIOUS
<1>3. \A i \in Cells : centred[i] = pixels[i] - 128
  BY DEF Centred
<1>4. centred \in Blocks /\ Within(centred, 128)
  <2>1. centred = [i \in Cells |-> centred[i]]
    BY DEF Centred
  <2> QED BY ONLY <1>2, <1>3, <2>1 DEF Blocks, Within
<1> PICK x : x = Wht8x8(centred)
  OBVIOUS
<1>5. x \in Blocks /\ Within(x, 8192)
  <2>1. 128 \in Nat /\ 64 * 128 = 8192
    OBVIOUS
  <2> QED BY ONLY <1>4, <2>1, x = Wht8x8(centred), WhtBound, WhtIsTwoTriples
<1> PICK q : q = Quantised(x, step)
  OBVIOUS
<1> PICK y : y = Dequantised(q, step)
  OBVIOUS
<1> PICK e : e = Difference(y, x)
  OBVIOUS
<1>6. /\ \A i \in Cells : Between(-8192, q[i], 8192)
      /\ y \in Blocks /\ e \in Blocks /\ y = Plus(x, e)
      /\ \A i \in Cells : -step <= 2 * e[i] /\ 2 * e[i] <= step
  BY ONLY <1>1, <1>5, q = Quantised(x, step), y = Dequantised(q, step),
          e = Difference(y, x), CoefficientError
<1>7. coded = q
  BY ONLY <1>6, q = Quantised(x, step), x = Wht8x8(centred), centred = Centred(pixels),
          coded = EncodeBlock(pixels, step), EncodeIsQuantise
<1>8. /\ Wht8x8(e) \in Blocks
      /\ \A i \in Cells : -(32 * step) <= Wht8x8(e)[i] /\ Wht8x8(e)[i] <= 32 * step
      /\ step = 1 => \A i \in Cells : Wht8x8(e)[i] = 0
  BY ONLY <1>1, <1>6, ErrorSpread
<1>9. /\ \A i \in Cells : back[i] = Clamp(DivRound(Wht8x8(y)[i], 64) + 128, 0, 255)
      /\ back = [i \in Cells |-> back[i]]
  BY <1>7 DEF DecodeBlock, Dequantised
<1>10. ASSUME NEW i \in Cells
       PROVE  Wht8x8(y)[i] = 64 * (pixels[i] - 128) + Wht8x8(e)[i]
  BY ONLY <1>3, <1>4, <1>6, x = Wht8x8(centred), i \in Cells, DecodedCell
<1>11. ASSUME NEW i \in Cells
       PROVE  /\ Between(0, back[i], 255)
              /\ 2 * Distance(back[i], pixels[i]) <= step + 1
              /\ step = 1 => back[i] = pixels[i]
  <2> PICK w : w = Wht8x8(e)[i]
    OBVIOUS
  <2>1. w \in Int
    BY ONLY <1>8, w = Wht8x8(e)[i], i \in Cells DEF Blocks
  <2>2. back[i] = Unscaled(pixels[i], w)
    BY ONLY <1>9, <1>10, w = Wht8x8(e)[i], i \in Cells DEF Unscaled
  <2>3. SmallError(w, step) /\ (step = 1 => w = 0)
    BY ONLY <1>8, w = Wht8x8(e)[i], i \in Cells DEF SmallError
  <2>4. pixels[i] \in Int /\ 0 <= pixels[i] /\ pixels[i] <= 255
    BY ONLY <1>2, i \in Cells
  <2>5. /\ Between(0, Unscaled(pixels[i], w), 255)
        /\ 2 * Distance(Unscaled(pixels[i], w), pixels[i]) <= step + 1
        /\ w = 0 => Unscaled(pixels[i], w) = pixels[i]
    BY ONLY <1>1, <2>1, <2>3, <2>4, UnscaleError
  <2> QED BY ONLY <2>2, <2>3, <2>5
<1>12. coded \in [Cells -> Coefficient]
  <2>1. \A i \in Cells : q[i] \in Coefficient
    <3> SUFFICES ASSUME NEW i \in Cells PROVE q[i] \in Coefficient
      OBVIOUS
    <3>1. Between(-8192, q[i], 8192)
      BY ONLY <1>6, i \in Cells
    <3> QED BY ONLY <3>1, Ranges
  <2>2. q = [i \in Cells |-> q[i]]
    BY DEF Quantised
  <2> QED BY ONLY <1>7, <2>1, <2>2
<1>13. back \in [Cells -> Sample]
  <2>1. \A i \in Cells : back[i] \in Sample
    <3> SUFFICES ASSUME NEW i \in Cells PROVE back[i] \in Sample
      OBVIOUS
    <3>1. Between(0, back[i], 255)
      BY ONLY <1>11, i \in Cells
    <3> QED BY ONLY <3>1, Ranges
  <2> QED BY ONLY <1>9, <2>1
<1>14. step = 1 => back = pixels
  BY ONLY <1>9, <1>11, pixels \in [Cells -> Sample]
<1> QED BY ONLY <1>11, <1>12, <1>13, <1>14

(* The steps of the QPs that encode_toy and decode_toy accept.             *)
LEMMA QuantStepIsStep ==
  ASSUME NEW q \in 0..51
  PROVE  QuantStep(q) \in Step
BY DEF QuantStep, Step, Between

(* What a parsed bitstream may hold: any i16.                              *)
StoredCoefficient == {n \in Int : Between(I16Min, n, I16Max)}

(* The most a dequantised coefficient amounts to.                          *)
Peak == 32768 * 51

I32Max == 2147483647

LEMMA PeakFits == Peak \in Nat /\ 64 * Peak \in Int /\ I32Max \in Int /\ 64 * Peak <= I32Max
BY SMT DEF Peak, I32Max

LEMMA DequantisedSize ==
  ASSUME NEW c \in Int, NEW step \in Int,
         I16Min <= c, c <= I16Max, 1 <= step, step <= 51
  PROVE  /\ c * step \in Int
         /\ -Peak <= c * step /\ c * step <= Peak
<1>1. c * step <= 32768 * step
  <2>1. 0 <= (32768 - c) * step
    BY SMT DEF I16Max
  <2> QED BY <2>1, SMT
<1>2. -(32768 * step) <= c * step
  <2>1. 0 <= (32768 + c) * step
    BY SMT DEF I16Min
  <2> QED BY <2>1, SMT
<1>3. c * step \in Int
  BY SMT
<1> QED BY <1>1, <1>2, <1>3, SMT DEF Peak

(* decode_block is said to be panic-free.  Whatever i16 coefficients a
   bitstream holds, and at every step, no sum of the inverse transform, not
   in the middle of it either, leaves the i32 it is computed in.           *)
THEOREM DecodeFitsI32 ==
  ASSUME NEW coded \in [Cells -> StoredCoefficient], NEW step \in Step,
         NEW y, y = [i \in Cells |-> coded[i] * step],
         NEW b1, b1 = Butterfly(y, 1), NEW b2, b2 = Butterfly(b1, 2),
         NEW b3, b3 = Butterfly(b2, 4), NEW b4, b4 = Butterfly(b3, 8),
         NEW b5, b5 = Butterfly(b4, 16), NEW b6, b6 = Butterfly(b5, 32)
  PROVE  /\ b6 = Wht8x8(y)
         /\ \A b \in {y, b1, b2, b3, b4, b5, b6} : Within(b, I32Max)
<1>1. step \in Int /\ 1 <= step /\ step <= 51
  BY Ranges DEF Between
<1>2. \A i \in Cells : coded[i] \in Int /\ I16Min <= coded[i] /\ coded[i] <= I16Max
  BY DEF StoredCoefficient, Between
<1>3. ASSUME NEW i \in Cells
      PROVE  y[i] \in Int /\ -Peak <= y[i] /\ y[i] <= Peak
  <2>1. y[i] = coded[i] * step
    OBVIOUS
  <2> QED BY ONLY <1>1, <1>2, <2>1, i \in Cells, DequantisedSize
<1>4. y \in Blocks /\ Within(y, Peak)
  BY ONLY <1>3, y = [i \in Cells |-> coded[i] * step] DEF Blocks, Within
<1>5. {1, 2, 4, 8, 16, 32} \subseteq Strides
  BY DEF Strides
<1>6. ASSUME NEW x \in Blocks, NEW s \in Strides, NEW m \in Nat, Within(x, m * Peak)
      PROVE  Butterfly(x, s) \in Blocks /\ Within(Butterfly(x, s), (2 * m) * Peak)
  <2>1. m * Peak \in Nat /\ 2 * (m * Peak) = (2 * m) * Peak
    BY ONLY m \in Nat, PeakFits, SMT
  <2> QED BY ONLY <1>6, <2>1, ButterflyBound, ButterflyIsBlock
<1>7. Within(y, 1 * Peak)
  BY ONLY <1>4, PeakFits, 1 * Peak = Peak
<1>8. b1 \in Blocks /\ Within(b1, 2 * Peak)
  BY ONLY <1>5, <1>6, <1>4, <1>7, b1 = Butterfly(y, 1), 1 \in Nat, 2 * 1 = 2
<1>9. b2 \in Blocks /\ Within(b2, 4 * Peak)
  BY ONLY <1>5, <1>6, <1>8, b2 = Butterfly(b1, 2), 2 \in Nat, 2 * 2 = 4
<1>10. b3 \in Blocks /\ Within(b3, 8 * Peak)
  BY ONLY <1>5, <1>6, <1>9, b3 = Butterfly(b2, 4), 4 \in Nat, 2 * 4 = 8
<1>11. b4 \in Blocks /\ Within(b4, 16 * Peak)
  BY ONLY <1>5, <1>6, <1>10, b4 = Butterfly(b3, 8), 8 \in Nat, 2 * 8 = 16
<1>12. b5 \in Blocks /\ Within(b5, 32 * Peak)
  BY ONLY <1>5, <1>6, <1>11, b5 = Butterfly(b4, 16), 16 \in Nat, 2 * 16 = 32
<1>13. b6 \in Blocks /\ Within(b6, 64 * Peak)
  BY ONLY <1>5, <1>6, <1>12, b6 = Butterfly(b5, 32), 32 \in Nat, 2 * 32 = 64
<1>14. b6 = Wht8x8(y)
  BY DEF Wht8x8, WhtRows, WhtColumns
<1>15. ASSUME NEW x \in Blocks, NEW m \in Nat, m <= 64, Within(x, m * Peak)
       PROVE  Within(x, I32Max)
  <2>1. m * Peak <= 64 * Peak /\ m * Peak \in Int
    BY ONLY m \in Nat, m <= 64, PeakFits, SMT
  <2> PICK k : k = m * Peak
    OBVIOUS
  <2>2. \A i \in Cells : x[i] \in Int /\ -k <= x[i] /\ x[i] <= k
    BY ONLY <1>15, x \in Blocks, k = m * Peak DEF Within, Blocks
  <2>3. k \in Int /\ k <= I32Max
    BY ONLY <2>1, PeakFits, k = m * Peak, SMT
  <2>4. ASSUME NEW i \in Cells PROVE -I32Max <= x[i] /\ x[i] <= I32Max
    <3> PICK v : v = x[i]
      OBVIOUS
    <3>1. v \in Int /\ -k <= v /\ v <= k
      BY ONLY <2>2, v = x[i], i \in Cells
    <3>2. -I32Max <= v /\ v <= I32Max
      BY ONLY <2>3, <3>1, PeakFits, SMT
    <3> QED BY ONLY <3>2, v = x[i]
  <2> QED BY ONLY <2>4 DEF Within
<1>16. /\ Within(y, I32Max) /\ Within(b1, I32Max) /\ Within(b2, I32Max)
       /\ Within(b3, I32Max) /\ Within(b4, I32Max) /\ Within(b5, I32Max)
       /\ Within(b6, I32Max)
  BY ONLY <1>4, <1>7, <1>8, <1>9, <1>10, <1>11, <1>12, <1>13, <1>15, SMT
<1> QED BY ONLY <1>14, <1>16

LEMMA Whole ==
  ASSUME NEW w \in Nat, w > 0, NEW p \in Nat
  PROVE  /\ p \div w \in Nat /\ p % w \in 0..(w - 1)
         /\ p = (p \div w) * w + (p % w)
OBVIOUS

LEMMA ProductGrows ==
  ASSUME NEW a \in Int, NEW b \in Int, NEW w \in Nat, a <= b
  PROVE  a * w \in Int /\ b * w \in Int /\ a * w <= b * w
OBVIOUS

LEMMA NextProduct ==
  ASSUME NEW a \in Int, NEW w \in Int
  PROVE  (a + 1) * w = a * w + w /\ a * w \in Int
OBVIOUS

LEMMA Row ==
  ASSUME NEW w \in Nat, NEW h \in Nat, NEW y \in 0..(h - 1), NEW x \in 0..(w - 1)
  PROVE  y * w + x \in 0..(w * h - 1)
<1>1. y + 1 <= h /\ y + 1 \in Int /\ h \in Int
  OBVIOUS
<1>2. (y + 1) * w <= h * w
  BY ONLY <1>1, w \in Nat, ProductGrows
<1>3. (y + 1) * w = y * w + w /\ y * w \in Int
  BY NextProduct
<1>4. 0 * w <= y * w
  BY ProductGrows
<1>5. h * w = w * h /\ 0 * w = 0
  OBVIOUS
<1> PICK a : a = y * w
  OBVIOUS
<1> PICK c : c = w * h
  OBVIOUS
<1>6. c \in Int
  OBVIOUS
<1>7. a \in Int /\ 0 <= a /\ a + w <= c
  BY <1>2, <1>3, <1>4, <1>5
<1>8. a + x \in 0..(c - 1)
  BY ONLY <1>6, <1>7, w \in Nat, x \in 0..(w - 1)
<1> QED BY <1>8

LEMMA RowOf ==
  ASSUME NEW w \in Nat, w > 0, NEW h \in Nat, NEW p \in 0..(w * h - 1)
  PROVE  p \in Nat /\ p \div w \in 0..(h - 1) /\ p % w \in 0..(w - 1)
<1>1. w * h \in Nat
  OBVIOUS
<1>2. p \in Nat /\ p < w * h
  BY <1>1
<1> PICK y : y = p \div w
  OBVIOUS
<1> PICK x : x = p % w
  OBVIOUS
<1>3. y \in Nat /\ x \in 0..(w - 1) /\ p = y * w + x
  BY <1>2, Whole
<1>4. ~(y >= h)
  <2> SUFFICES ASSUME y >= h PROVE FALSE
    OBVIOUS
  <2>1. h * w <= y * w /\ h * w \in Int /\ y * w \in Int
    BY <1>3, ProductGrows
  <2>2. h * w = w * h
    OBVIOUS
  <2> QED BY <1>2, <1>3, <2>1, <2>2
<1> QED BY <1>2, <1>3, <1>4

LEMMA DivModIs ==
  ASSUME NEW w \in Nat, NEW q \in Nat, NEW r \in 0..(w - 1)
  PROVE  (q * w + r) \div w = q /\ (q * w + r) % w = r
<1>1. w > 0 /\ q * w + r \in Nat
  OBVIOUS
<1> PICK p : p = q * w + r
  OBVIOUS
<1> PICK d : d = p \div w
  OBVIOUS
<1> PICK m : m = p % w
  OBVIOUS
<1>2. d \in Nat /\ m \in 0..(w - 1) /\ p = d * w + m
  BY <1>1, Whole
<1>3. ~(d < q)
  <2> SUFFICES ASSUME d < q PROVE FALSE
    OBVIOUS
  <2>1. (d + 1) * w <= q * w /\ q * w \in Int
    BY <1>2, ProductGrows
  <2>2. (d + 1) * w = d * w + w /\ d * w \in Int
    BY <1>2, NextProduct
  <2> QED BY <1>2, <2>1, <2>2
<1>4. ~(q < d)
  <2> SUFFICES ASSUME q < d PROVE FALSE
    OBVIOUS
  <2>1. (q + 1) * w <= d * w /\ d * w \in Int
    BY <1>2, ProductGrows
  <2>2. (q + 1) * w = q * w + w /\ q * w \in Int
    BY NextProduct
  <2> QED BY <1>2, <2>1, <2>2
<1>5. d = q
  BY <1>2, <1>3, <1>4
<1>6. m = r
  <2>1. q * w + m = q * w + r /\ q * w \in Int
    BY <1>2, <1>5
  <2> QED BY <1>2, <2>1
<1> QED BY <1>5, <1>6

-----------------------------------------------------------------------------
(* The loops over a plane.                                                 *)
PixelOf(row, col, i) == (row * 8 + i \div 8) * plane.width + (col * 8 + (i % 8))

BlockPixels(row, col) == [i \in Cells |-> plane.at[PixelOf(row, col, i)]]

(* The k-th coefficient of the plane.                                      *)
CodedAt(k) ==
  EncodeBlock(BlockPixels((k \div 64) \div PlaneCols, (k \div 64) % PlaneCols),
              QuantStep(qp))[k % 64]

Places == 0..(Size - 1)

Before(p) ==
  \/ (p \div plane.width) \div 8 < by
  \/ (p \div plane.width) \div 8 = by /\ (p % plane.width) \div 8 < bx

Close(p) ==
  /\ 2 * Distance(out[p], plane.at[p]) <= QuantStep(qp) + 1
  /\ QuantStep(qp) = 1 => out[p] = plane.at[p]

PlaneShape ==
  /\ plane \in SourcePlanes /\ qp \in Qps
  /\ phase \in {"encode", "decode", "done"}
  /\ by \in 0..(PlaneRows - 1) /\ bx \in 0..(PlaneCols - 1)
  /\ offset = 64 * (by * PlaneCols + bx)
  /\ coeffs = [p \in Places |-> coeffs[p]]
  /\ out = [p \in Places |-> out[p]]

(* Every coefficient before offset is that of its own block, and every place of
   the blocks before (by, bx) is close to what it was.                     *)
PlaneInv ==
  /\ PlaneShape
  /\ \A k \in Places : (phase = "encode" => k < offset) => coeffs[k] = CodedAt(k)
  /\ \A p \in Places : phase = "done" \/ (phase = "decode" /\ Before(p)) => Close(p)

LEMMA PlaneIs ==
  ASSUME plane \in SourcePlanes
  PROVE  /\ plane.width \in Nat /\ plane.height \in Nat
         /\ plane.width > 0 /\ plane.height > 0
         /\ PlaneCols \in Nat /\ PlaneRows \in Nat /\ PlaneCols > 0 /\ PlaneRows > 0
         /\ plane.width = 8 * PlaneCols /\ plane.height = 8 * PlaneRows
         /\ Size \in Nat /\ Size = 64 * (PlaneRows * PlaneCols)
         /\ plane.at \in [Places -> 0..255]
<1>1. /\ plane.width \in Nat /\ plane.height \in Nat
      /\ plane.width > 0 /\ plane.height > 0
      /\ plane.width % 8 = 0 /\ plane.height % 8 = 0
      /\ plane.at \in [0..(plane.width * plane.height - 1) -> 0..255]
  BY PlanesAssumption
<1> PICK w : w = plane.width
  OBVIOUS
<1> PICK h : h = plane.height
  OBVIOUS
<1> PICK c : c = PlaneCols
  OBVIOUS
<1> PICK r : r = PlaneRows
  OBVIOUS
<1>2. c = w \div 8 /\ r = h \div 8
  BY DEF PlaneCols, PlaneRows
<1>3. w \in Nat /\ h \in Nat /\ w > 0 /\ h > 0 /\ w % 8 = 0 /\ h % 8 = 0
  BY <1>1
<1>4. c \in Nat /\ r \in Nat /\ c > 0 /\ r > 0 /\ w = 8 * c /\ h = 8 * r
  BY ONLY <1>2, <1>3
<1>5. w * h \in Nat /\ w * h = 64 * (r * c)
  BY ONLY <1>4
<1> QED BY <1>1, <1>4, <1>5 DEF Size, Places

LEMMA StepIs == qp \in Qps => QuantStep(qp) \in Step
BY QpsAssumption, QuantStepIsStep

(* A pixel of a block is a place of the plane.                             *)
LEMMA PixelIsPlace ==
  ASSUME plane \in SourcePlanes, NEW row \in 0..(PlaneRows - 1),
         NEW col \in 0..(PlaneCols - 1), NEW i \in Cells
  PROVE  PixelOf(row, col, i) \in Places
<1>1. /\ plane.width \in Nat /\ plane.height \in Nat
      /\ PlaneCols \in Nat /\ PlaneRows \in Nat
      /\ plane.width = 8 * PlaneCols /\ plane.height = 8 * PlaneRows
  BY PlaneIs
<1>2. i \div 8 \in 0..7 /\ i % 8 \in 0..7
  BY DEF Cells
<1> PICK y : y = row * 8 + i \div 8
  OBVIOUS
<1> PICK x : x = col * 8 + (i % 8)
  OBVIOUS
<1>3. y \in 0..(plane.height - 1) /\ x \in 0..(plane.width - 1)
  BY <1>1, <1>2
<1>4. y * plane.width + x \in 0..(plane.width * plane.height - 1)
  BY ONLY <1>1, <1>3, Row
<1> QED BY <1>4 DEF PixelOf, Places, Size

LEMMA BlockIsSamples ==
  ASSUME plane \in SourcePlanes, NEW row \in 0..(PlaneRows - 1),
         NEW col \in 0..(PlaneCols - 1)
  PROVE  BlockPixels(row, col) \in [Cells -> Sample]
<1> SUFFICES ASSUME NEW i \in Cells PROVE plane.at[PixelOf(row, col, i)] \in Sample
  BY DEF BlockPixels
<1>1. plane.at[PixelOf(row, col, i)] \in 0..255
  BY PlaneIs, PixelIsPlace
<1> QED BY <1>1, Ranges DEF Between

(* A place of the plane is the pixel of its own cell of its own block.     *)
LEMMA PlaceIsPixel ==
  ASSUME plane \in SourcePlanes, NEW p \in Places
  PROVE  /\ CellAt(p) \in Cells
         /\ (p \div plane.width) \div 8 \in 0..(PlaneRows - 1)
         /\ (p % plane.width) \div 8 \in 0..(PlaneCols - 1)
         /\ InBlock(p) => PixelOf(by, bx, CellAt(p)) = p
<1>1. /\ plane.width \in Nat /\ plane.height \in Nat /\ plane.width > 0
      /\ PlaneCols \in Nat /\ PlaneRows \in Nat
      /\ plane.width = 8 * PlaneCols /\ plane.height = 8 * PlaneRows
  BY PlaneIs
<1>2. p \in 0..(plane.width * plane.height - 1)
  BY DEF Places, Size
<1> PICK w : w = plane.width
  OBVIOUS
<1> PICK y : y = p \div w
  OBVIOUS
<1> PICK x : x = p % w
  OBVIOUS
<1>3. p \in Nat /\ y \in 0..(plane.height - 1) /\ x \in 0..(w - 1)
  BY <1>1, <1>2, RowOf
<1>4. p = y * w + x
  BY <1>1, <1>3, Whole
<1> PICK c : c = CellAt(p)
  OBVIOUS
<1>5. c = (y % 8) * 8 + (x % 8)
  BY DEF CellAt
<1>6. y \in Nat /\ x \in Nat
  BY <1>1, <1>3
<1>7. c \in Cells /\ c \div 8 = y % 8 /\ c % 8 = x % 8
  BY ONLY <1>5, <1>6 DEF Cells
<1>8. y = 8 * (y \div 8) + (y % 8) /\ x = 8 * (x \div 8) + (x % 8)
      /\ y \div 8 \in Nat /\ x \div 8 \in Nat
  BY ONLY <1>6
<1>9. y \div 8 \in 0..(PlaneRows - 1) /\ x \div 8 \in 0..(PlaneCols - 1)
  BY <1>1, <1>3, <1>6
<1>10. ASSUME y \div 8 = by, x \div 8 = bx PROVE PixelOf(by, bx, c) = p
  <2>1. by * 8 + c \div 8 = y /\ bx * 8 + (c % 8) = x
    BY <1>7, <1>8, <1>10
  <2> QED BY <1>4, <2>1 DEF PixelOf
<1> QED BY <1>7, <1>9, <1>10 DEF InBlock

LEMMA PlaneInvInit == PlaneInit => PlaneInv
<1> SUFFICES ASSUME PlaneInit PROVE PlaneInv
  OBVIOUS
<1>1. /\ plane \in SourcePlanes /\ qp \in Qps /\ phase = "encode" /\ by = 0 /\ bx = 0
      /\ offset = 0 /\ coeffs = [p \in Places |-> 0] /\ out = [p \in Places |-> 0]
  BY DEF PlaneInit, Places
<1>2. PlaneCols \in Nat /\ PlaneRows \in Nat /\ PlaneCols > 0 /\ PlaneRows > 0 /\ Size \in Nat
  BY <1>1, PlaneIs
<1>3. by \in 0..(PlaneRows - 1) /\ bx \in 0..(PlaneCols - 1)
      /\ offset = 64 * (by * PlaneCols + bx)
  BY <1>1, <1>2
<1>4. \A k \in Places : ~(k < offset)
  BY <1>1, <1>2 DEF Places
<1> QED BY <1>1, <1>3, <1>4 DEF PlaneInv, PlaneShape

(* The loop over the blocks: the next block, or all of them are done.      *)
LEMMA AdvanceIs ==
  ASSUME PlaneShape, NEW next, Advance(next), UNCHANGED <<plane, qp>>
  PROVE  /\ by' \in 0..(PlaneRows - 1) /\ bx' \in 0..(PlaneCols - 1)
         /\ offset' = 64 * (by' * PlaneCols + bx')
         /\ \/ /\ phase' = phase /\ offset' = offset + 64
               /\ \A p \in Places : Before(p)' => Before(p) \/ InBlock(p)
            \/ /\ phase' = next /\ by' = 0 /\ bx' = 0 /\ offset' = 0
               /\ offset + 64 = Size
               /\ \A p \in Places : Before(p) \/ InBlock(p)
<1>1. /\ PlaneCols \in Nat /\ PlaneRows \in Nat /\ PlaneCols > 0 /\ PlaneRows > 0
      /\ plane \in SourcePlanes /\ Size = 64 * (PlaneRows * PlaneCols)
  BY PlaneIs DEF PlaneShape
<1>2. /\ by \in 0..(PlaneRows - 1) /\ bx \in 0..(PlaneCols - 1)
      /\ offset = 64 * (by * PlaneCols + bx) /\ by \in Int /\ bx \in Int
  BY <1>1 DEF PlaneShape
<1> PICK c : c = PlaneCols
  OBVIOUS
<1> PICK r : r = PlaneRows
  OBVIOUS
<1>3. (by + 1) * c = by * c + c /\ by * c \in Int
  BY <1>1, <1>2, NextProduct
<1> PICK done : done = by * c
  OBVIOUS
<1>4. ASSUME NEW p \in Places
      PROVE  /\ (p \div plane.width) \div 8 \in 0..(r - 1)
             /\ (p % plane.width) \div 8 \in 0..(c - 1)
  BY <1>1, PlaceIsPixel
<1>5. CASE bx + 1 < PlaneCols
  <2>1. bx' = bx + 1 /\ by' = by /\ offset' = offset + 64 /\ phase' = phase
    BY <1>5 DEF Advance
  <2>2. bx' \in 0..(PlaneCols - 1) /\ offset' = 64 * (by' * PlaneCols + bx')
    <3>1. offset' = 64 * (done + bx + 1)
      BY <1>2, <1>3, <2>1
    <3> QED BY <1>1, <1>2, <1>3, <1>5, <2>1, <3>1
  <2>3. ASSUME NEW p \in Places, Before(p)' PROVE Before(p) \/ InBlock(p)
    <3> PICK y : y = (p \div plane.width) \div 8
      OBVIOUS
    <3> PICK x : x = (p % plane.width) \div 8
      OBVIOUS
    <3>1. y < by \/ (y = by /\ x < bx + 1)
      BY <2>1, <2>3 DEF Before
    <3>2. x \in Int
      BY <1>1, <1>4
    <3>3. y < by \/ (y = by /\ x < bx) \/ (y = by /\ x = bx)
      BY <1>2, <3>1, <3>2
    <3> QED BY <3>3 DEF Before, InBlock
  <2> QED BY <1>2, <2>1, <2>2, <2>3
<1>6. CASE ~(bx + 1 < PlaneCols)
  <2>1. bx + 1 = c
    BY <1>1, <1>2, <1>6
  <2>2. CASE by + 1 < PlaneRows
    <3>1. bx' = 0 /\ by' = by + 1 /\ offset' = offset + 64 /\ phase' = phase
      BY <1>6, <2>2 DEF Advance
    <3>2. bx' \in 0..(PlaneCols - 1) /\ by' \in 0..(PlaneRows - 1)
      BY <1>1, <1>2, <2>2, <3>1
    <3>3. offset' = 64 * (by' * PlaneCols + bx')
      <4>1. offset' = 64 * (done + bx) + 64
        BY <1>2, <3>1
      <4>2. by' * PlaneCols + bx' = done + c
        BY <1>1, <1>3, <3>1
      <4> QED BY <1>1, <1>2, <1>3, <2>1, <4>1, <4>2
    <3>4. ASSUME NEW p \in Places, Before(p)' PROVE Before(p) \/ InBlock(p)
      <4> PICK y : y = (p \div plane.width) \div 8
        OBVIOUS
      <4> PICK x : x = (p % plane.width) \div 8
        OBVIOUS
      <4>1. y \in 0..(r - 1) /\ x \in 0..(c - 1) /\ c \in Int /\ r \in Int
        BY <1>1, <1>4
      <4>2. y < by + 1 \/ (y = by + 1 /\ x < 0)
        BY <3>1, <3>4 DEF Before
      <4>3. y < by \/ (y = by /\ x < bx) \/ (y = by /\ x = bx)
        BY <1>2, <2>1, <4>1, <4>2
      <4> QED BY <4>3 DEF Before, InBlock
    <3> QED BY <3>1, <3>2, <3>3, <3>4
  <2>3. CASE ~(by + 1 < PlaneRows)
    <3>1. bx' = 0 /\ by' = 0 /\ offset' = 0 /\ phase' = next
      BY <1>6, <2>3 DEF Advance
    <3>2. by + 1 = r
      BY <1>1, <1>2, <2>3
    <3>3. offset + 64 = Size
      <4>1. r * c = done + c
        BY <1>3, <3>2
      <4> QED BY <1>1, <1>2, <1>3, <2>1, <4>1
    <3>4. ASSUME NEW p \in Places PROVE Before(p) \/ InBlock(p)
      <4> PICK y : y = (p \div plane.width) \div 8
        OBVIOUS
      <4> PICK x : x = (p % plane.width) \div 8
        OBVIOUS
      <4>1. y \in 0..(r - 1) /\ x \in 0..(c - 1) /\ c \in Int /\ r \in Int
        BY <1>1, <1>4
      <4>2. y < by \/ (y = by /\ x < bx) \/ (y = by /\ x = bx)
        BY <1>2, <2>1, <3>2, <4>1
      <4> QED BY <4>2 DEF Before, InBlock
    <3>5. 0 \in 0..(PlaneRows - 1) /\ 0 \in 0..(PlaneCols - 1)
          /\ 0 = 64 * (0 * PlaneCols + 0)
      BY <1>1
    <3> QED BY <3>1, <3>3, <3>4, <3>5
  <2> QED BY <2>2, <2>3
<1> QED BY <1>5, <1>6

(* The coefficients that Encode writes are those of its block.             *)
LEMMA CodedIs ==
  ASSUME PlaneShape, NEW i \in Cells
  PROVE  /\ offset + i \in Places
         /\ CodedAt(offset + i) = EncodeBlock(BlockPixels(by, bx), QuantStep(qp))[i]
<1>1. /\ PlaneCols \in Nat /\ PlaneRows \in Nat /\ PlaneCols > 0
      /\ Size = 64 * (PlaneRows * PlaneCols)
  BY PlaneIs DEF PlaneShape
<1>2. /\ by \in 0..(PlaneRows - 1) /\ bx \in 0..(PlaneCols - 1)
      /\ offset = 64 * (by * PlaneCols + bx)
  BY DEF PlaneShape
<1> PICK n : n = by * PlaneCols + bx
  OBVIOUS
<1>3. n \in 0..(PlaneCols * PlaneRows - 1)
  BY ONLY <1>1, <1>2, n = by * PlaneCols + bx, Row
<1>4. n \div PlaneCols = by /\ n % PlaneCols = bx
  <2>1. by \in Nat
    BY <1>1, <1>2
  <2> QED BY ONLY <1>1, <1>2, <2>1, n = by * PlaneCols + bx, DivModIs
<1> PICK k : k = 64 * n + i
  OBVIOUS
<1> PICK m : m = PlaneCols * PlaneRows
  OBVIOUS
<1>5. m \in Nat /\ Size = 64 * m /\ n \in 0..(m - 1)
  BY <1>1, <1>3
<1>6. k \in 0..(Size - 1) /\ k \div 64 = n /\ k % 64 = i
  BY ONLY <1>5, k = 64 * n + i, i \in Cells DEF Cells
<1>7. offset + i = k
  BY <1>2
<1> QED BY <1>4, <1>6, <1>7 DEF CodedAt, Places

LEMMA EncodeKeeps == PlaneInv /\ Encode => PlaneInv'
<1> SUFFICES ASSUME PlaneInv, Encode PROVE PlaneInv'
  OBVIOUS
<1>1. /\ phase = "encode" /\ Advance("decode") /\ UNCHANGED <<plane, qp, out>> /\ PlaneShape
  BY DEF Encode, PlaneInv
<1>2. UNCHANGED <<Size, Places, PlaneCols, PlaneRows>>
  BY <1>1 DEF Size, Places, PlaneCols, PlaneRows
<1> PICK block : block = EncodeBlock(BlockPixels(by, bx), QuantStep(qp))
  OBVIOUS
<1>3. [i \in Cells |-> plane.at[PixelAt(i)]] = BlockPixels(by, bx)
  <2>1. ASSUME NEW i \in Cells PROVE PixelAt(i) = PixelOf(by, bx, i)
    <3> PICK rows : rows = (by * 8 + i \div 8) * plane.width
      OBVIOUS
    <3>1. rows \in Int /\ bx * 8 \in Int /\ i % 8 \in Int
      <4>1. by \in Int /\ bx \in Int /\ i \in Int /\ plane.width \in Int
        BY <1>1, PlaneIs DEF PlaneShape, Cells
      <4>2. by * 8 + i \div 8 \in Int /\ bx * 8 \in Int /\ i % 8 \in Int
        BY <4>1
      <4> QED BY <4>1, <4>2
    <3>2. rows + bx * 8 + (i % 8) = rows + (bx * 8 + (i % 8))
      BY ONLY <3>1
    <3> QED BY <3>2 DEF PixelAt, PixelOf
  <2> QED BY <2>1 DEF BlockPixels
<1>4. coeffs' = [p \in DOMAIN coeffs |->
                   IF p \in offset..(offset + 63) THEN block[p - offset] ELSE coeffs[p]]
  BY <1>3 DEF Encode
<1>5. DOMAIN coeffs = Places /\ Size \in Nat /\ offset \in Int
  BY <1>1, PlaneIs DEF PlaneShape
<1>6. coeffs' = [p \in Places |-> coeffs'[p]]
  BY <1>4, <1>5
<1>7. ASSUME NEW k \in Places, k < offset + 64 PROVE coeffs'[k] = CodedAt(k)
  <2>1. k \in Int
    BY <1>5 DEF Places
  <2>2. CASE k < offset
    <3>1. k \notin offset..(offset + 63)
      BY <1>5, <2>1, <2>2
    <3> QED BY <1>1, <1>4, <1>5, <2>2, <3>1 DEF PlaneInv
  <2>3. CASE ~(k < offset)
    <3>1. k \in offset..(offset + 63) /\ k - offset \in Cells /\ offset + (k - offset) = k
      BY <1>5, <1>7, <2>1, <2>3 DEF Cells
    <3>2. coeffs'[k] = block[k - offset]
      BY <1>4, <1>5, <3>1
    <3>3. CodedAt(offset + (k - offset)) = block[k - offset]
      BY <1>1, <3>1, CodedIs
    <3> QED BY <3>1, <3>2, <3>3
  <2> QED BY <2>2, <2>3
<1>8. ASSUME NEW k \in Places PROVE CodedAt(k)' = CodedAt(k)
  BY <1>1, <1>2 DEF CodedAt, BlockPixels, PixelOf
<1>9. /\ by' \in 0..(PlaneRows - 1) /\ bx' \in 0..(PlaneCols - 1)
      /\ offset' = 64 * (by' * PlaneCols + bx')
      /\ \/ phase' = "encode" /\ offset' = offset + 64
         \/ phase' = "decode" /\ by' = 0 /\ bx' = 0 /\ offset + 64 = Size
  BY <1>1, AdvanceIs
<1>10. PlaneShape'
  BY <1>1, <1>2, <1>6, <1>9 DEF PlaneShape
<1>11. \A k \in Places : (phase' = "encode" => k < offset') => coeffs'[k] = CodedAt(k)
  <2> SUFFICES ASSUME NEW k \in Places, phase' = "encode" => k < offset'
               PROVE  coeffs'[k] = CodedAt(k)
    OBVIOUS
  <2>1. k < Size
    BY <1>5 DEF Places
  <2> QED BY <1>7, <1>9, <2>1
<1>12. ASSUME NEW p \in Places, phase' = "done" \/ (phase' = "decode" /\ Before(p)') PROVE FALSE
  <2>1. by' = 0 /\ bx' = 0 /\ plane' = plane
    BY <1>1, <1>9, <1>12
  <2>2. /\ (p \div plane.width) \div 8 \in 0..(PlaneRows - 1)
        /\ (p % plane.width) \div 8 \in 0..(PlaneCols - 1)
        /\ PlaneRows \in Nat /\ PlaneCols \in Nat
    BY <1>1, PlaceIsPixel, PlaneIs DEF PlaneShape
  <2>3. ~Before(p)'
    BY <2>1, <2>2 DEF Before
  <2> QED BY <1>9, <1>12, <2>3
<1> QED BY <1>2, <1>8, <1>10, <1>11, <1>12 DEF PlaneInv

LEMMA DecodeKeeps == PlaneInv /\ Decode => PlaneInv'
<1> SUFFICES ASSUME PlaneInv, Decode PROVE PlaneInv'
  OBVIOUS
<1>1. /\ phase = "decode" /\ Advance("done") /\ UNCHANGED <<plane, qp, coeffs>> /\ PlaneShape
      /\ plane \in SourcePlanes /\ qp \in Qps
  BY DEF Decode, PlaneInv, PlaneShape
<1>2. UNCHANGED <<Size, Places, PlaneCols, PlaneRows>>
  BY <1>1 DEF Size, Places, PlaneCols, PlaneRows
<1> PICK step : step = QuantStep(qp)
  OBVIOUS
<1> PICK pixels : pixels = BlockPixels(by, bx)
  OBVIOUS
<1> PICK coded : coded = EncodeBlock(pixels, step)
  OBVIOUS
<1> PICK back : back = DecodeBlock(coded, step)
  OBVIOUS
<1>3. step \in Step /\ pixels \in [Cells -> Sample]
  BY <1>1, StepIs, BlockIsSamples DEF PlaneShape
<1>4. /\ \A i \in Cells : 2 * Distance(back[i], pixels[i]) <= step + 1
      /\ step = 1 => back = pixels
      /\ coded \in [Cells -> Coefficient]
  BY ONLY <1>3, coded = EncodeBlock(pixels, step), back = DecodeBlock(coded, step),
          BlockRoundTrip
<1>5. [i \in Cells |-> coeffs[offset + i]] = coded
  <2>1. ASSUME NEW i \in Cells PROVE coeffs[offset + i] = coded[i]
    <3>1. offset + i \in Places /\ CodedAt(offset + i) = coded[i]
      BY <1>1, CodedIs
    <3>2. coeffs[offset + i] = CodedAt(offset + i)
      BY <1>1, <3>1 DEF PlaneInv
    <3> QED BY <3>1, <3>2
  <2>2. coded = [i \in Cells |-> coded[i]]
    BY <1>4
  <2> QED BY <2>1, <2>2
<1>6. out' = [p \in DOMAIN out |-> IF InBlock(p) THEN back[CellAt(p)] ELSE out[p]]
  BY <1>5 DEF Decode
<1>7. DOMAIN out = Places
  BY <1>1 DEF PlaneShape
<1>8. out' = [p \in Places |-> out'[p]]
  BY <1>6, <1>7
<1>9. ASSUME NEW p \in Places, Before(p) \/ InBlock(p) PROVE Close(p)'
  <2>1. CASE InBlock(p)
    <3>1. CellAt(p) \in Cells /\ PixelOf(by, bx, CellAt(p)) = p
      BY <1>1, <2>1, PlaceIsPixel
    <3>2. pixels[CellAt(p)] = plane.at[p]
      BY <3>1 DEF BlockPixels
    <3>3. out'[p] = back[CellAt(p)]
      BY <1>6, <1>7, <2>1
    <3>4. 2 * Distance(out'[p], plane.at[p]) <= step + 1
      BY <1>4, <3>1, <3>2, <3>3
    <3>5. step = 1 => out'[p] = plane.at[p]
      BY <1>4, <3>1, <3>2, <3>3
    <3> QED BY <1>1, <3>4, <3>5 DEF Close
  <2>2. CASE ~InBlock(p)
    <3>1. out'[p] = out[p]
      BY <1>6, <1>7, <2>2
    <3>2. Close(p)
      BY <1>1, <1>9, <2>2 DEF PlaneInv
    <3> QED BY <1>1, <3>1, <3>2 DEF Close
  <2> QED BY <2>1, <2>2
<1>10. /\ by' \in 0..(PlaneRows - 1) /\ bx' \in 0..(PlaneCols - 1)
       /\ offset' = 64 * (by' * PlaneCols + bx')
       /\ \/ phase' = "decode" /\ \A p \in Places : Before(p)' => Before(p) \/ InBlock(p)
          \/ phase' = "done" /\ \A p \in Places : Before(p) \/ InBlock(p)
  BY <1>1, AdvanceIs
<1>11. PlaneShape'
  BY <1>1, <1>2, <1>8, <1>10 DEF PlaneShape
<1>12. \A k \in Places : coeffs'[k] = CodedAt(k)'
  BY <1>1, <1>2 DEF PlaneInv, CodedAt, BlockPixels, PixelOf
<1>13. \A p \in Places : phase' = "done" \/ (phase' = "decode" /\ Before(p)') => Close(p)'
  BY <1>9, <1>10
<1> QED BY <1>2, <1>11, <1>12, <1>13 DEF PlaneInv

(* encode_plane and then decode_plane, for every plane of whole blocks and
   every QP: each pixel is back in its own place to within half a step.    *)
THEOREM PlaneRoundTrip == PlaneSpec => []Faithful
<1>1. PlaneInv /\ UNCHANGED planeVars => PlaneInv'
  BY DEF PlaneInv, PlaneShape, planeVars, Size, Places, PlaneCols, PlaneRows, CodedAt, BlockPixels,
         PixelOf, Before, Close
<1>2. PlaneInv /\ [PlaneNext]_planeVars => PlaneInv'
  BY <1>1, EncodeKeeps, DecodeKeeps DEF PlaneNext
<1>3. PlaneInv => Faithful
  BY DEF PlaneInv, PlaneShape, Faithful, Close
<1> QED BY PlaneInvInit, <1>2, <1>3, PTL DEF PlaneSpec
-----------------------------------------------------------------------------
(* The combined figure of three planes.                                    *)
LEMMA Weights ==
  ASSUME NEW P \in SUBSET Planes
  PROVE  WeightOf(P) = (IF "y" \in P THEN 4 ELSE 0) + (IF "u" \in P THEN 1 ELSE 0)
                       + (IF "v" \in P THEN 1 ELSE 0)
<1> DEFINE A == IF "y" \in P THEN {"y"} ELSE {}
           B == IF "u" \in P THEN A \union {"u"} ELSE A
           C == IF "v" \in P THEN B \union {"v"} ELSE B
<1>1. IsFiniteSet({}) /\ Cardinality({}) = 0
  BY FS_EmptySet
<1>2. IsFiniteSet(A) /\ Cardinality(A) = IF "y" \in P THEN 1 ELSE 0
  BY <1>1, FS_Singleton
<1>3. IsFiniteSet(B) /\ Cardinality(B) = Cardinality(A) + IF "u" \in P THEN 1 ELSE 0
  <2>1. "u" \notin A
    OBVIOUS
  <2>2. Cardinality(A) \in Nat
    BY <1>2
  <2> HIDE DEF A
  <2> QED BY <1>2, <2>1, <2>2, FS_AddElement
<1>4. IsFiniteSet(C) /\ Cardinality(C) = Cardinality(B) + IF "v" \in P THEN 1 ELSE 0
  <2>1. "v" \notin B
    OBVIOUS
  <2>2. Cardinality(B) \in Nat
    BY <1>2, <1>3
  <2> HIDE DEF B
  <2> QED BY <1>3, <2>1, <2>2, FS_AddElement
<1>5. P = C
  BY DEF Planes
<1> HIDE DEF A, B, C
<1> QED BY <1>2, <1>3, <1>4, <1>5 DEF WeightOf

FigureSet == [Planes -> 0..Infinite]

(* The terms that are summed and the weights they are divided by.          *)
LEMMA CombinedIs ==
  ASSUME NEW f \in FigureSet, Finite(f) # {}
  PROVE  \E sum \in Nat, weight \in Nat \ {0} :
           /\ Combined(f) = sum \div weight
           /\ \A b \in Int : (\A p \in Finite(f) : f[p] >= b) => sum >= b * weight
           /\ \A b \in Int : (\A p \in Finite(f) : f[p] < b) => sum < b * weight
<1> DEFINE W(p) == IF p \in Finite(f) THEN Weight(p) ELSE 0
           T(p) == IF p \in Finite(f) THEN Weight(p) * f[p] ELSE 0
<1>1. /\ W("y") \in {0, 4} /\ W("u") \in {0, 1} /\ W("v") \in {0, 1}
      /\ T("y") \in Nat /\ T("u") \in Nat /\ T("v") \in Nat
      /\ W("y") + W("u") + W("v") # 0
  BY InfiniteAssumption DEF FigureSet, Planes, Weight, Finite
<1>2. WeightOf(Finite(f)) = W("y") + W("u") + W("v")
  <2>1. Finite(f) \in SUBSET Planes
    BY DEF Finite
  <2> QED BY <2>1, Weights DEF Weight
<1>3. WeightedSum(f, Finite(f)) = T("y") + T("u") + T("v")
  BY DEF WeightedSum
<1>4. Combined(f) = (T("y") + T("u") + T("v")) \div (W("y") + W("u") + W("v"))
  BY <1>2, <1>3 DEF Combined
<1>5. \A p \in Planes, b \in Int : (\A q \in Finite(f) : f[q] >= b) => T(p) >= b * W(p)
  BY InfiniteAssumption DEF FigureSet, Planes, Weight, Finite
<1>6. \A p \in Planes, b \in Int : (\A q \in Finite(f) : f[q] < b) =>
         T(p) <= b * W(p) /\ (W(p) # 0 => T(p) < b * W(p))
  BY InfiniteAssumption DEF FigureSet, Planes, Weight, Finite
<1> HIDE DEF W, T
<1>7. ASSUME NEW b \in Int
      PROVE  b * (W("y") + W("u") + W("v")) = b * W("y") + b * W("u") + b * W("v")
  BY <1>1
<1>8. ASSUME NEW b \in Int, \A p \in Finite(f) : f[p] >= b
      PROVE  T("y") + T("u") + T("v") >= b * (W("y") + W("u") + W("v"))
  <2>1. T("y") >= b * W("y") /\ T("u") >= b * W("u") /\ T("v") >= b * W("v")
    BY <1>5, <1>8 DEF Planes
  <2> QED BY <1>1, <1>7, <2>1
<1>9. ASSUME NEW b \in Int, \A p \in Finite(f) : f[p] < b
      PROVE  T("y") + T("u") + T("v") < b * (W("y") + W("u") + W("v"))
  <2>1. /\ T("y") <= b * W("y") /\ T("u") <= b * W("u") /\ T("v") <= b * W("v")
        /\ W("y") # 0 => T("y") < b * W("y")
        /\ W("u") # 0 => T("u") < b * W("u")
        /\ W("v") # 0 => T("v") < b * W("v")
    BY <1>6, <1>9 DEF Planes
  <2> QED BY <1>1, <1>7, <2>1
<1>10. T("y") + T("u") + T("v") \in Nat /\ W("y") + W("u") + W("v") \in Nat \ {0}
  BY <1>1
<1> QED BY <1>4, <1>8, <1>9, <1>10

LEMMA Average ==
  ASSUME NEW sum \in Nat, NEW weight \in Nat \ {0}, NEW b \in Int
  PROVE  /\ sum \div weight \in Nat
         /\ sum >= b * weight => sum \div weight >= b
         /\ sum < b * weight => sum \div weight < b
<1>1. PICK q \in Nat, r \in 0..(weight - 1) : sum = q * weight + r /\ q = sum \div weight
  OBVIOUS
<1>2. q >= b => q * weight >= b * weight
  OBVIOUS
<1>3. q + 1 <= b => (q + 1) * weight <= b * weight
  OBVIOUS
<1>4. (q + 1) * weight = q * weight + weight
  OBVIOUS
<1> QED BY <1>1, <1>2, <1>3, <1>4

LEMMA CombinedBounds ==
  ASSUME NEW f \in FigureSet, Finite(f) # {}
  PROVE  /\ Combined(f) \in Nat
         /\ \A b \in Int : (\A p \in Finite(f) : f[p] >= b) => Combined(f) >= b
         /\ \A b \in Int : (\A p \in Finite(f) : f[p] < b) => Combined(f) < b
BY CombinedIs, Average

LEMMA FiguresFollow ==
  ASSUME v1 \in Figures
  PROVE  /\ Finite(v1) # {} =>
              /\ \E p \in Finite(v1) : Combined(v1) >= v1[p]
              /\ \E p \in Finite(v1) : Combined(v1) <= v1[p]
         /\ \A t \in Tolerances :
              /\ (\A p \in Planes : v1[p] >= t) => MeetsThreshold(v1, t)
              /\ (\A p \in Planes : v1[p] < t) => ~MeetsThreshold(v1, t)
<1>1. v1 \in FigureSet
  <2>1. Levels \union {Infinite} \subseteq 0..Infinite
    BY FiguresAssumption, InfiniteAssumption
  <2> QED BY <2>1 DEF Figures, FigureSet
<1>2. \A p \in Planes : v1[p] \in Nat /\ v1[p] <= Infinite
  BY <1>1, InfiniteAssumption DEF FigureSet
<1>3. Finite(v1) \subseteq Planes
  BY DEF Finite
<1>4. ASSUME Finite(v1) # {}
      PROVE  /\ \E p \in Finite(v1) : Combined(v1) >= v1[p]
             /\ \E p \in Finite(v1) : Combined(v1) <= v1[p]
  <2>1. Combined(v1) \in Nat
    BY <1>1, <1>4, CombinedBounds
  <2>2. CASE \A p \in Finite(v1) : ~(Combined(v1) >= v1[p])
    <3>1. \A p \in Finite(v1) : v1[p] >= Combined(v1) + 1
      BY <1>2, <1>3, <2>1, <2>2
    <3> QED BY <1>1, <1>4, <2>1, <3>1, CombinedBounds
  <2>3. CASE \A p \in Finite(v1) : ~(Combined(v1) <= v1[p])
    <3>1. \A p \in Finite(v1) : v1[p] < Combined(v1)
      BY <1>2, <1>3, <2>1, <2>3
    <3> QED BY <1>1, <1>4, <2>1, <3>1, CombinedBounds
  <2> QED BY <2>2, <2>3
<1>5. ASSUME NEW t \in Tolerances, \A p \in Planes : v1[p] >= t
      PROVE  MeetsThreshold(v1, t)
  <2>1. t \in Int
    BY FiguresAssumption
  <2>2. CASE Finite(v1) = {}
    BY <2>2 DEF MeetsThreshold, Combined
  <2>3. CASE Finite(v1) # {}
    BY <1>1, <1>3, <1>5, <2>1, <2>3, CombinedBounds DEF MeetsThreshold
  <2> QED BY <2>2, <2>3
<1>6. ASSUME NEW t \in Tolerances, \A p \in Planes : v1[p] < t
      PROVE  ~MeetsThreshold(v1, t)
  <2>1. t \in Int /\ t <= Infinite
    BY FiguresAssumption
  <2>2. Finite(v1) = Planes
    BY <1>2, <1>6, <2>1, InfiniteAssumption DEF Finite
  <2>3. Combined(v1) \in Nat /\ Combined(v1) < t
    BY <1>1, <1>6, <2>1, <2>2, CombinedBounds DEF Planes
  <2> QED BY <2>1, <2>3, InfiniteAssumption DEF MeetsThreshold
<1> QED BY <1>4, <1>5, <1>6

-----------------------------------------------------------------------------
(* Strings of bytes.                                                       *)
Strings == Seq(Int)

LEMMA Concatenation ==
  ASSUME NEW s \in Strings, NEW t \in Strings
  PROVE  s \o t \in Strings /\ Len(s \o t) = Len(s) + Len(t)
BY ConcatProperties DEF Strings

(* A string starts with a byte, and so does what continues it.             *)
Starts(s, b) == s \in Strings /\ Len(s) >= 1 /\ s[1] = b

LEMMA StartStays ==
  ASSUME NEW s, NEW b, Starts(s, b), NEW t \in Strings
  PROVE  Starts(s \o t, b)
<1>1. s \in Strings /\ Len(s) >= 1 /\ s[1] = b /\ Len(s) \in Nat /\ Len(t) \in Nat
  BY LenProperties DEF Starts, Strings
<1>2. s \o t \in Strings /\ Len(s \o t) = Len(s) + Len(t)
  BY <1>1, Concatenation
<1>3. (s \o t)[1] = s[1]
  <2>1. 1 \in 1..(Len(s) + Len(t)) /\ 1 <= Len(s)
    BY <1>1
  <2> QED BY <1>1, <2>1, ConcatProperties DEF Strings
<1>4. Len(s \o t) >= 1
  BY <1>1, <1>2
<1> QED BY <1>1, <1>2, <1>3, <1>4, Zenon DEF Starts

(* Two strings, each of two parts, are the same.                           *)
Same(s, u, t, v) == s \o u = t \o v

LEMMA CancelPrefix ==
  ASSUME NEW s \in Strings, NEW t \in Strings, NEW u \in Strings, NEW v \in Strings,
         Len(s) = Len(t), Same(s, u, t, v)
  PROVE  s = t /\ u = v
<1> USE DEF Same
<1>1. \A i \in 1..Len(s) : s[i] = t[i]
  <2> SUFFICES ASSUME NEW i \in 1..Len(s) PROVE s[i] = t[i]
    OBVIOUS
  <2>1. (s \o u)[i] = s[i] /\ (t \o v)[i] = t[i]
    BY ConcatProperties DEF Strings
  <2> QED BY <2>1
<1>2. s = t
  <2>1. s \in Seq(Int) /\ t \in Seq(Int)
    BY DEF Strings
  <2> QED BY <1>1, <2>1, SeqEqual
<1> QED BY <1>2, ConcatSimplifications DEF Strings

LEMMA CancelSuffix ==
  ASSUME NEW s \in Strings, NEW t \in Strings, NEW u \in Strings, NEW v \in Strings,
         Len(u) = Len(v), Same(s, u, t, v)
  PROVE  s = t /\ u = v
<1>1. Len(s) = Len(t)
  <2>1. Len(s) + Len(u) = Len(t) + Len(v)
    BY Concatenation DEF Same
  <2> QED BY <2>1 DEF Strings
<1> QED BY <1>1, CancelPrefix

LEMMA Associative ==
  ASSUME NEW s \in Strings, NEW t \in Strings, NEW u \in Strings
  PROVE  (s \o t) \o u = s \o (t \o u)
<1>1. PICK st \in Strings, tu \in Strings : st = s \o t /\ tu = t \o u
  BY Concatenation
<1>2. /\ st \o u \in Strings /\ Len(st \o u) = (Len(s) + Len(t)) + Len(u)
      /\ s \o tu \in Strings /\ Len(s \o tu) = Len(s) + (Len(t) + Len(u))
  BY <1>1, Concatenation
<1>3. Len(s) \in Nat /\ Len(t) \in Nat /\ Len(u) \in Nat
  BY LenProperties DEF Strings
<1>4. ASSUME NEW i \in 1..(Len(s) + Len(t) + Len(u)) PROVE (st \o u)[i] = (s \o tu)[i]
  <2>1. (st \o u)[i] = IF i <= Len(st) THEN st[i] ELSE u[i - Len(st)]
    BY <1>2, <1>3
  <2>2. (s \o tu)[i] = IF i <= Len(s) THEN s[i] ELSE tu[i - Len(s)]
    BY <1>2, <1>3
  <2> QED BY <1>1, <1>3, <2>1, <2>2
<1>5. PICK left \in Strings, right \in Strings : left = st \o u /\ right = s \o tu
  BY <1>2
<1>6. left \in Seq(Int) /\ right \in Seq(Int)
  BY DEF Strings
<1>7. Len(left) = Len(right) /\ \A i \in 1..Len(left) : left[i] = right[i]
  <2>1. /\ Len(left) = (Len(s) + Len(t)) + Len(u)
        /\ Len(right) = Len(s) + (Len(t) + Len(u))
    BY <1>2, <1>5, Zenon
  <2>2. \A i \in 1..(Len(s) + Len(t) + Len(u)) : left[i] = right[i]
    BY <1>4, <1>5, Zenon
  <2> QED BY ONLY <1>3, <2>1, <2>2
<1>8. left = right
  BY <1>6, <1>7, SeqEqual
<1> QED BY <1>1, <1>5, <1>8, Zenon

(* Fields that were appended one after the other, from the front.          *)
Grouped(a, b, c, d) == ((a \o b) \o c) \o d = a \o (b \o (c \o d))

LEMMA Regroup ==
  ASSUME NEW a \in Strings, NEW b \in Strings, NEW c \in Strings, NEW d \in Strings
  PROVE  Grouped(a, b, c, d)
<1> USE DEF Grouped
<1>1. PICK x \in Strings, y \in Strings : x = a \o b /\ y = c \o d
  BY Concatenation
<1>2. (x \o c) \o d = x \o (c \o d)
  BY Associative
<1>3. (a \o b) \o y = a \o (b \o y)
  BY Associative
<1> QED BY <1>1, <1>2, <1>3, Zenon

-----------------------------------------------------------------------------
(* Integers can be read back from their bytes.                             *)
LEMMA ValuesAre ==
  /\ Base \in Nat \ {0} /\ Values16 \in Nat \ {0}
  /\ Values32 \in Nat \ {0} /\ Values64 \in Nat \ {0}
<1>1. Base \in Nat \ {0}
  BY BaseAssumption
<1>2. \A m, n \in Nat \ {0} : m * n \in Nat \ {0}
  OBVIOUS
<1> QED BY <1>1, <1>2 DEF Values16, Values32, Values64

(* A number is its quotient and its remainder.                             *)
LEMMA Digits ==
  ASSUME NEW b \in Nat \ {0}, NEW m \in Nat, NEW n \in Nat
  PROVE  /\ m % b \in Nat /\ m \div b \in Nat
         /\ m % b = n % b /\ m \div b = n \div b => m = n
<1>1. m = b * (m \div b) + (m % b) /\ n = b * (n \div b) + (n % b)
  OBVIOUS
<1> QED BY <1>1

LEMMA Read16 ==
  ASSUME NEW m \in Nat, NEW n \in Nat
  PROVE  /\ LE16(m) \in Strings /\ Len(LE16(m)) = 2
         /\ LE16(m) = LE16(n) => m = n
<1>1. PICK q, r : q = m \div Base /\ r = m % Base
  OBVIOUS
<1>2. PICK x, y : x = n \div Base /\ y = n % Base
  OBVIOUS
<1>3. q \in Nat /\ r \in Nat /\ (r = y /\ q = x => m = n)
  BY <1>1, <1>2, ValuesAre, Digits
<1>4. LE16(m) = <<r, q>> /\ LE16(n) = <<y, x>>
  BY <1>1, <1>2 DEF LE16
<1>5. <<r, q>> \in Strings /\ Len(<<r, q>>) = 2
  BY <1>3 DEF Strings
<1>6. <<r, q>> = <<y, x>> => r = y /\ q = x
  OBVIOUS
<1> QED BY <1>3, <1>4, <1>5, <1>6

LEMMA Read32 ==
  ASSUME NEW m \in Nat, NEW n \in Nat
  PROVE  /\ LE32(m) \in Strings /\ Len(LE32(m)) = 4
         /\ LE32(m) = LE32(n) => m = n
<1>1. /\ m % Values16 \in Nat /\ m \div Values16 \in Nat
      /\ n % Values16 \in Nat /\ n \div Values16 \in Nat
  BY ValuesAre, Digits
<1>2. LE32(m) \in Strings /\ Len(LE32(m)) = 4
  <2>1. PICK low, high : low = LE16(m % Values16) /\ high = LE16(m \div Values16)
    OBVIOUS
  <2>2. low \in Strings /\ high \in Strings /\ Len(low) = 2 /\ Len(high) = 2
    BY <1>1, <2>1, Read16
  <2>3. LE32(m) = low \o high
    BY <2>1 DEF LE32
  <2>4. low \o high \in Strings /\ Len(low \o high) = Len(low) + Len(high)
    BY <2>2, Concatenation, Zenon
  <2> QED BY ONLY <2>2, <2>3, <2>4
<1>3. ASSUME LE32(m) = LE32(n) PROVE m = n
  <2>1. LE16(m % Values16) = LE16(n % Values16) /\ LE16(m \div Values16) = LE16(n \div Values16)
    <3>1. /\ LE16(m % Values16) \in Strings /\ LE16(n % Values16) \in Strings
          /\ LE16(m \div Values16) \in Strings /\ LE16(n \div Values16) \in Strings
          /\ Len(LE16(m % Values16)) = Len(LE16(n % Values16))
      BY <1>1, Read16
    <3>2. Same(LE16(m % Values16), LE16(m \div Values16), LE16(n % Values16), LE16(n \div Values16))
      BY <1>3, Zenon DEF LE32, Same
    <3> QED BY <3>1, <3>2, CancelPrefix
  <2>2. m % Values16 = n % Values16 /\ m \div Values16 = n \div Values16
    BY <1>1, <2>1, Read16
  <2> QED BY <2>2, ValuesAre, Digits
<1> QED BY <1>2, <1>3

LEMMA Read64 ==
  ASSUME NEW m \in Nat, NEW n \in Nat
  PROVE  /\ LE64(m) \in Strings /\ Len(LE64(m)) = 8
         /\ LE64(m) = LE64(n) => m = n
<1>1. /\ m % Values32 \in Nat /\ m \div Values32 \in Nat
      /\ n % Values32 \in Nat /\ n \div Values32 \in Nat
  BY ValuesAre, Digits
<1>2. LE64(m) \in Strings /\ Len(LE64(m)) = 8
  <2>1. PICK low, high : low = LE32(m % Values32) /\ high = LE32(m \div Values32)
    OBVIOUS
  <2>2. low \in Strings /\ high \in Strings /\ Len(low) = 4 /\ Len(high) = 4
    BY <1>1, <2>1, Read32
  <2>3. LE64(m) = low \o high
    BY <2>1 DEF LE64
  <2>4. low \o high \in Strings /\ Len(low \o high) = Len(low) + Len(high)
    BY <2>2, Concatenation, Zenon
  <2> QED BY ONLY <2>2, <2>3, <2>4
<1>3. ASSUME LE64(m) = LE64(n) PROVE m = n
  <2>1. LE32(m % Values32) = LE32(n % Values32) /\ LE32(m \div Values32) = LE32(n \div Values32)
    <3>1. /\ LE32(m % Values32) \in Strings /\ LE32(n % Values32) \in Strings
          /\ LE32(m \div Values32) \in Strings /\ LE32(n \div Values32) \in Strings
          /\ Len(LE32(m % Values32)) = Len(LE32(n % Values32))
      BY <1>1, Read32
    <3>2. Same(LE32(m % Values32), LE32(m \div Values32), LE32(n % Values32), LE32(n \div Values32))
      BY <1>3, Zenon DEF LE64, Same
    <3> QED BY <3>1, <3>2, CancelPrefix
  <2>2. m % Values32 = n % Values32 /\ m \div Values32 = n \div Values32
    BY <1>1, <2>1, Read32
  <2> QED BY <2>2, ValuesAre, Digits
<1> QED BY <1>2, <1>3

LEMMA ReadSigned ==
  ASSUME NEW values \in Nat \ {0}, NEW m \in Signed(values), NEW n \in Signed(values)
  PROVE  /\ TwosComplement(m, values) \in Nat
         /\ TwosComplement(m, values) = TwosComplement(n, values) => m = n
<1>1. values \div 2 \in Nat /\ 2 * (values \div 2) <= values
  OBVIOUS
<1> QED BY <1>1 DEF Signed, TwosComplement

(* So can coefficients, once their number is known.                        *)
LEMMA CoefficientBytes ==
  ASSUME NEW c \in CoeffVecs
  PROVE  /\ Coefficients(c) \in Strings /\ Len(Coefficients(c)) = 2 * Len(c)
         /\ Len(c) \in Nat
         /\ \A i \in 1..Len(c) :
              /\ 2 * i - 1 \in 1..(2 * Len(c)) /\ 2 * i \in 1..(2 * Len(c))
              /\ Coefficients(c)[2 * i - 1] = LE16(TwosComplement(c[i], Values16))[1]
              /\ Coefficients(c)[2 * i] = LE16(TwosComplement(c[i], Values16))[2]
<1>1. c \in Seq(Signed(Values16)) /\ Len(c) \in Nat
  BY DEF CoeffVecs
<1>2. \A k \in 1..(2 * Len(c)) : LE16(TwosComplement(c[(k + 1) \div 2], Values16))[2 - (k % 2)] \in Int
  <2> SUFFICES ASSUME NEW k \in 1..(2 * Len(c))
               PROVE  LE16(TwosComplement(c[(k + 1) \div 2], Values16))[2 - (k % 2)] \in Int
    OBVIOUS
  <2>1. (k + 1) \div 2 \in 1..Len(c) /\ 2 - (k % 2) \in 1..2
    BY <1>1
  <2>2. c[(k + 1) \div 2] \in Signed(Values16)
    BY <1>1, <2>1
  <2>3. TwosComplement(c[(k + 1) \div 2], Values16) \in Nat
    BY <2>2, ValuesAre, ReadSigned
  <2>4. PICK two \in Strings : two = LE16(TwosComplement(c[(k + 1) \div 2], Values16)) /\ Len(two) = 2
    BY <2>3, Read16
  <2>5. two[2 - (k % 2)] \in Int
    BY <2>1, <2>4, ElementOfSeq DEF Strings
  <2> QED BY <2>4, <2>5
<1>3. Coefficients(c) \in Strings /\ Len(Coefficients(c)) = 2 * Len(c)
  <2>1. Coefficients(c) \in [1..(2 * Len(c)) -> Int]
    BY <1>2 DEF Coefficients
  <2> QED BY <1>1, <2>1 DEF Strings
<1>4. ASSUME NEW i \in 1..Len(c)
      PROVE  /\ 2 * i - 1 \in 1..(2 * Len(c)) /\ 2 * i \in 1..(2 * Len(c))
             /\ Coefficients(c)[2 * i - 1] = LE16(TwosComplement(c[i], Values16))[1]
             /\ Coefficients(c)[2 * i] = LE16(TwosComplement(c[i], Values16))[2]
  <2>1. 2 * i - 1 \in 1..(2 * Len(c)) /\ 2 * i \in 1..(2 * Len(c))
    BY <1>1
  <2>2. ((2 * i - 1) + 1) \div 2 = i /\ 2 - ((2 * i - 1) % 2) = 1
    BY <1>1
  <2>3. (2 * i + 1) \div 2 = i /\ 2 - ((2 * i) % 2) = 2
    BY <1>1
  <2> QED BY <2>1, <2>2, <2>3 DEF Coefficients
<1> QED BY <1>1, <1>3, <1>4

LEMMA ReadCoefficients ==
  ASSUME NEW c \in CoeffVecs, NEW d \in CoeffVecs,
         Len(c) = Len(d), Coefficients(c) = Coefficients(d)
  PROVE  c = d
<1>1. c \in Seq(Signed(Values16)) /\ d \in Seq(Signed(Values16)) /\ Len(c) \in Nat
  BY DEF CoeffVecs
<1>2. ASSUME NEW i \in 1..Len(c) PROVE c[i] = d[i]
  <2>1. c[i] \in Signed(Values16) /\ d[i] \in Signed(Values16)
    BY <1>1
  <2>2. /\ TwosComplement(c[i], Values16) \in Nat /\ TwosComplement(d[i], Values16) \in Nat
        /\ TwosComplement(c[i], Values16) = TwosComplement(d[i], Values16) => c[i] = d[i]
    BY <2>1, ValuesAre, ReadSigned
  <2>3. /\ LE16(TwosComplement(c[i], Values16))[1] = LE16(TwosComplement(d[i], Values16))[1]
        /\ LE16(TwosComplement(c[i], Values16))[2] = LE16(TwosComplement(d[i], Values16))[2]
    <3>1. i \in 1..Len(d)
      OBVIOUS
    <3>2. /\ Coefficients(c)[2 * i - 1] = LE16(TwosComplement(c[i], Values16))[1]
          /\ Coefficients(c)[2 * i] = LE16(TwosComplement(c[i], Values16))[2]
      BY CoefficientBytes
    <3>3. /\ Coefficients(d)[2 * i - 1] = LE16(TwosComplement(d[i], Values16))[1]
          /\ Coefficients(d)[2 * i] = LE16(TwosComplement(d[i], Values16))[2]
      BY <3>1, CoefficientBytes
    <3> QED BY <3>2, <3>3, Zenon
  <2>4. LE16(TwosComplement(c[i], Values16)) = LE16(TwosComplement(d[i], Values16))
    BY <2>3 DEF LE16
  <2> QED BY <2>2, <2>4, Read16
<1> QED BY <1>1, <1>2

LEMMA CountIs ==
  ASSUME NEW c \in CoeffVecs, NEW d \in CoeffVecs
  PROVE  /\ Count(c) \in Strings /\ Len(Count(c)) = 4
         /\ Count(c) = Count(d) => Len(c) = Len(d)
<1>1. \A e \in CoeffVecs : Len(e) \in Nat /\ Len(e) % Values32 = Len(e)
  <2> SUFFICES ASSUME NEW e \in CoeffVecs PROVE Len(e) \in Nat /\ Len(e) % Values32 = Len(e)
    OBVIOUS
  <2>1. PICK n : n = Len(e)
    OBVIOUS
  <2>2. n \in Nat /\ n < Values32
    BY <2>1 DEF CoeffVecs
  <2>3. n % Values32 = n
    BY <2>2, ValuesAre
  <2> QED BY <2>1, <2>2, <2>3
<1> QED BY <1>1, Read32 DEF Count

-----------------------------------------------------------------------------
(* The parts of public inputs.                                             *)
LEMMA ArrayIs ==
  ASSUME NEW n \in {RootSize, DeviceIdSize, PubkeySize, SignatureSize}, NEW x \in Array(n)
  PROVE  x \in Strings /\ Len(x) = n
<1>1. n \in Nat
  BY ArraysAssumption
<1>2. x \in [1..n -> Int]
  BY ValuesAre DEF Array, Byte, Unsigned
<1> QED BY <1>1, <1>2 DEF Strings

LEMMA ByteIs ==
  ASSUME NEW b \in Int
  PROVE  <<b>> \in Strings /\ Len(<<b>>) = 1 /\ <<b>>[1] = b
BY DEF Strings

LEMMA UnsignedIs ==
  /\ \A b \in Byte : b \in Nat
  /\ \A n \in Unsigned(Values16) : n \in Nat
  /\ \A n \in Unsigned(Values32) : n \in Nat
  /\ \A n \in Unsigned(Values64) : n \in Nat
BY ValuesAre DEF Byte, Unsigned

AudioRate(a) == <<1>> \o LE32(a.sample_rate)
AudioChannels(a) == AudioRate(a) \o <<a.channels>>
AudioCount(a) == AudioChannels(a) \o LE32(a.sample_count)

LEMMA DescriptorIs ==
  ASSUME NEW a \in AudioDescriptors
  PROVE  /\ a.kind = "some" /\ a.sample_rate \in Nat /\ a.channels \in Nat /\ a.sample_count \in Nat
         /\ <<a.channels>> \in Strings /\ Len(<<a.channels>>) = 1
         /\ LE32(a.sample_rate) \in Strings /\ Len(LE32(a.sample_rate)) = 4
         /\ LE32(a.sample_count) \in Strings /\ Len(LE32(a.sample_count)) = 4
         /\ a.merkle_root \in Strings /\ Len(a.merkle_root) = RootSize
<1>1. /\ a.kind = "some" /\ a.sample_rate \in Unsigned(Values32) /\ a.channels \in Byte
      /\ a.sample_count \in Unsigned(Values32) /\ a.merkle_root \in Array(RootSize)
  BY DEF AudioDescriptors
<1>2. a.sample_rate \in Nat /\ a.channels \in Nat /\ a.sample_count \in Nat
  BY <1>1, UnsignedIs
<1>3. <<a.channels>> \in Strings /\ Len(<<a.channels>>) = 1
  BY <1>2, ByteIs
<1>4. /\ LE32(a.sample_rate) \in Strings /\ Len(LE32(a.sample_rate)) = 4
      /\ LE32(a.sample_count) \in Strings /\ Len(LE32(a.sample_count)) = 4
  BY <1>2, Read32
<1>5. a.merkle_root \in Strings /\ Len(a.merkle_root) = RootSize
  BY <1>1, ArrayIs
<1> QED BY <1>1, <1>2, <1>3, <1>4, <1>5, Zenon

LEMMA AudioStarts ==
  ASSUME NEW a \in AudioDescriptors
  PROVE  /\ AudioRate(a) \in Strings /\ AudioChannels(a) \in Strings /\ AudioCount(a) \in Strings
         /\ AudioBytes(a) = AudioCount(a) \o a.merkle_root
         /\ Starts(AudioBytes(a), 1)
<1>1. Starts(<<1>>, 1)
  BY DEF Starts, Strings
<1>2. Starts(AudioRate(a), 1)
  BY <1>1, StartStays, DescriptorIs, Zenon DEF AudioRate
<1>3. Starts(AudioChannels(a), 1)
  BY <1>2, StartStays, DescriptorIs, Zenon DEF AudioChannels
<1>4. Starts(AudioCount(a), 1)
  BY <1>3, StartStays, DescriptorIs, Zenon DEF AudioCount
<1>5. AudioBytes(a) = AudioCount(a) \o a.merkle_root
  BY DescriptorIs, Zenon DEF AudioBytes, AudioCount, AudioChannels, AudioRate
<1>6. Starts(AudioCount(a) \o a.merkle_root, 1)
  BY <1>4, StartStays, DescriptorIs, Zenon
<1> QED BY <1>2, <1>3, <1>4, <1>5, <1>6, Zenon DEF Starts

LEMMA NoAudioIs ==
  ASSUME NEW a, a = [kind |-> "none"]
  PROVE  Starts(AudioBytes(a), 0)
<1>1. AudioBytes(a) = <<0>>
  BY DEF AudioBytes
<1>2. Starts(<<0>>, 0)
  BY ONLY TRUE DEF Starts, Strings
<1> QED BY <1>1, <1>2, Zenon

LEMMA AudioIs ==
  ASSUME NEW a \in AudioOptions
  PROVE  AudioBytes(a) \in Strings
BY AudioStarts, NoAudioIs DEF AudioOptions, Starts

LEMMA ReadAudio ==
  ASSUME NEW a \in AudioOptions, NEW b \in AudioOptions, AudioBytes(a) = AudioBytes(b)
  PROVE  a = b
<1>1. CASE a \in AudioDescriptors /\ b \in AudioDescriptors
  <2>1. AudioCount(a) = AudioCount(b) /\ a.merkle_root = b.merkle_root
    <3>1. Same(AudioCount(a), a.merkle_root, AudioCount(b), b.merkle_root)
      BY <1>1, AudioStarts, Zenon DEF Same
    <3>2. /\ AudioCount(a) \in Strings /\ AudioCount(b) \in Strings
          /\ a.merkle_root \in Strings /\ b.merkle_root \in Strings /\ Len(a.merkle_root) = Len(b.merkle_root)
      BY <1>1, DescriptorIs, AudioStarts
    <3> QED BY <3>1, <3>2, CancelSuffix, Zenon
  <2>2. AudioChannels(a) = AudioChannels(b) /\ LE32(a.sample_count) = LE32(b.sample_count)
    <3>1. Same(AudioChannels(a), LE32(a.sample_count), AudioChannels(b), LE32(b.sample_count))
      BY <2>1, Zenon DEF Same, AudioCount
    <3>2. /\ AudioChannels(a) \in Strings /\ AudioChannels(b) \in Strings
          /\ LE32(a.sample_count) \in Strings /\ LE32(b.sample_count) \in Strings /\ Len(LE32(a.sample_count)) = Len(LE32(b.sample_count))
      BY <1>1, DescriptorIs, AudioStarts
    <3> QED BY <3>1, <3>2, CancelSuffix, Zenon
  <2>3. AudioRate(a) = AudioRate(b) /\ <<a.channels>> = <<b.channels>>
    <3>1. Same(AudioRate(a), <<a.channels>>, AudioRate(b), <<b.channels>>)
      BY <2>2, Zenon DEF Same, AudioChannels
    <3>2. /\ AudioRate(a) \in Strings /\ AudioRate(b) \in Strings
          /\ <<a.channels>> \in Strings /\ <<b.channels>> \in Strings /\ Len(<<a.channels>>) = Len(<<b.channels>>)
      BY <1>1, DescriptorIs, AudioStarts
    <3> QED BY <3>1, <3>2, CancelSuffix, Zenon
  <2>4. LE32(a.sample_rate) = LE32(b.sample_rate)
    <3>1. PICK one \in Strings : one = <<1>>
      <4>1. <<1>> \in Strings
        BY DEF Strings
      <4> QED BY <4>1, Zenon
    <3>2. Same(one, LE32(a.sample_rate), one, LE32(b.sample_rate))
      BY <2>3, <3>1, Zenon DEF Same, AudioRate
    <3>3. /\ LE32(a.sample_rate) \in Strings /\ LE32(b.sample_rate) \in Strings
          /\ Len(LE32(a.sample_rate)) = Len(LE32(b.sample_rate))
      BY <1>1, DescriptorIs
    <3> QED BY <3>2, <3>3, CancelSuffix, Zenon
  <2>5. a.sample_rate = b.sample_rate /\ a.sample_count = b.sample_count
    BY <1>1, <2>2, <2>4, DescriptorIs, Read32
  <2>6. a.channels = b.channels
    BY <2>3
  <2> QED BY <1>1, <2>1, <2>5, <2>6 DEF AudioDescriptors
<1>2. CASE a = [kind |-> "none"] /\ b = [kind |-> "none"]
  BY <1>2
<1>3. CASE a = [kind |-> "none"] /\ b \in AudioDescriptors
  <2>1. AudioBytes(a)[1] = 0 /\ AudioBytes(b)[1] = 1
    BY <1>3, AudioStarts, NoAudioIs DEF Starts
  <2> QED BY <2>1
<1>4. CASE a \in AudioDescriptors /\ b = [kind |-> "none"]
  <2>1. AudioBytes(a)[1] = 1 /\ AudioBytes(b)[1] = 0
    BY <1>4, AudioStarts, NoAudioIs DEF Starts
  <2> QED BY <2>1
<1> QED BY <1>1, <1>2, <1>3, <1>4 DEF AudioOptions

(* Two strings of fixed-length fields are taken apart from their ends.     *)
Alike(s, t) == s \in Strings /\ t \in Strings /\ Len(s) = Len(t)

LEMMA AlikeChains ==
  ASSUME NEW s, NEW t, NEW u, NEW v, Alike(s, t), Alike(u, v)
  PROVE  Alike(s \o u, t \o v)
<1>1. /\ s \in Strings /\ t \in Strings /\ Len(s) = Len(t)
      /\ u \in Strings /\ v \in Strings /\ Len(u) = Len(v)
  BY DEF Alike
<1>2. /\ s \o u \in Strings /\ Len(s \o u) = Len(s) + Len(u)
      /\ t \o v \in Strings /\ Len(t \o v) = Len(t) + Len(v)
  BY <1>1, Concatenation, Zenon
<1> QED BY <1>1, <1>2, Zenon DEF Alike

LEMMA LastField ==
  ASSUME NEW s \in Strings, NEW t \in Strings, NEW u, NEW v, Alike(u, v), Same(s, u, t, v)
  PROVE  s = t /\ u = v
BY CancelSuffix, Zenon DEF Alike

LEMMA FirstField ==
  ASSUME NEW s, NEW t, NEW u \in Strings, NEW v \in Strings, Alike(s, t), Same(s, u, t, v)
  PROVE  s = t /\ u = v
BY CancelPrefix, Zenon DEF Alike

LEMMA FieldsAlike ==
  /\ \A m, n \in Nat : /\ Alike(LE16(m), LE16(n)) /\ Alike(LE32(m), LE32(n))
                      /\ Alike(LE64(m), LE64(n)) /\ Alike(<<m>>, <<n>>)
  /\ \A n \in {RootSize, DeviceIdSize, PubkeySize, SignatureSize} :
       \A x, y \in Array(n) : Alike(x, y)
<1>1. ASSUME NEW m \in Nat, NEW n \in Nat
      PROVE  /\ Alike(LE16(m), LE16(n)) /\ Alike(LE32(m), LE32(n))
             /\ Alike(LE64(m), LE64(n)) /\ Alike(<<m>>, <<n>>)
  BY Read16, Read32, Read64, ByteIs DEF Alike
<1>2. ASSUME NEW n \in {RootSize, DeviceIdSize, PubkeySize, SignatureSize},
             NEW x \in Array(n), NEW y \in Array(n)
      PROVE  Alike(x, y)
  BY ArrayIs DEF Alike
<1> QED BY <1>1, <1>2


-----------------------------------------------------------------------------
(* The body of a manifest, up to each of its fields.                       *)
UpToVersion(body) == <<body.version>>
UpToWidth(body) == UpToVersion(body) \o LE16(body.width)
UpToHeight(body) == UpToWidth(body) \o LE16(body.height)
UpToFpsNum(body) == UpToHeight(body) \o LE32(body.fps_num)
UpToFpsDen(body) == UpToFpsNum(body) \o LE32(body.fps_den)
UpToFrames(body) == UpToFpsDen(body) \o LE32(body.frame_count)
UpToRoot(body) == UpToFrames(body) \o body.merkle_root
UpToAudio(body) == UpToRoot(body) \o AudioBytes(body.audio)
UpToCreated(body) == UpToAudio(body) \o LE64(body.created_at)

LEMMA BodyIs ==
  ASSUME NEW b \in ManifestBodies
  PROVE  /\ b.version \in Nat /\ b.width \in Nat /\ b.height \in Nat
         /\ b.fps_num \in Nat /\ b.fps_den \in Nat /\ b.frame_count \in Nat
         /\ b.merkle_root \in Array(RootSize) /\ b.audio \in AudioOptions
         /\ b.created_at \in Nat /\ b.device_id \in Array(DeviceIdSize)
         /\ ToBytes(b) = UpToCreated(b) \o b.device_id
<1>1. /\ b.version \in Byte /\ b.width \in Unsigned(Values16) /\ b.height \in Unsigned(Values16)
      /\ b.fps_num \in Unsigned(Values32) /\ b.fps_den \in Unsigned(Values32)
      /\ b.frame_count \in Unsigned(Values32)
      /\ b.merkle_root \in Array(RootSize) /\ b.audio \in AudioOptions
      /\ b.created_at \in Unsigned(Values64) /\ b.device_id \in Array(DeviceIdSize)
  BY DEF ManifestBodies
<1>2. ToBytes(b) = UpToCreated(b) \o b.device_id
  BY Zenon DEF ToBytes, UpToCreated, UpToAudio, UpToRoot, UpToFrames, UpToFpsDen,
               UpToFpsNum, UpToHeight, UpToWidth, UpToVersion
<1> QED BY <1>1, <1>2, UnsignedIs

LEMMA BodiesAlike ==
  ASSUME NEW b \in ManifestBodies, NEW c \in ManifestBodies
  PROVE  /\ Alike(UpToVersion(b), UpToVersion(c))
         /\ Alike(UpToWidth(b), UpToWidth(c)) /\ Alike(LE16(b.width), LE16(c.width))
         /\ Alike(UpToHeight(b), UpToHeight(c)) /\ Alike(LE16(b.height), LE16(c.height))
         /\ Alike(UpToFpsNum(b), UpToFpsNum(c)) /\ Alike(LE32(b.fps_num), LE32(c.fps_num))
         /\ Alike(UpToFpsDen(b), UpToFpsDen(c)) /\ Alike(LE32(b.fps_den), LE32(c.fps_den))
         /\ Alike(UpToFrames(b), UpToFrames(c)) /\ Alike(LE32(b.frame_count), LE32(c.frame_count))
         /\ Alike(UpToRoot(b), UpToRoot(c)) /\ Alike(b.merkle_root, c.merkle_root)
         /\ Alike(LE64(b.created_at), LE64(c.created_at)) /\ Alike(b.device_id, c.device_id)
<1>1. Alike(UpToVersion(b), UpToVersion(c))
  BY BodyIs, FieldsAlike DEF UpToVersion
<1>2. Alike(LE16(b.width), LE16(c.width))
  BY BodyIs, FieldsAlike
<1>3. Alike(UpToWidth(b), UpToWidth(c))
  BY <1>1, <1>2, AlikeChains, Zenon DEF UpToWidth
<1>4. Alike(LE16(b.height), LE16(c.height))
  BY BodyIs, FieldsAlike
<1>5. Alike(UpToHeight(b), UpToHeight(c))
  BY <1>3, <1>4, AlikeChains, Zenon DEF UpToHeight
<1>6. Alike(LE32(b.fps_num), LE32(c.fps_num))
  BY BodyIs, FieldsAlike
<1>7. Alike(UpToFpsNum(b), UpToFpsNum(c))
  BY <1>5, <1>6, AlikeChains, Zenon DEF UpToFpsNum
<1>8. Alike(LE32(b.fps_den), LE32(c.fps_den))
  BY BodyIs, FieldsAlike
<1>9. Alike(UpToFpsDen(b), UpToFpsDen(c))
  BY <1>7, <1>8, AlikeChains, Zenon DEF UpToFpsDen
<1>10. Alike(LE32(b.frame_count), LE32(c.frame_count))
  BY BodyIs, FieldsAlike
<1>11. Alike(UpToFrames(b), UpToFrames(c))
  BY <1>9, <1>10, AlikeChains, Zenon DEF UpToFrames
<1>12. Alike(b.merkle_root, c.merkle_root)
  BY BodyIs, FieldsAlike
<1>13. Alike(UpToRoot(b), UpToRoot(c))
  BY <1>11, <1>12, AlikeChains, Zenon DEF UpToRoot
<1>14. Alike(LE64(b.created_at), LE64(c.created_at)) /\ Alike(b.device_id, c.device_id)
  BY BodyIs, FieldsAlike
<1> QED BY <1>1, <1>2, <1>3, <1>4, <1>5, <1>6, <1>7, <1>8, <1>9, <1>10, <1>11, <1>12, <1>13, <1>14, Zenon

LEMMA BodyStrings ==
  ASSUME NEW b \in ManifestBodies
  PROVE  /\ UpToRoot(b) \in Strings /\ AudioBytes(b.audio) \in Strings
         /\ UpToAudio(b) \in Strings /\ UpToCreated(b) \in Strings
         /\ ToBytes(b) \in Strings
<1>1. UpToRoot(b) \in Strings /\ LE64(b.created_at) \in Strings /\ b.device_id \in Strings
  BY BodiesAlike DEF Alike
<1>2. AudioBytes(b.audio) \in Strings
  BY BodyIs, AudioIs
<1>3. UpToAudio(b) \in Strings
  BY <1>1, <1>2, Concatenation, Zenon DEF UpToAudio
<1>4. UpToCreated(b) \in Strings
  BY <1>1, <1>3, Concatenation, Zenon DEF UpToCreated
<1>5. ToBytes(b) \in Strings
  BY <1>1, <1>4, BodyIs, Concatenation, Zenon
<1> QED BY <1>1, <1>2, <1>3, <1>4, <1>5, Zenon

LEMMA ReadBody ==
  ASSUME NEW b \in ManifestBodies, NEW c \in ManifestBodies, ToBytes(b) = ToBytes(c)
  PROVE  b = c
<1>1. UpToCreated(b) = UpToCreated(c) /\ b.device_id = c.device_id
  <2>1. Same(UpToCreated(b), b.device_id, UpToCreated(c), c.device_id)
    BY BodyIs, Zenon DEF Same
  <2> QED BY <2>1, BodyStrings, BodiesAlike, LastField, Zenon
<1>2. UpToAudio(b) = UpToAudio(c) /\ LE64(b.created_at) = LE64(c.created_at)
  <2>1. Same(UpToAudio(b), LE64(b.created_at), UpToAudio(c), LE64(c.created_at))
    BY <1>1, Zenon DEF Same, UpToCreated
  <2>2. UpToAudio(b) \in Strings /\ UpToAudio(c) \in Strings
    BY BodyStrings, Zenon
  <2>3. Alike(LE64(b.created_at), LE64(c.created_at))
    BY BodiesAlike, Zenon
  <2> QED BY <2>1, <2>2, <2>3, LastField, Zenon
<1>3. UpToRoot(b) = UpToRoot(c) /\ AudioBytes(b.audio) = AudioBytes(c.audio)
  <2>1. Same(UpToRoot(b), AudioBytes(b.audio), UpToRoot(c), AudioBytes(c.audio))
    BY <1>2, Zenon DEF Same, UpToAudio
  <2>2. AudioBytes(b.audio) \in Strings /\ AudioBytes(c.audio) \in Strings
    BY BodyStrings, Zenon
  <2>3. Alike(UpToRoot(b), UpToRoot(c))
    BY BodiesAlike, Zenon
  <2> QED BY <2>1, <2>2, <2>3, FirstField, Zenon
<1>4. UpToFrames(b) = UpToFrames(c) /\ b.merkle_root = c.merkle_root
  <2>1. Same(UpToFrames(b), b.merkle_root, UpToFrames(c), c.merkle_root)
    BY <1>3, Zenon DEF Same, UpToRoot
  <2>2. UpToFrames(b) \in Strings /\ UpToFrames(c) \in Strings
    BY BodiesAlike, Zenon DEF Alike
  <2> QED BY <2>1, <2>2, BodiesAlike, LastField, Zenon
<1>5. UpToFpsDen(b) = UpToFpsDen(c) /\ LE32(b.frame_count) = LE32(c.frame_count)
  <2>1. Same(UpToFpsDen(b), LE32(b.frame_count), UpToFpsDen(c), LE32(c.frame_count))
    BY <1>4, Zenon DEF Same, UpToFrames
  <2>2. UpToFpsDen(b) \in Strings /\ UpToFpsDen(c) \in Strings
    BY BodiesAlike, Zenon DEF Alike
  <2> QED BY <2>1, <2>2, BodiesAlike, LastField, Zenon
<1>6. UpToFpsNum(b) = UpToFpsNum(c) /\ LE32(b.fps_den) = LE32(c.fps_den)
  <2>1. Same(UpToFpsNum(b), LE32(b.fps_den), UpToFpsNum(c), LE32(c.fps_den))
    BY <1>5, Zenon DEF Same, UpToFpsDen
  <2>2. UpToFpsNum(b) \in Strings /\ UpToFpsNum(c) \in Strings
    BY BodiesAlike, Zenon DEF Alike
  <2> QED BY <2>1, <2>2, BodiesAlike, LastField, Zenon
<1>7. UpToHeight(b) = UpToHeight(c) /\ LE32(b.fps_num) = LE32(c.fps_num)
  <2>1. Same(UpToHeight(b), LE32(b.fps_num), UpToHeight(c), LE32(c.fps_num))
    BY <1>6, Zenon DEF Same, UpToFpsNum
  <2>2. UpToHeight(b) \in Strings /\ UpToHeight(c) \in Strings
    BY BodiesAlike, Zenon DEF Alike
  <2> QED BY <2>1, <2>2, BodiesAlike, LastField, Zenon
<1>8. UpToWidth(b) = UpToWidth(c) /\ LE16(b.height) = LE16(c.height)
  <2>1. Same(UpToWidth(b), LE16(b.height), UpToWidth(c), LE16(c.height))
    BY <1>7, Zenon DEF Same, UpToHeight
  <2>2. UpToWidth(b) \in Strings /\ UpToWidth(c) \in Strings
    BY BodiesAlike, Zenon DEF Alike
  <2> QED BY <2>1, <2>2, BodiesAlike, LastField, Zenon
<1>9. UpToVersion(b) = UpToVersion(c) /\ LE16(b.width) = LE16(c.width)
  <2>1. Same(UpToVersion(b), LE16(b.width), UpToVersion(c), LE16(c.width))
    BY <1>8, Zenon DEF Same, UpToWidth
  <2>2. UpToVersion(b) \in Strings /\ UpToVersion(c) \in Strings
    BY BodiesAlike, Zenon DEF Alike
  <2> QED BY <2>1, <2>2, BodiesAlike, LastField, Zenon
<1>10. b.version = c.version
  BY <1>9 DEF UpToVersion
<1>11. /\ b.width = c.width /\ b.height = c.height /\ b.fps_num = c.fps_num
       /\ b.fps_den = c.fps_den /\ b.frame_count = c.frame_count /\ b.created_at = c.created_at
  BY <1>2, <1>5, <1>6, <1>7, <1>8, <1>9, BodyIs, Read16, Read32, Read64
<1>12. b.audio = c.audio
  BY <1>3, BodyIs, ReadAudio
<1> QED BY <1>1, <1>4, <1>10, <1>11, <1>12 DEF ManifestBodies

-----------------------------------------------------------------------------
(* Public inputs, whose coefficients follow their count.                   *)
LEMMA CountsAlike ==
  /\ \A c, d \in CoeffVecs : Alike(Count(c), Count(d)) /\ (Count(c) = Count(d) => Len(c) = Len(d))
  /\ \A s, t \in Strings : Alike(Count(s), Count(t))
<1>1. ASSUME NEW c \in CoeffVecs, NEW d \in CoeffVecs
      PROVE  Alike(Count(c), Count(d)) /\ (Count(c) = Count(d) => Len(c) = Len(d))
  BY CountIs DEF Alike
<1>2. ASSUME NEW s \in Strings, NEW t \in Strings
      PROVE  Alike(Count(s), Count(t))
  <2>1. Len(s) \in Nat /\ Len(t) \in Nat
    BY LenProperties DEF Strings
  <2>2. Len(s) % Values32 \in Nat /\ Len(t) % Values32 \in Nat
    BY <2>1, ValuesAre
  <2> QED BY <2>2, FieldsAlike DEF Count
<1> QED BY <1>1, <1>2

LEMMA CoefficientsAlike ==
  ASSUME NEW c \in CoeffVecs, NEW d \in CoeffVecs, Len(c) = Len(d)
  PROVE  Alike(Coefficients(c), Coefficients(d))
BY CoefficientBytes DEF Alike

LEMMA HashCoeffsIs ==
  ASSUME NEW c \in CoeffVecs
  PROVE  /\ Count(c) \in Strings /\ Coefficients(c) \in Strings
         /\ HashCoeffs(c) \in Strings
         /\ \A x \in Strings : HashCoeffs(c) \o x = Count(c) \o (Coefficients(c) \o x)
<1>1. Count(c) \in Strings /\ Coefficients(c) \in Strings
  BY CountIs, CoefficientBytes, Zenon
<1>2. HashCoeffs(c) \in Strings
  BY <1>1, Concatenation, Zenon DEF HashCoeffs
<1>3. ASSUME NEW x \in Strings PROVE HashCoeffs(c) \o x = Count(c) \o (Coefficients(c) \o x)
  <2>1. PICK n \in Strings, m \in Strings : n = Count(c) /\ m = Coefficients(c)
    BY <1>1, Zenon
  <2>2. (n \o m) \o x = n \o (m \o x)
    BY Associative
  <2> QED BY <2>1, <2>2, Zenon DEF HashCoeffs
<1> QED BY <1>1, <1>2, <1>3, Zenon

LEMMA ReadHashCoeffs ==
  ASSUME NEW c \in CoeffVecs, NEW d \in CoeffVecs, NEW x \in Strings, NEW y \in Strings,
         Same(HashCoeffs(c), x, HashCoeffs(d), y)
  PROVE  c = d /\ x = y
<1>1. Coefficients(c) \o x \in Strings /\ Coefficients(d) \o y \in Strings
  BY HashCoeffsIs, Concatenation, Zenon
<1>2. Same(Count(c), Coefficients(c) \o x, Count(d), Coefficients(d) \o y)
  BY HashCoeffsIs, Zenon DEF Same
<1>3. Count(c) = Count(d) /\ Coefficients(c) \o x = Coefficients(d) \o y
  <2>1. Alike(Count(c), Count(d))
    BY CountsAlike, Zenon
  <2> QED BY <1>1, <1>2, <2>1, FirstField, Zenon
<1>4. Len(c) = Len(d)
  BY <1>3, CountsAlike, Zenon
<1>5. Coefficients(c) = Coefficients(d) /\ x = y
  <2>1. Same(Coefficients(c), x, Coefficients(d), y)
    BY <1>3, Zenon DEF Same
  <2>2. Alike(Coefficients(c), Coefficients(d))
    BY <1>4, CoefficientsAlike, Zenon
  <2> QED BY <2>1, <2>2, FirstField, Zenon
<1> QED BY <1>4, <1>5, ReadCoefficients, Zenon

GroupedSix(a, b, c, d, e, f) ==
  ((((a \o b) \o c) \o d) \o e) \o f = a \o (b \o (c \o (d \o (e \o f))))

LEMMA RegroupSix ==
  ASSUME NEW a \in Strings, NEW b \in Strings, NEW c \in Strings,
         NEW d \in Strings, NEW e \in Strings, NEW f \in Strings
  PROVE  GroupedSix(a, b, c, d, e, f)
<1>1. PICK q \in Strings, r \in Strings : q = (a \o b) \o c /\ r = d \o (e \o f)
  BY Concatenation
<1>2. Grouped(q, d, e, f)
  BY Regroup, Zenon
<1>3. Grouped(a, b, c, r)
  BY Regroup, Zenon
<1> QED BY <1>1, <1>2, <1>3, Zenon DEF Grouped, GroupedSix

Header(p) == LE16(p.width) \o LE16(p.height) \o <<p.qp, p.chroma_format>>
UpToV(p) == Header(p) \o HashCoeffs(p.coeffs_y) \o HashCoeffs(p.coeffs_u) \o HashCoeffs(p.coeffs_v)
UpToBody(p) == UpToV(p) \o Count(ToBytes(p.body)) \o ToBytes(p.body)
UpToPubkey(p) == UpToBody(p) \o p.pubkey
UpToSignature(p) == UpToPubkey(p) \o p.signature
ToleranceBytes(p) == LE64(TwosComplement(p.tolerance, Values64))

FromBody(p) == Count(ToBytes(p.body)) \o ToBytes(p.body)
FromV(p) == HashCoeffs(p.coeffs_v) \o FromBody(p)
FromU(p) == HashCoeffs(p.coeffs_u) \o FromV(p)
FromY(p) == HashCoeffs(p.coeffs_y) \o FromU(p)

LEMMA InputIs ==
  ASSUME NEW p \in PublicInputSet
  PROVE  /\ p.width \in Nat /\ p.height \in Nat /\ p.qp \in Nat /\ p.chroma_format \in Nat
         /\ p.coeffs_y \in CoeffVecs /\ p.coeffs_u \in CoeffVecs /\ p.coeffs_v \in CoeffVecs
         /\ p.body \in ManifestBodies
         /\ p.pubkey \in Array(PubkeySize) /\ p.signature \in Array(SignatureSize)
         /\ p.tolerance \in Signed(Values64)
<1>1. /\ p.width \in Unsigned(Values16) /\ p.height \in Unsigned(Values16)
      /\ p.qp \in Byte /\ p.chroma_format \in Byte
      /\ p.coeffs_y \in CoeffVecs /\ p.coeffs_u \in CoeffVecs /\ p.coeffs_v \in CoeffVecs
      /\ p.body \in ManifestBodies
      /\ p.pubkey \in Array(PubkeySize) /\ p.signature \in Array(SignatureSize)
      /\ p.tolerance \in Signed(Values64)
  BY DEF PublicInputSet
<1> QED BY <1>1, UnsignedIs

LEMMA HeadersAlike ==
  ASSUME NEW p \in PublicInputSet, NEW q \in PublicInputSet
  PROVE  /\ Alike(Header(p), Header(q))
         /\ Header(p) = Header(q) => /\ p.width = q.width /\ p.height = q.height
                                    /\ p.qp = q.qp /\ p.chroma_format = q.chroma_format
<1>1. Alike(LE16(p.width), LE16(q.width)) /\ Alike(LE16(p.height), LE16(q.height))
  BY InputIs, FieldsAlike
<1>2. Alike(<<p.qp, p.chroma_format>>, <<q.qp, q.chroma_format>>)
  BY InputIs DEF Alike, Strings
<1>3. Alike(LE16(p.width) \o LE16(p.height), LE16(q.width) \o LE16(q.height))
  BY <1>1, AlikeChains, Zenon
<1>4. Alike(Header(p), Header(q))
  BY <1>2, <1>3, AlikeChains, Zenon DEF Header
<1>5. ASSUME Header(p) = Header(q)
      PROVE  /\ p.width = q.width /\ p.height = q.height
             /\ p.qp = q.qp /\ p.chroma_format = q.chroma_format
  <2>1. /\ LE16(p.width) \o LE16(p.height) = LE16(q.width) \o LE16(q.height)
        /\ <<p.qp, p.chroma_format>> = <<q.qp, q.chroma_format>>
    <3>1. Same(LE16(p.width) \o LE16(p.height), <<p.qp, p.chroma_format>>,
               LE16(q.width) \o LE16(q.height), <<q.qp, q.chroma_format>>)
      BY <1>5, Zenon DEF Same, Header
    <3>2. /\ LE16(p.width) \o LE16(p.height) \in Strings
          /\ LE16(q.width) \o LE16(q.height) \in Strings
      BY <1>3, Zenon DEF Alike
    <3> QED BY <1>2, <3>1, <3>2, LastField, Zenon
  <2>2. LE16(p.width) = LE16(q.width) /\ LE16(p.height) = LE16(q.height)
    <3>1. Same(LE16(p.width), LE16(p.height), LE16(q.width), LE16(q.height))
      BY <2>1, Zenon DEF Same
    <3>2. LE16(p.height) \in Strings /\ LE16(q.height) \in Strings
      BY <1>1, Zenon DEF Alike
    <3> QED BY <1>1, <3>1, <3>2, FirstField, Zenon
  <2>3. p.width = q.width /\ p.height = q.height
    BY <2>2, InputIs, Read16
  <2>4. p.qp = q.qp /\ p.chroma_format = q.chroma_format
    BY ONLY <2>1
  <2> QED BY <2>3, <2>4
<1> QED BY <1>4, <1>5

LEMMA InputStrings ==
  ASSUME NEW p \in PublicInputSet
  PROVE  /\ FromBody(p) \in Strings /\ FromV(p) \in Strings
         /\ FromU(p) \in Strings /\ FromY(p) \in Strings
         /\ UpToBody(p) \in Strings /\ UpToPubkey(p) \in Strings /\ UpToSignature(p) \in Strings
         /\ UpToBody(p) = Header(p) \o FromY(p)
         /\ Preimage(p) = UpToSignature(p) \o ToleranceBytes(p)
<1>1. PICK h \in Strings, y \in Strings, u \in Strings, v \in Strings :
        /\ h = Header(p) /\ y = HashCoeffs(p.coeffs_y)
        /\ u = HashCoeffs(p.coeffs_u) /\ v = HashCoeffs(p.coeffs_v)
  <2>1. Header(p) \in Strings
    BY HeadersAlike, Zenon DEF Alike
  <2>2. /\ HashCoeffs(p.coeffs_y) \in Strings /\ HashCoeffs(p.coeffs_u) \in Strings
        /\ HashCoeffs(p.coeffs_v) \in Strings
    BY InputIs, HashCoeffsIs, Zenon
  <2> QED BY <2>1, <2>2, Zenon
<1>2. PICK n \in Strings, b \in Strings : n = Count(ToBytes(p.body)) /\ b = ToBytes(p.body)
  <2>1. ToBytes(p.body) \in Strings
    BY InputIs, BodyStrings, Zenon
  <2>2. Count(ToBytes(p.body)) \in Strings
    BY <2>1, CountsAlike, Zenon DEF Alike
  <2> QED BY <2>1, <2>2, Zenon
<1>3. PICK k \in Strings, g \in Strings : k = p.pubkey /\ g = p.signature
  <2>1. p.pubkey \in Strings /\ p.signature \in Strings
    BY InputIs, ArrayIs
  <2> QED BY <2>1, Zenon
<1>4. n \o b \in Strings /\ FromBody(p) = n \o b
  BY <1>2, Concatenation, Zenon DEF FromBody
<1>5. v \o (n \o b) \in Strings /\ FromV(p) = v \o (n \o b)
  BY <1>1, <1>4, Concatenation, Zenon DEF FromV
<1>6. u \o (v \o (n \o b)) \in Strings /\ FromU(p) = u \o (v \o (n \o b))
  BY <1>1, <1>5, Concatenation, Zenon DEF FromU
<1>7. /\ y \o (u \o (v \o (n \o b))) \in Strings
      /\ FromY(p) = y \o (u \o (v \o (n \o b)))
  BY <1>1, <1>6, Concatenation, Zenon DEF FromY
<1>8. UpToBody(p) = ((((h \o y) \o u) \o v) \o n) \o b
  BY <1>1, <1>2, Zenon DEF UpToBody, UpToV
<1>9. UpToBody(p) = Header(p) \o FromY(p) /\ UpToBody(p) \in Strings
  <2>1. GroupedSix(h, y, u, v, n, b)
    BY RegroupSix, Zenon
  <2>2. PICK rest \in Strings : rest = y \o (u \o (v \o (n \o b)))
    BY <1>7
  <2>3. h \o rest \in Strings
    BY Concatenation, Zenon
  <2> QED BY <1>1, <1>7, <1>8, <2>1, <2>2, <2>3, Zenon DEF GroupedSix
<1>10. UpToPubkey(p) \in Strings
  BY <1>3, <1>9, Concatenation, Zenon DEF UpToPubkey
<1>11. UpToSignature(p) \in Strings
  BY <1>3, <1>10, Concatenation, Zenon DEF UpToSignature
<1>12. Preimage(p) = UpToSignature(p) \o ToleranceBytes(p)
  BY Zenon DEF Preimage, UpToSignature, UpToPubkey, UpToBody, UpToV, Header, ToleranceBytes
<1> QED BY <1>4, <1>5, <1>6, <1>7, <1>9, <1>10, <1>11, <1>12, Zenon

LEMMA ReadPreimage ==
  ASSUME NEW p \in PublicInputSet, NEW q \in PublicInputSet, Preimage(p) = Preimage(q)
  PROVE  p = q
<1>1. /\ TwosComplement(p.tolerance, Values64) \in Nat
      /\ TwosComplement(q.tolerance, Values64) \in Nat
      /\ TwosComplement(p.tolerance, Values64) = TwosComplement(q.tolerance, Values64)
           => p.tolerance = q.tolerance
  BY InputIs, ValuesAre, ReadSigned
<1>2. UpToSignature(p) = UpToSignature(q) /\ ToleranceBytes(p) = ToleranceBytes(q)
  <2>1. Same(UpToSignature(p), ToleranceBytes(p), UpToSignature(q), ToleranceBytes(q))
    BY InputStrings, Zenon DEF Same
  <2>2. Alike(ToleranceBytes(p), ToleranceBytes(q))
    BY <1>1, FieldsAlike, Zenon DEF ToleranceBytes
  <2> QED BY <2>1, <2>2, InputStrings, LastField, Zenon
<1>3. UpToPubkey(p) = UpToPubkey(q) /\ p.signature = q.signature
  <2>1. Same(UpToPubkey(p), p.signature, UpToPubkey(q), q.signature)
    BY <1>2, Zenon DEF Same, UpToSignature
  <2>2. Alike(p.signature, q.signature)
    BY InputIs, FieldsAlike
  <2> QED BY <2>1, <2>2, InputStrings, LastField, Zenon
<1>4. UpToBody(p) = UpToBody(q) /\ p.pubkey = q.pubkey
  <2>1. Same(UpToBody(p), p.pubkey, UpToBody(q), q.pubkey)
    BY <1>3, Zenon DEF Same, UpToPubkey
  <2>2. Alike(p.pubkey, q.pubkey)
    BY InputIs, FieldsAlike
  <2> QED BY <2>1, <2>2, InputStrings, LastField, Zenon
<1>5. Header(p) = Header(q) /\ FromY(p) = FromY(q)
  <2>1. Same(Header(p), FromY(p), Header(q), FromY(q))
    BY <1>4, InputStrings, Zenon DEF Same
  <2>2. Alike(Header(p), Header(q))
    BY HeadersAlike, Zenon
  <2> QED BY <2>1, <2>2, InputStrings, FirstField, Zenon
<1>6. p.coeffs_y = q.coeffs_y /\ FromU(p) = FromU(q)
  <2>1. Same(HashCoeffs(p.coeffs_y), FromU(p), HashCoeffs(q.coeffs_y), FromU(q))
    BY <1>5, Zenon DEF Same, FromY
  <2> QED BY <2>1, InputIs, InputStrings, ReadHashCoeffs, Zenon
<1>7. p.coeffs_u = q.coeffs_u /\ FromV(p) = FromV(q)
  <2>1. Same(HashCoeffs(p.coeffs_u), FromV(p), HashCoeffs(q.coeffs_u), FromV(q))
    BY <1>6, Zenon DEF Same, FromU
  <2> QED BY <2>1, InputIs, InputStrings, ReadHashCoeffs, Zenon
<1>8. p.coeffs_v = q.coeffs_v /\ FromBody(p) = FromBody(q)
  <2>1. Same(HashCoeffs(p.coeffs_v), FromBody(p), HashCoeffs(q.coeffs_v), FromBody(q))
    BY <1>7, Zenon DEF Same, FromV
  <2> QED BY <2>1, InputIs, InputStrings, ReadHashCoeffs, Zenon
<1>9. ToBytes(p.body) = ToBytes(q.body)
  <2>1. Same(Count(ToBytes(p.body)), ToBytes(p.body), Count(ToBytes(q.body)), ToBytes(q.body))
    BY <1>8, Zenon DEF Same, FromBody
  <2>2. ToBytes(p.body) \in Strings /\ ToBytes(q.body) \in Strings
    BY InputIs, BodyStrings, Zenon
  <2>3. Alike(Count(ToBytes(p.body)), Count(ToBytes(q.body)))
    BY <2>2, CountsAlike, Zenon
  <2> QED BY <2>1, <2>2, <2>3, FirstField, Zenon
<1>10. p.body = q.body
  BY <1>9, InputIs, ReadBody, Zenon
<1>11. p.tolerance = q.tolerance
  BY <1>1, <1>2, Read64 DEF ToleranceBytes
<1>12. /\ p.width = q.width /\ p.height = q.height
       /\ p.qp = q.qp /\ p.chroma_format = q.chroma_format
  BY <1>5, HeadersAlike, Zenon
<1> QED BY <1>3, <1>4, <1>6, <1>7, <1>8, <1>10, <1>11, <1>12 DEF PublicInputSet

-----------------------------------------------------------------------------
(* The file of toy-encode, with all counts first.                          *)
Counts2(p) == Header(p) \o Count(p.coeffs_y) \o Count(p.coeffs_u)
Counts3(p) == Counts2(p) \o Count(p.coeffs_v)

LEMMA CountsOfFile ==
  ASSUME NEW p \in PublicInputSet, NEW q \in PublicInputSet
  PROVE  /\ Alike(Counts3(p), Counts3(q))
         /\ Counts3(p) = Counts3(q) =>
              /\ Len(p.coeffs_y) = Len(q.coeffs_y) /\ Len(p.coeffs_u) = Len(q.coeffs_u)
              /\ Len(p.coeffs_v) = Len(q.coeffs_v)
<1>1. Alike(Header(p), Header(q))
  BY HeadersAlike, Zenon
<1>2. /\ p.coeffs_y \in CoeffVecs /\ q.coeffs_y \in CoeffVecs
      /\ p.coeffs_u \in CoeffVecs /\ q.coeffs_u \in CoeffVecs
      /\ p.coeffs_v \in CoeffVecs /\ q.coeffs_v \in CoeffVecs
  BY InputIs, Zenon
<1>3. /\ Alike(Count(p.coeffs_y), Count(q.coeffs_y))
      /\ Alike(Count(p.coeffs_u), Count(q.coeffs_u))
      /\ Alike(Count(p.coeffs_v), Count(q.coeffs_v))
  BY <1>2, CountsAlike, Zenon
<1>4. Alike(Header(p) \o Count(p.coeffs_y), Header(q) \o Count(q.coeffs_y))
  BY <1>1, <1>3, AlikeChains, Zenon
<1>5. Alike(Counts2(p), Counts2(q))
  BY <1>3, <1>4, AlikeChains, Zenon DEF Counts2
<1>6. Alike(Counts3(p), Counts3(q))
  BY <1>3, <1>5, AlikeChains, Zenon DEF Counts3
<1>7. ASSUME Counts3(p) = Counts3(q)
      PROVE  /\ Count(p.coeffs_y) = Count(q.coeffs_y) /\ Count(p.coeffs_u) = Count(q.coeffs_u)
             /\ Count(p.coeffs_v) = Count(q.coeffs_v)
  <2>1. Counts2(p) = Counts2(q) /\ Count(p.coeffs_v) = Count(q.coeffs_v)
    <3>1. Same(Counts2(p), Count(p.coeffs_v), Counts2(q), Count(q.coeffs_v))
      BY <1>7, Zenon DEF Same, Counts3
    <3>2. Counts2(p) \in Strings /\ Counts2(q) \in Strings
      BY <1>5, Zenon DEF Alike
    <3> QED BY <1>3, <3>1, <3>2, LastField, Zenon
  <2>2. /\ Header(p) \o Count(p.coeffs_y) = Header(q) \o Count(q.coeffs_y)
        /\ Count(p.coeffs_u) = Count(q.coeffs_u)
    <3>1. Same(Header(p) \o Count(p.coeffs_y), Count(p.coeffs_u),
               Header(q) \o Count(q.coeffs_y), Count(q.coeffs_u))
      BY <2>1, Zenon DEF Same, Counts2
    <3>2. /\ Header(p) \o Count(p.coeffs_y) \in Strings
          /\ Header(q) \o Count(q.coeffs_y) \in Strings
      BY <1>4, Zenon DEF Alike
    <3> QED BY <1>3, <3>1, <3>2, LastField, Zenon
  <2>3. Count(p.coeffs_y) = Count(q.coeffs_y)
    <3>1. Same(Header(p), Count(p.coeffs_y), Header(q), Count(q.coeffs_y))
      BY <2>2, Zenon DEF Same
    <3>2. Header(p) \in Strings /\ Header(q) \in Strings
      BY <1>1, Zenon DEF Alike
    <3> QED BY <1>3, <3>1, <3>2, LastField, Zenon
  <2> QED BY <2>1, <2>2, <2>3, Zenon
<1> QED BY <1>2, <1>6, <1>7, CountsAlike, Zenon

LEMMA ReadFile ==
  ASSUME NEW p \in PublicInputSet, NEW q \in PublicInputSet, EncodedFile(p) = EncodedFile(q)
  PROVE  CoeffPlanes(p) = CoeffPlanes(q)
<1> DEFINE Rest(r) == Coefficients(r.coeffs_u) \o Coefficients(r.coeffs_v)
<1>1. ASSUME NEW r \in PublicInputSet
      PROVE  /\ Coefficients(r.coeffs_y) \in Strings /\ Coefficients(r.coeffs_u) \in Strings
             /\ Coefficients(r.coeffs_v) \in Strings
             /\ Rest(r) \in Strings /\ Coefficients(r.coeffs_y) \o Rest(r) \in Strings
             /\ EncodedFile(r) = Counts3(r) \o (Coefficients(r.coeffs_y) \o Rest(r))
  <2>1. PICK h \in Strings, y \in Strings, u \in Strings, v \in Strings :
          /\ h = Counts3(r) /\ y = Coefficients(r.coeffs_y)
          /\ u = Coefficients(r.coeffs_u) /\ v = Coefficients(r.coeffs_v)
    <3>1. Counts3(r) \in Strings
      BY CountsOfFile, Zenon DEF Alike
    <3>2. /\ Coefficients(r.coeffs_y) \in Strings /\ Coefficients(r.coeffs_u) \in Strings
          /\ Coefficients(r.coeffs_v) \in Strings
      BY InputIs, HashCoeffsIs, Zenon
    <3> QED BY <3>1, <3>2, Zenon
  <2>2. EncodedFile(r) = ((h \o y) \o u) \o v
    BY <2>1, Zenon DEF EncodedFile, Counts3, Counts2, Header
  <2>3. u \o v \in Strings
    BY Concatenation, Zenon
  <2>4. y \o (u \o v) \in Strings
    BY <2>3, Concatenation, Zenon
  <2>5. Grouped(h, y, u, v)
    BY Regroup, Zenon
  <2> QED BY <2>1, <2>2, <2>3, <2>4, <2>5, Zenon DEF Grouped
<1> HIDE DEF Rest
<1>2. Counts3(p) = Counts3(q) /\ Coefficients(p.coeffs_y) \o Rest(p) = Coefficients(q.coeffs_y) \o Rest(q)
  <2>1. Same(Counts3(p), Coefficients(p.coeffs_y) \o Rest(p),
             Counts3(q), Coefficients(q.coeffs_y) \o Rest(q))
    BY <1>1, Zenon DEF Same
  <2>2. Alike(Counts3(p), Counts3(q))
    BY CountsOfFile, Zenon
  <2> QED BY <1>1, <2>1, <2>2, FirstField, Zenon
<1>3. /\ Len(p.coeffs_y) = Len(q.coeffs_y) /\ Len(p.coeffs_u) = Len(q.coeffs_u)
      /\ Len(p.coeffs_v) = Len(q.coeffs_v)
  BY <1>2, CountsOfFile, Zenon
<1>4. Coefficients(p.coeffs_y) = Coefficients(q.coeffs_y) /\ Rest(p) = Rest(q)
  <2>1. Same(Coefficients(p.coeffs_y), Rest(p), Coefficients(q.coeffs_y), Rest(q))
    BY <1>2, Zenon DEF Same
  <2>2. Alike(Coefficients(p.coeffs_y), Coefficients(q.coeffs_y))
    BY <1>3, InputIs, CoefficientsAlike, Zenon
  <2> QED BY <1>1, <2>1, <2>2, FirstField, Zenon
<1>5. /\ Coefficients(p.coeffs_u) = Coefficients(q.coeffs_u)
      /\ Coefficients(p.coeffs_v) = Coefficients(q.coeffs_v)
  <2>1. Same(Coefficients(p.coeffs_u), Coefficients(p.coeffs_v),
             Coefficients(q.coeffs_u), Coefficients(q.coeffs_v))
    BY <1>4, Zenon DEF Same, Rest
  <2>2. Alike(Coefficients(p.coeffs_u), Coefficients(q.coeffs_u))
    BY <1>3, InputIs, CoefficientsAlike, Zenon
  <2> QED BY <1>1, <2>1, <2>2, FirstField, Zenon
<1>6. /\ p.coeffs_y = q.coeffs_y /\ p.coeffs_u = q.coeffs_u /\ p.coeffs_v = q.coeffs_v
  BY <1>3, <1>4, <1>5, InputIs, ReadCoefficients, Zenon
<1> QED BY <1>6 DEF CoeffPlanes

-----------------------------------------------------------------------------
ValuesInv ==
  /\ part = "figures" => v1 \in Figures
  /\ part = "inputs" => v1 \in Inputs /\ v2 \in Inputs

LEMMA ValuesInductive == ValuesSpec => []ValuesInv
<1>1. ValuesInit => ValuesInv
  BY DEF ValuesInit, ValuesInv
<1>2. ValuesInv /\ [ValuesNext]_valuesVars => ValuesInv'
  BY DEF ValuesNext, valuesVars, ValuesInv
<1> QED BY <1>1, <1>2, PTL DEF ValuesSpec

(* frame_psnr follows its planes, for every set of figures and tolerances. *)
THEOREM CombinedFollowsPlanes == ValuesSpec => []FiguresFollowPlanes
<1>1. ValuesInv => FiguresFollowPlanes
  BY FiguresFollow DEF ValuesInv, FiguresFollowPlanes
<1> QED BY <1>1, ValuesInductive, PTL

(* The bytes that are hashed, and those of the file, bind what they are made
   of, for every base and every size of the arrays.                        *)
THEOREM BytesBindInputs == ValuesSpec => []BytesBind
<1>1. ValuesInv => BytesBind
  <2> SUFFICES ASSUME ValuesInv, part = "inputs"
               PROVE  /\ Preimage(v1) = Preimage(v2) => v1 = v2
                      /\ EncodedFile(v1) = EncodedFile(v2) => CoeffPlanes(v1) = CoeffPlanes(v2)
    BY DEF BytesBind
  <2>1. v1 \in PublicInputSet /\ v2 \in PublicInputSet
    BY InputsAssumption DEF ValuesInv
  <2> QED BY <2>1, ReadPreimage, ReadFile, Zenon
<1> QED BY <1>1, ValuesInductive, PTL

=============================================================================
