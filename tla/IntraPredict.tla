---------------------------- MODULE IntraPredict ----------------------------
(***************************************************************************)
(* predict_4x4, predict_16x16 and predict_chroma_8x8: the block predicted  *)
(* from its neighbours in one of 9, 4 and 4 modes.  Neighbours are         *)
(* sequences, empty where there are none; a block is a function of <<x, y>>.*)
(***************************************************************************)
EXTENDS Integers, Sequences

CONSTANTS Predictions     (* [family, mode, n, image]: family 4, 16 or 8;
                             image <<a, b, c>> if n is taken from the
                             picture a + b x + c y                         *)

Size(family) == family
Pixels(size) == (0..(size - 1)) \X (0..(size - 1))

Modes(family) == IF family = 4 THEN 0..8 ELSE 0..3

(* Options of arrays of u8; only a 4x4 block looks above and to the right. *)
Samples8(size) == {<< >>} \cup [1..size -> 0..255]
Neighbours(family) ==
  [top : Samples8(Size(family)), left : Samples8(Size(family)), top_left : Samples8(1),
   top_right : IF family = 4 THEN Samples8(4) ELSE {<< >>}]

Picture(image, p) == image[1] + image[2] * p[1] + image[3] * p[2]

(* The neighbours of a block in a picture, itself of bytes.                *)
TakenFrom(image, n, size) ==
  /\ \A p \in Pixels(size) : Picture(image, p) \in 0..255
  /\ \A i \in DOMAIN n.top : n.top[i] = Picture(image, <<i - 1, -1>>)
  /\ \A i \in DOMAIN n.top_right : n.top_right[i] = Picture(image, <<size + i - 1, -1>>)
  /\ \A i \in DOMAIN n.left : n.left[i] = Picture(image, <<-1, i - 1>>)
  /\ \A i \in DOMAIN n.top_left : n.top_left[i] = Picture(image, <<-1, -1>>)

ASSUME PredictionsAssumption ==
  \A r \in Predictions :
    /\ r.family \in {4, 16, 8} /\ r.mode \in Modes(r.family)
    /\ r.n \in Neighbours(r.family)
    /\ r.image # << >> => /\ r.image \in [1..3 -> Int]
                          /\ TakenFrom(r.image, r.n, Size(r.family))

VARIABLES request, block, status      (* asked, predicted or refused       *)

predictVars == <<request, block, status>>

(* The pixel of a row at i, the corner at -1.                              *)
TopAt(n, i) == IF i = -1 THEN n.top_left[1] ELSE n.top[i + 1]
LeftAt(n, j) == IF j = -1 THEN n.top_left[1] ELSE n.left[j + 1]

Tap3(a, b, c) == (a + 2 * b + c + 2) \div 4

Tap2(a, b) == (a + b + 1) \div 2

Sum(s) == LET f[i \in 0..Len(s)] == IF i = 0 THEN 0 ELSE f[i - 1] + s[i] IN f[Len(s)]

-----------------------------------------------------------------------------
(* Vertical, horizontal and DC, of any size: the mean of what there is.    *)
Vertical(n, size) == [p \in Pixels(size) |-> n.top[p[1] + 1]]
Horizontal(n, size) == [p \in Pixels(size) |-> n.left[p[2] + 1]]

Mean(samples) == (Sum(samples) + (Len(samples) \div 2)) \div Len(samples)

Dc(n, size) ==
  LET dc == IF n.top \o n.left = << >> THEN 128 ELSE Mean(n.top \o n.left)
  IN [p \in Pixels(size) |-> dc]

(* The diagonals.                                                          *)
DiagonalDownLeft(n) ==
  LET p == n.top \o n.top_right
      a == [k \in 0..7 |->
              CASE k = 0 -> Tap3(p[1], p[1], p[2])
                [] k = 7 -> (p[7] + 3 * p[8] + 2) \div 4
                [] OTHER -> Tap3(p[k], p[k + 1], p[k + 2])]
  IN [q \in Pixels(4) |-> IF q = <<3, 3>> THEN a[7] ELSE a[q[1] + q[2]]]

DiagonalDownRight(n) ==
  LET p == <<n.left[4], n.left[3], n.left[2], n.left[1], n.top_left[1],
             n.top[1], n.top[2], n.top[3], n.top[4]>>
      a == [k \in 0..6 |-> Tap3(p[k + 1], p[k + 2], p[k + 3])]
  IN [q \in Pixels(4) |-> a[3 + q[1] - q[2]]]

VerticalRight(n) ==
  [q \in Pixels(4) |->
     LET x == q[1]
         y == q[2]
         zvr == 2 * x - y
         i == x - (y \div 2) - 1
     IN CASE zvr >= 0 /\ zvr % 2 = 0 -> Tap2(TopAt(n, i), TopAt(n, i + 1))
          [] zvr >= 0 /\ zvr % 2 = 1 -> Tap3(TopAt(n, i - 1), TopAt(n, i), TopAt(n, i + 1))
          [] zvr = -1 -> Tap3(LeftAt(n, 0), LeftAt(n, -1), TopAt(n, 0))
          [] OTHER -> Tap3(LeftAt(n, y - 1), LeftAt(n, y - 2), LeftAt(n, y - 3))]

(* Mutant: the last case reads one pixel further along the row.            *)
Bug_HorizontalDownShifted(n) ==
  [q \in Pixels(4) |->
     LET x == q[1]
         y == q[2]
         zhd == 2 * y - x
         j == y - (x \div 2) - 1
     IN CASE zhd >= 0 /\ zhd % 2 = 0 -> Tap2(LeftAt(n, j), LeftAt(n, j + 1))
          [] zhd >= 0 /\ zhd % 2 = 1 -> Tap3(LeftAt(n, j - 1), LeftAt(n, j), LeftAt(n, j + 1))
          [] zhd = -1 -> Tap3(LeftAt(n, 0), TopAt(n, -1), TopAt(n, 0))
          [] OTHER -> Tap3(TopAt(n, x), TopAt(n, x - 1), TopAt(n, x - 2))]

HorizontalDown(n) ==
  [q \in Pixels(4) |->
     LET x == q[1]
         y == q[2]
         zhd == 2 * y - x
         j == y - (x \div 2) - 1
     IN CASE zhd >= 0 /\ zhd % 2 = 0 -> Tap2(LeftAt(n, j), LeftAt(n, j + 1))
          [] zhd >= 0 /\ zhd % 2 = 1 -> Tap3(LeftAt(n, j - 1), LeftAt(n, j), LeftAt(n, j + 1))
          [] zhd = -1 -> Tap3(LeftAt(n, 0), TopAt(n, -1), TopAt(n, 0))
          [] OTHER -> Tap3(TopAt(n, x - 1), TopAt(n, x - 2), TopAt(n, x - 3))]

VerticalLeft(n) ==
  LET p == n.top \o n.top_right
  IN [q \in Pixels(4) |->
        LET i == q[1] + (q[2] \div 2) + 1
        IN IF q[2] % 2 = 0 THEN Tap2(p[i], p[i + 1]) ELSE Tap3(p[i], p[i + 1], p[i + 2])]

HorizontalUp(n) ==
  LET l == n.left
  IN [q \in Pixels(4) |->
        LET zhu == q[1] + 2 * q[2]
            j == q[2] + (q[1] \div 2) + 1
        IN CASE zhu \in {0, 2, 4} -> Tap2(l[j], l[j + 1])
             [] zhu \in {1, 3} -> Tap3(l[j], l[j + 1], l[j + 2])
             [] zhu \in {5, 6} -> (l[3] + 3 * l[4] + 2) \div 4
             [] OTHER -> l[4]]

-----------------------------------------------------------------------------
(* pred16_plane and predc_plane: the regression over half a side.          *)
ClampPixel(v) == IF v < 0 THEN 0 ELSE IF v > 255 THEN 255 ELSE v

Slope(row, half) ==
  Sum([i \in 1..half |-> i * (row[half + i - 1] - row[half - 1 - i])])

Plane(n, size) ==
  LET half == size \div 2
      scale == IF size = 16 THEN 5 ELSE 34
      b == (scale * Slope([i \in -1..(size - 1) |-> TopAt(n, i)], half) + 32) \div 64
      c == (scale * Slope([j \in -1..(size - 1) |-> LeftAt(n, j)], half) + 32) \div 64
      a == 16 * (n.left[size] + n.top[size])
  IN [p \in Pixels(size) |->
        ClampPixel((a + b * (p[1] - (half - 1)) + c * (p[2] - (half - 1)) + 16) \div 32)]

(* predc_dc: each quarter from the segments next to it; the two off the
   diagonal prefer the one they share an edge of the block with.           *)
Segment(s, k) == IF s = << >> THEN << >> ELSE SubSeq(s, 4 * k + 1, 4 * k + 4)

QuarterDc(n, x, y) ==
  LET t == Segment(n.top, x)
      l == Segment(n.left, y)
      samples == CASE x = y -> t \o l
                   [] x = 1 /\ y = 0 -> IF t # << >> THEN t ELSE l
                   [] x = 0 /\ y = 1 -> IF l # << >> THEN l ELSE t
  IN IF samples = << >> THEN 128 ELSE Mean(samples)

ChromaDc(n) ==
  LET dc == [q \in (0..1) \X (0..1) |-> QuarterDc(n, q[1], q[2])]
  IN [p \in Pixels(8) |-> dc[<<p[1] \div 4, p[2] \div 4>>]]

-----------------------------------------------------------------------------
Predict4x4(mode, n) ==
  CASE mode = 0 -> Vertical(n, 4)
    [] mode = 1 -> Horizontal(n, 4)
    [] mode = 2 -> Dc(n, 4)
    [] mode = 3 -> DiagonalDownLeft(n)
    [] mode = 4 -> DiagonalDownRight(n)
    [] mode = 5 -> VerticalRight(n)
    [] mode = 6 -> HorizontalDown(n)
    [] mode = 7 -> VerticalLeft(n)
    [] mode = 8 -> HorizontalUp(n)

Predict16x16(mode, n) ==
  CASE mode = 0 -> Vertical(n, 16)
    [] mode = 1 -> Horizontal(n, 16)
    [] mode = 2 -> Dc(n, 16)
    [] mode = 3 -> Plane(n, 16)

PredictChroma8x8(mode, n) ==
  CASE mode = 0 -> ChromaDc(n)
    [] mode = 1 -> Horizontal(n, 8)
    [] mode = 2 -> Vertical(n, 8)
    [] mode = 3 -> Plane(n, 8)

Predicted(family, mode, n) ==
  CASE family = 4 -> Predict4x4(mode, n)
    [] family = 16 -> Predict16x16(mode, n)
    [] family = 8 -> PredictChroma8x8(mode, n)

(* The neighbours a mode refuses to do without.                            *)
Needs(family, mode) ==
  CASE family = 4 /\ mode = 0 -> {"top"}
    [] family = 4 /\ mode \in {1, 8} -> {"left"}
    [] family = 4 /\ mode \in {3, 7} -> {"top", "top_right"}
    [] family = 4 /\ mode \in {4, 5, 6} -> {"top", "left", "top_left"}
    [] family = 16 /\ mode = 0 -> {"top"}
    [] family \in {16, 8} /\ mode = 1 -> {"left"}
    [] family = 8 /\ mode = 2 -> {"top"}
    [] family \in {16, 8} /\ mode = 3 -> {"top", "left", "top_left"}
    [] OTHER -> {}

Missing == \E s \in Needs(request.family, request.mode) : request.n[s] = << >>

PredictInit ==
  /\ request \in Predictions
  /\ block = << >> /\ status = "asked"

Predict ==
  /\ status = "asked" /\ ~Missing
  /\ block' = Predicted(request.family, request.mode, request.n)
  /\ status' = "predicted"
  /\ UNCHANGED request

Refuse ==
  /\ status = "asked" /\ Missing
  /\ status' = "refused"
  /\ UNCHANGED <<request, block>>

PredictNext == Predict \/ Refuse

PredictSpec == PredictInit /\ [][PredictNext]_predictVars

-----------------------------------------------------------------------------
(* Every predicted pixel is a byte.                                        *)
PredictTypeOK ==
  /\ status \in {"asked", "predicted", "refused"}
  /\ status = "predicted" => block \in [Pixels(Size(request.family)) -> 0..255]

(* No mode but plane invents contrast: each pixel lies between the darkest
   and the brightest of the neighbours, in every mode, with the rounding
   of every average and whichever of them are missing.                     *)
Samples(n) == {n.top[i] : i \in DOMAIN n.top} \cup {n.left[i] : i \in DOMAIN n.left}
              \cup {n.top_right[i] : i \in DOMAIN n.top_right}
              \cup {n.top_left[i] : i \in DOMAIN n.top_left}
IsPlane == request.family # 4 /\ request.mode = 3
LiesBetween ==
  status = "predicted" /\ ~IsPlane =>
    LET s == IF request.n.top \o request.n.left = << >> THEN {128} ELSE Samples(request.n)
    IN \A p \in DOMAIN block : /\ \E v \in s : v <= block[p]
                               /\ \E v \in s : block[p] <= v

(* The modes come in pairs that differ by a reflection in the diagonal of
   the block: each pair treats rows as the other treats columns, to the
   last bit of rounding, also where a neighbour is missing.                *)
Reflected(family, mode) ==
  CASE family = 4 -> <<1, 0, 2, -1, 4, 6, 5, -1, -1>>[mode + 1]
    [] family = 16 -> <<1, 0, 2, 3>>[mode + 1]
    [] family = 8 -> <<0, 2, 1, 3>>[mode + 1]
ReflectsPartner ==
  LET partner == Reflected(request.family, request.mode)
      turned == [request.n EXCEPT !.top = request.n.left, !.left = request.n.top]
  IN status = "predicted" /\ partner # -1 =>
       LET other == Predicted(request.family, partner, turned)
       IN \A p \in DOMAIN block : block[p] = other[<<p[2], p[1]>>]

(* Modes 4 to 8 continue the picture their neighbours are taken from where
   that picture does not change along their direction, and plane any picture
   of one slope: in these modes no sample is read one place off, and nothing
   is lost to rounding where the picture is not so steep that the 5/64 or
   34/64 of plane, or the average round the corner of modes 5 and 6, rounds
   to another value (intra.rs 255-438, 539-575, 720-752).  Mode 8 does so for
   the pixels whose two or three samples are all in the column.  Mode 3 does
   not: ReadsWhereItPoints.                                                *)
AlongMode(p) ==
  LET b == request.image[2]
      c == request.image[3]
  IN CASE IsPlane -> b \in -3..4 /\ c \in -3..4
       [] request.family = 4 /\ request.mode = 4 -> b = -c
       [] request.family = 4 /\ request.mode = 5 -> b = -2 * c /\ c \in -1..2
       [] request.family = 4 /\ request.mode = 6 -> c = -2 * b /\ b \in -1..2
       [] request.family = 4 /\ request.mode = 7 -> b = 2 * c
       [] request.family = 4 /\ request.mode = 8 -> c = 2 * b /\ p[1] + 2 * p[2] <= 4
       [] OTHER -> FALSE
PictureContinued ==
  status = "predicted" /\ request.image # << >> =>
    \A p \in DOMAIN block : AlongMode(p) => block[p] = Picture(request.image, p)

(* No mode but plane leaves the range of its neighbours, modes that mirror each
   other give mirrored blocks, and modes 4 to 8 and plane continue a picture
   constant along their direction.                                         *)
PredictsItsGeometry == PredictTypeOK /\ LiesBetween /\ ReflectsPartner /\ PictureContinued

(* Modes 3, 7 and 8 each run along one series of neighbours: a pixel is the
   smoothed series at the half sample its direction meets, and the last sample
   stands for those beyond it, "filtered[x + y]" up to "filtered[6,7,7]" for
   mode 3 and "positions that would reference `l[4]` clamp to `l[3]`" for
   mode 8 (intra.rs 220-221, 411-412).                                     *)
OrLast(s, i) == IF i <= Len(s) THEN s[i] ELSE s[Len(s)]
SmoothedAt(s, half) ==
  LET i == half \div 2 + 1
  IN IF half % 2 = 0 THEN Tap2(OrLast(s, i), OrLast(s, i + 1))
                     ELSE Tap3(OrLast(s, i), OrLast(s, i + 1), OrLast(s, i + 2))
ReadsWhereItPoints ==
  LET row == request.n.top \o request.n.top_right
  IN status = "predicted" /\ request.family = 4 =>
       \A p \in DOMAIN block :
         /\ request.mode = 3 => block[p] = SmoothedAt(row, 2 * (p[1] + p[2]) + 1)
         /\ request.mode = 7 => block[p] = SmoothedAt(row, 2 * p[1] + p[2])
         /\ request.mode = 8 => block[p] = SmoothedAt(request.n.left, p[1] + 2 * p[2])
=============================================================================
