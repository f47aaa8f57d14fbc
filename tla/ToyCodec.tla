------------------------------ MODULE ToyCodec ------------------------------
(***************************************************************************)
(* One 8x8 block of the BlockQuant codec: centre, Walsh-Hadamard, quantise, *)
(* and back.  A block is a function on 0..63 in raster order.  wht8x8 runs  *)
(* wht8 on every row and then on every column; each of the three stages of  *)
(* wht8 is one butterfly on the whole block, of stride 1, 2, 4 on the rows  *)
(* and 8, 16, 32 on the columns.                                            *)
(***************************************************************************)
EXTENDS Integers

Cells == 0..63

QuantStep(qp) == IF qp = 0 THEN 1 ELSE qp

Upper(i, s) == (i \div s) % 2 = 0

Butterfly(x, s) ==
  [i \in Cells |-> IF Upper(i, s) THEN x[i] + x[i + s] ELSE x[i - s] - x[i]]

WhtRows(x) == Butterfly(Butterfly(Butterfly(x, 1), 2), 4)
WhtColumns(x) == Butterfly(Butterfly(Butterfly(x, 8), 16), 32)
Wht8x8(x) == WhtColumns(WhtRows(x))

(* Mutant: halves of negative quotients go towards zero's other side.      *)
Bug_DivRoundDown(n, d) == IF n >= 0 THEN n \div d ELSE -((-n) \div d)

(* Round half away from zero.                                              *)
DivRound(n, d) ==
  IF n >= 0 THEN (n + d \div 2) \div d ELSE -((-n + d \div 2) \div d)

Clamp(n, low, high) == IF n < low THEN low ELSE IF n > high THEN high ELSE n

I16Min == -32768
I16Max == 32767

EncodeBlock(pixels, step) ==
  LET x == Wht8x8([i \in Cells |-> pixels[i] - 128])
  IN  [i \in Cells |-> Clamp(DivRound(x[i], step), I16Min, I16Max)]

DecodeBlock(coeffs, step) ==
  LET y == Wht8x8([i \in Cells |-> coeffs[i] * step])
  IN  [i \in Cells |-> Clamp(DivRound(y[i], 64) + 128, 0, 255)]

Distance(a, b) == IF a >= b THEN a - b ELSE b - a
=============================================================================
