------------------------------ MODULE MCRecon -------------------------------
(* Reconstruction: the order of the luma blocks over a picture, the modes of one
   macroblock, the prediction of one block, and its residual from levels to
   samples, each checked on its own while the others rest; part says which.*)
EXTENDS LumaRecon, IntraModes, IntraPredict, ResidualTransform

CONSTANT Magnitudes

VARIABLE part

(* DC and the mode below it, and both ends of the range, so that remainders
   fall on both sides of predictions.                                      *)
MCPalettes == {{1, 2}, {0, 8}}

(* Prediction, 4x4: every neighbourhood of dark and bright, or dark and not quite
   dark, samples a mode reads, and every set of missing neighbours.  16x16 and
   8x8: spikes in one row and one column, missing neighbours, and slopes.  *)
All(k, v) == [i \in 1..k |-> v]
Around(t, r, l, c) == [top |-> t, top_right |-> r, left |-> l, top_left |-> c]
Request(f, m, n) == [family |-> f, mode |-> m, n |-> n, image |-> << >>]

Fours(levels) == [1..4 -> levels]
Around4(levels) ==
  {Request(4, m, Around(t, All(4, 0), l, <<c>>)) :
     m \in {4, 5, 6}, t \in Fours(levels), l \in Fours(levels), c \in levels}
  \cup {Request(4, m, Around(t, r, << >>, << >>)) :
          m \in {3, 7}, t \in Fours(levels), r \in Fours(levels)}
  \cup {Request(4, m, Around(t, << >>, << >>, << >>)) : m \in 0..2, t \in Fours(levels)}
  \cup {Request(4, m, Around(<< >>, << >>, l, << >>)) : m \in {0, 1, 2, 8}, l \in Fours(levels)}
  \cup {Request(4, 2, Around(t, << >>, l, << >>)) : t \in Fours(levels), l \in Fours(levels)}

SpikeAt(k, i, v) == [j \in 1..k |-> IF j = i THEN v ELSE 255 - v]
Missing2(t, l, c) ==
  {Around(a, << >>, b, d) : a \in {t, << >>}, b \in {l, << >>}, d \in {c, << >>}}
Absent ==
  UNION {{Request(f, m, n) : m \in Modes(f),
            n \in Missing2([i \in 1..f |-> 9 * i], [i \in 1..f |-> 200 - 3 * i], <<77>>)} :
         f \in {4, 16, 8}}
SpikeRows ==
  UNION {{Request(f, m, Around(SpikeAt(f, i, v), << >>, SpikeAt(f, j, w), <<c>>)) :
            m \in 0..3, i \in {0, 1, f \div 2, f}, j \in {0, 2, f}, v \in {0, 255},
            w \in {0, 255}, c \in {0, 128}} : f \in {16, 8}}

Sloped(f, m, b, c) ==
  [family |-> f, mode |-> m, image |-> <<100, b, c>>,
   n |-> Around([i \in 1..f |-> 100 + b * (i - 1) - c],
                IF f = 4 THEN [i \in 1..4 |-> 100 + b * (3 + i) - c] ELSE << >>,
                [j \in 1..f |-> 100 - b + c * (j - 1)], <<100 - b - c>>)]
Slopes ==
  {Sloped(4, m, b, c) : m \in 3..8, b \in -4..4, c \in -4..4}
  \cup {Sloped(f, 3, b, c) : f \in {16, 8}, b \in -3..4, c \in -3..4}

(* The slopes of mode 3 alone.                                             *)
MCDownLeft == {r \in Slopes : r.family = 4 /\ r.mode = 3}

MCPredictions == Around4({0, 255}) \cup Around4({0, 1}) \cup Absent \cup SpikeRows \cup Slopes

(* Residual: one level in one cell, one level everywhere with the signs that
   make one output extreme, and ramps, at QPs on both sides of every change of
   shift.                                                                  *)
QPs == {0, 5, 11, 17, 23, 24, 29, 30, 35, 36, 45, 47, 51, 52}

Signs == << <<1, 1, 1, 1>>, <<1, 1, -1, -1>>, <<1, -1, -1, 1>>, <<1, -1, 1, -1>> >>

Spikes(n) == {[c \in Cells(n) |-> IF c = at THEN s * m ELSE 0] :
                at \in Cells(n), s \in {-1, 1}, m \in Magnitudes}
Extremes(n) == {[c \in Cells(n) |-> s * m * Signs[c[1] + 1][at[1] + 1] * Signs[c[2] + 1][at[2] + 1]] :
                  at \in Cells(n), s \in {-1, 1}, m \in Magnitudes}
Ramps(n) == {[c \in Cells(n) |-> a * c[1] - b * c[2] + 1] : a \in -2..2, b \in {-3, 1, 5}}

LevelBlocks(kind) == LET n == IF kind = "chroma_dc" THEN 2 ELSE 4
                IN Spikes(n) \cup Extremes(n) \cup Ramps(n)

Small(kind, l) == kind = "ac" \/ \A c \in DOMAIN l : l[c] \in -(2^15)..(2^15)

MCLevels ==
  UNION {{[kind |-> kind, levels |-> l, qp |-> qp, predicted |-> 128] :
            l \in {b \in LevelBlocks(kind) : Small(kind, b)}, qp \in QPs} :
         kind \in {"ac", "luma_dc", "chroma_dc"}}

-----------------------------------------------------------------------------
(* At rest: a picture of which nothing is reconstructed yet, a macroblock without
   records, and a block of each kind that is asked for.                    *)
NoPicture == mb_row = 0 /\ mb_col = 0 /\ z = 0 /\ resolved_mode = 0 /\ written = {}
NoModes == ModesInit /\ palette = {1, 2}
NoPrediction ==
  request = Request(4, 2, Around(<< >>, << >>, << >>, << >>)) /\ block = << >> /\ status = "asked"
NoLevels == [kind |-> "chroma_dc", levels |-> [c \in Cells(2) |-> 0], qp |-> 0, predicted |-> 128]
NoResidual == coded = NoLevels /\ values = NoLevels.levels /\ stage = "levels"

MCInit ==
  \/ part = "picture" /\ Init /\ NoModes /\ NoPrediction /\ NoResidual
  \/ part = "modes" /\ NoPicture /\ ModesInit /\ NoPrediction /\ NoResidual
  \/ part = "prediction" /\ NoPicture /\ NoModes /\ PredictInit /\ NoResidual
  \/ part = "residual" /\ NoPicture /\ NoModes /\ NoPrediction /\ ResidualInit

MCNext ==
  /\ UNCHANGED part
  /\ \/ part = "picture" /\ Next /\ UNCHANGED <<modeVars, predictVars, residualVars>>
     \/ part = "modes" /\ ModesNext /\ UNCHANGED <<vars, predictVars, residualVars>>
     \/ part = "prediction" /\ PredictNext /\ UNCHANGED <<vars, modeVars, residualVars>>
     \/ part = "residual" /\ ResidualNext /\ UNCHANGED <<vars, modeVars, predictVars>>

MCSpec == MCInit /\ [][MCNext]_<<part, vars, modeVars, predictVars, residualVars>>
=============================================================================
