---------------------------- MODULE MCFrameDecode ---------------------------
(* One macroblock with bits enough for TotalCoeffs of any texture, two that run out
   of bits in theirs, and several on slices that are empty, hold one header and no more, or
   the shortest headers of every macroblock, their blocks empty.           *)
EXTENDS FrameMacroblocks

MCMbCounts == {0, 1, 2, 4}
MCSliceBits == {0, 9, 21, 44, 90, 400}
MCSliceQps == {-40, 90}
MCQpDeltas == {-60, 0, 26}

(* Two TotalCoeffs on both sides of bounds of nC, by column and by row, so that a
   block sees each on either side.                                         *)
Texture(p, q, xs, ys) ==
  [b \in 0..15 |-> IF (b % 4 \in xs) # (b \div 4 \in ys) THEN p ELSE q]
Textures ==
  {Texture(pq[1], pq[2], xs, ys) : pq \in {<<0, 16>>, <<1, 2>>},
     xs \in {{0, 2}, {1, 2}}, ys \in {{}, {1, 3}}}
(* One block that sets the codes of its two neighbours.                    *)
Corner(p) == [b \in 0..15 |-> IF b = 0 THEN p ELSE 2]
Empty == [b \in 0..15 |-> 0]

Coded == Textures \cup {Corner(6), Corner(7), Corner(8)}
MCTotalCoeffs == Coded \cup {Empty}

MCSlices ==
  ({1} \X {400} \X Coded)
  \cup ({2} \X {44, 90} \X {Texture(0, 16, {}, {1, 3})})
  \cup (MCMbCounts \X (MCSliceBits \ {90, 400}) \X {Empty})
=============================================================================
