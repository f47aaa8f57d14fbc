----------------------------- MODULE LumaRecon ------------------------------
(***************************************************************************)
(* The order in which decode_iframe reconstructs luma and what each 4x4    *)
(* block's prediction reads.  A block is <<x, y>> in units of four pixels: *)
(* pic_w is a multiple of 16, so the pixel guards of the code decide whole *)
(* blocks.                                                                 *)
(***************************************************************************)
EXTENDS Integers, Sequences, FiniteSets

CONSTANTS MbCols, MbRows

ASSUME SizeAssumption == MbCols \in Nat \ {0} /\ MbRows \in Nat \ {0}

VARIABLES
  mb_row, mb_col, z,   (* the next block to reconstruct                    *)
  resolved_mode,       (* its Intra_4x4 mode                               *)
  written              (* the blocks of y_plane that hold reconstruction   *)

vars == <<mb_row, mb_col, z, resolved_mode, written>>

Blocks == (0..(4 * MbCols - 1)) \X (0..(4 * MbRows - 1))

(* Mutant: two entries of the table are swapped.                           *)
Bug_ZScanSwapped ==
  << <<0, 0>>, <<1, 0>>, <<0, 1>>, <<1, 1>>, <<2, 0>>, <<3, 1>>, <<2, 1>>, <<3, 0>>,
     <<0, 2>>, <<1, 2>>, <<0, 3>>, <<1, 3>>, <<2, 2>>, <<3, 2>>, <<2, 3>>, <<3, 3>> >>

Z_SCAN_4X4 ==
  << <<0, 0>>, <<1, 0>>, <<0, 1>>, <<1, 1>>, <<2, 0>>, <<3, 0>>, <<2, 1>>, <<3, 1>>,
     <<0, 2>>, <<1, 2>>, <<0, 3>>, <<1, 3>>, <<2, 2>>, <<3, 2>>, <<2, 3>>, <<3, 3>> >>

BlockX(col, k) == 4 * col + Z_SCAN_4X4[k + 1][1]
BlockY(row, k) == 4 * row + Z_SCAN_4X4[k + 1][2]

(* build_neighbors_4x4: which neighbours are in the picture, and where.    *)
HasTop(x, y) == y >= 1
HasTopRight(x, y) == y >= 1 /\ x + 1 < 4 * MbCols
HasLeft(x, y) == x >= 1
HasTopLeft(x, y) == x >= 1 /\ y >= 1

(* Mode 2 takes what there is; the others refuse a missing neighbour, and
   the block falls back to mode 2.                                         *)
Predictable(mode, x, y) ==
  /\ mode \in {0, 3, 4, 5, 6, 7} => HasTop(x, y)
  /\ mode \in {1, 4, 5, 6, 8} => HasLeft(x, y)
  /\ mode \in {4, 5, 6} => HasTopLeft(x, y)
  /\ mode \in {3, 7} => HasTopRight(x, y)

UsedMode(mode, x, y) == IF Predictable(mode, x, y) THEN mode ELSE 2

TopRead(mode, x, y) == mode \notin {1, 8} /\ HasTop(x, y)
LeftRead(mode, x, y) == mode \notin {0, 3, 7} /\ HasLeft(x, y)
TopLeftRead(mode, x, y) == mode \in {4, 5, 6}
TopRightRead(mode, x, y) == mode \in {3, 7}

(* Mutant: the guard stops a column of blocks early.                       *)
Bug_LastColumnLost(x, y) == y < 4 * MbCols /\ x < 4 * MbCols - 1

(* The guard of the write back compares both coordinates with the width.   *)
WritesBack(x, y) == y < 4 * MbCols /\ x < 4 * MbCols

Init ==
  /\ mb_row = 0 /\ mb_col = 0 /\ z = 0
  /\ resolved_mode \in 0..8
  /\ written = {}

Done == mb_row = MbRows

Reconstruct ==
  /\ ~Done
  /\ LET x == BlockX(mb_col, z)
         y == BlockY(mb_row, z)
     IN  written' = IF WritesBack(x, y) THEN written \union {<<x, y>>} ELSE written
  /\ resolved_mode' \in 0..8
  /\ IF z < 15
     THEN z' = z + 1 /\ UNCHANGED <<mb_col, mb_row>>
     ELSE /\ z' = 0
          /\ mb_col' = IF mb_col + 1 < MbCols THEN mb_col + 1 ELSE 0
          /\ mb_row' = IF mb_col + 1 < MbCols THEN mb_row ELSE mb_row + 1

Next == Reconstruct

Spec == Init /\ [][Next]_vars

-----------------------------------------------------------------------------
TypeOK ==
  /\ mb_row \in 0..MbRows /\ mb_col \in 0..(MbCols - 1) /\ z \in 0..15
  /\ Done => mb_col = 0 /\ z = 0
  /\ resolved_mode \in 0..8
  /\ written \subseteq Blocks

(* The block the decoder is about to predict.                              *)
X == BlockX(mb_col, z)
Y == BlockY(mb_row, z)
Mode == UsedMode(resolved_mode, X, Y)

(* Whatever its mode, the samples a block reads above it, to its left and at
   its corner were reconstructed before it, also across macroblocks.  Those
   above and to the right, which modes 3 and 7 read, were too, but for the five
   blocks of every macroblock whose upper right is in a later quarter of it or
   in the next macroblock: there the code, which asks only whether the picture
   has them (frame.rs 345), reads gray.                                    *)
UpperRightLater == {<<1, 1>>, <<1, 3>>, <<3, 1>>, <<3, 2>>, <<3, 3>>}
ReadsReconstructed ==
  ~Done =>
    /\ TopRead(Mode, X, Y) => <<X, Y - 1>> \in written
    /\ LeftRead(Mode, X, Y) => <<X - 1, Y>> \in written
    /\ TopLeftRead(Mode, X, Y) => <<X - 1, Y - 1>> \in written
    /\ TopRightRead(Mode, X, Y) =>
         (<<X + 1, Y - 1>> \in written <=> <<X % 4, Y % 4>> \notin UpperRightLater)

(* As the code says, neighbours are built "from the already-written plane"
   (frame.rs 241): those above and to the right as well.                   *)
UpperRightWritten == ~Done /\ TopRightRead(Mode, X, Y) => <<X + 1, Y - 1>> \in written

(* The returned plane is reconstructed everywhere, each block once: none keeps
   the gray it was initialised with.                                       *)
PictureComplete ==
  /\ ~Done => <<X, Y>> \notin written
  /\ Done => written = Blocks
=============================================================================
