------------------------------ MODULE MCParsing -----------------------------
(* The readers between a byte stream and a residual block, each checked on its
   own from all its inputs while the others rest: the bit reader, the framer,
   the header parsers; a lookup in a VLC table, the levels, the placement.
   part says which, Parts which of them a run checks.                      *)
EXTENDS BitReader, NalFramer, Headers, CavlcResidual, CavlcLevels, ReadVlc

CONSTANT Parts

VARIABLE part

(* Bit reader: words of four bits. The longest code has seven bits, the first
   that is too long nine, so two bytes hold either at every start.         *)
MCStreams ==
  {<< >>} \cup [1..1 -> 0..255] \cup {<<b, c>> : b \in 0..255, c \in {0, 1, 128, 170, 255}}
MCStarts == {0, 3, 8}

(* NAL framer, framed: one unit of up to five bytes around every prevention
   pattern; two with every framing between them; four of every kind and order,
   the forbidden bit among them.  Raw: every stream of up to six bytes of zero,
   one, three and a header.                                                *)
Bytes == {0, 1, 3}
UpTo(n, S) == UNION {[1..k -> S] : k \in 0..n}

Unit(h, r, c, z) == [header |-> h, rbsp |-> r, code |-> c, zeros |-> z]

Single == {<<Unit(103, r, 4, 1)>> : r \in {r \in UpTo(5, Bytes) : Legal(r)}}

Pairs ==
  {<<Unit(103, r, 4, z), Unit(101, q, c, y)>> :
     r \in {r \in UpTo(3, Bytes) : Legal(r)}, q \in {<<1>>, <<0, 0, 1>>},
     c \in {3, 4}, z \in 0..2, y \in 0..1}

HeaderBytes == {103, 104, 101, 65, 6, 133}
Kinds ==
  {[k \in DOMAIN hs |-> Unit(hs[k], <<k, 0, 0, k>>, 3, 0)] : hs \in UpTo(4, HeaderBytes)}

MCSent == Single \cup Pairs \cup Kinds
MCRawStreams == UpTo(6, {0, 1, 3, 103})

(* Headers: every option that changes what is written, on both sides of the
   scope and of what the parser knows of; up to two marking operations.    *)
MCSps == [profile : {66, 77}, frame_num : {0, 12, 13}, poc : 0..2, frames : 0..1,
          crop : 0..1, vui : 0..1]
MCPps == [cabac : 0..1, groups : 0..1, weighted : 0..1, bipred : 0..2]

Mmcos == UNION {[1..n -> 1..7] : n \in 0..2}
MCSlices ==
  [first : 0..1, type : {2, 7, 5, 6}, poc : {0, 2}, deblocking : -1..2,
   bottom_field : {FALSE}, redundant : {FALSE}, reference : {TRUE},
   idr : {FALSE}, mmcos : Mmcos]
  \cup
  [first : 0..1, type : {2, 5}, poc : {0, 2}, deblocking : -1..2,
   bottom_field : BOOLEAN, redundant : BOOLEAN, reference : BOOLEAN,
   idr : BOOLEAN, mmcos : {<< >>}]

(* An entry whose codeword no shorter codeword shadows.                    *)
Decodable(codes) == {e \in codes : ~\E f \in codes \ {e} : Begins(f, e)}

(* Placement under the tables of CavlcTables: every number of zeros and every
   run, for every token a variant can decode; of the longer blocks, whose
   placement does not depend on them, one variant and one number of trailing
   ones.                                                                   *)
Tokenised(v) ==
  IF v = "FixedLen6" THEN UNION {FixedLen6(bits) : bits \in 0..63}
  ELSE {UnpackCt(e.value) : e \in Decodable(CoeffTokenTable(v))}

MCTokens(v) ==
  {t \in Tokenised(v) :
     t.total_coeff > 4 => v = "FixedLen6" /\ t.trailing_ones = 3}

MCTotalZeros(tc) == {e.value : e \in TotalZerosTable(tc)}
MCRunBefore(zl) == {e.value : e \in RunBeforeTable(zl)}

(* Levels: in blocks of up to three coefficients, prefixes on both sides of
   each threshold with the smallest and the largest suffix; in longer ones fewer:
   from eleven on, where the suffix length starts at 1, small levels and escapes,
   in a full block escapes alone.                                          *)
MCTotals == {0, 1, 2, 3, 4, 11, 16}
MCPrefixes(n) ==
  CASE n <= 3 -> {0, 1, 13, 14, 15, 32, 33}
    [] n = 4 -> {0, 14, 15}
    [] n = 11 -> {0, 15}
    [] OTHER -> {15}
MCSuffixes(bits, n) == IF n <= 4 THEN {0, 2^bits - 1} ELSE {0}

-----------------------------------------------------------------------------
(* At rest: a read that found no bits, a walk over no bytes, a header cut off
   before its first element; a block without coefficients, in levels and in
   placement, and a stream without bits for a lookup.                      *)
NoRead ==
  /\ bytes = << >> /\ start = 0 /\ kind = "ue" /\ te_x = 0 /\ checked = TRUE
  /\ bit_pos = 0 /\ zeros = 0 /\ suffix = 0 /\ more = 0 /\ read_value = 0
  /\ read_status = "truncated"

NoStream ==
  /\ stream = << >> /\ sent = << >> /\ framed = FALSE
  /\ nal_pos = 1 /\ units = << >>
  /\ sps_rbsp = NoBytes /\ pps_rbsp = NoBytes /\ slice_rbsp = NoBytes
  /\ slice_is_idr = FALSE /\ nal_status = "err"

NoHeader ==
  /\ header = "pps" /\ options = 0 /\ coded = << >>
  /\ read_pos = 1 /\ agenda = << >> /\ header_status = "truncated"

NoBlock ==
  /\ variant = "Vlc0" /\ total_coeff = 0 /\ trailing_ones = 0
  /\ total_zeros = 0 /\ zeros_left = 0 /\ i = 0 /\ coeff_num = -1
  /\ zz = Empty /\ raster = Empty /\ status = "done"
NoLevels == total = 0 /\ ones = 0 /\ LevelsInit
NoBits == table = RunBeforeTable(1) /\ wrote = Garbage /\ avail = 0 /\ LookupInit

Resting(p) ==
  /\ p # "bits" => NoRead
  /\ p # "framer" => NoStream
  /\ p # "headers" => NoHeader
  /\ p # "lookup" => NoBits
  /\ p # "levels" => NoLevels
  /\ p # "placement" => NoBlock

MCInit ==
  /\ part \in Parts
  /\ \/ part = "bits" /\ ReaderInit
     \/ part = "framer" /\ FramerInit
     \/ part = "headers" /\ HeadersInit
     \/ part = "lookup" /\ LookupInit
     \/ part = "levels" /\ LevelsInit
     \/ part = "placement" /\ Init
  /\ Resting(part)

MCNext ==
  /\ UNCHANGED part
  /\ \/ part = "bits" /\ ReaderNext
        /\ UNCHANGED <<framerVars, headerVars, lookupVars, levelVars, vars>>
     \/ part = "framer" /\ FramerNext
        /\ UNCHANGED <<readerVars, headerVars, lookupVars, levelVars, vars>>
     \/ part = "headers" /\ HeadersNext
        /\ UNCHANGED <<readerVars, framerVars, lookupVars, levelVars, vars>>
     \/ part = "lookup" /\ LookupNext
        /\ UNCHANGED <<readerVars, framerVars, headerVars, levelVars, vars>>
     \/ part = "levels" /\ LevelsNext
        /\ UNCHANGED <<readerVars, framerVars, headerVars, lookupVars, vars>>
     \/ part = "placement" /\ Next
        /\ UNCHANGED <<readerVars, framerVars, headerVars, lookupVars, levelVars>>

MCVars ==
  <<part, readerVars, framerVars, headerVars, lookupVars, levelVars, vars>>

MCSpec == MCInit /\ [][MCNext]_MCVars
=============================================================================
