---------------------------- MODULE CavlcTables -----------------------------
(***************************************************************************)
(* The VLC tables of the residual decoder.  A code is <<length, bits>>; a  *)
(* coeff_token table has a row for every TotalCoeff and in it a code for   *)
(* every TrailingOnes, the other tables have a code for every value.       *)
(***************************************************************************)
EXTENDS Integers, Sequences, FiniteSetsExt

Entry(code, value) == [len |-> code[1], code |-> code[2], value |-> value]

(* value = TotalCoeff * 4 + TrailingOnes, as ct packs it.                  *)
Tokens(rows) ==
  UNION {{Entry(rows[r][t], 4 * (r - 1) + t - 1) : t \in 1..Len(rows[r])} : r \in 1..Len(rows)}

Values(codes) == {Entry(codes[k], k - 1) : k \in 1..Len(codes)}

UnpackCt(packed) == [total_coeff |-> packed \div 4, trailing_ones |-> packed % 4]

(* The 6-bit code for nC >= 8; none when it has more trailing ones than
   coefficients.                                                           *)
FixedLen6(bits) ==
  LET token == IF bits = 3 THEN UnpackCt(0)
               ELSE [total_coeff |-> bits \div 4 + 1, trailing_ones |-> bits % 4]
  IN  {t \in {token} : t.trailing_ones <= t.total_coeff}

MaxLen(table) == Max({e.len : e \in table})

-----------------------------------------------------------------------------
COEFF_TOKEN_VLC0 ==
  << <<<<1, 1>>>>, <<<<6, 5>>, <<2, 1>>>>, <<<<8, 7>>, <<6, 4>>, <<3, 1>>>>,
     <<<<9, 7>>, <<8, 6>>, <<7, 5>>, <<5, 3>>>>,
     <<<<10, 7>>, <<9, 6>>, <<8, 5>>, <<6, 3>>>>,
     <<<<11, 7>>, <<10, 6>>, <<9, 5>>, <<7, 4>>>>,
     <<<<13, 15>>, <<11, 6>>, <<10, 5>>, <<8, 4>>>>,
     <<<<13, 11>>, <<13, 14>>, <<11, 5>>, <<9, 4>>>>,
     <<<<13, 8>>, <<13, 10>>, <<13, 13>>, <<10, 4>>>>,
     <<<<14, 15>>, <<14, 14>>, <<13, 9>>, <<11, 4>>>>,
     <<<<14, 11>>, <<14, 10>>, <<14, 13>>, <<13, 12>>>>,
     <<<<15, 15>>, <<15, 14>>, <<14, 9>>, <<14, 12>>>>,
     <<<<15, 11>>, <<15, 10>>, <<15, 13>>, <<14, 8>>>>,
     <<<<16, 15>>, <<15, 1>>, <<15, 9>>, <<15, 12>>>>,
     <<<<16, 11>>, <<16, 14>>, <<16, 13>>, <<15, 8>>>>,
     <<<<16, 7>>, <<16, 10>>, <<16, 9>>, <<16, 12>>>>,
     <<<<16, 4>>, <<16, 6>>, <<16, 5>>, <<16, 8>>>> >>

COEFF_TOKEN_VLC1 ==
  << <<<<2, 3>>>>, <<<<6, 11>>, <<2, 2>>>>, <<<<6, 14>>, <<5, 7>>, <<3, 3>>>> >>

COEFF_TOKEN_VLC2 ==
  << <<<<4, 15>>>>, <<<<6, 15>>, <<4, 14>>>>,
     <<<<6, 11>>, <<5, 15>>, <<4, 13>>>> >>

COEFF_TOKEN_CHROMA_DC_420 ==
  << <<<<2, 1>>>>, <<<<7, 15>>, <<1, 1>>>>,
     <<<<7, 14>>, <<7, 13>>, <<3, 1>>>>,
     <<<<9, 7>>, <<8, 6>>, <<7, 5>>, <<5, 3>>>>,
     <<<<8, 5>>, <<8, 4>>, <<8, 3>>, <<6, 3>>>> >>

(* total_zeros for TotalCoeff 1..15.                                       *)
TZ == <<
  <<<<1, 1>>, <<3, 3>>, <<3, 2>>, <<4, 3>>, <<4, 2>>, <<5, 3>>, <<5, 2>>,
    <<6, 3>>, <<6, 2>>, <<7, 3>>, <<7, 2>>, <<8, 3>>, <<8, 2>>, <<9, 3>>,
    <<9, 2>>, <<9, 1>>>>,
  <<<<3, 7>>, <<3, 6>>, <<3, 5>>, <<3, 4>>, <<3, 3>>, <<4, 5>>, <<4, 4>>,
    <<4, 3>>, <<4, 2>>, <<5, 3>>, <<5, 2>>, <<6, 3>>, <<6, 2>>, <<6, 1>>,
    <<6, 0>>>>,
  <<<<4, 5>>, <<3, 7>>, <<3, 6>>, <<3, 5>>, <<4, 4>>, <<4, 3>>, <<3, 4>>,
    <<3, 3>>, <<4, 2>>, <<5, 3>>, <<5, 2>>, <<6, 1>>, <<5, 1>>, <<6, 0>>>>,
  <<<<5, 3>>, <<3, 7>>, <<4, 5>>, <<4, 4>>, <<3, 6>>, <<3, 5>>, <<3, 4>>,
    <<4, 3>>, <<3, 3>>, <<4, 2>>, <<5, 2>>, <<5, 1>>, <<5, 0>>>>,
  <<<<4, 5>>, <<4, 4>>, <<4, 3>>, <<3, 7>>, <<3, 6>>, <<3, 5>>, <<3, 4>>,
    <<3, 3>>, <<4, 2>>, <<5, 1>>, <<4, 1>>, <<5, 0>>>>,
  <<<<6, 1>>, <<5, 1>>, <<3, 7>>, <<3, 6>>, <<3, 5>>, <<3, 4>>, <<3, 3>>,
    <<3, 2>>, <<4, 1>>, <<3, 1>>, <<6, 0>>>>,
  <<<<6, 1>>, <<5, 1>>, <<3, 5>>, <<3, 4>>, <<3, 3>>, <<2, 3>>, <<3, 2>>,
    <<4, 1>>, <<3, 1>>, <<6, 0>>>>,
  <<<<6, 1>>, <<4, 1>>, <<5, 1>>, <<3, 3>>, <<2, 3>>, <<2, 2>>, <<3, 2>>,
    <<3, 1>>, <<6, 0>>>>,
  <<<<6, 1>>, <<6, 0>>, <<4, 1>>, <<2, 3>>, <<2, 2>>, <<3, 1>>, <<2, 1>>,
    <<5, 1>>>>,
  <<<<5, 1>>, <<5, 0>>, <<3, 1>>, <<2, 3>>, <<2, 2>>, <<2, 1>>, <<4, 1>>>>,
  <<<<4, 0>>, <<4, 1>>, <<3, 1>>, <<3, 2>>, <<1, 1>>, <<3, 3>>>>,
  <<<<4, 0>>, <<4, 1>>, <<2, 1>>, <<1, 1>>, <<3, 1>>>>,
  <<<<3, 0>>, <<3, 1>>, <<1, 1>>, <<2, 1>>>>,
  <<<<2, 0>>, <<2, 1>>, <<1, 1>>>>,
  <<<<1, 0>>, <<1, 1>>>> >>

(* run_before for zeros_left 1..6, and for 7 and more.                     *)
RB == <<
  <<<<1, 1>>, <<1, 0>>>>,
  <<<<1, 1>>, <<2, 1>>, <<2, 0>>>>,
  <<<<2, 3>>, <<2, 2>>, <<2, 1>>, <<2, 0>>>>,
  <<<<2, 3>>, <<2, 2>>, <<2, 1>>, <<3, 1>>, <<3, 0>>>>,
  <<<<2, 3>>, <<2, 2>>, <<3, 3>>, <<3, 2>>, <<3, 1>>, <<3, 0>>>>,
  <<<<2, 3>>, <<3, 0>>, <<3, 1>>, <<3, 3>>, <<3, 2>>, <<3, 5>>, <<3, 4>>>>,
  <<<<3, 7>>, <<3, 6>>, <<3, 5>>, <<3, 4>>, <<3, 3>>, <<3, 2>>, <<3, 1>>,
    <<4, 1>>, <<5, 1>>, <<6, 1>>, <<7, 1>>, <<8, 1>>, <<9, 1>>, <<10, 1>>,
    <<11, 1>>>> >>

-----------------------------------------------------------------------------
TotalZerosTable(total_coeff) == Values(TZ[total_coeff])

RunBeforeTable(zeros_left) == Values(RB[IF zeros_left < 7 THEN zeros_left ELSE 7])

CoeffTokenTable(variant) ==
  Tokens(CASE variant = "Vlc0" -> COEFF_TOKEN_VLC0
           [] variant = "Vlc1" -> COEFF_TOKEN_VLC1
           [] variant = "Vlc2" -> COEFF_TOKEN_VLC2
           [] variant = "ChromaDc420" -> COEFF_TOKEN_CHROMA_DC_420)

-----------------------------------------------------------------------------
(* The codeword of f is the start of that of e.                            *)
Begins(f, e) == f.len <= e.len /\ e.code \div 2^(e.len - f.len) = f.code

AllTables ==
  {CoeffTokenTable(v) : v \in {"Vlc0", "Vlc1", "Vlc2", "ChromaDc420"}}
  \union {TotalZerosTable(tc) : tc \in 1..15}
  \union {RunBeforeTable(zl) : zl \in 1..7}

(* 001110 of COEFF_TOKEN_VLC1 begins with 00111; 0001111, 0001110 and
   0001101 of COEFF_TOKEN_CHROMA_DC_420 begin with 00011, and its 000000111
   with 00000011.                                                          *)
ASSUME ShadowedCodewords ==
  {<<e.len, e.code>> : e \in
     UNION {{e \in t : \E f \in t \ {e} : Begins(f, e)} : t \in AllTables}}
  = {<<6, 14>>, <<7, 15>>, <<7, 14>>, <<7, 13>>, <<9, 7>>}
=============================================================================
