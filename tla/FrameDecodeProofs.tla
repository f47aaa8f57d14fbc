------------------------- MODULE FrameDecodeProofs --------------------------
(***************************************************************************)
(* What bounds the decode loop, for every picture, slice and QP; that the  *)
(* loop with the parser it calls implements it, read by read; and what a   *)
(* macroblock is that comes through: read with the right codes, and as its *)
(* own header announced.                                                   *)
(*                                                                         *)
(* Then the walk over the byte stream in front of the loop, for every      *)
(* stream.  In a framed one each unit lies behind zeros and a one, and no  *)
(* two zeros of an escaped payload are followed by what a start code ends  *)
(* in; so the walk stops at what was framed, and nowhere else.             *)
(***************************************************************************)
EXTENDS FrameMacroblocks, NalFramer, FiniteSetTheorems, SequenceTheorems,
        WellFoundedInduction, TLAPS

(* wrap_qp has the 52 QPs for its values.                                  *)
LEMMA WrapQpRange == ASSUME NEW qp \in Int PROVE WrapQp(qp) \in 0..51
BY DEF WrapQp

(* Reading on keeps a bound on what was read, and five bits pay for one
   more macroblock.                                                        *)
LEMMA ReadOn ==
  ASSUME NEW m \in Int, NEW u \in Int, NEW b \in Int, NEW l \in Int, NEW l1 \in 0..l,
         5 * (m + u) <= b - l
  PROVE  5 * (m + u) <= b - l1
OBVIOUS

LEMMA Pays ==
  ASSUME NEW m \in Int, NEW b \in Int, NEW l \in Int, NEW l1 \in 0..l,
         5 * m <= b - l, l - l1 >= 5
  PROVE  5 * (m + 1) <= b - l1
OBVIOUS

(* The picture, the reader and the QP keep their types and bounds.         *)
LoopOK ==
  /\ mb_count \in Nat /\ bits \in Nat
  /\ mb \in 0..mb_count /\ left \in 0..bits
  /\ qp_y \in Int
  /\ phase \in {"residual", "reconstruct"} => mb < mb_count
(* Every macroblock is paid for, and written once.                         *)
Paid == 5 * (mb + UnderWay) <= bits - left
WrittenOnce ==
  /\ written \in Nat /\ written <= mb_count + mb
  /\ phase = "headers" => written = 0 /\ mb = 0
  /\ phase = "planes" => mb = 0
LoopInv == LoopOK /\ Paid /\ WrittenOnce /\ QpLegal

LEMMA LoopInvInit == Init => LoopInv
BY CountsAssumption DEF Init, LoopInv, LoopOK, Paid, WrittenOnce, UnderWay, QpLegal

LEMMA LoopInvNext == LoopInv /\ [Next]_vars => LoopInv'
<1> SUFFICES ASSUME LoopInv, [Next]_vars PROVE LoopInv'
  OBVIOUS
<1> USE DEF LoopInv, LoopOK, Paid, UnderWay, QpLegal, slice, planes
<1>0. WrittenOnce'
  <2>1. /\ written \in Nat /\ written <= mb_count + mb /\ mb \in 0..mb_count /\ mb_count \in Nat
        /\ phase = "headers" => written = 0 /\ mb = 0
        /\ phase = "planes" => mb = 0
    BY DEF WrittenOnce
  <2>2. CASE AllocatePlanes
    BY <2>1, <2>2 DEF AllocatePlanes, WrittenOnce
  <2>3. CASE HeaderRejected \/ ResidualRejected
    BY <2>1, <2>3 DEF HeaderRejected, ResidualRejected, Fill, WrittenOnce
  <2>4. CASE Reconstruct
    BY <2>1, <2>4 DEF Reconstruct, WrittenOnce
  <2>5. CASE HeadersFail \/ HeadersParsed \/ Return
    BY <2>1, <2>5 DEF HeadersFail, HeadersParsed, Return, WrittenOnce
  <2>6. CASE HeaderParsed \/ HeaderFails \/ ResidualsDecoded
    BY <2>1, <2>6 DEF HeaderParsed, HeaderFails, ResidualsDecoded, WrittenOnce
  <2>7. CASE UNCHANGED vars
    BY <2>1, <2>7 DEF vars, WrittenOnce
  <2> QED BY <2>2, <2>3, <2>4, <2>5, <2>6, <2>7 DEF Next
<1> USE <1>0
<1>1. CASE HeadersFail
  BY <1>1 DEF HeadersFail
<1>2. CASE HeadersParsed
  BY <1>2, QpAssumption DEF HeadersParsed
<1>11. CASE AllocatePlanes
  BY <1>11 DEF AllocatePlanes
<1>3. CASE HeaderParsed
  <2>1. left' \in 0..left /\ left - left' >= 5
    BY <1>3 DEF HeaderParsed, HeaderBits
  <2>2. PICK delta \in QpDeltas : qp_y' = WrapQp(qp_y + delta)
    BY <1>3 DEF HeaderParsed
  <2>3. qp_y' \in 0..51
    <3>1. qp_y + delta \in Int
      BY QpAssumption
    <3> QED
      BY <2>2, <3>1, WrapQpRange
  <2>4. mb < mb_count /\ mb' = mb /\ phase = "mb" /\ phase' = "residual"
    BY <1>3 DEF HeaderParsed
  <2>5. mb_count' = mb_count /\ bits' = bits
    BY <1>3 DEF HeaderParsed
  <2>6. UnderWay = 0 /\ UnderWay' = 1
    BY <2>4
  <2>7. LoopOK'
    BY <2>1, <2>3, <2>4, <2>5
  <2>8. Paid'
    <3>1. 5 * mb <= bits - left
      BY <2>6
    <3>2. mb \in Int /\ bits \in Int /\ left \in Int
      OBVIOUS
    <3>3. 5 * (mb + 1) <= bits - left'
      BY ONLY <2>1, <3>1, <3>2, Pays, Zenon
    <3> QED
      BY <2>4, <2>5, <2>6, <3>3
  <2>9. QpLegal'
    BY <2>3
  <2> QED
    BY <2>7, <2>8, <2>9
<1>4. CASE HeaderRejected
  <2>1. left' \in 0..left /\ left - left' >= 8
    BY <1>4 DEF HeaderRejected
  <2>2. 5 * (mb + 1) <= bits - left'
    BY <1>4, <2>1 DEF HeaderRejected
  <2>3. mb < mb_count /\ mb' = mb + 1 /\ phase' = "mb"
    BY <1>4 DEF HeaderRejected, Fill
  <2>4. mb_count' = mb_count /\ bits' = bits /\ qp_y' = qp_y
    BY <1>4 DEF HeaderRejected
  <2>5. UnderWay' = 0
    BY <2>3
  <2>6. LoopOK'
    BY <2>1, <2>3, <2>4
  <2>7. Paid'
    <3>1. 5 * (mb' + UnderWay') <= bits' - left'
      <4>1. mb' + UnderWay' = mb + 1
        BY <2>3, <2>5
      <4> QED
        BY ONLY <2>2, <2>4, <4>1
    <3> QED
      BY <3>1
  <2>8. QpLegal'
    BY <2>3
  <2> QED
    BY <2>6, <2>7, <2>8
<1>5. CASE HeaderFails
  <2>1. left' \in 0..left /\ phase = "mb" /\ phase' = "err"
    BY <1>5 DEF HeaderFails
  <2>2. mb_count' = mb_count /\ bits' = bits /\ mb' = mb /\ qp_y' = qp_y
    BY <1>5 DEF HeaderFails
  <2>3. UnderWay' = UnderWay /\ UnderWay \in Int
    BY <2>1
  <2>4. 5 * (mb + UnderWay) <= bits - left
    OBVIOUS
  <2>5. LoopOK'
    BY <2>1, <2>2
  <2>6. Paid'
    <3>1. mb \in Int /\ bits \in Int /\ left \in Int
      OBVIOUS
    <3>2. 5 * (mb + UnderWay) <= bits - left'
      BY ONLY <2>1, <2>3, <2>4, <3>1, ReadOn, Zenon
    <3> QED
      BY <2>2, <2>3, <3>2
  <2> QED
    BY <2>1, <2>5, <2>6
<1>6. CASE ResidualsDecoded
  <2>1. left' \in 0..left /\ phase = "residual" /\ phase' = "reconstruct"
    BY <1>6 DEF ResidualsDecoded
  <2>2. mb_count' = mb_count /\ bits' = bits /\ mb' = mb /\ qp_y' = qp_y
    BY <1>6 DEF ResidualsDecoded
  <2>3. UnderWay' = UnderWay /\ UnderWay \in Int
    BY <2>1
  <2>4. LoopOK'
    BY <2>1, <2>2
  <2>7. 5 * (mb + UnderWay) <= bits - left
    OBVIOUS
  <2>5. Paid'
    <3>1. mb \in Int /\ bits \in Int /\ left \in Int
      OBVIOUS
    <3>2. 5 * (mb + UnderWay) <= bits - left'
      BY ONLY <2>1, <2>3, <2>7, <3>1, ReadOn, Zenon
    <3> QED
      BY <2>2, <2>3, <3>2
  <2>6. QpLegal'
    BY <2>1, <2>2
  <2> QED
    BY <2>4, <2>5, <2>6
<1>7. CASE ResidualRejected
  <2>1. left' \in 0..left /\ phase = "residual"
    BY <1>7 DEF ResidualRejected
  <2>2. mb' = mb + 1 /\ phase' = "mb"
    BY <1>7 DEF ResidualRejected, Fill
  <2>3. mb_count' = mb_count /\ bits' = bits /\ qp_y' = qp_y
    BY <1>7 DEF ResidualRejected
  <2>4. UnderWay = 1 /\ UnderWay' = 0
    BY <2>1, <2>2
  <2>5. LoopOK'
    BY <2>1, <2>2, <2>3
  <2>6. Paid'
    <3>1. 5 * (mb + 1) <= bits - left
      BY <2>4
    <3>2. mb \in Int /\ 1 \in Int /\ bits \in Int /\ left \in Int
      OBVIOUS
    <3>3. 5 * (mb + 1) <= bits - left'
      BY ONLY <2>1, <3>1, <3>2, ReadOn, Zenon
    <3> QED
      BY <2>2, <2>3, <2>4, <3>3
  <2>7. QpLegal'
    BY <2>2
  <2> QED
    BY <2>5, <2>6, <2>7
<1>8. CASE Reconstruct
  BY <1>8 DEF Reconstruct
<1>9. CASE Return
  BY <1>9 DEF Return
<1>10. CASE UNCHANGED vars
  BY <1>10 DEF vars
<1> QED
  BY <1>1, <1>2, <1>3, <1>4, <1>5, <1>6, <1>7, <1>8, <1>9, <1>10, <1>11 DEF Next

LEMMA LoopInductive == Spec => []LoopInv
BY LoopInvInit, LoopInvNext, PTL DEF Spec

(* Beyond one fill of the declared picture the work of decode_iframe is bounded
   by its slice, five bits to a macroblock, whatever fails on the way.     *)
THEOREM DecodeWorkBounded == Spec => []WorkBounded
<1>1. LoopInv => WorkBounded
  BY DEF LoopInv, LoopOK, Paid, WrittenOnce, UnderWay, WorkBounded
<1> QED
  BY <1>1, LoopInductive, PTL

(* The QP a macroblock is dequantised with is one of the 52, for every
   slice QP and every mb_qp_delta.                                         *)
THEOREM DequantQpLegal == Spec => []QpLegal
<1>1. LoopInv => QpLegal
  BY DEF LoopInv
<1> QED
  BY <1>1, LoopInductive, PTL

-----------------------------------------------------------------------------
(* Bits of an Exp-Golomb code: one at least, three from 1 on, five from 3 on,
   nine from 15 on.                                                        *)
Powers == {2, 4, 8, 16, 32, 64, 128, 256}

LEMMA PowersFinite == ASSUME NEW S, S \subseteq Powers PROVE IsFiniteSet(S)
<1>1. IsFiniteSet(2..256)
  <2>1. 2 \in Int /\ 256 \in Int
    OBVIOUS
  <2> QED
    BY ONLY <2>1, FS_Interval
<1>2. S \in SUBSET (2..256)
  BY DEF Powers
<1> QED
  BY <1>1, <1>2, FS_Subset

LEMMA SmallCards ==
  /\ Cardinality({2}) = 1 /\ Cardinality({2, 4}) = 2 /\ Cardinality({2, 4, 8, 16}) = 4
<1>1. IsFiniteSet({2}) /\ Cardinality({2}) = 1
  BY FS_Singleton
<1>2. IsFiniteSet({2, 4}) /\ Cardinality({2, 4}) = 2
  <2>1. {2, 4} = {2} \cup {4} /\ 4 \notin {2}
    OBVIOUS
  <2> QED
    BY <1>1, <2>1, FS_AddElement
<1>3. IsFiniteSet({2, 4, 8}) /\ Cardinality({2, 4, 8}) = 3
  <2>1. {2, 4, 8} = {2, 4} \cup {8} /\ 8 \notin {2, 4}
    OBVIOUS
  <2> QED
    BY <1>2, <2>1, FS_AddElement
<1>4. Cardinality({2, 4, 8, 16}) = 4
  <2>1. {2, 4, 8, 16} = {2, 4, 8} \cup {16} /\ 16 \notin {2, 4, 8}
    OBVIOUS
  <2> QED
    BY <1>3, <2>1, FS_AddElement
<1> QED
  BY <1>1, <1>2, <1>4

LEMMA CodeLength ==
  ASSUME NEW k \in Nat
  PROVE  /\ UeBits(k) \in Nat /\ UeBits(k) >= 1
         /\ k >= 1 => UeBits(k) >= 3
         /\ k >= 3 => UeBits(k) >= 5
         /\ k >= 15 => UeBits(k) >= 9
<1> DEFINE S == {p \in Powers : p <= k + 1}
<1>1. IsFiniteSet(S) /\ LeadingZeros(k) = Cardinality(S)
  BY PowersFinite DEF LeadingZeros, Powers
<1>2. LeadingZeros(k) \in Nat
  BY <1>1, FS_CardinalityType
<1>3. \A T : T \subseteq S => Cardinality(T) <= LeadingZeros(k)
  BY <1>1, FS_Subset
<1>4. k >= 1 => LeadingZeros(k) >= 1
  <2>1. k >= 1 => {2} \subseteq S
    BY DEF Powers
  <2> QED
    BY <1>3, <2>1, SmallCards
<1>5. k >= 3 => LeadingZeros(k) >= 2
  <2>1. k >= 3 => {2, 4} \subseteq S
    BY DEF Powers
  <2> QED
    BY <1>3, <2>1, SmallCards
<1>6. k >= 15 => LeadingZeros(k) >= 4
  <2>1. k >= 15 => {2, 4, 8, 16} \subseteq S
    BY DEF Powers
  <2> QED
    BY <1>3, <2>1, SmallCards
<1> QED
  BY <1>2, <1>4, <1>5, <1>6 DEF UeBits

LEMMA SignedCodeLength ==
  ASSUME NEW v \in Int PROVE SeBits(v) \in Nat /\ SeBits(v) >= 1
<1>1. (IF v > 0 THEN 2 * v - 1 ELSE -2 * v) \in Nat
  OBVIOUS
<1> QED
  BY <1>1, CodeLength DEF SeBits

(* What each kind of mb_type costs.                                        *)
LEMMA TypeCost ==
  ASSUME NEW idx \in 0..25
  PROVE  /\ M!MbType(idx).kind \in {"INxN", "I16x16", "IPcm"}
         /\ M!MbType(idx).kind = "IPcm" => UeBits(idx) >= 9
         /\ M!MbType(idx).kind = "I16x16" => UeBits(idx) >= 3
<1>1. CASE idx = 0
  BY <1>1 DEF M!MbType
<1>2. CASE idx = 25
  BY <1>2, CodeLength DEF M!MbType
<1>3. CASE idx # 0 /\ idx # 25
  <2>1. UeBits(idx) >= 3
    BY <1>3, CodeLength
  <2> QED
    BY <1>3, <2>1 DEF M!MbType
<1> QED
  BY <1>1, <1>2, <1>3

-----------------------------------------------------------------------------
(* Bits that a header has cost by the time its next field is read, or it is
   refused.                                                                *)
HeaderCost ==
  CASE status = "modes" -> 1 + records
    [] status = "chroma" -> IF mb_type.kind = "INxN" THEN 17 ELSE 3
    [] status = "cbp" -> 18
    [] status = "qp" -> IF mb_type.kind = "INxN" THEN 19 ELSE 4
    [] status \in {"out_of_scope", "cavlc_invalid"} -> 8
    [] OTHER -> 0

HeaderStatus ==
  {"mb_type", "modes", "chroma", "cbp", "qp", "out_of_scope", "cavlc_invalid",
   "truncated", "exp_golomb_too_long"}

(* Between two macroblocks nothing is read that left does not know of; within
   a header as much is read as its fields need.                            *)
BetweenCalls == status = "mb_type" /\ rest = left
InHeader ==
  /\ status \in HeaderStatus
  /\ records \in Nat
  /\ status = "modes" => mb_type.kind = "INxN" /\ records < 16
  /\ status \in {"chroma", "qp"} => mb_type.kind \in {"INxN", "I16x16"}
  /\ status = "cbp" => mb_type.kind = "INxN"
  /\ status = "mb_type" => records = 0 /\ rest = left
  /\ status # "mb_type" => mb < mb_count
  /\ left - rest >= HeaderCost

ReaderInv ==
  /\ mb_count \in Nat /\ bits \in Nat /\ left \in Nat /\ mb \in Nat
  /\ qp_y \in Int
  /\ rest \in 0..left
  /\ phase \in {"headers", "planes"} => BetweenCalls /\ records = 0
  /\ phase = "mb" => InHeader
  /\ phase = "reconstruct" => rest = left

LEMMA ReaderInvInit == FMInit => ReaderInv
BY CountsAssumption DEF FMInit, Init, M!Init, ReaderInv, BetweenCalls, InHeader

(* NextMacroblock starts a header that has cost nothing.                   *)
LEMMA FreshHeader ==
  ASSUME NextMacroblock, rest' \in Nat, left' = rest'
  PROVE  InHeader'
BY DEF NextMacroblock, InHeader, HeaderStatus, HeaderCost

(* A field that is read takes its bits from the reader.                    *)
LEMMA TakeNat ==
  ASSUME NEW n \in Nat, rest \in 0..left, left \in Nat, Take(n)
  PROVE  rest' \in 0..left /\ left - rest' = (left - rest) + n
BY DEF Take

LEMMA ReadHeaderKeeps == ReaderInv /\ ReadHeader => ReaderInv'
<1> SUFFICES ASSUME ReaderInv, ReadHeader PROVE ReaderInv'
  OBVIOUS
<1>1. UNCHANGED vars /\ phase = "mb" /\ mb < mb_count
  BY DEF ReadHeader
<1>2. InHeader /\ left \in Nat /\ rest \in 0..left
  BY <1>1 DEF ReaderInv
<1>3. SUFFICES rest' \in 0..left /\ InHeader'
  BY <1>1 DEF ReaderInv, vars
<1>4. left' = left /\ mb' = mb /\ mb_count' = mb_count
  BY <1>1 DEF vars
<1>5. ASSUME NEW idx \in MbTypeCodes, Take(UeBits(idx)), M!ReadMbType(idx)
      PROVE  rest' \in 0..left /\ InHeader'
  <2>1. idx \in Nat /\ UeBits(idx) \in Nat /\ UeBits(idx) >= 1
    BY CodesAssumption, CodeLength
  <2>2. rest' \in 0..left /\ left - rest' >= UeBits(idx)
    BY <1>2, <1>5, <2>1, TakeNat
  <2>3. records = 0 /\ records' = 0
    BY <1>2, <1>5 DEF InHeader, M!ReadMbType
  <2>4. CASE idx > 25
    <3>1. UeBits(idx) >= 9 /\ status' = "out_of_scope"
      BY <1>5, <2>1, <2>4, CodeLength DEF M!ReadMbType
    <3> QED
      BY <1>1, <1>2, <1>4, <2>1, <2>2, <2>3, <3>1 DEF InHeader, HeaderStatus, HeaderCost
  <2>5. CASE idx \in 0..25
    <3>1. mb_type' = M!MbType(idx)
      BY <1>5, <2>5 DEF M!ReadMbType
    <3>2. CASE mb_type'.kind = "IPcm"
      <4>1. UeBits(idx) >= 9 /\ status' = "out_of_scope"
        BY <1>5, <2>5, <3>1, <3>2, TypeCost DEF M!ReadMbType
      <4> QED
        BY <1>1, <1>2, <1>4, <2>1, <2>2, <2>3, <4>1 DEF InHeader, HeaderStatus, HeaderCost
    <3>3. CASE mb_type'.kind = "INxN"
      <4>1. status' = "modes"
        BY <1>5, <2>5, <3>3 DEF M!ReadMbType
      <4> QED
        BY <1>1, <1>2, <1>4, <2>1, <2>2, <2>3, <3>3, <4>1 DEF InHeader, HeaderStatus, HeaderCost
    <3>4. CASE mb_type'.kind = "I16x16"
      <4>1. UeBits(idx) >= 3 /\ status' = "chroma"
        BY <1>5, <2>5, <3>1, <3>4, TypeCost DEF M!ReadMbType
      <4> QED
        BY <1>1, <1>2, <1>4, <2>1, <2>2, <2>3, <3>4, <4>1 DEF InHeader, HeaderStatus, HeaderCost
    <3> QED
      BY <2>5, <3>1, <3>2, <3>3, <3>4, TypeCost
  <2> QED
    BY <2>1, <2>4, <2>5
<1>6. ASSUME NEW n \in ModeBits, Take(n), M!ReadMode
      PROVE  rest' \in 0..left /\ InHeader'
  <2>1. n \in Nat /\ n >= 1
    BY DEF ModeBits
  <2>2. rest' \in 0..left /\ left - rest' >= (left - rest) + 1
    BY <1>2, <1>6, <2>1, TakeNat
  <2>3. /\ status = "modes" /\ mb_type' = mb_type /\ records' = records + 1
        /\ status' = IF records' = 16 THEN "chroma" ELSE "modes"
    BY <1>6 DEF M!ReadMode
  <2>4. records \in Nat /\ records < 16 /\ mb_type.kind = "INxN"
    BY <1>2, <2>3 DEF InHeader
  <2>5. left - rest >= 1 + records
    BY <1>2, <2>3 DEF InHeader, HeaderCost
  <2> QED
    BY <1>1, <1>2, <1>4, <2>2, <2>3, <2>4, <2>5 DEF InHeader, HeaderStatus, HeaderCost
<1>7. ASSUME NEW code \in ChromaCodes, Take(UeBits(code)), M!ReadChromaMode(code)
      PROVE  rest' \in 0..left /\ InHeader'
  <2>1. code \in Nat /\ UeBits(code) \in Nat /\ UeBits(code) >= 1
    BY CodesAssumption, CodeLength
  <2>2. rest' \in 0..left /\ left - rest' = (left - rest) + UeBits(code)
    BY <1>2, <1>7, <2>1, TakeNat
  <2>3. /\ status = "chroma" /\ mb_type' = mb_type /\ records' = records
        /\ chroma_mode' = code % 2^8
        /\ status' = IF chroma_mode' > 3 THEN "out_of_scope"
                     ELSE IF mb_type.kind = "INxN" THEN "cbp" ELSE "qp"
    BY <1>7 DEF M!ReadChromaMode
  <2>4. mb_type.kind \in {"INxN", "I16x16"} /\ records \in Nat
    BY <1>2, <2>3 DEF InHeader
  <2>5. left - rest >= IF mb_type.kind = "INxN" THEN 17 ELSE 3
    BY <1>2, <2>3 DEF InHeader, HeaderCost
  <2>6. CASE chroma_mode' > 3
    <3>1. code >= 4
      BY <2>1, <2>3, <2>6
    <3>2. UeBits(code) >= 5
      BY <2>1, <3>1, CodeLength
    <3> QED
      BY <1>1, <1>2, <1>4, <2>1, <2>2, <2>3, <2>4, <2>5, <2>6, <3>2
      DEF InHeader, HeaderStatus, HeaderCost
  <2>7. CASE ~(chroma_mode' > 3)
    BY <1>1, <1>2, <1>4, <2>1, <2>2, <2>3, <2>4, <2>5, <2>7
    DEF InHeader, HeaderStatus, HeaderCost
  <2> QED
    BY <2>6, <2>7
<1>8. ASSUME NEW code \in CbpCodes, Take(UeBits(code)), M!ReadCbp(code)
      PROVE  rest' \in 0..left /\ InHeader'
  <2>1. UeBits(code) \in Nat /\ UeBits(code) >= 1
    BY CodesAssumption, CodeLength
  <2>2. rest' \in 0..left /\ left - rest' >= (left - rest) + 1
    BY <1>2, <1>8, <2>1, TakeNat
  <2>3. /\ status = "cbp" /\ mb_type' = mb_type /\ records' = records
        /\ status' \in {"cavlc_invalid", "qp"}
    BY <1>8 DEF M!ReadCbp
  <2>4. left - rest >= 18 /\ mb_type.kind = "INxN" /\ records \in Nat
    BY <1>2, <2>3 DEF InHeader, HeaderCost
  <2> QED
    BY <1>1, <1>2, <1>4, <2>2, <2>3, <2>4 DEF InHeader, HeaderStatus, HeaderCost
<1> QED
  BY <1>5, <1>6, <1>7, <1>8 DEF ReadHeader

(* No failing read moves the reader ahead.                                 *)
LEMMA ReadHeaderFailsKeeps == ReaderInv /\ ReadHeaderFails => ReaderInv'
<1> SUFFICES ASSUME ReaderInv, ReadHeaderFails PROVE ReaderInv'
  OBVIOUS
<1>1. UNCHANGED <<vars, rest>> /\ phase = "mb" /\ mb < mb_count
  BY DEF ReadHeaderFails
<1>2. InHeader
  BY <1>1 DEF ReaderInv
<1>3. status' \in {"truncated", "exp_golomb_too_long"} /\ UNCHANGED <<records, mb_type>>
  BY DEF ReadHeaderFails, M!ReadFails, M!header
<1>4. InHeader'
  BY <1>1, <1>2, <1>3 DEF ReaderInv, InHeader, HeaderStatus, HeaderCost, vars
<1> QED
  BY <1>1, <1>4 DEF ReaderInv, vars

(* What has been read is the difference of what was left and what is.      *)
LEMMA Spent ==
  ASSUME NEW l \in Int, NEW l1 \in 0..l
  PROVE  l - l1 \in 0..l /\ l1 = l - (l - l1)
OBVIOUS

LEMMA AtLeast ==
  ASSUME NEW l \in Int, NEW l1 \in Int, NEW r \in Int, NEW c \in Int,
         l - l1 >= (l - r) + 1, (l - r) + 1 >= c
  PROVE  l - l1 >= c
OBVIOUS

(* A header that is returned has cost HeaderBits of its type.              *)
LEMMA HeaderReturnedIsParsed ==
  ReaderInv /\ HeaderReturned => HeaderParsed /\ ReaderInv'
<1> SUFFICES ASSUME ReaderInv, HeaderReturned PROVE HeaderParsed /\ ReaderInv'
  OBVIOUS
<1>1. phase = "mb" /\ mb < mb_count /\ phase' = "residual" /\ UNCHANGED <<slice, mb, own, planes>>
  BY DEF HeaderReturned
<1>2. InHeader /\ left \in Nat /\ rest \in 0..left
  BY <1>1 DEF ReaderInv
<1>3. PICK delta \in QpDeltas :
        Take(SeBits(delta)) /\ M!ReadQpDelta /\ qp_y' = WrapQp(qp_y + delta)
  BY DEF HeaderReturned
<1>4. delta \in Int /\ SeBits(delta) \in Nat /\ SeBits(delta) >= 1
  BY QpAssumption, SignedCodeLength
<1>5. rest' \in 0..left /\ left - rest' >= (left - rest) + 1
  BY <1>2, <1>3, <1>4, TakeNat
<1>6. left' = rest' /\ kind' = mb_type.kind
  BY DEF HeaderReturned
<1>7. /\ mb_type.kind \in {"INxN", "I16x16"}
      /\ left - rest >= IF mb_type.kind = "INxN" THEN 19 ELSE 4
  BY <1>2, <1>3 DEF M!ReadQpDelta, InHeader, HeaderCost
<1>8. left - left' \in 0..left /\ left - left' >= HeaderBits(mb_type.kind)
  <2>1. left' \in 0..left /\ left - left' >= (left - rest) + 1
    BY ONLY <1>5, <1>6
  <2>2. left \in Int /\ rest \in Int
    BY ONLY <1>2
  <2>3. (left - rest) + 1 >= HeaderBits(mb_type.kind)
    BY ONLY <1>7, <2>2 DEF HeaderBits
  <2>4. HeaderBits(mb_type.kind) \in Int /\ left' \in Int
    BY ONLY <1>7, <2>1 DEF HeaderBits
  <2>5. left - left' >= HeaderBits(mb_type.kind)
    BY ONLY <2>1, <2>2, <2>3, <2>4, AtLeast, Zenon
  <2> QED
    BY ONLY <2>1, <2>2, <2>5, Spent, Zenon
<1>9. left' = left - (left - left')
  <2>1. left \in Int /\ left' \in 0..left
    BY ONLY <1>2, <1>5, <1>6
  <2> QED
    BY ONLY <2>1, Spent, Zenon
<1>10. HeaderParsed
  BY <1>1, <1>3, <1>6, <1>7, <1>8, <1>9 DEF HeaderParsed
<1>11. qp_y' \in Int
  BY <1>3, <1>4, WrapQpRange DEF ReaderInv
<1>12. ReaderInv'
  BY <1>1, <1>5, <1>6, <1>11 DEF ReaderInv, slice
<1> QED
  BY <1>10, <1>12

(* A header that is passed over has cost eight bits.                       *)
LEMMA HeaderPassedOverIsRejected ==
  ReaderInv /\ HeaderPassedOver => HeaderRejected /\ ReaderInv'
<1> SUFFICES ASSUME ReaderInv, HeaderPassedOver PROVE HeaderRejected /\ ReaderInv'
  OBVIOUS
<1>1. /\ phase = "mb" /\ status \in {"out_of_scope", "cavlc_invalid"}
      /\ left' = rest /\ rest' = rest /\ Fill("blank") /\ NextMacroblock
      /\ UNCHANGED <<slice, qp_y, kind>>
  BY DEF HeaderPassedOver
<1>2. InHeader /\ left \in Nat /\ rest \in 0..left
  BY <1>1 DEF ReaderInv
<1>3. mb < mb_count /\ left - rest >= 8
  BY <1>1, <1>2 DEF InHeader, HeaderCost
<1>4. left - rest \in 8..left /\ left' = left - (left - rest)
  BY <1>1, <1>2, <1>3
<1>5. HeaderRejected
  BY <1>1, <1>3, <1>4 DEF HeaderRejected
<1>6. InHeader' /\ phase' = "mb" /\ mb' = mb + 1
  BY <1>1, <1>2, FreshHeader DEF Fill
<1> QED
  BY <1>1, <1>2, <1>5, <1>6 DEF ReaderInv, slice

LEMMA HeaderErrorIsFailure ==
  ReaderInv /\ HeaderReturnsError => HeaderFails /\ ReaderInv'
<1> SUFFICES ASSUME ReaderInv, HeaderReturnsError PROVE HeaderFails /\ ReaderInv'
  OBVIOUS
<1>1. /\ phase = "mb" /\ status \in {"truncated", "exp_golomb_too_long"}
      /\ left' = rest /\ rest' = rest /\ phase' = "err"
      /\ UNCHANGED <<slice, mb, own, qp_y, kind, planes>>
  BY DEF HeaderReturnsError
<1>2. mb < mb_count /\ left' \in 0..left /\ left \in Nat
  BY <1>1 DEF ReaderInv, InHeader
<1>3. HeaderFails
  BY <1>1, <1>2 DEF HeaderFails
<1> QED
  BY <1>1, <1>2, <1>3 DEF ReaderInv, slice

(* Whatever a residual block has for its bits, the reader goes forward.    *)
LEMMA ResidualKeeps ==
  ReaderInv /\ (ReadResidual \/ ReadResidualFails) => ReaderInv'
<1> SUFFICES ASSUME ReaderInv, ReadResidual \/ ReadResidualFails PROVE ReaderInv'
  OBVIOUS
<1>1. UNCHANGED vars /\ phase = "residual"
  BY DEF ReadResidual, ReadResidualFails
<1>2. rest' \in 0..left
  <2>1. left \in Nat /\ rest \in 0..left
    BY DEF ReaderInv
  <2>2. \A n : Take(n) => rest' \in 0..left
    BY <2>1 DEF Take
  <2>3. CASE ReadResidual
    <3>1. CASE \E n \in LumaBits(M!Blk) : Take(n)
      BY <2>2, <3>1
    <3>2. CASE UNCHANGED rest
      BY <2>1, <3>2
    <3>3. CASE \E n \in ChromaBits : Take(n)
      BY <2>2, <3>3
    <3> QED
      BY <2>3, <3>1, <3>2, <3>3 DEF ReadResidual
  <2>4. CASE ReadResidualFails
    <3>1. CASE rest' \in 0..rest
      BY <2>1, <3>1
    <3>2. CASE \E n \in InvalidBits : Take(n)
      BY <2>2, <3>2
    <3> QED
      BY <2>4, <3>1, <3>2 DEF ReadResidualFails
  <2> QED
    BY <2>3, <2>4
<1> QED
  BY <1>1, <1>2 DEF ReaderInv, vars

LEMMA ResidualsReturnedIsDecoded ==
  ReaderInv /\ ResidualsReturned => ResidualsDecoded /\ ReaderInv'
<1> SUFFICES ASSUME ReaderInv, ResidualsReturned PROVE ResidualsDecoded /\ ReaderInv'
  OBVIOUS
<1>1. /\ phase = "residual" /\ phase' = "reconstruct" /\ left' = rest /\ rest' = rest
      /\ UNCHANGED <<slice, mb, own, qp_y, kind, planes>>
  BY DEF ResidualsReturned
<1> QED
  BY <1>1 DEF ReaderInv, ResidualsDecoded, slice

LEMMA ResidualPassedOverIsRejected ==
  ReaderInv /\ ResidualPassedOver => ResidualRejected /\ ReaderInv'
<1> SUFFICES ASSUME ReaderInv, ResidualPassedOver PROVE ResidualRejected /\ ReaderInv'
  OBVIOUS
<1>1. /\ phase = "residual" /\ left' = rest /\ rest' = rest
      /\ Fill(kind) /\ NextMacroblock /\ UNCHANGED <<slice, qp_y, kind>>
  BY DEF ResidualPassedOver
<1>2. left \in Nat /\ rest \in 0..left /\ mb \in Nat
  BY DEF ReaderInv
<1>3. ResidualRejected
  BY <1>1, <1>2 DEF ResidualRejected
<1>4. InHeader' /\ phase' = "mb" /\ mb' = mb + 1
  BY <1>1, <1>2, FreshHeader DEF Fill
<1> QED
  BY <1>1, <1>2, <1>3, <1>4 DEF ReaderInv, slice

LEMMA MacroblockShownKeeps == ReaderInv /\ MacroblockShown => ReaderInv'
<1> SUFFICES ASSUME ReaderInv, MacroblockShown PROVE ReaderInv'
  OBVIOUS
<1>1. /\ phase = "reconstruct" /\ phase' = "mb" /\ mb' = mb + 1 /\ NextMacroblock
      /\ rest' = rest /\ UNCHANGED <<slice, left, qp_y>>
  BY DEF MacroblockShown, Reconstruct
<1>2. rest = left /\ left \in Nat /\ mb \in Nat
  BY <1>1 DEF ReaderInv
<1>3. InHeader'
  BY <1>1, <1>2, FreshHeader
<1> QED
  BY <1>1, <1>2, <1>3 DEF ReaderInv, slice

-----------------------------------------------------------------------------
(* Every step of the composition is a step of the loop, or none.           *)
LEMMA StepsMap == ReaderInv /\ [FMNext]_all => [Next]_vars /\ ReaderInv'
<1> SUFFICES ASSUME ReaderInv, [FMNext]_all PROVE [Next]_vars /\ ReaderInv'
  OBVIOUS
<1>1. CASE CallerFails
  BY <1>1 DEF CallerFails, HeadersFail, Next, ReaderInv, slice, planes
<1>2. CASE CallerStarts
  <2>1. HeadersParsed /\ UNCHANGED <<rest, macroblock>>
    BY <1>2 DEF CallerStarts
  <2>2. InHeader'
    BY <2>1 DEF HeadersParsed, ReaderInv, BetweenCalls, InHeader, HeaderStatus, HeaderCost, macroblock
  <2> QED
    BY <2>1, <2>2, QpAssumption DEF HeadersParsed, ReaderInv, Next, slice
<1>3. CASE ReadHeader
  BY <1>3, ReadHeaderKeeps DEF ReadHeader
<1>4. CASE ReadHeaderFails
  BY <1>4, ReadHeaderFailsKeeps DEF ReadHeaderFails
<1>5. CASE HeaderReturned
  BY <1>5, HeaderReturnedIsParsed DEF Next
<1>6. CASE HeaderPassedOver
  BY <1>6, HeaderPassedOverIsRejected DEF Next
<1>7. CASE HeaderReturnsError
  BY <1>7, HeaderErrorIsFailure DEF Next
<1>8. CASE ReadResidual
  BY <1>8, ResidualKeeps DEF ReadResidual
<1>9. CASE ReadResidualFails
  BY <1>9, ResidualKeeps DEF ReadResidualFails
<1>10. CASE ResidualsReturned
  BY <1>10, ResidualsReturnedIsDecoded DEF Next
<1>11. CASE ResidualPassedOver
  BY <1>11, ResidualPassedOverIsRejected DEF Next
<1>12. CASE MacroblockShown
  BY <1>12, MacroblockShownKeeps DEF MacroblockShown, Next
<1>13. CASE FrameReturned
  BY <1>13 DEF FrameReturned, Return, Next, ReaderInv, slice
<1>14. CASE CallerAllocates
  BY <1>14 DEF CallerAllocates, AllocatePlanes, Next, ReaderInv, BetweenCalls, slice, macroblock
<1>15. CASE UNCHANGED all
  <2>1. UNCHANGED vars /\ UNCHANGED <<rest, macroblock>>
    BY <1>15 DEF all
  <2> QED
    BY <2>1 DEF ReaderInv, BetweenCalls, InHeader, HeaderCost, vars, macroblock
<1> QED
  BY <1>1, <1>2, <1>3, <1>4, <1>5, <1>6, <1>7, <1>8, <1>9, <1>10, <1>11, <1>12, <1>13, <1>14,
     <1>15
  DEF FMNext

(* The loop with its parser, read by read, takes the steps of the loop:
   whatever the codes, their lengths and the residuals, a header that is
   passed on has cost what HeaderBits says, one passed over eight bits.    *)
THEOREM FrameImplementsLoop == FMSpec => Init /\ [][Next]_vars
<1>1. FMInit => Init
  BY DEF FMInit
<1> QED
  BY <1>1, ReaderInvInit, StepsMap, PTL DEF FMSpec

(* What bounds the loop bounds the composition: five bits of input to a
   macroblock, and a QP in 0..51 whenever one is used.                     *)
THEOREM FrameWorkBounded == FMSpec => [](WorkBounded /\ QpLegal)
<1>1. LoopInv => WorkBounded /\ QpLegal
  BY DEF LoopInv, LoopOK, Paid, WrittenOnce, UnderWay, WorkBounded
<1> QED
  BY <1>1, FrameImplementsLoop, LoopInvInit, LoopInvNext, PTL

-----------------------------------------------------------------------------
(* What a macroblock is, at any place in a frame.  Place is where the loops
   over clusters and blocks come to a block.                               *)
Place(b) == (b % 2) + 2 * ((b \div 4) % 2) + 4 * ((b % 4) \div 2) + 8 * (b \div 8)
BlockAt(p) == M!BlockIndices(p \div 4)[(p % 4) + 1]
Quarter(b) == 2 * (b \div 8) + ((b % 4) \div 2)

(* The blocks in the order of the loops.                                   *)
LEMMA BlockTable ==
  /\ BlockAt(0) = 0 /\ BlockAt(1) = 1 /\ BlockAt(2) = 4 /\ BlockAt(3) = 5
  /\ BlockAt(4) = 2 /\ BlockAt(5) = 3 /\ BlockAt(6) = 6 /\ BlockAt(7) = 7
  /\ BlockAt(8) = 8 /\ BlockAt(9) = 9 /\ BlockAt(10) = 12 /\ BlockAt(11) = 13
  /\ BlockAt(12) = 10 /\ BlockAt(13) = 11 /\ BlockAt(14) = 14 /\ BlockAt(15) = 15
<1> DEFINE T == << <<0, 1, 4, 5>>, <<2, 3, 6, 7>>, <<8, 9, 12, 13>>, <<10, 11, 14, 15>> >>
<1>1. \A p \in 0..15 : BlockAt(p) = T[(p \div 4) + 1][(p % 4) + 1]
  BY DEF BlockAt, M!BlockIndices
<1>2. /\ T[1] = <<0, 1, 4, 5>> /\ T[2] = <<2, 3, 6, 7>>
      /\ T[3] = <<8, 9, 12, 13>> /\ T[4] = <<10, 11, 14, 15>>
  OBVIOUS
<1> HIDE DEF T
<1>3. \A q \in 0..3, r \in 0..3 : BlockAt(4 * q + r) = T[q + 1][r + 1]
  BY <1>1
<1>4. \A r \in 0..3 : BlockAt(r) = <<0, 1, 4, 5>>[r + 1]
  BY <1>2, <1>3
<1>5. \A r \in 0..3 : BlockAt(4 + r) = <<2, 3, 6, 7>>[r + 1]
  BY <1>2, <1>3
<1>6. \A r \in 0..3 : BlockAt(8 + r) = <<8, 9, 12, 13>>[r + 1]
  BY <1>2, <1>3
<1>7. \A r \in 0..3 : BlockAt(12 + r) = <<10, 11, 14, 15>>[r + 1]
  BY <1>2, <1>3
<1> QED
  BY <1>4, <1>5, <1>6, <1>7

(* They come to every block once, to those at its left and above it before,
   and to the blocks of a quarter in one cluster.                          *)
LEMMA PlaceOfBlock ==
  ASSUME NEW p \in 0..15
  PROVE  /\ BlockAt(p) \in 0..15 /\ Place(BlockAt(p)) = p
         /\ Quarter(BlockAt(p)) = p \div 4
<1>1. p \in {0, 1, 2, 3, 4, 5, 6, 7, 8, 9, 10, 11, 12, 13, 14, 15}
  OBVIOUS
<1> QED
  BY <1>1, BlockTable DEF Place, Quarter

LEMMA BlockOfPlace ==
  ASSUME NEW b \in 0..15
  PROVE  /\ Place(b) \in 0..15 /\ BlockAt(Place(b)) = b
         /\ b % 4 > 0 => b - 1 \in 0..15 /\ Place(b - 1) < Place(b)
         /\ b \div 4 > 0 => b - 4 \in 0..15 /\ Place(b - 4) < Place(b)
<1>1. b \in {0, 1, 2, 3, 4, 5, 6, 7, 8, 9, 10, 11, 12, 13, 14, 15}
  OBVIOUS
<1> QED
  BY <1>1, BlockTable DEF Place

LEMMA PlaceIsBlock ==
  ASSUME NEW b \in 0..15, NEW p \in 0..15
  PROVE  /\ Place(b) < p + 1 <=> Place(b) < p \/ b = BlockAt(p)
         /\ Place(b) = p <=> b = BlockAt(p)
BY PlaceOfBlock, BlockOfPlace

(* Each step takes one step of the parser, starts the next macroblock, or
   leaves it alone.                                                        *)
LEMMA ParserSteps ==
  ASSUME [FMNext]_all
  PROVE  \/ \E idx \in MbTypeCodes : M!ReadMbType(idx)
         \/ M!ReadMode
         \/ \E code \in ChromaCodes : M!ReadChromaMode(code)
         \/ \E code \in CbpCodes : M!ReadCbp(code)
         \/ M!ReadQpDelta
         \/ M!LumaBlock \/ M!SkippedBlock \/ M!ChromaBlocks
         \/ \E e \in {"truncated", "exp_golomb_too_long", "cavlc_invalid"} : M!ReadFails(e)
         \/ NextMacroblock
         \/ UNCHANGED macroblock
<1>1. CASE \/ CallerFails \/ CallerAllocates \/ CallerStarts
           \/ HeaderReturnsError \/ ResidualsReturned \/ FrameReturned
  BY <1>1 DEF CallerFails, CallerAllocates, CallerStarts, HeaderReturnsError, ResidualsReturned,
              FrameReturned
<1>2. CASE HeaderPassedOver \/ ResidualPassedOver \/ MacroblockShown
  BY <1>2 DEF HeaderPassedOver, ResidualPassedOver, MacroblockShown
<1>3. CASE HeaderReturned
  BY <1>3 DEF HeaderReturned
<1>4. CASE ReadHeader
  BY <1>4 DEF ReadHeader
<1>5. CASE ReadHeaderFails
  BY <1>5 DEF ReadHeaderFails
<1>6. CASE ReadResidual
  BY <1>6 DEF ReadResidual
<1>7. CASE ReadResidualFails
  BY <1>7 DEF ReadResidualFails
<1>8. CASE UNCHANGED all
  BY <1>8 DEF all
<1> QED
  BY <1>1, <1>2, <1>3, <1>4, <1>5, <1>6, <1>7, <1>8 DEF FMNext

(* The blocks before pos, and no others, have a TotalCoeff; those that were
   read were read with the code that the TotalCoeffs call for now.         *)
CodeNames == {"unread", "Vlc0", "Vlc1", "Vlc2", "FixedLen6"}

BlockInv ==
  /\ pos \in 0..16
  /\ totals \in [0..15 -> 0..16]
  /\ luma_tc \in [0..15 -> -1..16]
  /\ variants \in [0..15 -> CodeNames]
  /\ luma_4x4 \subseteq 0..15
  /\ \A b \in 0..15 : luma_tc[b] # -1 <=> Place(b) < pos
  /\ \A b \in luma_4x4 : Place(b) < pos /\ variants[b] = M!PickVariant(b)

LEMMA BlocksFresh ==
  ASSUME pos' = 0, luma_tc' = [b \in M!Blks |-> M!None],
         variants' = [b \in M!Blks |-> "unread"], luma_4x4' = {},
         totals' \in [0..15 -> 0..16]
  PROVE  BlockInv'
<1>1. \A b \in 0..15 : luma_tc'[b] = -1 /\ Place(b) >= 0
  BY BlockOfPlace DEF M!Blks, M!None
<1>2. /\ luma_tc' \in [0..15 -> -1..16] /\ variants' \in [0..15 -> CodeNames]
  BY DEF M!Blks, M!None, CodeNames
<1>3. \A b \in 0..15 : luma_tc'[b] # -1 <=> Place(b) < pos'
  BY <1>1, BlockOfPlace
<1> QED
  BY <1>2, <1>3 DEF BlockInv

LEMMA CodeNamed == ASSUME NEW b PROVE M!PickVariant(b) \in CodeNames
BY DEF M!PickVariant, M!FromNc, CodeNames

(* Two maps of TotalCoeffs that agree before a block give it one code.     *)
LEMMA BlockTaken ==
  ASSUME BlockInv, pos < 16, NEW tc \in 0..16, totals' = totals, pos' = pos + 1,
         luma_tc' = [luma_tc EXCEPT ![M!Blk] = tc]
  PROVE  /\ M!Blk \in 0..15 /\ Place(M!Blk) = pos
         /\ luma_tc' \in [0..15 -> -1..16]
         /\ \A b \in 0..15 : luma_tc'[b] # -1 <=> Place(b) < pos'
         /\ \A b \in 0..15 : Place(b) <= pos => M!PickVariant(b)' = M!PickVariant(b)
<1>1. M!Blk = BlockAt(pos) /\ pos \in 0..15
  BY DEF M!Blk, M!Cluster, BlockAt, BlockInv
<1>2. M!Blk \in 0..15 /\ Place(M!Blk) = pos
  BY <1>1, PlaceOfBlock
<1>3. luma_tc \in [0..15 -> -1..16]
  BY DEF BlockInv
<1>4. luma_tc' \in [0..15 -> -1..16]
  BY <1>2, <1>3
<1>5. \A b \in 0..15 : luma_tc'[b] = IF b = M!Blk THEN tc ELSE luma_tc[b]
  BY <1>2, <1>3
<1>6. \A b \in 0..15 : luma_tc'[b] # -1 <=> Place(b) < pos'
  BY <1>1, <1>5, PlaceIsBlock DEF BlockInv
<1>7. ASSUME NEW b \in 0..15, Place(b) <= pos
      PROVE  M!PickVariant(b)' = M!PickVariant(b)
  <2>1. b % 4 > 0 => luma_tc'[b - 1] = luma_tc[b - 1]
    BY <1>1, <1>2, <1>5, <1>7, BlockOfPlace
  <2>2. b \div 4 > 0 => luma_tc'[b - 4] = luma_tc[b - 4]
    BY <1>1, <1>2, <1>5, <1>7, BlockOfPlace
  <2> QED
    BY <2>1, <2>2 DEF M!PickVariant
<1> QED
  BY <1>2, <1>4, <1>6, <1>7

LEMMA BlockInvNext == BlockInv /\ [FMNext]_all => BlockInv'
<1> SUFFICES ASSUME BlockInv, [FMNext]_all PROVE BlockInv'
  OBVIOUS
<1>1. CASE UNCHANGED <<totals, pos, luma_tc, variants, luma_4x4>>
  BY <1>1 DEF BlockInv, M!PickVariant
<1>2. CASE NextMacroblock
  BY <1>2, BlocksFresh DEF NextMacroblock, BlockInv
<1>3. CASE M!LumaBlock
  <2>1. /\ pos < 16 /\ pos' = pos + 1 /\ totals' = totals
        /\ luma_tc' = [luma_tc EXCEPT ![M!Blk] = totals[M!Blk]]
        /\ variants' = [variants EXCEPT ![M!Blk] = M!PickVariant(M!Blk)]
        /\ luma_4x4' = luma_4x4 \union {M!Blk}
    BY <1>3 DEF M!LumaBlock, M!header
  <2>2. M!Blk \in 0..15
    BY <2>1, PlaceOfBlock DEF M!Blk, M!Cluster, BlockAt, BlockInv
  <2>3. totals[M!Blk] \in 0..16
    BY <2>2 DEF BlockInv
  <2>4. /\ Place(M!Blk) = pos /\ luma_tc' \in [0..15 -> -1..16]
        /\ \A b \in 0..15 : luma_tc'[b] # -1 <=> Place(b) < pos'
        /\ \A b \in 0..15 : Place(b) <= pos => M!PickVariant(b)' = M!PickVariant(b)
    BY <2>1, <2>3, BlockTaken
  <2>5. variants' \in [0..15 -> CodeNames]
    BY <2>1, <2>2, CodeNamed DEF BlockInv
  <2>6. ASSUME NEW b \in luma_4x4'
        PROVE  Place(b) < pos' /\ variants'[b] = M!PickVariant(b)'
    <3>1. CASE b = M!Blk
      BY <2>1, <2>2, <2>4, <3>1 DEF BlockInv
    <3>2. CASE b # M!Blk
      <4>1. b \in luma_4x4 /\ b \in 0..15
        BY <2>1, <2>6, <3>2 DEF BlockInv
      <4>2. Place(b) < pos /\ variants[b] = M!PickVariant(b) /\ pos \in Int /\ Place(b) \in Int
        BY <4>1, BlockOfPlace DEF BlockInv
      <4>3. variants'[b] = variants[b]
        BY <2>1, <3>2, <4>1 DEF BlockInv
      <4> QED
        BY <2>1, <2>4, <4>1, <4>2, <4>3
    <3> QED
      BY <3>1, <3>2
  <2>7. luma_4x4' \subseteq 0..15 /\ pos' \in 0..16 /\ totals' \in [0..15 -> 0..16]
    BY <2>1, <2>2 DEF BlockInv
  <2> QED
    BY <2>4, <2>5, <2>6, <2>7 DEF BlockInv
<1>4. CASE M!SkippedBlock
  <2>1. /\ pos < 16 /\ pos' = pos + 1 /\ totals' = totals
        /\ luma_tc' = [luma_tc EXCEPT ![M!Blk] = 0]
        /\ UNCHANGED <<variants, luma_4x4>>
    BY <1>4 DEF M!SkippedBlock, M!header
  <2>2. /\ luma_tc' \in [0..15 -> -1..16]
        /\ \A b \in 0..15 : luma_tc'[b] # -1 <=> Place(b) < pos'
        /\ \A b \in 0..15 : Place(b) <= pos => M!PickVariant(b)' = M!PickVariant(b)
    BY <2>1, BlockTaken
  <2>3. ASSUME NEW b \in luma_4x4'
        PROVE  Place(b) < pos' /\ variants'[b] = M!PickVariant(b)'
    <3>1. b \in luma_4x4 /\ b \in 0..15 /\ pos \in Int
      BY <2>1, <2>3 DEF BlockInv
    <3>2. Place(b) < pos /\ variants[b] = M!PickVariant(b) /\ Place(b) \in Int
      BY <3>1, BlockOfPlace DEF BlockInv
    <3> QED
      BY <2>1, <2>2, <3>1, <3>2
  <2> QED
    BY <2>1, <2>2, <2>3 DEF BlockInv
<1>5. \/ M!LumaBlock \/ M!SkippedBlock \/ NextMacroblock
      \/ UNCHANGED <<totals, pos, luma_tc, variants, luma_4x4>>
  BY ParserSteps DEF M!ReadMbType, M!ReadMode, M!ReadChromaMode, M!ReadCbp, M!ReadQpDelta,
     M!ChromaBlocks, M!ReadFails, M!header, M!residual, macroblock
<1> QED
  BY <1>1, <1>2, <1>3, <1>4, <1>5

(* Every block that was read has final neighbours, and is read with their
   code.                                                                   *)
LEMMA BlockInvAgrees == BlockInv => VariantsAgree
<1> SUFFICES ASSUME BlockInv, NEW b \in luma_4x4
             PROVE  LET x == b % 4
                        y == b \div 4
                        neighbours == {luma_tc[n] : n \in {m \in 0..15 :
                                         (x > 0 /\ m = b - 1) \/ (y > 0 /\ m = b - 4)}}
                        both == x > 0 /\ y > 0
                        nC == IF both THEN (luma_tc[b - 1] + luma_tc[b - 4] + 1) \div 2
                              ELSE IF neighbours = {} THEN 0
                              ELSE CHOOSE t \in neighbours : TRUE
                    IN  -1 \notin neighbours /\ variants[b] = M!FromNc(nC)
  BY DEF VariantsAgree, M!VariantsAgree, M!Blks, M!None
<1> DEFINE beside == b % 4 > 0
           above == b \div 4 > 0
           neighbours == {luma_tc[n] : n \in {m \in 0..15 :
                            (beside /\ m = b - 1) \/ (above /\ m = b - 4)}}
<1>1. b \in 0..15 /\ Place(b) < pos /\ variants[b] = M!PickVariant(b)
  BY DEF BlockInv
<1>2. beside => b - 1 \in 0..15 /\ luma_tc[b - 1] # -1
  BY <1>1, BlockOfPlace DEF BlockInv
<1>3. above => b - 4 \in 0..15 /\ luma_tc[b - 4] # -1
  BY <1>1, BlockOfPlace DEF BlockInv
<1>4. -1 \notin neighbours
  BY <1>2, <1>3
<1>5. CASE beside /\ above
  BY <1>1, <1>2, <1>3, <1>4, <1>5 DEF M!PickVariant, M!Nc, M!None
<1>6. CASE beside /\ ~above
  <2>1. neighbours = {luma_tc[b - 1]}
    BY <1>2, <1>6
  <2> QED
    BY <1>1, <1>2, <1>4, <1>6, <2>1 DEF M!PickVariant, M!Nc, M!None
<1>7. CASE ~beside /\ above
  <2>1. neighbours = {luma_tc[b - 4]}
    BY <1>3, <1>7
  <2> QED
    BY <1>1, <1>3, <1>4, <1>7, <2>1 DEF M!PickVariant, M!Nc, M!None
<1>8. CASE ~beside /\ ~above
  <2>1. neighbours = {}
    BY <1>8
  <2> QED
    BY <1>1, <1>4, <1>8, <2>1 DEF M!PickVariant, M!Nc, M!None
<1> QED
  BY <1>5, <1>6, <1>7, <1>8

LEMMA BlockInvInit == FMInit => BlockInv
<1> SUFFICES ASSUME FMInit PROVE BlockInv
  OBVIOUS
<1>1. /\ pos = 0 /\ luma_tc = [b \in M!Blks |-> M!None]
      /\ variants = [b \in M!Blks |-> "unread"] /\ luma_4x4 = {}
      /\ totals \in [0..15 -> 0..16]
  BY TotalsAssumption DEF FMInit, M!Init
<1>2. \A b \in 0..15 : luma_tc[b] = -1 /\ ~(Place(b) < pos)
  <2>1. \A b \in 0..15 : luma_tc[b] = -1
    BY ONLY <1>1 DEF M!Blks, M!None
  <2>2. \A b \in 0..15 : Place(b) \in Nat
    <3>1. \A b \in 0..15 : Place(b) \in 0..15
      BY ONLY BlockOfPlace, Zenon
    <3> QED BY ONLY <3>1
  <2> QED BY ONLY <1>1, <2>1, <2>2
<1>3. luma_tc \in [0..15 -> -1..16] /\ variants \in [0..15 -> CodeNames]
  BY <1>1 DEF M!Blks, M!None, CodeNames
<1> QED
  BY <1>1, <1>2, <1>3 DEF BlockInv

(* In every frame, of any number of macroblocks and whatever their
   TotalCoeffs, each luma block is read with the code that its final
   neighbours in its own macroblock call for; those in another one have no
   part in it (mb.rs 345-376, 412-427).                                    *)
THEOREM FrameVariantsAgree == FMSpec => []VariantsAgree
BY BlockInvInit, BlockInvNext, BlockInvAgrees, PTL DEF FMSpec

-----------------------------------------------------------------------------
(* The coded block patterns, of which each has a code.                     *)
LEMMA CbpTable ==
  /\ \A k \in 1..48 : M!CBP_TABLE_INTRA_4_2_0[k] \in 0..47
  /\ {M!CBP_TABLE_INTRA_4_2_0[k] : k \in 1..48} = 0..47
<1> DEFINE T == M!CBP_TABLE_INTRA_4_2_0
           S == {T[k] : k \in 1..48}
<1>1. \A k \in 1..48 : T[k] \in 0..47
  BY DEF M!CBP_TABLE_INTRA_4_2_0
<1>2. T[4] = 0 /\ T[30] = 1 /\ T[31] = 2 /\ T[18] = 3 /\ T[32] = 4 /\ T[19] = 5
  BY DEF M!CBP_TABLE_INTRA_4_2_0
<1>3. T[38] = 6 /\ T[9] = 7 /\ T[33] = 8 /\ T[39] = 9 /\ T[20] = 10 /\ T[10] = 11
  BY DEF M!CBP_TABLE_INTRA_4_2_0
<1>4. T[21] = 12 /\ T[11] = 13 /\ T[12] = 14 /\ T[3] = 15 /\ T[17] = 16 /\ T[34] = 17
  BY DEF M!CBP_TABLE_INTRA_4_2_0
<1>5. T[35] = 18 /\ T[22] = 19 /\ T[36] = 20 /\ T[23] = 21 /\ T[40] = 22 /\ T[5] = 23
  BY DEF M!CBP_TABLE_INTRA_4_2_0
<1>6. T[37] = 24 /\ T[41] = 25 /\ T[24] = 26 /\ T[6] = 27 /\ T[25] = 28 /\ T[7] = 29
  BY DEF M!CBP_TABLE_INTRA_4_2_0
<1>7. T[8] = 30 /\ T[2] = 31 /\ T[42] = 32 /\ T[43] = 33 /\ T[44] = 34 /\ T[26] = 35
  BY DEF M!CBP_TABLE_INTRA_4_2_0
<1>8. T[45] = 36 /\ T[27] = 37 /\ T[47] = 38 /\ T[13] = 39 /\ T[46] = 40 /\ T[48] = 41
  BY DEF M!CBP_TABLE_INTRA_4_2_0
<1>9. T[28] = 42 /\ T[14] = 43 /\ T[29] = 44 /\ T[15] = 45 /\ T[16] = 46 /\ T[1] = 47
  BY DEF M!CBP_TABLE_INTRA_4_2_0
<1> HIDE DEF T
<1>10. \A k \in 1..48 : T[k] \in S
  OBVIOUS
<1> HIDE DEF S
<1>11. {0, 1, 2, 3, 4, 5} \subseteq S
  BY <1>2, <1>10
<1>12. {6, 7, 8, 9, 10, 11} \subseteq S
  BY <1>3, <1>10
<1>13. {12, 13, 14, 15, 16, 17} \subseteq S
  BY <1>4, <1>10
<1>14. {18, 19, 20, 21, 22, 23} \subseteq S
  BY <1>5, <1>10
<1>15. {24, 25, 26, 27, 28, 29} \subseteq S
  BY <1>6, <1>10
<1>16. {30, 31, 32, 33, 34, 35} \subseteq S
  BY <1>7, <1>10
<1>17. {36, 37, 38, 39, 40, 41} \subseteq S
  BY <1>8, <1>10
<1>18. {42, 43, 44, 45, 46, 47} \subseteq S
  BY <1>9, <1>10
<1>19. 0..47 \subseteq S
  <2> SUFFICES ASSUME NEW v \in 0..47 PROVE v \in S
    OBVIOUS
  <2>1. CASE v \in 0..5
    BY <1>11, <2>1
  <2>2. CASE v \in 6..11
    BY <1>12, <2>2
  <2>3. CASE v \in 12..17
    BY <1>13, <2>3
  <2>4. CASE v \in 18..23
    BY <1>14, <2>4
  <2>5. CASE v \in 24..29
    BY <1>15, <2>5
  <2>6. CASE v \in 30..35
    BY <1>16, <2>6
  <2>7. CASE v \in 36..41
    BY <1>17, <2>7
  <2>8. CASE v \in 42..47
    BY <1>18, <2>8
  <2> QED
    BY <2>1, <2>2, <2>3, <2>4, <2>5, <2>6, <2>7, <2>8
<1>20. S \subseteq 0..47
  BY <1>1 DEF S
<1> QED
  BY <1>1, <1>19, <1>20 DEF S, T

(* What has been read so far of a header, and what of the residuals: up to
   pos, the blocks of the quarters in the coded block pattern.             *)
HeaderRead == {"cbp", "qp", "luma", "done"}
Coded(b) == (cbp.luma \div 2^Quarter(b)) % 2 = 1

TypeRead ==
  \/ mb_type.kind = "INxN"
  \/ /\ mb_type.kind = "I16x16" /\ mb_type.pred_mode \in 0..3
     /\ mb_type.cbp_luma \in 0..1 /\ mb_type.cbp_chroma \in 0..2

HeaderInv ==
  /\ status \in {"mb_type", "modes", "chroma"} \cup HeaderRead \cup M!Errors
  /\ cbp.luma \in 0..15 /\ cbp.chroma \in 0..2
  /\ status = "mb_type" => records = 0
  /\ status = "modes" => mb_type.kind = "INxN" /\ records \in 0..15
  /\ status \in {"chroma"} \cup HeaderRead =>
       TypeRead /\ records = IF mb_type.kind = "INxN" THEN 16 ELSE 0
  /\ status \in HeaderRead => chroma_mode \in 0..3
  /\ status \in {"mb_type", "modes", "chroma", "cbp", "qp"} => pos = 0
  /\ \A b \in 0..15 : b \in luma_4x4 <=> Place(b) < pos /\ Coded(b)
  /\ status = "done" =>
       pos = 16 /\ chroma_dc = (cbp.chroma >= 1) /\ chroma_ac = (cbp.chroma >= 2)

LEMMA TypeOfCode ==
  ASSUME NEW idx \in 0..25, idx # 25
  PROVE  LET t == M!MbType(idx)
         IN  \/ t.kind = "INxN"
             \/ /\ t.kind = "I16x16" /\ t.pred_mode \in 0..3
                /\ t.cbp_luma \in 0..1 /\ t.cbp_chroma \in 0..2
<1>1. CASE idx = 0
  BY <1>1 DEF M!MbType
<1>2. CASE idx # 0
  <2>1. /\ (idx - 1) \div 6 \in 0..3 /\ ((idx - 1) \div 3) % 2 \in 0..1 /\ (idx - 1) % 3 \in 0..2
    BY <1>2
  <2> QED
    BY <1>2, <2>1 DEF M!MbType
<1> QED
  BY <1>1, <1>2

(* Nothing is of a block while no block has been read.                     *)
LEMMA NoBlocksYet ==
  ASSUME HeaderInv, pos = 0, UNCHANGED <<pos, luma_4x4>>
  PROVE  \A b \in 0..15 : b \in luma_4x4' <=> Place(b) < pos' /\ Coded(b)'
<1>1. \A b \in 0..15 : ~(Place(b) < pos)
  BY BlockOfPlace
<1> QED
  BY <1>1 DEF HeaderInv

LEMMA HeaderReads ==
  ASSUME HeaderInv
  PROVE  /\ (\E idx \in MbTypeCodes : M!ReadMbType(idx)) => HeaderInv'
         /\ M!ReadMode => HeaderInv'
         /\ (\E code \in ChromaCodes : M!ReadChromaMode(code)) => HeaderInv'
         /\ (\E code \in CbpCodes : M!ReadCbp(code)) => HeaderInv'
         /\ M!ReadQpDelta => HeaderInv'
<1>1. ASSUME NEW idx \in MbTypeCodes, M!ReadMbType(idx) PROVE HeaderInv'
  <2>1. status = "mb_type" /\ pos = 0 /\ records = 0
    BY <1>1 DEF M!ReadMbType, HeaderInv
  <2>2. UNCHANGED <<records, chroma_mode, cbp, pos, luma_4x4>>
    BY <1>1 DEF M!ReadMbType, M!residual
  <2>3. \A b \in 0..15 : b \in luma_4x4' <=> Place(b) < pos' /\ Coded(b)'
    BY <2>1, <2>2, NoBlocksYet
  <2>4. CASE idx > 25
    BY <1>1, <2>1, <2>2, <2>3, <2>4 DEF M!ReadMbType, HeaderInv, HeaderRead, M!Errors
  <2>5. CASE idx = 25
    <3>1. mb_type' = M!MbType(25) /\ M!MbType(25).kind = "IPcm"
      BY <1>1, <2>5 DEF M!ReadMbType, M!MbType
    <3>2. status' = "out_of_scope"
      BY <1>1, <2>5, <3>1 DEF M!ReadMbType
    <3> QED
      BY <2>1, <2>2, <2>3, <3>2 DEF HeaderInv, HeaderRead, M!Errors
  <2>6. CASE idx < 25
    <3>1. idx \in 0..25 /\ idx # 25
      BY <2>6, CodesAssumption
    <3>2. mb_type' = M!MbType(idx)
      BY <1>1, <3>1 DEF M!ReadMbType
    <3>3. TypeRead'
      BY <3>1, <3>2, TypeOfCode DEF TypeRead
    <3>4. \/ mb_type'.kind = "INxN" /\ status' = "modes"
          \/ mb_type'.kind = "I16x16" /\ status' = "chroma"
      BY <1>1, <3>1, <3>3 DEF M!ReadMbType, TypeRead
    <3> QED
      BY <2>1, <2>2, <2>3, <3>3, <3>4 DEF HeaderInv, HeaderRead, M!Errors
  <2> QED
    BY <2>4, <2>5, <2>6, CodesAssumption
<1>2. ASSUME M!ReadMode PROVE HeaderInv'
  <2>1. /\ status = "modes" /\ pos = 0 /\ mb_type.kind = "INxN" /\ records \in 0..15
        /\ records' = records + 1
        /\ status' = IF records' = 16 THEN "chroma" ELSE "modes"
        /\ UNCHANGED <<mb_type, chroma_mode, cbp, pos, luma_4x4>>
    BY <1>2 DEF M!ReadMode, M!residual, HeaderInv
  <2>2. \A b \in 0..15 : b \in luma_4x4' <=> Place(b) < pos' /\ Coded(b)'
    BY <2>1, NoBlocksYet
  <2> QED
    BY <2>1, <2>2 DEF HeaderInv, HeaderRead, TypeRead, M!Errors
<1>3. ASSUME NEW code \in ChromaCodes, M!ReadChromaMode(code) PROVE HeaderInv'
  <2>1. /\ status = "chroma" /\ pos = 0 /\ TypeRead
        /\ records = IF mb_type.kind = "INxN" THEN 16 ELSE 0
        /\ status' = IF chroma_mode' > 3 THEN "out_of_scope"
                     ELSE IF mb_type.kind = "INxN" THEN "cbp" ELSE "qp"
        /\ cbp' = IF mb_type.kind = "INxN" THEN cbp
                  ELSE [luma |-> IF mb_type.cbp_luma = 1 THEN 15 ELSE 0,
                        chroma |-> mb_type.cbp_chroma]
        /\ UNCHANGED <<mb_type, records, pos, luma_4x4>>
    BY <1>3 DEF M!ReadChromaMode, M!residual, HeaderInv
  <2>2. chroma_mode' \in Nat
    BY <1>3, CodesAssumption DEF M!ReadChromaMode
  <2>3. \A b \in 0..15 : b \in luma_4x4' <=> Place(b) < pos' /\ Coded(b)'
    BY <2>1, NoBlocksYet
  <2>4. cbp'.luma \in 0..15 /\ cbp'.chroma \in 0..2
    BY <2>1 DEF HeaderInv, TypeRead
  <2>5. TypeRead' /\ records' = IF mb_type'.kind = "INxN" THEN 16 ELSE 0
    BY <2>1 DEF TypeRead
  <2>6. \/ status' = "out_of_scope"
        \/ status' \in {"cbp", "qp"} /\ chroma_mode' \in 0..3
    BY <2>1, <2>2
  <2> QED
    BY <2>1, <2>3, <2>4, <2>5, <2>6 DEF HeaderInv, HeaderRead, M!Errors
<1>4. ASSUME NEW code \in CbpCodes, M!ReadCbp(code) PROVE HeaderInv'
  <2>1. /\ status = "cbp" /\ pos = 0
        /\ UNCHANGED <<mb_type, records, chroma_mode, pos, luma_4x4>>
    BY <1>4 DEF M!ReadCbp, M!residual, HeaderInv
  <2>2. /\ TypeRead' /\ records' = IF mb_type'.kind = "INxN" THEN 16 ELSE 0
        /\ chroma_mode' \in 0..3
    BY <2>1 DEF HeaderInv, HeaderRead, TypeRead
  <2>3. \A b \in 0..15 : b \in luma_4x4' <=> Place(b) < pos' /\ Coded(b)'
    BY <2>1, NoBlocksYet
  <2>4. cbp'.luma \in 0..15 /\ cbp'.chroma \in 0..2 /\ status' \in {"cavlc_invalid", "qp"}
    <3>1. CASE code > 47
      BY <1>4, <3>1 DEF M!ReadCbp, HeaderInv
    <3>2. CASE ~(code > 47)
      <4>1. code + 1 \in 1..48
        BY <3>2, CodesAssumption
      <4>2. PICK v \in 0..47 : v = M!CBP_TABLE_INTRA_4_2_0[code + 1]
        BY <4>1, CbpTable
      <4>3. v % 16 \in 0..15 /\ (v \div 16) % 4 \in 0..2
        OBVIOUS
      <4> QED
        BY <1>4, <3>2, <4>2, <4>3 DEF M!ReadCbp, M!Unpack
    <3> QED
      BY <3>1, <3>2
  <2> QED
    BY <2>1, <2>2, <2>3, <2>4 DEF HeaderInv, HeaderRead, M!Errors
<1>5. ASSUME M!ReadQpDelta PROVE HeaderInv'
  <2>1. /\ status = "qp" /\ status' = "luma" /\ pos = 0
        /\ UNCHANGED <<mb_type, records, chroma_mode, cbp, pos, luma_4x4>>
    BY <1>5 DEF M!ReadQpDelta, M!header, M!residual, HeaderInv
  <2>2. \A b \in 0..15 : b \in luma_4x4' <=> Place(b) < pos' /\ Coded(b)'
    BY <2>1, NoBlocksYet
  <2> QED
    BY <2>1, <2>2 DEF HeaderInv, HeaderRead, TypeRead, M!Errors
<1> QED
  BY <1>1, <1>2, <1>3, <1>4, <1>5

(* The blocks of a cluster are those of the quarter it is the bit of.      *)
LEMMA ClusterIsQuarter ==
  ASSUME pos \in 0..15
  PROVE  M!Blk = BlockAt(pos) /\ M!Blk \in 0..15 /\ (M!ClusterActive <=> Coded(M!Blk))
<1>1. M!Blk = BlockAt(pos)
  BY DEF M!Blk, M!Cluster, BlockAt
<1>2. M!Blk \in 0..15 /\ Quarter(M!Blk) = M!Cluster
  BY <1>1, PlaceOfBlock DEF M!Cluster
<1> QED
  BY <1>1, <1>2 DEF M!ClusterActive, Coded

LEMMA ResidualReads ==
  ASSUME HeaderInv, BlockInv
  PROVE  M!LumaBlock \/ M!SkippedBlock \/ M!ChromaBlocks => HeaderInv'
<1>1. ASSUME M!LumaBlock \/ M!SkippedBlock PROVE HeaderInv'
  <2>1. /\ status = "luma" /\ pos \in 0..15 /\ pos' = pos + 1
        /\ UNCHANGED <<status, mb_type, records, chroma_mode, cbp>>
    BY <1>1 DEF M!LumaBlock, M!SkippedBlock, M!header, BlockInv
  <2>2. luma_4x4' = IF Coded(M!Blk) THEN luma_4x4 \union {M!Blk} ELSE luma_4x4
    BY <1>1, <2>1, ClusterIsQuarter DEF M!LumaBlock, M!SkippedBlock
  <2>3. \A b \in 0..15 : Coded(b)' <=> Coded(b)
    BY <2>1 DEF Coded
  <2>4. ASSUME NEW b \in 0..15
        PROVE  b \in luma_4x4' <=> Place(b) < pos' /\ Coded(b)'
    <3>1. Place(b) < pos' <=> Place(b) < pos \/ b = M!Blk
      BY <2>1, ClusterIsQuarter, PlaceIsBlock
    <3>2. b \in luma_4x4 <=> Place(b) < pos /\ Coded(b)
      BY DEF HeaderInv
    <3> QED
      BY <2>2, <2>3, <3>1, <3>2
  <2> QED
    BY <2>1, <2>4 DEF HeaderInv, HeaderRead, TypeRead, M!Errors
<1>2. ASSUME M!ChromaBlocks PROVE HeaderInv'
  BY <1>2 DEF M!ChromaBlocks, M!header, HeaderInv, HeaderRead, TypeRead, Coded, M!Errors
<1> QED
  BY <1>1, <1>2

LEMMA HeaderInvNext == HeaderInv /\ BlockInv /\ [FMNext]_all => HeaderInv'
<1> SUFFICES ASSUME HeaderInv, BlockInv, [FMNext]_all PROVE HeaderInv'
  OBVIOUS
<1>1. CASE \E e \in {"truncated", "exp_golomb_too_long", "cavlc_invalid"} : M!ReadFails(e)
  <2>1. /\ status' \in M!Errors
        /\ UNCHANGED <<mb_type, records, chroma_mode, cbp, pos, luma_4x4>>
    BY <1>1 DEF M!ReadFails, M!header, M!residual, M!Errors
  <2>2. status' \notin {"mb_type", "modes", "chroma"} \cup HeaderRead
    BY <2>1 DEF HeaderRead, M!Errors
  <2> QED
    BY <2>1, <2>2 DEF HeaderInv, HeaderRead, Coded
<1>2. CASE NextMacroblock
  <2>1. /\ status' = "mb_type" /\ records' = 0 /\ cbp' = [luma |-> 0, chroma |-> 0]
        /\ pos' = 0 /\ luma_4x4' = {}
    BY <1>2 DEF NextMacroblock
  <2>2. \A b \in 0..15 : ~(Place(b) < pos')
    BY <2>1, BlockOfPlace
  <2> QED
    BY <2>1, <2>2 DEF HeaderInv, HeaderRead
<1>3. CASE UNCHANGED macroblock
  BY <1>3 DEF macroblock, HeaderInv, TypeRead, Coded
<1> QED
  BY <1>1, <1>2, <1>3, ParserSteps, HeaderReads, ResidualReads

LEMMA HeaderInvMatches == HeaderInv /\ BlockInv => ResidualsMatchHeader
<1> SUFFICES ASSUME HeaderInv, BlockInv PROVE ResidualsMatchHeader
  OBVIOUS
<1>1. M!TypeOK
  <2>1. \A b \in M!Blks : luma_tc[b] \in {M!None} \union 0..16
    BY DEF BlockInv, M!Blks, M!None
  <2>2. pos \in 0..16
    BY DEF BlockInv
  <2>3. status \in {"luma", "done"} =>
          /\ records = IF mb_type.kind = "INxN" THEN 16 ELSE 0
          /\ mb_type.kind = "I16x16" => mb_type.pred_mode \in 0..3
          /\ chroma_mode \in 0..3
    BY DEF HeaderInv, HeaderRead, TypeRead
  <2> QED
    BY <2>1, <2>2, <2>3 DEF M!TypeOK, HeaderInv, HeaderRead
<1>2. M!CbpTableComplete
  BY CbpTable DEF M!CbpTableComplete
<1>3. M!ResidualsMatchCbp
  <2> SUFFICES ASSUME status = "done"
               PROVE  /\ \A b \in 0..15 : b \in luma_4x4 <=> Coded(b)
                      /\ chroma_dc <=> cbp.chroma # 0
                      /\ chroma_ac <=> cbp.chroma = 2
    BY DEF M!ResidualsMatchCbp, M!Blks, Coded, Quarter
  <2>1. \A b \in 0..15 : Place(b) < pos
    BY BlockOfPlace DEF HeaderInv
  <2>2. chroma_dc = (cbp.chroma >= 1) /\ chroma_ac = (cbp.chroma >= 2) /\ cbp.chroma \in 0..2
    BY DEF HeaderInv
  <2>3. (cbp.chroma >= 1 <=> cbp.chroma # 0) /\ (cbp.chroma >= 2 <=> cbp.chroma = 2)
    BY <2>2
  <2> QED
    BY <2>1, <2>2, <2>3 DEF HeaderInv
<1> QED
  BY <1>1, <1>2, <1>3 DEF ResidualsMatchHeader

(* In every frame, whatever the codes, each macroblock that comes through has
   the residuals that its own header announces, and none of another
   (mb.rs 222-406).                                                        *)
THEOREM FrameResidualsMatch == FMSpec => []ResidualsMatchHeader
<1>1. FMInit => HeaderInv
  <2> SUFFICES ASSUME FMInit PROVE HeaderInv
    OBVIOUS
  <2>1. /\ status = "mb_type" /\ records = 0 /\ cbp = [luma |-> 0, chroma |-> 0]
        /\ pos = 0 /\ luma_4x4 = {}
    BY DEF FMInit, M!Init
  <2>2. \A b \in 0..15 : ~(Place(b) < pos)
    BY <2>1, BlockOfPlace
  <2> QED
    BY <2>1, <2>2 DEF HeaderInv, HeaderRead
<1> QED
  BY <1>1, BlockInvInit, BlockInvNext, HeaderInvNext, HeaderInvMatches, PTL DEF FMSpec

-----------------------------------------------------------------------------
LEMMA Least ==
  ASSUME NEW T, T \subseteq Nat, T # {}
  PROVE  \E x \in T : \A y \in T : x <= y
<1> DEFINE R == OpToRel(<, Nat)
<1>1. IsWellFoundedOn(R, Nat)
  BY NatLessThanWellFounded, Zenon
<1>2. \A y, x \in Nat : y < x => <<y, x>> \in R
  BY DEF OpToRel
<1> HIDE DEF R
<1>3. PICK x \in T : \A y \in T : ~(<<y, x>> \in R)
  BY <1>1, WFMin
<1>4. \A y \in T : ~(y < x)
  BY <1>2, <1>3
<1> QED BY <1>3, <1>4

LEMMA SetInduction ==
  ASSUME NEW S, 0 \in S, \A n \in Nat : n \in S => n + 1 \in S
  PROVE  \A n \in Nat : n \in S
<1> DEFINE T == Nat \ S
<1> SUFFICES ASSUME T # {} PROVE FALSE
  OBVIOUS
<1>1. PICK x \in T : \A y \in T : x <= y
  BY Least
<1>2. x # 0 /\ x - 1 \in Nat
  BY <1>1
<1>3. x - 1 \in S
  BY <1>1, <1>2
<1> QED BY <1>1, <1>2, <1>3

(* The same up to a bound.                                                 *)
LEMMA BoundedInduction ==
  ASSUME NEW m \in Nat, NEW S, 0 \in S, \A n \in 0..(m - 1) : n \in S => n + 1 \in S
  PROVE  \A n \in 0..m : n \in S
<1> DEFINE T == {n \in Nat : n <= m => n \in S}
<1>1. 0 \in T
  OBVIOUS
<1>2. \A n \in Nat : n \in T => n + 1 \in T
  OBVIOUS
<1> HIDE DEF T
<1>3. \A n \in Nat : n \in T
  BY <1>1, <1>2, SetInduction
<1> QED BY <1>3 DEF T

Byte == 0..255

LEMMA Greatest ==
  ASSUME NEW T, NEW n \in Nat, T \subseteq 1..n, T # {}
  PROVE  \E m \in T : \A y \in T : y <= m
<1> DEFINE U == {n - y : y \in T}
<1>1. U \subseteq Nat /\ U # {}
  <2>1. \A y \in T : n - y \in Nat
    OBVIOUS
  <2>2. PICK y \in T : TRUE
    OBVIOUS
  <2> QED BY <2>1, <2>2
<1>2. PICK u \in U : \A y \in U : u <= y
  BY <1>1, Least
<1>3. PICK m \in T : u = n - m
  BY <1>2
<1>4. \A y \in T : n - y \in U
  OBVIOUS
<1> HIDE DEF U
<1>5. ASSUME NEW y \in T PROVE y <= m
  <2>1. u <= n - y
    BY <1>2, <1>4
  <2>2. y \in 1..n /\ m \in 1..n
    OBVIOUS
  <2> QED BY <2>1, <2>2, <1>3
<1> QED BY <1>5

(* Three bytes in a row.                                                   *)
LEMMA ThreeInARow ==
  ASSUME NEW s \in Seq(Byte), NEW p \in Nat \ {0}, p + 2 <= Len(s), NEW c \in Int
  PROVE  SubSeq(s, p, p + 2) = <<0, 0, c>> <=> s[p] = 0 /\ s[p + 1] = 0 /\ s[p + 2] = c
<1> DEFINE w == SubSeq(s, p, p + 2)
<1>1. \A k \in p..(p + 2) : s[k] \in Byte
  OBVIOUS
<1>2. /\ w \in Seq(Byte) /\ Len(w) = 3
      /\ w[1] = s[p] /\ w[2] = s[p + 1] /\ w[3] = s[p + 2]
  <2>1. /\ w \in Seq(Byte) /\ Len(w) = IF p <= p + 2 THEN (p + 2) - p + 1 ELSE 0
        /\ \A k \in 1..((p + 2) - p + 1) : w[k] = s[p + k - 1]
    BY <1>1, SubSeqProperties
  <2>2. (p + 2) - p + 1 = 3 /\ p + 1 - 1 = p /\ p + 2 - 1 = p + 1 /\ p + 3 - 1 = p + 2
    OBVIOUS
  <2>3. 1 \in 1..3 /\ 2 \in 1..3 /\ 3 \in 1..3
    OBVIOUS
  <2> HIDE DEF w
  <2> QED BY <2>1, <2>2, <2>3
<1> HIDE DEF w
<1>3. ASSUME w = <<0, 0, c>> PROVE w[1] = 0 /\ w[2] = 0 /\ w[3] = c
  BY <1>3
<1>4. ASSUME w[1] = 0, w[2] = 0, w[3] = c PROVE w = <<0, 0, c>>
  <2>0. 0 \in Byte /\ c \in Byte
    <3>1. w[3] \in Byte
      BY <1>2
    <3> QED BY <3>1, <1>4 DEF Byte
  <2>1. <<0, 0, c>> \in Seq(Byte) /\ Len(<<0, 0, c>>) = 3
    BY <2>0
  <2>2. \A k \in 1..3 : k = 1 \/ k = 2 \/ k = 3
    OBVIOUS
  <2>3. \A k \in 1..3 : w[k] = <<0, 0, c>>[k]
    BY <1>4, <2>2
  <2> QED BY <1>2, <2>1, <2>3, SeqEqual
<1> QED BY <1>2, <1>3, <1>4 DEF w

LEMMA FourInARow ==
  ASSUME NEW s \in Seq(Byte), NEW p \in Nat \ {0}, p + 3 <= Len(s),
         SubSeq(s, p, p + 3) = <<0, 0, 0, 1>>
  PROVE  s[p] = 0 /\ s[p + 1] = 0 /\ s[p + 2] = 0 /\ s[p + 3] = 1
<1> DEFINE w == SubSeq(s, p, p + 3)
<1>1. \A k \in p..(p + 3) : s[k] \in Byte
  OBVIOUS
<1>2. \A k \in 1..((p + 3) - p + 1) : w[k] = s[p + k - 1]
  BY <1>1, SubSeqProperties
<1>3. /\ (p + 3) - p + 1 = 4 /\ p + 1 - 1 = p /\ p + 2 - 1 = p + 1 /\ p + 3 - 1 = p + 2
      /\ p + 4 - 1 = p + 3
  OBVIOUS
<1>4. 1 \in 1..4 /\ 2 \in 1..4 /\ 3 \in 1..4 /\ 4 \in 1..4
  OBVIOUS
<1>5. w[1] = 0 /\ w[2] = 0 /\ w[3] = 0 /\ w[4] = 1
  <2>1. w = <<0, 0, 0, 1>>
    OBVIOUS
  <2> HIDE DEF w
  <2> QED BY <2>1
<1> HIDE DEF w
<1> QED BY <1>2, <1>3, <1>4, <1>5

LEMMA ThreeBytes ==
  ASSUME NEW s \in Seq(Byte), NEW p \in Nat \ {0}
  PROVE  ThreeByteAt(s, p)
           <=> p + 2 <= Len(s) /\ s[p] = 0 /\ s[p + 1] = 0 /\ s[p + 2] = 1
<1>1. CASE p + 2 <= Len(s)
  <2>1. SubSeq(s, p, p + 2) = <<0, 0, 1>> <=> s[p] = 0 /\ s[p + 1] = 0 /\ s[p + 2] = 1
    BY <1>1, ThreeInARow
  <2> QED BY <1>1, <2>1 DEF ThreeByteAt
<1>2. CASE ~(p + 2 <= Len(s))
  BY <1>2 DEF ThreeByteAt
<1> QED BY <1>1, <1>2

LEMMA FourBytes ==
  ASSUME NEW s \in Seq(Byte), NEW p \in Nat \ {0}, FourByteAt(s, p)
  PROVE  p + 3 <= Len(s) /\ s[p] = 0 /\ s[p + 1] = 0 /\ s[p + 2] = 0 /\ s[p + 3] = 1
BY FourInARow DEF FourByteAt

-----------------------------------------------------------------------------
(* The first start code.                                                   *)
LEMMA FirstCode ==
  ASSUME NEW s \in Seq(Byte), NEW from \in Nat \ {0}, StartCodes(s, from) # {}
  PROVE  LET code == FindStartCode(s, from) IN
           /\ code.start \in StartCodes(s, from) /\ code.start \in from..Len(s)
           /\ \A j \in StartCodes(s, from) : code.start <= j
           /\ code.after = IF ThreeByteAt(s, code.start) THEN code.start + 3 ELSE code.start + 4
           /\ code.start + 3 <= code.after /\ code.after <= Len(s) + 1 /\ code.after \in Nat
<1> DEFINE T == StartCodes(s, from)
           first == CHOOSE p \in T : \A j \in T : p <= j
           code == FindStartCode(s, from)
<1>1. T \subseteq Nat /\ T \subseteq from..Len(s) /\ Len(s) \in Nat
  BY DEF StartCodes, Codes
<1>2. \E p \in T : \A j \in T : p <= j
  BY <1>1, Least
<1>3. first \in T /\ \A j \in T : first <= j
  <2> HIDE DEF T
  <2> QED BY <1>2
<1>4. code.start = first /\ code.after = IF ThreeByteAt(s, first) THEN first + 3 ELSE first + 4
  BY DEF FindStartCode
<1>5. first \in from..Len(s) /\ (ThreeByteAt(s, first) \/ FourByteAt(s, first))
  BY <1>3 DEF StartCodes, Codes
<1> HIDE DEF first, code, T
<1>6. first \in Nat \ {0}
  BY <1>1, <1>5
<1>7. ThreeByteAt(s, first) => first + 2 <= Len(s)
  BY DEF ThreeByteAt
<1>8. FourByteAt(s, first) => first + 3 <= Len(s)
  BY DEF FourByteAt
<1>9. first + 3 <= code.after /\ code.after <= Len(s) + 1 /\ code.after \in Nat
  BY <1>1, <1>4, <1>5, <1>6, <1>7, <1>8
<1> QED BY <1>3, <1>4, <1>5, <1>9 DEF code, T

(* What a step of the walk yields.                                         *)
LEMMA UnitIsNal ==
  ASSUME stream \in Seq(Byte), nal_pos \in 1..(Len(stream) + 1),
         StartCodes(stream, nal_pos) # {}
  PROVE  /\ PayloadStart \in (nal_pos + 3)..(Len(stream) + 1)
         /\ PayloadEnd \in PayloadStart..(Len(stream) + 1)
         /\ \A j \in StartCodes(stream, PayloadStart) : PayloadEnd <= j
         /\ NalUnit # << >> => \E last \in PayloadStart..(PayloadEnd - 1) :
              /\ NalUnit = SubSeq(stream, PayloadStart, last) /\ stream[last] # 0
              /\ \A j \in PayloadStart..(PayloadEnd - 1) : stream[j] # 0 => j <= last
         /\ NalUnit = << >> => \A j \in PayloadStart..(PayloadEnd - 1) : stream[j] = 0
<1> DEFINE L == Len(stream)
           from == PayloadStart
           to == PayloadEnd
           used == {j \in from..(to - 1) : stream[j] # 0}
           last == CHOOSE m \in used : \A j \in used : j <= m
<1>1. L \in Nat /\ nal_pos \in Nat \ {0}
  OBVIOUS
<1>2. from \in (nal_pos + 3)..(L + 1)
  <2> DEFINE code == FindStartCode(stream, nal_pos)
  <2>1. /\ code.start \in nal_pos..L /\ code.start + 3 <= code.after
        /\ code.after <= L + 1 /\ code.after \in Nat
    BY <1>1, FirstCode
  <2> HIDE DEF code
  <2>2. code.after \in (nal_pos + 3)..(L + 1)
    BY <1>1, <2>1
  <2> QED BY <2>2 DEF code, PayloadStart
<1>3. to \in from..(L + 1) /\ \A j \in StartCodes(stream, from) : to <= j
  <2>1. CASE StartCodes(stream, from) = {}
    <3>1. to = L + 1
      BY <2>1 DEF PayloadEnd
    <3> HIDE DEF to, from
    <3> QED BY <2>1, <3>1, <1>1, <1>2
  <2>2. CASE StartCodes(stream, from) # {}
    <3> DEFINE code == FindStartCode(stream, from)
    <3>1. to = code.start
      BY <2>2 DEF PayloadEnd
    <3> HIDE DEF to, from
    <3>2. from \in Nat \ {0}
      BY <1>1, <1>2
    <3>3. code.start \in from..L /\ \A j \in StartCodes(stream, from) : code.start <= j
      BY <2>2, <3>2, FirstCode
    <3> HIDE DEF code
    <3> QED BY <3>1, <3>3, <1>1
  <2> QED BY <2>1, <2>2
<1>4. NalUnit = IF used = {} THEN << >> ELSE SubSeq(stream, from, last)
  BY Zenon DEF NalUnit
<1> HIDE DEF from, to, L
<1>5. ASSUME used # {}
      PROVE  last \in used /\ \A j \in used : j <= last
  <2>1. used \subseteq 1..L
    BY <1>1, <1>2, <1>3
  <2>2. \E m \in used : \A j \in used : j <= m
    BY <1>1, <1>5, <2>1, Greatest
  <2> HIDE DEF used
  <2> QED BY <2>2
<1>6. ASSUME used # {}
      PROVE  /\ last \in from..(to - 1) /\ stream[last] # 0
             /\ \A j \in from..(to - 1) : stream[j] # 0 => j <= last
             /\ NalUnit = SubSeq(stream, from, last)
  BY <1>4, <1>5, <1>6
<1>7. ASSUME used # {} PROVE NalUnit # << >>
  <2> HIDE DEF last, used
  <2>1. last \in Int /\ from \in Int /\ from <= last /\ last <= L /\ 1 <= from
    BY <1>1, <1>2, <1>3, <1>6, <1>7
  <2>2. \A k \in from..last : stream[k] \in Byte
    BY <2>1 DEF L
  <2>3. Len(SubSeq(stream, from, last)) = last - from + 1
    BY <2>1, <2>2, SubSeqProperties
  <2>4. SubSeq(stream, from, last) # << >>
    <3>1. Len(SubSeq(stream, from, last)) # 0
      BY <2>1, <2>3
    <3> QED BY <3>1, EmptySeq
  <2> QED BY <1>6, <1>7, <2>4
<1>8. used = {} => \A j \in from..(to - 1) : stream[j] = 0
  OBVIOUS
<1> HIDE DEF used, last
<1> QED BY <1>2, <1>3, <1>4, <1>6, <1>7, <1>8 DEF from, to, L

-----------------------------------------------------------------------------
(* The recursive definitions have a value.                                 *)
LEMMA StrippedExists ==
  ASSUME NEW payload, NEW m \in Nat
  PROVE  \E g : g = [k \in 0..m |->
           IF k = 0 THEN << >>
           ELSE IF IsEmulationPrevention(payload, k) THEN g[k - 1]
           ELSE Append(g[k - 1], payload[k])]
<1> DEFINE Then(k, s) == IF IsEmulationPrevention(payload, k) THEN s ELSE Append(s, payload[k])
           P(g, n) == g = [k \in 0..n |-> IF k = 0 THEN << >> ELSE Then(k, g[k - 1])]
           S == {n \in Nat : \E g : P(g, n)}
<1>1. 0 \in S
  <2>1. P([k \in 0..0 |-> << >>], 0)
    OBVIOUS
  <2> QED BY <2>1
<1>2. ASSUME NEW n \in Nat, n \in S PROVE n + 1 \in S
  <2>1. PICK g : P(g, n)
    BY <1>2
  <2> HIDE DEF Then
  <2> DEFINE h == [k \in 0..(n + 1) |-> IF k = 0 THEN << >> ELSE Then(k, g[k - 1])]
  <2>2. \A k \in 0..n : h[k] = g[k]
    <3>1. g = [k \in 0..n |-> IF k = 0 THEN << >> ELSE Then(k, g[k - 1])]
      BY <2>1
    <3> SUFFICES ASSUME NEW k \in 0..n PROVE h[k] = g[k]
      OBVIOUS
    <3>2. k \in 0..(n + 1)
      OBVIOUS
    <3>3. h[k] = IF k = 0 THEN << >> ELSE Then(k, g[k - 1])
      BY <3>2, Zenon
    <3>4. g[k] = IF k = 0 THEN << >> ELSE Then(k, g[k - 1])
      BY ONLY <3>1, k \in 0..n, Zenon
    <3> QED BY <3>3, <3>4
  <2>3. h[0] = << >> /\ \A k \in 1..(n + 1) : h[k] = Then(k, g[k - 1])
    OBVIOUS
  <2>4. h = [k \in 0..(n + 1) |-> h[k]]
    OBVIOUS
  <2> HIDE DEF h
  <2>5. \A k \in 1..(n + 1) : h[k] = Then(k, h[k - 1])
    <3> SUFFICES ASSUME NEW k \in 1..(n + 1) PROVE h[k] = Then(k, h[k - 1])
      OBVIOUS
    <3>1. k - 1 \in 0..n /\ h[k] = Then(k, g[k - 1])
      BY <2>3
    <3> QED BY <2>2, <3>1
  <2>6. \A k \in 0..(n + 1) : h[k] = IF k = 0 THEN << >> ELSE Then(k, h[k - 1])
    BY <2>3, <2>5
  <2>7. P(h, n + 1)
    BY <2>4, <2>6, Zenon
  <2> QED BY <2>7
<1> HIDE DEF S
<1>3. m \in S
  BY <1>1, <1>2, SetInduction
<1>4. PICK g : P(g, m)
  BY <1>3 DEF S
<1> QED BY <1>4, Zenon

LEMMA StrippedIs ==
  ASSUME NEW payload \in Seq(Byte)
  PROVE  /\ StrippedPrefix(payload)[0] = << >>
         /\ \A k \in 1..Len(payload) :
              StrippedPrefix(payload)[k] =
                IF IsEmulationPrevention(payload, k) THEN StrippedPrefix(payload)[k - 1]
                ELSE Append(StrippedPrefix(payload)[k - 1], payload[k])
<1> DEFINE Then(k, s) == IF IsEmulationPrevention(payload, k) THEN s ELSE Append(s, payload[k])
           P(g) == g = [k \in 0..Len(payload) |-> IF k = 0 THEN << >> ELSE Then(k, g[k - 1])]
           f == StrippedPrefix(payload)
<1>0. Len(payload) \in Nat
  OBVIOUS
<1>1. \E g : P(g)
  BY <1>0, StrippedExists, Zenon
<1>2. f = CHOOSE g : P(g)
  BY Zenon DEF StrippedPrefix
<1>3. P(f)
  <2> HIDE DEF P, f
  <2> QED BY <1>1, <1>2, Zenon
<1> HIDE DEF f, Then
<1>4. f[0] = << >>
  BY <1>0, <1>3
<1>5. ASSUME NEW k \in 1..Len(payload) PROVE f[k] = Then(k, f[k - 1])
  <2>1. k \in 0..Len(payload) /\ k # 0
    BY <1>0
  <2> QED BY <1>3, <2>1, Zenon
<1> QED BY <1>4, <1>5, Zenon DEF f, Then

LEMMA StrippedType ==
  ASSUME NEW payload \in Seq(Byte)
  PROVE  /\ \A n \in 0..Len(payload) : StrippedPrefix(payload)[n] \in Seq(Byte)
         /\ StripEmulationPrevention(payload) \in Seq(Byte)
<1> DEFINE S == {n \in 0..Len(payload) : StrippedPrefix(payload)[n] \in Seq(Byte)}
<1>1. Len(payload) \in Nat
  OBVIOUS
<1>2. 0 \in S
  <2>1. StrippedPrefix(payload)[0] = << >> /\ << >> \in Seq(Byte)
    BY StrippedIs
  <2>2. StrippedPrefix(payload)[0] \in Seq(Byte)
    BY <2>1, Zenon
  <2>3. 0 \in 0..Len(payload)
    BY <1>1
  <2> QED BY <2>2, <2>3, Zenon
<1>3. ASSUME NEW n \in 0..(Len(payload) - 1), n \in S PROVE n + 1 \in S
  <2>1. n + 1 \in 1..Len(payload) /\ (n + 1) - 1 = n /\ n + 1 \in 0..Len(payload)
    BY <1>1
  <2>2. payload[n + 1] \in Byte /\ StrippedPrefix(payload)[n] \in Seq(Byte)
    BY <1>3, <2>1
  <2>3. StrippedPrefix(payload)[n + 1] =
          IF IsEmulationPrevention(payload, n + 1) THEN StrippedPrefix(payload)[n]
          ELSE Append(StrippedPrefix(payload)[n], payload[n + 1])
    BY <2>1, StrippedIs
  <2>4. Append(StrippedPrefix(payload)[n], payload[n + 1]) \in Seq(Byte)
    BY <2>2, AppendProperties
  <2> QED BY <2>1, <2>2, <2>3, <2>4
<1> HIDE DEF S
<1>4. \A n \in 0..Len(payload) : n \in S
  BY <1>1, <1>2, <1>3, BoundedInduction
<1> QED BY <1>1, <1>4 DEF S, StripEmulationPrevention

-----------------------------------------------------------------------------
(* Of any bytes at all.                                                    *)
LastSlice ==
  \/ SliceUnits = {} /\ slice_rbsp = NoBytes
  \/ \E last \in SliceUnits :
       /\ \A j \in SliceUnits : j <= last
       /\ slice_rbsp = units[last].rbsp
       /\ slice_is_idr = (UnitType(units[last].nal) = IDR_SLICE)

WalkInv == FramerTypeOK /\ UnitsAreNals /\ LastSlice

LEMMA FlagIsOfLast == FramerTypeOK /\ LastSlice => FlagOfSlice
<1> SUFFICES ASSUME FramerTypeOK, LastSlice PROVE FlagOfSlice
  OBVIOUS
<1>1. SliceUnits \subseteq Nat
  BY DEF SliceUnits, FramerTypeOK
<1>2. CASE SliceUnits = {}
  BY <1>2 DEF LastSlice, FlagOfSlice
<1>3. CASE SliceUnits # {}
  <2>1. PICK last \in SliceUnits :
          /\ \A j \in SliceUnits : j <= last
          /\ slice_rbsp = units[last].rbsp
          /\ slice_is_idr = (UnitType(units[last].nal) = IDR_SLICE)
    BY <1>3 DEF LastSlice
  <2> DEFINE chosen == CHOOSE k \in SliceUnits : \A j \in SliceUnits : j <= k
  <2>2. chosen = last
    <3> HIDE DEF SliceUnits
    <3>1. chosen \in SliceUnits /\ \A j \in SliceUnits : j <= chosen
      BY <2>1
    <3> HIDE DEF chosen
    <3> QED BY <1>1, <2>1, <3>1
  <2> QED BY <1>3, <2>1, <2>2, Zenon DEF FlagOfSlice
<1> QED BY <1>2, <1>3

(* The units of the walk so far and the one it yields.                     *)
LEMMA UnitYielded ==
  ASSUME WalkInv, nal_status = "walk", StartCodes(stream, nal_pos) # {}, NalUnit # << >>
  PROVE  /\ NalUnit \in Seq(Byte) /\ NalUnit[Len(NalUnit)] # 0
         /\ \A p \in DOMAIN NalUnit : ~ThreeByteAt(NalUnit, p)
         /\ PayloadEnd \in (nal_pos + 4)..(Len(stream) + 1)
         /\ StripEmulationPrevention(Tail(NalUnit)) \in Seq(Byte)
<1>0. /\ stream \in Seq(Byte) /\ nal_pos \in 1..(Len(stream) + 1) /\ Len(stream) \in Nat
  BY DEF WalkInv, FramerTypeOK, Byte
<1> DEFINE from == PayloadStart
           to == PayloadEnd
           nal == NalUnit
<1>1. /\ from \in (nal_pos + 3)..(Len(stream) + 1) /\ to \in from..(Len(stream) + 1)
      /\ \A j \in StartCodes(stream, from) : to <= j
  BY <1>0, UnitIsNal
<1>2. PICK last \in from..(to - 1) : nal = SubSeq(stream, from, last) /\ stream[last] # 0
  BY <1>0, UnitIsNal
<1> HIDE DEF from, to, nal
<1>3. /\ from \in Nat \ {0} /\ to \in Nat /\ last \in Nat /\ from <= last /\ last < to
      /\ last <= Len(stream) /\ from + 1 <= to
  BY <1>0, <1>1
<1>4. \A k \in from..last : stream[k] \in Byte
  BY <1>0, <1>3
<1>5. /\ nal \in Seq(Byte) /\ Len(nal) = last - from + 1
      /\ \A k \in 1..(last - from + 1) : nal[k] = stream[from + k - 1]
  BY <1>2, <1>3, <1>4, SubSeqProperties
<1>6. nal[Len(nal)] # 0
  <2>1. last - from + 1 \in 1..(last - from + 1) /\ from + (last - from + 1) - 1 = last
    BY <1>3
  <2>2. nal[last - from + 1] = stream[last]
    BY <1>5, <2>1
  <2> QED BY <1>2, <1>5, <2>2
<1>7. ASSUME NEW p \in DOMAIN nal, ThreeByteAt(nal, p) PROVE FALSE
  <2>1. p \in 1..(last - from + 1) /\ p \in Nat \ {0}
    BY <1>3, <1>5
  <2>2. p + 2 <= Len(nal) /\ nal[p] = 0 /\ nal[p + 1] = 0 /\ nal[p + 2] = 1
    BY <2>1, <1>5, <1>7, ThreeBytes
  <2> DEFINE q == from + p - 1
  <2>3. /\ q \in Nat \ {0} /\ q \in from..Len(stream) /\ q + 2 <= Len(stream) /\ q < to
        /\ from + (p + 1) - 1 = q + 1 /\ from + (p + 2) - 1 = q + 2
        /\ p + 1 \in 1..(last - from + 1) /\ p + 2 \in 1..(last - from + 1)
    <3>1. p \in Nat /\ 1 <= p /\ p + 2 <= last - from + 1
      BY <1>3, <1>5, <2>1, <2>2
    <3>2. q \in Nat \ {0} /\ q \in from..Len(stream) /\ q + 2 <= Len(stream) /\ q < to
      BY <3>1, <1>0, <1>3
    <3>3. from + (p + 1) - 1 = q + 1 /\ from + (p + 2) - 1 = q + 2
      BY <3>1, <1>3
    <3>4. p + 1 \in 1..(last - from + 1) /\ p + 2 \in 1..(last - from + 1)
      BY <3>1, <1>3
    <3> QED BY <3>2, <3>3, <3>4
  <2>4. nal[p] = stream[q] /\ nal[p + 1] = stream[q + 1] /\ nal[p + 2] = stream[q + 2]
    <3>1. /\ nal[p] = stream[from + p - 1] /\ nal[p + 1] = stream[from + (p + 1) - 1]
          /\ nal[p + 2] = stream[from + (p + 2) - 1]
      BY <1>5, <2>1, <2>3
    <3> QED BY <3>1, <2>3
  <2> HIDE DEF q
  <2>5. ThreeByteAt(stream, q)
    BY <2>2, <2>3, <2>4, <1>0, ThreeBytes
  <2>6. q \in StartCodes(stream, from)
    BY <2>3, <2>5 DEF StartCodes, Codes
  <2>7. to <= q
    BY <1>1, <2>6
  <2> QED BY <2>3, <2>7, <1>3
<1>8. to \in (nal_pos + 4)..(Len(stream) + 1)
  BY <1>0, <1>1, <1>3
<1>9. StripEmulationPrevention(Tail(nal)) \in Seq(Byte)
  <2>1. nal # << >>
    BY DEF nal
  <2>2. Tail(nal) \in Seq(Byte)
    BY <1>5, <2>1
  <2> QED BY <2>2, StrippedType
<1> QED BY <1>5, <1>6, <1>7, <1>8, <1>9 DEF nal, to

LEMMA WalkNext ==
  ASSUME WalkInv, NextUnit
  PROVE  WalkInv'
<1> DEFINE nal == NalUnit
           rbsp == StripEmulationPrevention(Tail(NalUnit))
           u == [nal |-> nal, rbsp |-> rbsp]
           n == Len(units)
<1>1. /\ nal_status = "walk" /\ StartCodes(stream, nal_pos) # {} /\ nal # << >>
      /\ nal_pos' = PayloadEnd /\ units' = Append(units, u)
      /\ IF Forbidden(nal) THEN nal_status' = "err" /\ UNCHANGED found
         ELSE Keep(UnitType(nal), rbsp) /\ UNCHANGED nal_status
      /\ UNCHANGED framerInput
  BY DEF NextUnit, Resume
<1>2. /\ nal \in Seq(Byte) /\ nal[Len(nal)] # 0
      /\ \A p \in DOMAIN nal : ~ThreeByteAt(nal, p)
      /\ PayloadEnd \in (nal_pos + 4)..(Len(stream) + 1)
      /\ rbsp \in Seq(Byte)
  BY <1>1, UnitYielded
<1>3. /\ framed \in BOOLEAN /\ stream \in Seq(Byte) /\ nal_pos \in 1..(Len(stream) + 1)
      /\ units \in Seq([nal : Seq(Byte), rbsp : Seq(Byte)])
      /\ \A r \in {sps_rbsp, pps_rbsp, slice_rbsp} : r = NoBytes \/ r \in Seq(Byte)
      /\ slice_is_idr \in BOOLEAN /\ nal_status \in {"walk", "units", "err"}
  BY DEF WalkInv, FramerTypeOK, Byte, Rbsp
<1>4. /\ nal_pos > 4 * n
      /\ \A k \in DOMAIN units :
           /\ units[k].nal # << >> /\ units[k].nal[Len(units[k].nal)] # 0
           /\ \A p \in DOMAIN units[k].nal : ~ThreeByteAt(units[k].nal, p)
  BY DEF WalkInv, UnitsAreNals
<1>5. u \in [nal : Seq(Byte), rbsp : Seq(Byte)] /\ u.nal = nal /\ u.rbsp = rbsp
  BY <1>2
<1> HIDE DEF nal, rbsp, u
<1>6. /\ units' \in Seq([nal : Seq(Byte), rbsp : Seq(Byte)]) /\ Len(units') = n + 1
      /\ \A k \in 1..n : units'[k] = units[k]
      /\ units'[n + 1] = u
  BY <1>1, <1>3, <1>5, AppendProperties
<1>7. n \in Nat /\ DOMAIN units = 1..n /\ DOMAIN units' = 1..(n + 1)
  BY <1>3, <1>6
<1> HIDE DEF n
<1>8. \A k \in 1..(n + 1) : k = n + 1 \/ k \in 1..n
  BY <1>7
<1>9. stream' = stream /\ framed' = framed
  BY <1>1 DEF framerInput
<1>10. UnitsAreNals'
  <2>1. nal_pos' > 4 * Len(units')
    BY <1>1, <1>2, <1>3, <1>4, <1>6, <1>7
  <2>2. \A k \in DOMAIN units' :
          /\ units'[k].nal # << >> /\ units'[k].nal[Len(units'[k].nal)] # 0
          /\ \A p \in DOMAIN units'[k].nal : ~ThreeByteAt(units'[k].nal, p)
    <3> SUFFICES ASSUME NEW k \in 1..(n + 1)
                 PROVE  /\ units'[k].nal # << >> /\ units'[k].nal[Len(units'[k].nal)] # 0
                        /\ \A p \in DOMAIN units'[k].nal : ~ThreeByteAt(units'[k].nal, p)
      BY <1>7
    <3>1. CASE k \in 1..n
      BY <3>1, <1>4, <1>6, <1>7
    <3>2. CASE k = n + 1
      BY <3>2, <1>1, <1>2, <1>5, <1>6
    <3> QED BY <3>1, <3>2, <1>8
  <2> QED BY <2>1, <2>2 DEF UnitsAreNals
<1>11. \A k \in 1..n : (k \in SliceUnits' <=> k \in SliceUnits)
  BY <1>6, <1>7 DEF SliceUnits
<1>12. n + 1 \in SliceUnits' <=> UnitType(nal) \in {IDR_SLICE, NON_IDR_SLICE} /\ ~Forbidden(nal)
  BY <1>5, <1>6, <1>7 DEF SliceUnits
<1>13. SliceUnits \subseteq 1..n /\ SliceUnits' \subseteq 1..(n + 1)
  BY <1>7 DEF SliceUnits
<1>14. CASE UnitType(nal) \in {IDR_SLICE, NON_IDR_SLICE} /\ ~Forbidden(nal)
  <2>1. slice_rbsp' = rbsp /\ slice_is_idr' = (UnitType(nal) = IDR_SLICE)
        /\ sps_rbsp' \in {sps_rbsp, rbsp} /\ pps_rbsp' \in {pps_rbsp, rbsp}
        /\ nal_status' = nal_status
    BY <1>1, <1>14 DEF Keep
  <2>2. LastSlice'
    <3>1. n + 1 \in SliceUnits' /\ \A j \in SliceUnits' : j <= n + 1
      BY <1>12, <1>13, <1>14
    <3>2. slice_rbsp' = units'[n + 1].rbsp
          /\ slice_is_idr' = (UnitType(units'[n + 1].nal) = IDR_SLICE)
      BY <1>5, <1>6, <2>1
    <3> HIDE DEF SliceUnits
    <3> QED BY <3>1, <3>2, Zenon DEF LastSlice
  <2>3. FramerTypeOK'
    <3>1. \A r \in {sps_rbsp', pps_rbsp', slice_rbsp'} : r = NoBytes \/ r \in Seq(Byte)
      BY <1>2, <1>3, <2>1
    <3>2. slice_is_idr' \in BOOLEAN /\ nal_status' \in {"walk", "units", "err"}
      BY <1>3, <2>1
    <3>3. nal_pos' \in 1..(Len(stream') + 1)
      BY <1>1, <1>2, <1>3, <1>9
    <3> QED BY <3>1, <3>2, <3>3, <1>3, <1>6, <1>9 DEF FramerTypeOK, Byte, Rbsp
  <2> QED BY <1>10, <2>2, <2>3 DEF WalkInv
<1>15. CASE ~(UnitType(nal) \in {IDR_SLICE, NON_IDR_SLICE} /\ ~Forbidden(nal))
  <2>1. /\ slice_rbsp' = slice_rbsp /\ slice_is_idr' = slice_is_idr
        /\ sps_rbsp' \in {sps_rbsp, rbsp} /\ pps_rbsp' \in {pps_rbsp, rbsp}
        /\ nal_status' \in {nal_status, "err"}
    BY <1>1, <1>15 DEF Keep, found
  <2>2. SliceUnits' = SliceUnits
    <3>1. n + 1 \notin SliceUnits'
      BY <1>12, <1>15
    <3> HIDE DEF SliceUnits
    <3>2. \A k \in SliceUnits' : k \in SliceUnits
      BY <3>1, <1>8, <1>11, <1>13
    <3>3. \A k \in SliceUnits : k \in SliceUnits'
      BY <1>11, <1>13
    <3> QED BY <3>2, <3>3
  <2>3. LastSlice'
    <3>1. \A k \in SliceUnits : units'[k] = units[k]
      BY <1>6, <1>13
    <3>2. LastSlice
      BY DEF WalkInv
    <3> HIDE DEF SliceUnits
    <3> QED BY <2>1, <2>2, <3>1, <3>2 DEF LastSlice
  <2>4. FramerTypeOK'
    <3>1. \A r \in {sps_rbsp', pps_rbsp', slice_rbsp'} : r = NoBytes \/ r \in Seq(Byte)
      BY <1>2, <1>3, <2>1
    <3>2. slice_is_idr' \in BOOLEAN /\ nal_status' \in {"walk", "units", "err"}
      BY <1>3, <2>1
    <3>3. nal_pos' \in 1..(Len(stream') + 1)
      BY <1>1, <1>2, <1>3, <1>9
    <3> QED BY <3>1, <3>2, <3>3, <1>3, <1>6, <1>9 DEF FramerTypeOK, Byte, Rbsp
  <2> QED BY <1>10, <2>3, <2>4 DEF WalkInv
<1> QED BY <1>14, <1>15

LEMMA WalkInvNext == WalkInv /\ [FramerNext]_framerVars => WalkInv'
<1> SUFFICES ASSUME WalkInv, [FramerNext]_framerVars PROVE WalkInv'
  OBVIOUS
<1>1. CASE NextUnit
  BY <1>1, WalkNext
<1>2. ASSUME UNCHANGED <<framerInput, nal_pos, units, found>>, nal_status' \in {"walk", "units", "err"}
      PROVE  WalkInv'
  <2>1. /\ stream' = stream /\ framed' = framed /\ nal_pos' = nal_pos /\ units' = units
        /\ sps_rbsp' = sps_rbsp /\ pps_rbsp' = pps_rbsp /\ slice_rbsp' = slice_rbsp
        /\ slice_is_idr' = slice_is_idr
    BY <1>2 DEF framerInput, found
  <2>2. FramerTypeOK'
    BY <1>2, <2>1 DEF WalkInv, FramerTypeOK
  <2>3. UnitsAreNals'
    BY <2>1 DEF WalkInv, UnitsAreNals
  <2>4. LastSlice'
    BY <2>1 DEF WalkInv, LastSlice, SliceUnits
  <2> QED BY <2>2, <2>3, <2>4 DEF WalkInv
<1>3. CASE EmptyUnit
  BY <1>2, <1>3 DEF EmptyUnit
<1>4. CASE Collected
  BY <1>2, <1>4 DEF Collected
<1>5. CASE UNCHANGED framerVars
  <2>1. nal_status \in {"walk", "units", "err"}
    BY DEF WalkInv, FramerTypeOK
  <2> QED BY <1>2, <1>5, <2>1 DEF framerVars
<1> QED BY <1>1, <1>3, <1>4, <1>5 DEF FramerNext

LEMMA EscapedExists ==
  ASSUME NEW rbsp, NEW m \in Nat
  PROVE  \E g : g = [k \in 0..m |-> IF k = 0 THEN << >> ELSE IF EndsInZeros(g[k - 1]) /\ rbsp[k] <= 3 THEN g[k - 1] \o <<3, rbsp[k]>>
             ELSE Append(g[k - 1], rbsp[k])]
<1> DEFINE Then(k, s) == IF EndsInZeros(s) /\ rbsp[k] <= 3 THEN s \o <<3, rbsp[k]>>
             ELSE Append(s, rbsp[k])
           P(g, n) == g = [k \in 0..n |-> IF k = 0 THEN << >> ELSE Then(k, g[k - 1])]
           S == {n \in Nat : \E g : P(g, n)}
<1>1. 0 \in S
  <2>1. P([k \in 0..0 |-> << >>], 0)
    OBVIOUS
  <2> QED BY <2>1
<1>2. ASSUME NEW n \in Nat, n \in S PROVE n + 1 \in S
  <2>1. PICK g : P(g, n)
    BY <1>2
  <2> HIDE DEF Then
  <2> DEFINE h == [k \in 0..(n + 1) |-> IF k = 0 THEN << >> ELSE Then(k, g[k - 1])]
  <2>2. \A k \in 0..n : h[k] = g[k]
    <3>1. g = [k \in 0..n |-> IF k = 0 THEN << >> ELSE Then(k, g[k - 1])]
      BY <2>1
    <3> SUFFICES ASSUME NEW k \in 0..n PROVE h[k] = g[k]
      OBVIOUS
    <3>2. k \in 0..(n + 1)
      OBVIOUS
    <3>3. h[k] = IF k = 0 THEN << >> ELSE Then(k, g[k - 1])
      BY <3>2, Zenon
    <3>4. g[k] = IF k = 0 THEN << >> ELSE Then(k, g[k - 1])
      BY ONLY <3>1, k \in 0..n, Zenon
    <3> QED BY <3>3, <3>4
  <2>3. h[0] = << >> /\ \A k \in 1..(n + 1) : h[k] = Then(k, g[k - 1])
    OBVIOUS
  <2>4. h = [k \in 0..(n + 1) |-> h[k]]
    OBVIOUS
  <2> HIDE DEF h
  <2>5. \A k \in 1..(n + 1) : h[k] = Then(k, h[k - 1])
    <3> SUFFICES ASSUME NEW k \in 1..(n + 1) PROVE h[k] = Then(k, h[k - 1])
      OBVIOUS
    <3>1. k - 1 \in 0..n /\ h[k] = Then(k, g[k - 1])
      BY <2>3
    <3> QED BY <2>2, <3>1
  <2>6. \A k \in 0..(n + 1) : h[k] = IF k = 0 THEN << >> ELSE Then(k, h[k - 1])
    BY <2>3, <2>5
  <2>7. P(h, n + 1)
    BY <2>4, <2>6, Zenon
  <2> QED BY <2>7
<1> HIDE DEF S
<1>3. m \in S
  BY <1>1, <1>2, SetInduction
<1>4. PICK g : P(g, m)
  BY <1>3 DEF S
<1> QED BY <1>4, Zenon

LEMMA EscapedIs ==
  ASSUME NEW rbsp \in Seq(Byte)
  PROVE  /\ EscapedPrefix(rbsp)[0] = << >>
         /\ \A k \in 1..Len(rbsp) : EscapedPrefix(rbsp)[k] = IF EndsInZeros(EscapedPrefix(rbsp)[k - 1]) /\ rbsp[k] <= 3 THEN EscapedPrefix(rbsp)[k - 1] \o <<3, rbsp[k]>>
             ELSE Append(EscapedPrefix(rbsp)[k - 1], rbsp[k])
<1> DEFINE Then(k, s) == IF EndsInZeros(s) /\ rbsp[k] <= 3 THEN s \o <<3, rbsp[k]>>
             ELSE Append(s, rbsp[k])
           P(g) == g = [k \in 0..Len(rbsp) |-> IF k = 0 THEN << >> ELSE Then(k, g[k - 1])]
           f == EscapedPrefix(rbsp)
<1>0. Len(rbsp) \in Nat
  OBVIOUS
<1>1. \E g : P(g)
  BY <1>0, EscapedExists, Zenon
<1>2. f = CHOOSE g : P(g)
  BY Zenon DEF EscapedPrefix
<1>3. P(f)
  <2> HIDE DEF P, f
  <2> QED BY <1>1, <1>2, Zenon
<1> HIDE DEF f, Then
<1>4. f[0] = << >>
  BY <1>0, <1>3
<1>5. ASSUME NEW k \in 1..Len(rbsp) PROVE f[k] = Then(k, f[k - 1])
  <2>1. k \in 0..Len(rbsp) /\ k # 0
    BY <1>0
  <2> QED BY <1>3, <2>1, Zenon
<1> QED BY <1>4, <1>5, Zenon DEF f, Then

LEMMA FramedExists ==
  ASSUME NEW us, NEW m \in Nat
  PROVE  \E g : g = [k \in 0..m |-> IF k = 0 THEN << >> ELSE g[k - 1] \o Framed(us[k])]
<1> DEFINE Then(k, s) == s \o Framed(us[k])
           P(g, n) == g = [k \in 0..n |-> IF k = 0 THEN << >> ELSE Then(k, g[k - 1])]
           S == {n \in Nat : \E g : P(g, n)}
<1>1. 0 \in S
  <2>1. P([k \in 0..0 |-> << >>], 0)
    OBVIOUS
  <2> QED BY <2>1
<1>2. ASSUME NEW n \in Nat, n \in S PROVE n + 1 \in S
  <2>1. PICK g : P(g, n)
    BY <1>2
  <2> HIDE DEF Then
  <2> DEFINE h == [k \in 0..(n + 1) |-> IF k = 0 THEN << >> ELSE Then(k, g[k - 1])]
  <2>2. \A k \in 0..n : h[k] = g[k]
    <3>1. g = [k \in 0..n |-> IF k = 0 THEN << >> ELSE Then(k, g[k - 1])]
      BY <2>1
    <3> SUFFICES ASSUME NEW k \in 0..n PROVE h[k] = g[k]
      OBVIOUS
    <3>2. k \in 0..(n + 1)
      OBVIOUS
    <3>3. h[k] = IF k = 0 THEN << >> ELSE Then(k, g[k - 1])
      BY <3>2, Zenon
    <3>4. g[k] = IF k = 0 THEN << >> ELSE Then(k, g[k - 1])
      BY ONLY <3>1, k \in 0..n, Zenon
    <3> QED BY <3>3, <3>4
  <2>3. h[0] = << >> /\ \A k \in 1..(n + 1) : h[k] = Then(k, g[k - 1])
    OBVIOUS
  <2>4. h = [k \in 0..(n + 1) |-> h[k]]
    OBVIOUS
  <2> HIDE DEF h
  <2>5. \A k \in 1..(n + 1) : h[k] = Then(k, h[k - 1])
    <3> SUFFICES ASSUME NEW k \in 1..(n + 1) PROVE h[k] = Then(k, h[k - 1])
      OBVIOUS
    <3>1. k - 1 \in 0..n /\ h[k] = Then(k, g[k - 1])
      BY <2>3
    <3> QED BY <2>2, <3>1
  <2>6. \A k \in 0..(n + 1) : h[k] = IF k = 0 THEN << >> ELSE Then(k, h[k - 1])
    BY <2>3, <2>5
  <2>7. P(h, n + 1)
    BY <2>4, <2>6, Zenon
  <2> QED BY <2>7
<1> HIDE DEF S
<1>3. m \in S
  BY <1>1, <1>2, SetInduction
<1>4. PICK g : P(g, m)
  BY <1>3 DEF S
<1> QED BY <1>4, Zenon

LEMMA FramedIs ==
  ASSUME NEW us, Len(us) \in Nat
  PROVE  /\ FramedPrefix(us)[0] = << >>
         /\ \A k \in 1..Len(us) : FramedPrefix(us)[k] = FramedPrefix(us)[k - 1] \o Framed(us[k])
<1> DEFINE Then(k, s) == s \o Framed(us[k])
           P(g) == g = [k \in 0..Len(us) |-> IF k = 0 THEN << >> ELSE Then(k, g[k - 1])]
           f == FramedPrefix(us)
<1>0. Len(us) \in Nat
  OBVIOUS
<1>1. \E g : P(g)
  BY <1>0, FramedExists, Zenon
<1>2. f = CHOOSE g : P(g)
  BY Zenon DEF FramedPrefix
<1>3. P(f)
  <2> HIDE DEF P, f
  <2> QED BY <1>1, <1>2, Zenon
<1> HIDE DEF f, Then
<1>4. f[0] = << >>
  BY <1>0, <1>3
<1>5. ASSUME NEW k \in 1..Len(us) PROVE f[k] = Then(k, f[k - 1])
  <2>1. k \in 0..Len(us) /\ k # 0
    BY <1>0
  <2> QED BY <1>3, <2>1, Zenon
<1> QED BY <1>4, <1>5, Zenon DEF f, Then

-----------------------------------------------------------------------------
(* No two zeros are followed by a byte that could end a start code, or be
   taken for a prevention byte's.                                          *)
Clear(s) == \A p \in 1..(Len(s) - 2) : ~(s[p] = 0 /\ s[p + 1] = 0 /\ s[p + 2] <= 2)

Starts(t, s) == Len(t) <= Len(s) /\ \A k \in 1..Len(t) : s[k] = t[k]

LEMMA ClearAppend ==
  ASSUME NEW s \in Seq(Byte), NEW x \in Byte, Clear(s), ~(EndsInZeros(s) /\ x <= 2)
  PROVE  Clear(Append(s, x))
<1> DEFINE n == Len(s)
           t == Append(s, x)
<1>1. /\ n \in Nat /\ Len(t) = n + 1 /\ (\A k \in 1..n : t[k] = s[k]) /\ t[n + 1] = x
  BY AppendProperties
<1>2. \A p \in 1..(n - 2) : ~(s[p] = 0 /\ s[p + 1] = 0 /\ s[p + 2] <= 2)
  BY DEF Clear
<1>3. ~(n > 1 /\ s[n] = 0 /\ s[n - 1] = 0 /\ x <= 2)
  BY DEF EndsInZeros
<1> HIDE DEF n, t
<1>4. ASSUME NEW p \in 1..(n - 1), t[p] = 0, t[p + 1] = 0, t[p + 2] <= 2 PROVE FALSE
  <2>1. CASE p = n - 1
    <3>1. n > 1 /\ p \in 1..n /\ p + 1 \in 1..n /\ p + 1 = n /\ p + 2 = n + 1
      BY <2>1, <1>1
    <3>2. s[n - 1] = 0 /\ s[n] = 0 /\ x <= 2
      BY <3>1, <2>1, <1>1, <1>4
    <3> QED BY <3>1, <3>2, <1>3
  <2>2. CASE p # n - 1
    <3>1. p \in 1..(n - 2) /\ p \in 1..n /\ p + 1 \in 1..n /\ p + 2 \in 1..n
      BY <2>2, <1>1
    <3>2. t[p] = s[p] /\ t[p + 1] = s[p + 1] /\ t[p + 2] = s[p + 2]
      BY <3>1, <1>1
    <3> QED BY <3>1, <3>2, <1>2, <1>4
  <2> QED BY <2>1, <2>2
<1>5. Len(t) - 2 = n - 1
  BY <1>1
<1> QED BY <1>4, <1>5 DEF Clear, t

LEMMA TwoAppends ==
  ASSUME NEW s \in Seq(Byte), NEW x \in Byte, NEW y \in Byte
  PROVE  s \o <<x, y>> = Append(Append(s, x), y)
<1>1. Append(s, x) \in Seq(Byte) /\ <<x, y>> \in Seq(Byte) /\ Len(<<x, y>>) = 2
  BY AppendProperties
<1>2. Append(Append(s, x), y) \in Seq(Byte)
  BY <1>1, AppendProperties
<1> DEFINE n == Len(s)
           t == Append(s, x)
           u == Append(t, y)
           w == s \o <<x, y>>
<1>3. n \in Nat /\ Len(t) = n + 1 /\ (\A k \in 1..n : t[k] = s[k]) /\ t[n + 1] = x
  BY AppendProperties
<1>4. Len(u) = (n + 1) + 1 /\ (\A k \in 1..(n + 1) : u[k] = t[k]) /\ u[(n + 1) + 1] = y
  BY <1>1, <1>3, AppendProperties
<1>5. /\ w \in Seq(Byte) /\ Len(w) = n + 2
      /\ \A k \in 1..n : w[k] = s[k]
      /\ w[n + 1] = x /\ w[n + 2] = y
  <2>1. /\ w \in Seq(Byte) /\ Len(w) = n + 2
        /\ \A k \in 1..(n + 2) : w[k] = IF k <= n THEN s[k] ELSE <<x, y>>[k - n]
    BY <1>1, ConcatProperties
  <2>2. n + 1 \in 1..(n + 2) /\ n + 2 \in 1..(n + 2) /\ (n + 1) - n = 1 /\ (n + 2) - n = 2
        /\ ~(n + 1 <= n) /\ ~(n + 2 <= n)
    BY <1>3
  <2>3. <<x, y>>[1] = x /\ <<x, y>>[2] = y
    OBVIOUS
  <2>4. \A k \in 1..n : k \in 1..(n + 2) /\ k <= n
    BY <1>3
  <2> HIDE DEF w, n
  <2>5. w[n + 1] = <<x, y>>[(n + 1) - n] /\ w[n + 2] = <<x, y>>[(n + 2) - n]
    BY <2>1, <2>2
  <2>6. \A k \in 1..n : w[k] = s[k]
    BY <2>1, <2>4
  <2> QED BY <2>1, <2>2, <2>3, <2>5, <2>6
<1> HIDE DEF n, t, u, w
<1>6. \A k \in 1..Len(w) : w[k] = u[k]
  <2> SUFFICES ASSUME NEW k \in 1..(n + 2) PROVE w[k] = u[k]
    BY <1>5
  <2>1. CASE k \in 1..n
    <3>1. k \in 1..(n + 1)
      BY <2>1, <1>3
    <3> QED BY <2>1, <3>1, <1>3, <1>4, <1>5
  <2>2. CASE k = n + 1
    <3>1. k \in 1..(n + 1)
      BY <2>2, <1>3
    <3> QED BY <2>2, <3>1, <1>3, <1>4, <1>5
  <2>3. CASE k = n + 2
    <3>1. (n + 1) + 1 = n + 2
      BY <1>3
    <3> QED BY <2>3, <3>1, <1>4, <1>5
  <2> QED BY <2>1, <2>2, <2>3, <1>3
<1>7. Len(w) = Len(u)
  BY <1>3, <1>4, <1>5
<1> QED BY <1>2, <1>5, <1>6, <1>7, SeqEqual DEF u, w, t

LEMMA EndsAppend ==
  ASSUME NEW s \in Seq(Byte), NEW x \in Byte
  PROVE  EndsInZeros(Append(s, x)) <=> Len(s) > 0 /\ s[Len(s)] = 0 /\ x = 0
<1> DEFINE n == Len(s)
           t == Append(s, x)
<1>1. /\ n \in Nat /\ Len(t) = n + 1 /\ (\A k \in 1..n : t[k] = s[k]) /\ t[n + 1] = x
  BY AppendProperties
<1>2. (n + 1) - 1 = n /\ (n > 0 => n \in 1..n)
  BY <1>1
<1> HIDE DEF n, t
<1>3. EndsInZeros(t) <=> n + 1 > 1 /\ t[n + 1] = 0 /\ t[n] = 0
  BY <1>1, <1>2 DEF EndsInZeros
<1>4. EndsInZeros(t) <=> n > 0 /\ s[n] = 0 /\ x = 0
  BY <1>1, <1>2, <1>3
<1> QED BY <1>4 DEF n, t

(* What the encoder has written behind each byte.                          *)
EscapedAt(rbsp, n) ==
  LET s == EscapedPrefix(rbsp)[n]
  IN /\ s \in Seq(Byte) /\ Clear(s)
     /\ n > 0 => Len(s) > 0 /\ s[Len(s)] = rbsp[n]

LEMMA EscapedIsClear ==
  ASSUME NEW rbsp \in Seq(Byte)
  PROVE  \A n \in 0..Len(rbsp) : EscapedAt(rbsp, n)
<1> DEFINE S == {n \in 0..Len(rbsp) : EscapedAt(rbsp, n)}
           e == EscapedPrefix(rbsp)
<1>1. Len(rbsp) \in Nat
  OBVIOUS
<1>2. 0 \in S
  <2>1. e[0] = << >>
    BY EscapedIs
  <2>2. << >> \in Seq(Byte) /\ Clear(<< >>)
    BY DEF Clear
  <2>3. EscapedAt(rbsp, 0)
    <3>1. ~(0 > 0)
      OBVIOUS
    <3> QED BY <2>1, <2>2, <3>1, Zenon DEF EscapedAt
  <2>4. 0 \in 0..Len(rbsp)
    BY <1>1
  <2> QED BY <2>3, <2>4
<1>3. ASSUME NEW n \in 0..(Len(rbsp) - 1), n \in S PROVE n + 1 \in S
  <2> DEFINE s == e[n]
             t == e[n + 1]
             x == rbsp[n + 1]
  <2>1. n + 1 \in 1..Len(rbsp) /\ (n + 1) - 1 = n /\ n + 1 \in 0..Len(rbsp) /\ n + 1 > 0
    BY <1>1
  <2>2. x \in Byte /\ s \in Seq(Byte) /\ Clear(s) /\ 3 \in Byte
    <3>1. EscapedAt(rbsp, n)
      BY <1>3
    <3>2. s \in Seq(Byte) /\ Clear(s)
      BY <3>1, Zenon DEF EscapedAt
    <3>3. x \in Byte
      BY <2>1
    <3> QED BY <3>2, <3>3 DEF Byte
  <2>3. t = IF EndsInZeros(s) /\ x <= 3 THEN s \o <<3, x>> ELSE Append(s, x)
    BY <2>1, EscapedIs
  <2> HIDE DEF s, t, x, e
  <2>4. t \in Seq(Byte) /\ Clear(t) /\ Len(t) > 0 /\ t[Len(t)] = x
    <3>1. CASE EndsInZeros(s) /\ x <= 3
      <4> DEFINE w == Append(s, 3)
      <4>1. w \in Seq(Byte) /\ Clear(w)
        BY <2>2, AppendProperties, ClearAppend
      <4>2. ~EndsInZeros(w)
        BY <2>2, EndsAppend
      <4>3. t = Append(w, x)
        BY <2>2, <2>3, <3>1, TwoAppends
      <4> HIDE DEF w
      <4>4. Append(w, x) \in Seq(Byte) /\ Len(Append(w, x)) = Len(w) + 1
            /\ Append(w, x)[Len(w) + 1] = x /\ Clear(Append(w, x))
        BY <2>2, <4>1, <4>2, AppendProperties, ClearAppend
      <4>5. Len(w) \in Nat
        BY <4>1
      <4> QED BY <4>3, <4>4, <4>5
    <3>2. CASE ~(EndsInZeros(s) /\ x <= 3)
      <4>1. t = Append(s, x)
        BY <2>3, <3>2
      <4>2. ~(EndsInZeros(s) /\ x <= 2)
        BY <2>2, <3>2 DEF Byte
      <4>3. t \in Seq(Byte) /\ Len(t) = Len(s) + 1 /\ t[Len(s) + 1] = x /\ Clear(t)
        BY <2>2, <4>1, <4>2, AppendProperties, ClearAppend
      <4>4. Len(s) \in Nat
        BY <2>2
      <4> QED BY <4>3, <4>4
    <3> QED BY <3>1, <3>2
  <2>5. EscapedAt(rbsp, n + 1)
    BY <2>4, Zenon DEF EscapedAt, t, e, x
  <2> QED BY <2>1, <2>5
<1> HIDE DEF S
<1>4. \A n \in 0..Len(rbsp) : n \in S
  BY <1>1, <1>2, <1>3, BoundedInduction
<1> QED BY <1>4 DEF S

LEMMA EscapeIsClear ==
  ASSUME NEW rbsp \in Seq(Byte), Legal(rbsp)
  PROVE  /\ Escape(rbsp) \in Seq(Byte) /\ Clear(Escape(rbsp))
         /\ rbsp # << >> => Len(Escape(rbsp)) > 0 /\ Escape(rbsp)[Len(Escape(rbsp))] # 0
         /\ rbsp = << >> => Escape(rbsp) = << >>
<1> DEFINE N == Len(rbsp)
           e == EscapedPrefix(rbsp)
           s == e[N]
           t == Escape(rbsp)
<1>1. N \in Nat /\ N \in 0..N
  OBVIOUS
<1>2. s \in Seq(Byte) /\ Clear(s) /\ (N > 0 => Len(s) > 0 /\ s[Len(s)] = rbsp[N]) /\ 3 \in Byte
  <2>1. EscapedAt(rbsp, N)
    BY <1>1, EscapedIsClear
  <2>2. s \in Seq(Byte) /\ Clear(s) /\ (N > 0 => Len(s) > 0 /\ s[Len(s)] = rbsp[N])
    BY <2>1, Zenon DEF EscapedAt
  <2> QED BY <2>2 DEF Byte
<1>3. t = IF EndsInZeros(s) THEN Append(s, 3) ELSE s
  BY DEF Escape
<1>4. rbsp = << >> => N = 0 /\ s = << >>
  BY EscapedIs
<1>5. N > 0 => rbsp[N] # 0 \/ (N > 2 /\ rbsp[N - 1] = 0 /\ rbsp[N - 2] # 0)
  BY DEF Legal
<1>6. ASSUME N > 2, rbsp[N - 1] = 0, rbsp[N - 2] # 0, rbsp[N] = 0
      PROVE  EndsInZeros(s)
  <2> DEFINE a == e[N - 2]
             b == e[N - 1]
  <2>1. /\ N - 2 \in 1..N /\ N - 1 \in 1..N /\ N \in 1..N /\ (N - 1) - 1 = N - 2
        /\ N - 2 \in 0..N /\ N - 1 \in 0..N /\ N - 2 > 0 /\ N - 1 > 0
    BY <1>1, <1>6
  <2>2. a \in Seq(Byte) /\ Len(a) > 0 /\ a[Len(a)] # 0
    BY <2>1, <1>6, EscapedIsClear DEF EscapedAt
  <2>3. b \in Seq(Byte) /\ Len(b) > 0 /\ b[Len(b)] = 0
    BY <2>1, <1>6, EscapedIsClear DEF EscapedAt
  <2>4. b = IF EndsInZeros(a) /\ 0 <= 3 THEN a \o <<3, 0>> ELSE Append(a, 0)
    BY <2>1, <1>6, EscapedIs
  <2>5. s = IF EndsInZeros(b) /\ 0 <= 3 THEN b \o <<3, 0>> ELSE Append(b, 0)
    BY <2>1, <1>6, EscapedIs
  <2> HIDE DEF a, b, s, e, N
  <2>6. ~EndsInZeros(a)
    BY <2>2 DEF EndsInZeros
  <2>7. b = Append(a, 0) /\ 0 \in Byte
    BY <2>4, <2>6 DEF Byte
  <2>8. ~EndsInZeros(b)
    BY <2>2, <2>7, EndsAppend
  <2>9. s = Append(b, 0)
    BY <2>5, <2>8
  <2> QED BY <2>3, <2>7, <2>9, EndsAppend
<1> HIDE DEF N, e, s, t
<1>7. CASE EndsInZeros(s)
  <2>1. t = Append(s, 3) /\ Len(s) \in Nat
    BY <1>2, <1>3, <1>7
  <2>2. t \in Seq(Byte) /\ Len(t) = Len(s) + 1 /\ t[Len(s) + 1] = 3 /\ Clear(t)
    BY <1>2, <2>1, AppendProperties, ClearAppend
  <2>3. s # << >>
    BY <1>7 DEF EndsInZeros
  <2> QED BY <2>1, <2>2, <2>3, <1>4 DEF t
<1>8. CASE ~EndsInZeros(s)
  <2>1. t = s
    BY <1>3, <1>8
  <2>2. rbsp # << >> => N > 0
    BY <1>1 DEF N
  <2>3. ASSUME N > 0 PROVE Len(s) > 0 /\ s[Len(s)] # 0
    BY <1>2, <1>5, <1>6, <1>8, <2>3
  <2> QED BY <1>2, <1>4, <2>1, <2>2, <2>3 DEF t
<1> QED BY <1>7, <1>8

-----------------------------------------------------------------------------
(* One byte of what was written is stripped.                               *)
LEMMA StripByte ==
  ASSUME NEW payload \in Seq(Byte), NEW s \in Seq(Byte), NEW x \in Byte,
         Starts(Append(s, x), payload)
  PROVE  /\ Starts(s, payload)
         /\ StrippedPrefix(payload)[Len(s) + 1] =
              IF EndsInZeros(s) /\ x = 3 THEN StrippedPrefix(payload)[Len(s)]
              ELSE Append(StrippedPrefix(payload)[Len(s)], x)
<1> DEFINE n == Len(s)
           t == Append(s, x)
           out == StrippedPrefix(payload)
<1>1. /\ n \in Nat /\ Len(t) = n + 1 /\ (\A k \in 1..n : t[k] = s[k]) /\ t[n + 1] = x
  BY AppendProperties
<1>2. n + 1 <= Len(payload) /\ Len(payload) \in Nat /\ \A k \in 1..(n + 1) : payload[k] = t[k]
  BY <1>1 DEF Starts
<1> HIDE DEF t
<1>3. (\A k \in 1..n : payload[k] = s[k]) /\ payload[n + 1] = x
  <2>1. n + 1 \in 1..(n + 1) /\ \A k \in 1..n : k \in 1..(n + 1)
    BY <1>1
  <2> QED BY <2>1, <1>1, <1>2
<1>4. Starts(s, payload)
  BY <1>1, <1>2, <1>3 DEF Starts
<1>5. out[n + 1] = IF IsEmulationPrevention(payload, n + 1) THEN out[n] ELSE Append(out[n], x)
  <2>1. n + 1 \in 1..Len(payload) /\ (n + 1) - 1 = n
    BY <1>1, <1>2
  <2>2. out[n + 1] = IF IsEmulationPrevention(payload, n + 1) THEN out[(n + 1) - 1]
                     ELSE Append(out[(n + 1) - 1], payload[n + 1])
    BY <2>1, StrippedIs
  <2> QED BY <2>1, <2>2, <1>3
<1>6. IsEmulationPrevention(payload, n + 1) <=> EndsInZeros(s) /\ x = 3
  <2>1. CASE n > 1
    <3> DEFINE p == n - 1
    <3>1. p \in Nat \ {0} /\ p + 1 = n /\ p + 2 = n + 1 /\ p + 2 <= Len(payload) /\ 3 \in Int
          /\ (n + 1) - 2 = p /\ n + 1 > 2 /\ p \in 1..n /\ n \in 1..n
      BY <2>1, <1>1, <1>2
    <3>2. EndsInZeros(s) <=> s[p] = 0 /\ s[n] = 0
      BY <2>1 DEF EndsInZeros
    <3>3. IsEmulationPrevention(payload, n + 1) <=> SubSeq(payload, p, n + 1) = <<0, 0, 3>>
      BY <3>1 DEF IsEmulationPrevention
    <3> HIDE DEF p, n
    <3>4. SubSeq(payload, p, p + 2) = <<0, 0, 3>>
            <=> payload[p] = 0 /\ payload[p + 1] = 0 /\ payload[p + 2] = 3
      BY <3>1, ThreeInARow
    <3>5. payload[p] = s[p] /\ payload[p + 1] = s[n] /\ payload[p + 2] = x
      BY <3>1, <1>3
    <3> QED BY <3>1, <3>2, <3>3, <3>4, <3>5
  <2>2. CASE ~(n > 1)
    <3>1. ~(n + 1 > 2)
      BY <2>2, <1>1
    <3> QED BY <2>2, <3>1 DEF EndsInZeros, IsEmulationPrevention
  <2> QED BY <2>1, <2>2
<1> QED BY <1>4, <1>5, <1>6 DEF n, out

(* Stripping undoes escaping, whatever comes after.                        *)
StrippedBack(rbsp, n) ==
  \A payload \in Seq(Byte) :
    Starts(EscapedPrefix(rbsp)[n], payload)
      => StrippedPrefix(payload)[Len(EscapedPrefix(rbsp)[n])] = SubSeq(rbsp, 1, n)

LEMMA PrefixesStripBack ==
  ASSUME NEW rbsp \in Seq(Byte)
  PROVE  \A n \in 0..Len(rbsp) : StrippedBack(rbsp, n)
<1> DEFINE S == {n \in 0..Len(rbsp) : StrippedBack(rbsp, n)}
           e == EscapedPrefix(rbsp)
<1>1. Len(rbsp) \in Nat
  OBVIOUS
<1>2. 0 \in S
  <2>1. e[0] = << >> /\ Len(<< >>) = 0
    BY EscapedIs
  <2>2. SubSeq(rbsp, 1, 0) = << >>
    BY SubSeqEmpty
  <2>3. ASSUME NEW payload \in Seq(Byte) PROVE StrippedPrefix(payload)[0] = << >>
    BY StrippedIs
  <2> HIDE DEF e
  <2>4. StrippedBack(rbsp, 0)
    BY <2>1, <2>2, <2>3, Zenon DEF StrippedBack, e
  <2>5. 0 \in 0..Len(rbsp)
    BY <1>1
  <2> QED BY <2>4, <2>5
<1>3. ASSUME NEW n \in 0..(Len(rbsp) - 1), n \in S PROVE n + 1 \in S
  <2> DEFINE s == e[n]
             t == e[n + 1]
             x == rbsp[n + 1]
  <2>1. n + 1 \in 1..Len(rbsp) /\ (n + 1) - 1 = n /\ n + 1 \in 0..Len(rbsp) /\ n \in 0..Len(rbsp)
        /\ n \in Nat
    BY <1>1
  <2>2. x \in Byte /\ s \in Seq(Byte) /\ 3 \in Byte
    <3>1. EscapedAt(rbsp, n)
      BY <2>1, EscapedIsClear
    <3>2. s \in Seq(Byte)
      BY <3>1, Zenon DEF EscapedAt
    <3>3. x \in Byte
      BY <2>1
    <3> QED BY <3>2, <3>3 DEF Byte
  <2>3. t = IF EndsInZeros(s) /\ x <= 3 THEN s \o <<3, x>> ELSE Append(s, x)
    BY <2>1, EscapedIs
  <2>4. \A payload \in Seq(Byte) :
          Starts(s, payload) => StrippedPrefix(payload)[Len(s)] = SubSeq(rbsp, 1, n)
    BY <1>3 DEF StrippedBack
  <2>5. Append(SubSeq(rbsp, 1, n), x) = SubSeq(rbsp, 1, n + 1)
    <3>1. SubSeq(rbsp, 1, n + 1) = SubSeq(rbsp, 1, (n + 1) - 1) \o <<rbsp[n + 1]>>
      <4>1. 1 \in 1..Len(rbsp) /\ n + 1 \in 1..Len(rbsp)
        BY <2>1, <1>1
      <4> QED BY <4>1, SubSeqRecursiveSecond
    <3>2. SubSeq(rbsp, 1, n) \in Seq(Byte)
      <4>1. \A k \in 1..n : rbsp[k] \in Byte
        BY <2>1, <1>1
      <4> QED BY <4>1, <2>1, SubSeqProperties
    <3> QED BY <3>1, <3>2, <2>1, <2>2, AppendIsConcat
  <2> HIDE DEF s, t, x, e
  <2>6. ASSUME NEW payload \in Seq(Byte), Starts(t, payload)
        PROVE  StrippedPrefix(payload)[Len(t)] = SubSeq(rbsp, 1, n + 1)
    <3> DEFINE out == StrippedPrefix(payload)
    <3>1. CASE EndsInZeros(s) /\ x <= 3
      <4> DEFINE w == Append(s, 3)
      <4>1. t = Append(w, x) /\ w \in Seq(Byte) /\ Len(w) = Len(s) + 1
        BY <2>2, <2>3, <3>1, TwoAppends, AppendProperties
      <4>2. ~EndsInZeros(w)
        BY <2>2, EndsAppend
      <4> HIDE DEF w
      <4>3. Starts(w, payload) /\ out[Len(w) + 1] = Append(out[Len(w)], x)
        <5>1. Starts(Append(w, x), payload)
          BY <2>6, <4>1
        <5>2. ~(EndsInZeros(w) /\ x = 3)
          BY <4>2
        <5> HIDE DEF out
        <5>3. /\ Starts(w, payload)
              /\ StrippedPrefix(payload)[Len(w) + 1] =
                   IF EndsInZeros(w) /\ x = 3 THEN StrippedPrefix(payload)[Len(w)]
                   ELSE Append(StrippedPrefix(payload)[Len(w)], x)
          BY <2>2, <4>1, <5>1, StripByte
        <5> QED BY <5>2, <5>3 DEF out
      <4>4. Starts(s, payload) /\ out[Len(s) + 1] = out[Len(s)]
        <5>1. Starts(Append(s, 3), payload)
          BY <4>3 DEF w
        <5> QED BY <2>2, <3>1, <5>1, StripByte
      <4>5. out[Len(s)] = SubSeq(rbsp, 1, n)
        BY <2>4, <4>4
      <4>6. Len(t) = Len(w) + 1
        BY <2>2, <4>1, AppendProperties
      <4> HIDE DEF out
      <4> QED BY <2>5, <4>1, <4>3, <4>4, <4>5, <4>6 DEF out
    <3>2. CASE ~(EndsInZeros(s) /\ x <= 3)
      <4>1. t = Append(s, x) /\ Len(t) = Len(s) + 1
        BY <2>2, <2>3, <3>2, AppendProperties
      <4>2. ~(EndsInZeros(s) /\ x = 3)
        BY <3>2
      <4>3. Starts(s, payload) /\ out[Len(s) + 1] = Append(out[Len(s)], x)
        BY <2>2, <2>6, <4>1, <4>2, StripByte
      <4>4. out[Len(s)] = SubSeq(rbsp, 1, n)
        BY <2>4, <4>3
      <4> HIDE DEF out
      <4> QED BY <2>5, <4>1, <4>3, <4>4 DEF out
    <3> QED BY <3>1, <3>2
  <2>7. StrippedBack(rbsp, n + 1)
    BY <2>6, Zenon DEF StrippedBack, t, e
  <2> QED BY <2>1, <2>7
<1> HIDE DEF S
<1>4. \A n \in 0..Len(rbsp) : n \in S
  BY <1>1, <1>2, <1>3, BoundedInduction
<1> QED BY <1>4 DEF S

LEMMA EscapeStripsBack ==
  ASSUME NEW rbsp \in Seq(Byte)
  PROVE  StripEmulationPrevention(Escape(rbsp)) = rbsp
<1> DEFINE N == Len(rbsp)
           s == EscapedPrefix(rbsp)[N]
           t == Escape(rbsp)
<1>1. N \in Nat /\ N \in 0..N
  OBVIOUS
<1>2. s \in Seq(Byte) /\ 3 \in Byte
  <2>1. EscapedAt(rbsp, N)
    BY <1>1, EscapedIsClear
  <2>2. s \in Seq(Byte)
    BY <2>1, Zenon DEF EscapedAt
  <2> QED BY <2>2 DEF Byte
<1>3. t = IF EndsInZeros(s) THEN Append(s, 3) ELSE s
  BY DEF Escape
<1>4. SubSeq(rbsp, 1, N) = rbsp
  BY SubSeqFull
<1>5. \A payload \in Seq(Byte) :
        Starts(s, payload) => StrippedPrefix(payload)[Len(s)] = SubSeq(rbsp, 1, N)
  <2>1. StrippedBack(rbsp, N)
    BY <1>1, PrefixesStripBack
  <2> QED BY <2>1, Zenon DEF StrippedBack
<1> HIDE DEF N, s, t
<1>6. CASE EndsInZeros(s)
  <2>1. t = Append(s, 3) /\ t \in Seq(Byte) /\ Len(t) = Len(s) + 1
    BY <1>2, <1>3, <1>6, AppendProperties
  <2>2. Starts(Append(s, 3), t)
    BY <2>1, <1>2 DEF Starts
  <2>3. Starts(s, t) /\ StrippedPrefix(t)[Len(s) + 1] = StrippedPrefix(t)[Len(s)]
    BY <1>2, <1>6, <2>1, <2>2, StripByte
  <2> QED BY <1>4, <1>5, <2>1, <2>3 DEF StripEmulationPrevention, t
<1>7. CASE ~EndsInZeros(s)
  <2>1. t = s /\ Starts(s, t)
    BY <1>2, <1>3, <1>7 DEF Starts
  <2> QED BY <1>2, <1>4, <1>5, <2>1 DEF StripEmulationPrevention, t
<1> QED BY <1>6, <1>7

-----------------------------------------------------------------------------
(* What is framed, and where it lies in the stream.                        *)
UnitSet ==
  [header : 1..255, rbsp : {r \in Seq(0..255) : Legal(r)}, code : Nat \ 0..2, zeros : Nat]

LEMMA NalIs ==
  ASSUME NEW u \in UnitSet
  PROVE  /\ Nal(u) \in Seq(Byte) /\ Len(Nal(u)) \in Nat \ {0} /\ Clear(Nal(u))
         /\ Nal(u)[1] = u.header /\ Tail(Nal(u)) = Escape(u.rbsp)
         /\ Nal(u)[Len(Nal(u))] # 0
<1> DEFINE h == u.header
           e == Escape(u.rbsp)
           m == Len(e)
           nal == <<h>> \o e
<1>1. h \in 1..255 /\ u.rbsp \in Seq(Byte) /\ Legal(u.rbsp)
  BY DEF UnitSet, Byte
<1>2. h \in Byte /\ h # 0
  <2>1. \A c \in 1..255 : c \in Byte /\ c # 0
    BY DEF Byte
  <2> QED BY <2>1, <1>1
<1>3. /\ e \in Seq(Byte) /\ Clear(e)
      /\ u.rbsp # << >> => m > 0 /\ e[m] # 0
      /\ u.rbsp = << >> => e = << >>
  BY <1>1, EscapeIsClear
<1> HIDE DEF h, e
<1>4. m \in Nat
  BY <1>3
<1>5. nal \in Seq(Byte) /\ Len(nal) = m + 1 /\ nal[1] = h /\ \A k \in 1..m : nal[k + 1] = e[k]
  <2>1. <<h>> \in Seq(Byte) /\ Len(<<h>>) = 1 /\ <<h>>[1] = h
    BY <1>2
  <2>2. /\ nal \in Seq(Byte) /\ Len(nal) = 1 + m
        /\ \A k \in 1..(1 + m) : nal[k] = IF k <= 1 THEN <<h>>[k] ELSE e[k - 1]
    BY <2>1, <1>3, ConcatProperties
  <2>3. 1 \in 1..(1 + m) /\ \A k \in 1..m : k + 1 \in 1..(1 + m) /\ ~(k + 1 <= 1) /\ (k + 1) - 1 = k
    BY <1>4
  <2> HIDE DEF nal, m
  <2> QED BY <2>1, <2>2, <2>3, <1>4
<1>6. Tail(nal) = e
  <2>1. nal # << >> /\ Len(nal) - 1 = m
    BY <1>4, <1>5
  <2>2. /\ Tail(nal) \in Seq(Byte) /\ Len(Tail(nal)) = m
        /\ \A k \in 1..m : Tail(nal)[k] = nal[k + 1]
    BY <1>5, <2>1, HeadTailProperties
  <2> HIDE DEF nal
  <2> QED BY <2>2, <1>3, <1>5, SeqEqual
<1> HIDE DEF nal, m
<1>7. nal[Len(nal)] # 0
  <2>1. CASE u.rbsp = << >>
    <3>1. m = 0
      BY <2>1, <1>3 DEF m
    <3> QED BY <3>1, <1>2, <1>5
  <2>2. CASE u.rbsp # << >>
    <3>1. m \in 1..m
      BY <2>2, <1>3, <1>4
    <3>2. nal[m + 1] = e[m]
      BY <3>1, <1>5
    <3> QED BY <3>2, <2>2, <1>3, <1>5
  <2> QED BY <2>1, <2>2
<1>8. Clear(nal)
  <2> SUFFICES ASSUME NEW p \in 1..(m - 1),
                      nal[p] = 0, nal[p + 1] = 0, nal[p + 2] <= 2
               PROVE  FALSE
    <3>1. Len(nal) - 2 = m - 1
      BY <1>4, <1>5
    <3> QED BY <3>1 DEF Clear
  <2>1. CASE p = 1
    BY <2>1, <1>2, <1>5
  <2>2. CASE p # 1
    <3> DEFINE q == p - 1
    <3>1. q \in 1..(m - 2) /\ q \in 1..m /\ q + 1 \in 1..m /\ q + 2 \in 1..m
          /\ q + 1 = p /\ (q + 1) + 1 = p + 1 /\ (q + 2) + 1 = p + 2
      BY <2>2, <1>4
    <3> HIDE DEF q
    <3>2. e[q] = nal[p] /\ e[q + 1] = nal[p + 1] /\ e[q + 2] = nal[p + 2]
      <4>1. nal[q + 1] = e[q] /\ nal[(q + 1) + 1] = e[q + 1] /\ nal[(q + 2) + 1] = e[q + 2]
        BY <3>1, <1>5
      <4> QED BY <4>1, <3>1
    <3>3. ~(e[q] = 0 /\ e[q + 1] = 0 /\ e[q + 2] <= 2)
      BY <3>1, <1>3 DEF Clear, m
    <3> QED BY <3>2, <3>3
  <2> QED BY <2>1, <2>2
<1>9. Nal(u) = nal
  BY DEF Nal, nal, h, e
<1> QED BY <1>4, <1>5, <1>6, <1>7, <1>8, <1>9 DEF h, e

LEMMA ZerosIs ==
  ASSUME NEW n \in Nat
  PROVE  Zeros(n) \in Seq(Byte) /\ Len(Zeros(n)) = n /\ \A k \in 1..n : Zeros(n)[k] = 0
<1>1. \A k \in 1..n : 0 \in Byte
  BY DEF Byte
<1> QED BY <1>1 DEF Zeros

LEMMA Joined ==
  ASSUME NEW s \in Seq(Byte), NEW t \in Seq(Byte)
  PROVE  /\ s \o t \in Seq(Byte) /\ Len(s \o t) = Len(s) + Len(t)
         /\ \A k \in 1..(Len(s) + Len(t)) :
              (s \o t)[k] = IF k <= Len(s) THEN s[k] ELSE t[k - Len(s)]
BY ConcatProperties

(* The bytes of a framed unit.                                             *)
LEMMA FramedBytes ==
  ASSUME NEW u \in UnitSet
  PROVE  LET m == Len(Nal(u)) IN
           /\ u.code \in Nat \ 0..2 /\ u.zeros \in Nat /\ m \in Nat \ {0}
           /\ Framed(u) \in Seq(Byte) /\ Len(Framed(u)) = u.code + m + u.zeros
           /\ \A k \in 1..(u.code - 1) : Framed(u)[k] = 0
           /\ Framed(u)[u.code] = 1
           /\ \A k \in 1..m : Framed(u)[u.code + k] = Nal(u)[k]
           /\ \A k \in 1..u.zeros : Framed(u)[u.code + m + k] = 0
<1> DEFINE c == u.code
           z == u.zeros
           nal == Nal(u)
           m == Len(nal)
           lead == Zeros(c - 1)
           a == nal \o Zeros(z)
           b == <<1>> \o a
           f == lead \o b
<1>1. c \in Nat \ 0..2 /\ z \in Nat /\ c - 1 \in Nat
  BY DEF UnitSet
<1>2. nal \in Seq(Byte) /\ m \in Nat \ {0}
  BY NalIs
<1> HIDE DEF nal
<1>3. /\ a \in Seq(Byte) /\ Len(a) = m + z
      /\ \A k \in 1..m : a[k] = nal[k]
      /\ \A k \in 1..z : a[m + k] = 0
  <2>1. /\ a \in Seq(Byte) /\ Len(a) = m + z
        /\ \A k \in 1..(m + z) : a[k] = IF k <= m THEN nal[k] ELSE Zeros(z)[k - m]
    <3>1. Zeros(z) \in Seq(Byte) /\ Len(Zeros(z)) = z
      BY <1>1, ZerosIs
    <3> HIDE DEF z
    <3> QED BY <1>2, <3>1, ConcatProperties
  <2> HIDE DEF a, m, z
  <2>2. \A k \in 1..m : k \in 1..(m + z) /\ k <= m
    BY <1>1, <1>2
  <2>3. \A k \in 1..z : m + k \in 1..(m + z) /\ ~(m + k <= m) /\ (m + k) - m = k
    BY <1>1, <1>2
  <2>4. \A k \in 1..z : Zeros(z)[k] = 0
    BY <1>1, ZerosIs
  <2> QED BY <2>1, <2>2, <2>3, <2>4
<1> HIDE DEF a
<1>4. /\ b \in Seq(Byte) /\ Len(b) = 1 + (m + z) /\ b[1] = 1
      /\ \A k \in 1..(m + z) : b[1 + k] = a[k]
  <2>1. <<1>> \in Seq(Byte) /\ Len(<<1>>) = 1 /\ <<1>>[1] = 1
    BY DEF Byte
  <2>2. /\ b \in Seq(Byte) /\ Len(b) = 1 + (m + z)
        /\ \A k \in 1..(1 + (m + z)) : b[k] = IF k <= 1 THEN <<1>>[k] ELSE a[k - 1]
    BY <2>1, <1>3, ConcatProperties
  <2> HIDE DEF b, m, z
  <2>3. 1 \in 1..(1 + (m + z))
    BY <1>1, <1>2
  <2>4. \A k \in 1..(m + z) : 1 + k \in 1..(1 + (m + z)) /\ ~(1 + k <= 1) /\ (1 + k) - 1 = k
    BY <1>1, <1>2
  <2> QED BY <2>1, <2>2, <2>3, <2>4
<1> HIDE DEF b
<1>5. /\ f \in Seq(Byte) /\ Len(f) = c + m + z
      /\ \A k \in 1..(c - 1) : f[k] = 0
      /\ \A k \in 1..(1 + (m + z)) : f[(c - 1) + k] = b[k]
  <2>1. lead \in Seq(Byte) /\ Len(lead) = c - 1 /\ \A k \in 1..(c - 1) : lead[k] = 0
    BY <1>1, ZerosIs
  <2> HIDE DEF lead
  <2>2. /\ f \in Seq(Byte) /\ Len(f) = (c - 1) + (1 + (m + z))
        /\ \A k \in 1..((c - 1) + (1 + (m + z))) :
             f[k] = IF k <= c - 1 THEN lead[k] ELSE b[k - (c - 1)]
    <3>1. b \in Seq(Byte) /\ Len(b) = 1 + (m + z)
      BY <1>4
    <3>2. /\ f \in Seq(Byte) /\ Len(f) = Len(lead) + Len(b)
          /\ \A k \in 1..(Len(lead) + Len(b)) :
               f[k] = IF k <= Len(lead) THEN lead[k] ELSE b[k - Len(lead)]
      BY ONLY <2>1, <3>1, Joined
    <3> HIDE DEF f, m, z, c
    <3> QED BY ONLY <2>1, <3>1, <3>2
  <2> HIDE DEF f, m, z, c
  <2>3. (c - 1) + (1 + (m + z)) = c + m + z
    BY <1>1, <1>2
  <2>4. \A k \in 1..(c - 1) : k \in 1..((c - 1) + (1 + (m + z))) /\ k <= c - 1
    BY <1>1, <1>2
  <2>5. \A k \in 1..(1 + (m + z)) :
          /\ (c - 1) + k \in 1..((c - 1) + (1 + (m + z))) /\ ~((c - 1) + k <= c - 1)
          /\ ((c - 1) + k) - (c - 1) = k
    BY <1>1, <1>2
  <2>6. \A k \in 1..(c - 1) : f[k] = 0
    BY <2>1, <2>2, <2>4
  <2>7. \A k \in 1..(1 + (m + z)) : f[(c - 1) + k] = b[k]
    BY <2>2, <2>5
  <2> QED BY <2>2, <2>3, <2>6, <2>7
<1> HIDE DEF f, m, c, z
<1>6. f[c] = 1
  <2>1. 1 \in 1..(1 + (m + z)) /\ (c - 1) + 1 = c
    BY <1>1, <1>2
  <2>2. f[(c - 1) + 1] = b[1]
    BY <2>1, <1>5
  <2> QED BY <2>1, <2>2, <1>4
<1>7. ASSUME NEW k \in 1..(m + z) PROVE f[c + k] = a[k]
  <2>1. 1 + k \in 1..(1 + (m + z)) /\ (c - 1) + (1 + k) = c + k
    BY <1>1, <1>2
  <2>2. f[(c - 1) + (1 + k)] = b[1 + k]
    BY <2>1, <1>5
  <2> QED BY <2>1, <2>2, <1>4
<1>8. ASSUME NEW k \in 1..m PROVE f[c + k] = nal[k]
  <2>1. k \in 1..(m + z)
    BY <1>1, <1>2
  <2> QED BY <2>1, <1>3, <1>7
<1>9. ASSUME NEW k \in 1..z PROVE f[c + m + k] = 0
  <2>1. m + k \in 1..(m + z) /\ c + (m + k) = c + m + k
    BY <1>1, <1>2
  <2>2. f[c + (m + k)] = a[m + k]
    BY <2>1, <1>7
  <2> QED BY <2>1, <2>2, <1>3
<1>10. Framed(u) = f
  BY DEF Framed, f, lead, b, a, nal, c, z
<1> QED BY <1>1, <1>2, <1>5, <1>6, <1>8, <1>9, <1>10 DEF m, nal, c, z

-----------------------------------------------------------------------------
(* Where the k-th unit of us begins in their stream, and where it is past. *)
First(us, k) == Len(FramedPrefix(us)[k - 1]) + us[k].code + 1
Past(us, k) == IF k = 0 THEN 1 ELSE First(us, k) + Len(Nal(us[k]))

(* It lies behind zeros and a one.                                         *)
UnitAt(us, s, k) ==
  /\ Past(us, k - 1) \in Nat \ {0} /\ First(us, k) \in Nat
  /\ Past(us, k - 1) + 3 <= First(us, k) /\ Past(us, k) <= Len(s) + 1
  /\ \A j \in Past(us, k - 1)..(First(us, k) - 2) : s[j] = 0
  /\ s[First(us, k) - 1] = 1
  /\ \A j \in 1..Len(Nal(us[k])) : s[First(us, k) + j - 1] = Nal(us[k])[j]

(* And nothing but zeros behind the last.                                  *)
LaidOut(us, s, n) ==
  /\ s \in Seq(Byte) /\ Past(us, n) \in 1..(Len(s) + 1)
  /\ \A k \in 1..n : UnitAt(us, s, k)
  /\ \A j \in Past(us, n)..Len(s) : s[j] = 0

LEMMA PastIs ==
  ASSUME NEW us, NEW k \in Nat \ {0}
  PROVE  Past(us, k) = First(us, k) + Len(Nal(us[k]))
BY DEF Past

(* A unit stays where it is when more bytes follow.                        *)
LEMMA UnitStays ==
  ASSUME NEW us, NEW s \in Seq(Byte), NEW f \in Seq(Byte), NEW k \in Nat \ {0},
         us[k] \in UnitSet, UnitAt(us, s, k)
  PROVE  UnitAt(us, s \o f, k)
<1> DEFINE m == Len(Nal(us[k]))
           a == First(us, k)
           p == Past(us, k - 1)
           t == s \o f
<1>1. m \in Nat \ {0}
  BY NalIs
<1>2. /\ p \in Nat \ {0} /\ a \in Nat /\ p + 3 <= a /\ Past(us, k) = a + m
      /\ a + m <= Len(s) + 1
      /\ \A j \in p..(a - 2) : s[j] = 0
      /\ s[a - 1] = 1
      /\ \A j \in 1..m : s[a + j - 1] = Nal(us[k])[j]
  BY PastIs DEF UnitAt
<1>3. /\ t \in Seq(Byte) /\ Len(t) = Len(s) + Len(f) /\ Len(s) \in Nat /\ Len(f) \in Nat
      /\ \A j \in 1..Len(s) : t[j] = s[j]
  BY ConcatProperties
<1> HIDE DEF m, a, p, t
<1>4. a + m <= Len(t) + 1
  BY <1>1, <1>2, <1>3
<1>5. ASSUME NEW j \in p..(a - 2) PROVE t[j] = 0
  <2>1. j \in 1..Len(s)
    BY <1>1, <1>2, <1>3
  <2> QED BY <2>1, <1>2, <1>3
<1>6. t[a - 1] = 1
  <2>1. a - 1 \in 1..Len(s)
    BY <1>1, <1>2, <1>3
  <2> QED BY <2>1, <1>2, <1>3
<1>7. ASSUME NEW j \in 1..m PROVE t[a + j - 1] = Nal(us[k])[j]
  <2>1. a + j - 1 \in 1..Len(s)
    BY <1>1, <1>2, <1>3
  <2> QED BY <2>1, <1>2, <1>3
<1> QED BY <1>2, <1>4, <1>5, <1>6, <1>7 DEF UnitAt, m, a, p, t

LEMMA LaysOut ==
  ASSUME NEW us \in Seq(UnitSet), NEW n \in 1..Len(us),
         LaidOut(us, FramedPrefix(us)[n - 1], n - 1)
  PROVE  LaidOut(us, FramedPrefix(us)[n], n)
<1> DEFINE s == FramedPrefix(us)[n - 1]
           f == Framed(us[n])
           t == FramedPrefix(us)[n]
           c == us[n].code
           m == Len(Nal(us[n]))
           z == us[n].zeros
           L == Len(s)
           p == Past(us, n - 1)
           a == First(us, n)
<1>1. us[n] \in UnitSet /\ n \in Nat \ {0} /\ Len(us) \in Nat
  OBVIOUS
<1>2. /\ c \in Nat \ 0..2 /\ z \in Nat /\ m \in Nat \ {0}
      /\ f \in Seq(Byte) /\ Len(f) = c + m + z
      /\ \A k \in 1..(c - 1) : f[k] = 0
      /\ f[c] = 1
      /\ \A k \in 1..m : f[c + k] = Nal(us[n])[k]
      /\ \A k \in 1..z : f[c + m + k] = 0
  BY <1>1, FramedBytes
<1>3. t = s \o f
  BY <1>1, FramedIs
<1>4. /\ s \in Seq(Byte) /\ p \in 1..(L + 1) /\ \A j \in p..L : s[j] = 0
      /\ \A k \in 1..(n - 1) : UnitAt(us, s, k)
  BY DEF LaidOut
<1>5. L \in Nat
  BY <1>4
<1>6. a = L + c + 1 /\ Past(us, n) = a + m
  BY <1>1, PastIs DEF First
<1>7. ASSUME NEW k \in 1..(n - 1) PROVE UnitAt(us, t, k)
  <2>1. k \in Nat \ {0} /\ k \in 1..Len(us)
    BY <1>1
  <2>2. us[k] \in UnitSet
    BY <2>1
  <2> HIDE DEF t, s, f
  <2> QED BY <2>1, <2>2, <1>2, <1>3, <1>4, <1>7, UnitStays
<1> HIDE DEF f, t, s, c, m, z
<1>8. /\ t \in Seq(Byte) /\ Len(t) = L + Len(f)
      /\ \A j \in 1..(L + Len(f)) : t[j] = IF j <= L THEN s[j] ELSE f[j - L]
  <2>1. s \in Seq(Byte) /\ f \in Seq(Byte)
    BY <1>2, <1>4
  <2> QED BY ONLY <2>1, <1>3, ConcatProperties
<1> HIDE DEF L, p, a
<1>9. Len(t) = L + c + m + z
  BY <1>2, <1>5, <1>8
<1>10. ASSUME NEW j \in p..L PROVE t[j] = 0
  <2>1. j \in 1..(L + Len(f)) /\ j <= L
    BY <1>2, <1>4, <1>5
  <2> QED BY <2>1, <1>4, <1>8
<1>11. ASSUME NEW k \in 1..(c + m + z) PROVE t[L + k] = f[k]
  <2>1. L + k \in 1..(L + Len(f)) /\ ~(L + k <= L) /\ (L + k) - L = k
    BY <1>2, <1>5
  <2> QED BY <2>1, <1>8
<1>12. ASSUME NEW j \in p..(a - 2) PROVE t[j] = 0
  <2>1. CASE j <= L
    <3>1. j \in p..L
      BY <2>1, <1>4, <1>5
    <3> QED BY <3>1, <1>10
  <2>2. CASE ~(j <= L)
    <3>1. j - L \in 1..(c - 1) /\ j - L \in 1..(c + m + z) /\ L + (j - L) = j
      BY <2>2, <1>2, <1>4, <1>5, <1>6
    <3>2. t[L + (j - L)] = f[j - L] /\ f[j - L] = 0
      BY <3>1, <1>2, <1>11
    <3> QED BY <3>1, <3>2
  <2> QED BY <2>1, <2>2
<1>13. t[a - 1] = 1
  <2>1. c \in 1..(c + m + z) /\ L + c = a - 1
    BY <1>2, <1>5, <1>6
  <2> QED BY <2>1, <1>2, <1>11
<1>14. ASSUME NEW j \in 1..m PROVE t[a + j - 1] = Nal(us[n])[j]
  <2>1. c + j \in 1..(c + m + z) /\ L + (c + j) = a + j - 1
    BY <1>2, <1>5, <1>6
  <2>2. t[L + (c + j)] = f[c + j]
    BY <2>1, <1>11
  <2> QED BY <2>1, <2>2, <1>2
<1>15. ASSUME NEW j \in (a + m)..Len(t) PROVE t[j] = 0
  <2>1. /\ j - L - c - m \in 1..z /\ c + m + (j - L - c - m) \in 1..(c + m + z)
        /\ L + (c + m + (j - L - c - m)) = j
    BY <1>2, <1>5, <1>6, <1>9
  <2>2. t[L + (c + m + (j - L - c - m))] = f[c + m + (j - L - c - m)]
    BY <2>1, <1>11
  <2> QED BY <2>1, <2>2, <1>2
<1>16. UnitAt(us, t, n)
  <2>1. p \in Nat \ {0} /\ a \in Nat /\ p + 3 <= a /\ a + m <= Len(t) + 1
    BY <1>2, <1>4, <1>5, <1>6, <1>9
  <2> QED BY <2>1, <1>6, <1>12, <1>13, <1>14 DEF UnitAt, p, a, m
<1>17. a + m \in 1..(Len(t) + 1)
  BY <1>2, <1>5, <1>6, <1>9
<1>18. ASSUME NEW k \in 1..n PROVE UnitAt(us, t, k)
  <2>1. k = n \/ k \in 1..(n - 1)
    BY <1>1
  <2> QED BY <2>1, <1>7, <1>16
<1>19. LaidOut(us, t, n)
  BY <1>6, <1>8, <1>15, <1>17, <1>18 DEF LaidOut
<1> QED BY <1>19 DEF t

LEMMA StreamIsLaidOut ==
  ASSUME NEW us \in Seq(UnitSet)
  PROVE  LaidOut(us, ByteStream(us), Len(us))
<1> DEFINE S == {n \in 0..Len(us) : LaidOut(us, FramedPrefix(us)[n], n)}
<1>1. Len(us) \in Nat
  OBVIOUS
<1>2. 0 \in S
  <2>1. FramedPrefix(us)[0] = << >>
    BY <1>1, FramedIs
  <2>2. << >> \in Seq(Byte) /\ Past(us, 0) = 1 /\ Len(<< >>) = 0 /\ 1 \in 1..(0 + 1)
    BY DEF Past
  <2>3. LaidOut(us, << >>, 0)
    BY <2>2 DEF LaidOut
  <2> QED BY <1>1, <2>1, <2>3
<1>3. ASSUME NEW n \in 0..(Len(us) - 1), n \in S PROVE n + 1 \in S
  <2>1. n + 1 \in 1..Len(us) /\ n + 1 \in 0..Len(us) /\ (n + 1) - 1 = n
    BY <1>1
  <2>2. LaidOut(us, FramedPrefix(us)[n + 1], n + 1)
    BY <2>1, <1>3, LaysOut
  <2> QED BY <2>1, <2>2
<1> HIDE DEF S
<1>4. \A n \in 0..Len(us) : n \in S
  BY <1>1, <1>2, <1>3, BoundedInduction
<1>5. Len(us) \in S
  BY <1>1, <1>4
<1> QED BY <1>5 DEF S, ByteStream

(* The start code in front of a unit.                                      *)
LEMMA CodeBefore ==
  ASSUME NEW s \in Seq(Byte), NEW p \in Nat \ {0}, NEW q \in Nat, p + 3 <= q, q <= Len(s) + 1,
         \A j \in p..(q - 2) : s[j] = 0, s[q - 1] = 1,
         NEW from \in p..(q - 3)
  PROVE  /\ q - 3 \in StartCodes(s, from)
         /\ StartCodes(s, from) # {} /\ FindStartCode(s, from).after = q
<1> DEFINE code == FindStartCode(s, from)
           b == code.start
<1>0. Len(s) \in Nat /\ from \in Nat \ {0}
  OBVIOUS
<1>1. q - 3 \in p..(q - 2) /\ q - 2 \in p..(q - 2) /\ q - 3 \in Nat \ {0}
      /\ (q - 3) + 1 = q - 2 /\ (q - 3) + 2 = q - 1 /\ q - 1 <= Len(s)
  BY <1>0
<1>2. ThreeByteAt(s, q - 3)
  <2>1. s[q - 3] = 0 /\ s[q - 2] = 0
    BY <1>1
  <2> QED BY <1>1, <2>1, ThreeBytes
<1>3. q - 3 \in StartCodes(s, from)
  <2>1. q - 3 \in from..Len(s)
    BY <1>0, <1>1
  <2> QED BY <2>1, <1>2 DEF StartCodes, Codes
<1>4. /\ b \in StartCodes(s, from) /\ b \in from..Len(s)
      /\ b <= q - 3
      /\ code.after = IF ThreeByteAt(s, b) THEN b + 3 ELSE b + 4
  BY <1>0, <1>3, FirstCode
<1>5. ThreeByteAt(s, b) \/ FourByteAt(s, b)
  BY <1>4 DEF StartCodes, Codes
<1> HIDE DEF b
<1>6. b \in Nat \ {0} /\ p <= b
  BY <1>0, <1>4
<1>7. CASE ThreeByteAt(s, b)
  <2>1. s[b + 2] = 1
    BY <1>6, <1>7, ThreeBytes
  <2>2. ~(b + 2 \in p..(q - 2))
    BY <2>1
  <2>3. b + 3 = q
    BY <2>2, <1>4, <1>6
  <2> QED BY <2>3, <1>3, <1>4, <1>7
<1>8. CASE ~ThreeByteAt(s, b)
  <2>1. s[b + 3] = 1
    BY <1>5, <1>6, <1>8, FourBytes
  <2>2. ~(b + 3 \in p..(q - 2))
    BY <2>1
  <2>3. b # q - 3
    BY <1>2, <1>8
  <2>4. b + 4 = q
    BY <2>2, <2>3, <1>4, <1>6
  <2> QED BY <2>4, <1>3, <1>4, <1>8
<1> QED BY <1>7, <1>8

(* There is none in a unit, ...                                            *)
LEMMA NoCodeWithin ==
  ASSUME NEW s \in Seq(Byte), NEW nal \in Seq(Byte), Clear(nal), nal # << >>,
         nal[Len(nal)] # 0, NEW a \in Nat \ {0},
         \A j \in 1..Len(nal) : s[a + j - 1] = nal[j],
         NEW b \in a..(a + Len(nal) - 1)
  PROVE  ~ThreeByteAt(s, b) /\ ~FourByteAt(s, b)
<1> DEFINE m == Len(nal)
           j == b - a + 1
<1>1. m \in Nat \ {0} /\ j \in 1..m /\ a + j - 1 = b /\ b \in Nat \ {0}
  OBVIOUS
<1>2. \A k \in 1..(m - 2) : ~(nal[k] = 0 /\ nal[k + 1] = 0 /\ nal[k + 2] <= 2)
  BY DEF Clear
<1> HIDE DEF m, j
<1>3. ASSUME s[b] = 0, s[b + 1] = 0, s[b + 2] = 0 \/ s[b + 2] = 1 PROVE FALSE
  <2>1. s[a + j - 1] = nal[j]
    BY <1>1 DEF m
  <2>2. j # m
    <3>1. nal[j] = 0
      BY <2>1, <1>1, <1>3
    <3> QED BY <3>1 DEF m
  <2>3. j + 1 \in 1..m /\ a + (j + 1) - 1 = b + 1
    BY <2>2, <1>1
  <2>4. s[a + (j + 1) - 1] = nal[j + 1]
    BY <2>3 DEF m
  <2>5. j + 1 # m
    <3>1. nal[j + 1] = 0
      BY <2>4, <2>3, <1>3
    <3> QED BY <3>1 DEF m
  <2>6. j \in 1..(m - 2) /\ j + 2 \in 1..m /\ a + (j + 2) - 1 = b + 2
    BY <2>2, <2>3, <2>5, <1>1
  <2>7. s[a + (j + 2) - 1] = nal[j + 2]
    BY <2>6 DEF m
  <2>8. nal[j] = 0 /\ nal[j + 1] = 0
    BY <2>1, <2>3, <2>4, <1>1, <1>3
  <2>9. nal[j + 2] <= 2
    <3>1. nal[j + 2] = 0 \/ nal[j + 2] = 1
      BY <2>6, <2>7, <1>3
    <3> QED BY <3>1
  <2> QED BY <2>6, <2>8, <2>9, <1>2
<1>4. ThreeByteAt(s, b) => s[b] = 0 /\ s[b + 1] = 0 /\ s[b + 2] = 1
  BY <1>1, ThreeBytes
<1>5. FourByteAt(s, b) => s[b] = 0 /\ s[b + 1] = 0 /\ s[b + 2] = 0
  BY <1>1, FourBytes
<1> QED BY <1>3, <1>4, <1>5

(* ... nor in the zeros at the end.                                        *)
LEMMA NoCodeInZeros ==
  ASSUME NEW s \in Seq(Byte), NEW p \in Nat \ {0}, \A j \in p..Len(s) : s[j] = 0,
         NEW b \in p..Len(s)
  PROVE  ~ThreeByteAt(s, b) /\ ~FourByteAt(s, b)
<1>1. b \in Nat \ {0} /\ Len(s) \in Nat
  OBVIOUS
<1>2. ASSUME ThreeByteAt(s, b) PROVE FALSE
  <2>1. b + 2 <= Len(s) /\ s[b + 2] = 1
    BY <1>1, <1>2, ThreeBytes
  <2>2. b + 2 \in p..Len(s)
    BY <2>1, <1>1
  <2> QED BY <2>1, <2>2
<1>3. ASSUME FourByteAt(s, b) PROVE FALSE
  <2>1. b + 3 <= Len(s) /\ s[b + 3] = 1
    BY <1>1, <1>3, FourBytes
  <2>2. b + 3 \in p..Len(s)
    BY <2>1, <1>1
  <2> QED BY <2>1, <2>2
<1> QED BY <1>2, <1>3

(* The walk between two units of a framed stream reads the second.         *)
LEMMA UnitRead ==
  ASSUME sent \in Seq(UnitSet), stream = ByteStream(sent), NEW n \in 1..Len(sent),
         nal_pos \in Past(sent, n - 1)..(First(sent, n) - 3)
  PROVE  /\ StartCodes(stream, nal_pos) # {} /\ NalUnit = Nal(sent[n])
         /\ nal_pos \in 1..(Len(stream) + 1)
         /\ PayloadEnd \in Past(sent, n)..(Len(stream) + 1)
         /\ n < Len(sent) => PayloadEnd <= First(sent, n + 1) - 3
<1> DEFINE N == Len(sent)
           L == Len(stream)
           nal == Nal(sent[n])
           m == Len(nal)
           p == Past(sent, n - 1)
           a == First(sent, n)
           e == Past(sent, n)
           to == PayloadEnd
<1>1. N \in Nat /\ n \in Nat \ {0} /\ sent[n] \in UnitSet
  OBVIOUS
<1>2. LaidOut(sent, stream, N)
  BY StreamIsLaidOut
<1>3. /\ stream \in Seq(Byte) /\ \A k \in 1..N : UnitAt(sent, stream, k)
      /\ \A j \in Past(sent, N)..L : stream[j] = 0
  BY <1>2 DEF LaidOut
<1>4. /\ nal \in Seq(Byte) /\ m \in Nat \ {0} /\ Clear(nal) /\ nal[m] # 0
  BY <1>1, NalIs
<1> HIDE DEF nal
<1>5. L \in Nat
  BY <1>3
<1>6. /\ p \in Nat \ {0} /\ a \in Nat /\ p + 3 <= a /\ e = a + m /\ a + m <= L + 1
      /\ \A j \in p..(a - 2) : stream[j] = 0
      /\ stream[a - 1] = 1
      /\ \A j \in 1..m : stream[a + j - 1] = nal[j]
  BY <1>1, <1>3, PastIs DEF UnitAt, nal
<1>7. nal_pos \in p..(a - 3) /\ nal_pos \in 1..(L + 1)
  <2>1. nal_pos \in p..(a - 3)
    OBVIOUS
  <2> HIDE DEF p, a
  <2> QED BY <2>1, <1>4, <1>5, <1>6
<1> HIDE DEF N, L, m, p, a, e
<1>8. StartCodes(stream, nal_pos) # {} /\ PayloadStart = a
  <2>1. a <= Len(stream) + 1
    BY <1>4, <1>5, <1>6 DEF L
  <2>2. /\ stream \in Seq(Byte) /\ p \in Nat \ {0} /\ a \in Nat /\ p + 3 <= a
        /\ (\A j \in p..(a - 2) : stream[j] = 0) /\ stream[a - 1] = 1
        /\ nal_pos \in p..(a - 3)
    BY <1>3, <1>6, <1>7
  <2>3. StartCodes(stream, nal_pos) # {} /\ FindStartCode(stream, nal_pos).after = a
    <3>1. \A from \in p..(a - 3) :
            StartCodes(stream, from) # {} /\ FindStartCode(stream, from).after = a
      <4> SUFFICES ASSUME NEW from \in p..(a - 3)
                   PROVE  StartCodes(stream, from) # {} /\ FindStartCode(stream, from).after = a
        OBVIOUS
      <4> QED BY ONLY <2>1, <2>2, from \in p..(a - 3), CodeBefore
    <3> QED BY ONLY <2>2, <3>1
  <2> QED BY <2>3 DEF PayloadStart
<1>9. /\ to \in a..(L + 1)
      /\ \A j \in StartCodes(stream, a) : to <= j
      /\ NalUnit # << >> => \E last \in a..(to - 1) :
           /\ NalUnit = SubSeq(stream, a, last) /\ stream[last] # 0
           /\ \A j \in a..(to - 1) : stream[j] # 0 => j <= last
      /\ NalUnit = << >> => \A j \in a..(to - 1) : stream[j] = 0
  BY <1>3, <1>7, <1>8, UnitIsNal DEF L
<1>10. to = L + 1 \/ to \in StartCodes(stream, a)
  <2>1. CASE StartCodes(stream, a) = {}
    BY <2>1, <1>8 DEF PayloadEnd, L
  <2>2. CASE StartCodes(stream, a) # {}
    <3>1. a \in Nat \ {0}
      BY <1>6
    <3>2. FindStartCode(stream, a).start \in StartCodes(stream, a)
      BY <2>2, <3>1, <1>3, FirstCode
    <3> QED BY <2>2, <3>2, <1>8 DEF PayloadEnd
  <2> QED BY <2>1, <2>2
<1> HIDE DEF to
<1>11. to \in e..(L + 1)
  <2>1. CASE to = L + 1
    BY <2>1, <1>4, <1>5, <1>6
  <2>2. CASE to \in StartCodes(stream, a)
    <3>1. ThreeByteAt(stream, to) \/ FourByteAt(stream, to)
      BY <2>2 DEF StartCodes, Codes
    <3>2. a \in Nat \ {0} /\ nal # << >> /\ nal[Len(nal)] # 0
      <4>1. nal # << >> /\ nal[Len(nal)] # 0
        BY <1>4 DEF m
      <4> QED BY <4>1, <1>6
    <3>3. \A b \in a..(a + Len(nal) - 1) : ~ThreeByteAt(stream, b) /\ ~FourByteAt(stream, b)
      BY <3>2, <1>3, <1>4, <1>6, NoCodeWithin DEF m
    <3>4. ~(to \in a..(a + m - 1))
      BY <3>1, <3>3 DEF m
    <3> QED BY <3>4, <1>4, <1>5, <1>6, <1>9
  <2> QED BY <2>1, <2>2, <1>10
<1>12. ASSUME n < N PROVE to <= First(sent, n + 1) - 3
  <2> DEFINE q == First(sent, n + 1)
  <2>1. n + 1 \in 1..N /\ (n + 1) - 1 = n
    BY <1>1, <1>12
  <2>2. UnitAt(sent, stream, n + 1)
    BY <2>1, <1>3
  <2>3. /\ e \in Nat \ {0} /\ q \in Nat /\ e + 3 <= q /\ Past(sent, n + 1) <= L + 1
        /\ \A j \in e..(q - 2) : stream[j] = 0
        /\ stream[q - 1] = 1
    BY <2>1, <2>2 DEF UnitAt, e, L
  <2>4. q <= L + 1
    <3>1. Past(sent, n + 1) = q + Len(Nal(sent[n + 1]))
      BY <1>1, PastIs
    <3>2. sent[n + 1] \in UnitSet
      BY <2>1 DEF N
    <3>3. Len(Nal(sent[n + 1])) \in Nat \ {0}
      BY <3>2, NalIs
    <3> HIDE DEF q
    <3> QED BY <3>1, <3>3, <2>3, <1>5
  <2> HIDE DEF q
  <2>5. e \in e..(q - 3)
    BY <2>3
  <2>6. q - 3 \in StartCodes(stream, e)
    BY <2>3, <2>4, <2>5, <1>3, CodeBefore DEF L
  <2>7. q - 3 \in StartCodes(stream, a)
    <3>1. q - 3 \in a..Len(stream)
      BY <2>3, <2>4, <1>4, <1>5, <1>6 DEF L
    <3> QED BY <3>1, <2>6 DEF StartCodes, Codes
  <2> QED BY <2>7, <1>9 DEF q
<1>13. ASSUME NEW j \in e..(to - 1) PROVE stream[j] = 0
  <2>1. CASE n < N
    <3>1. UnitAt(sent, stream, n + 1) /\ (n + 1) - 1 = n
      <4>1. n + 1 \in 1..N
        BY <2>1, <1>1
      <4> QED BY <4>1, <1>1, <1>3
    <3>2. \A b \in e..(First(sent, n + 1) - 2) : stream[b] = 0
      BY <3>1 DEF UnitAt, e
    <3>3. First(sent, n + 1) \in Nat
      BY <3>1 DEF UnitAt
    <3>4. j \in e..(First(sent, n + 1) - 2)
      BY <3>3, <2>1, <1>4, <1>5, <1>6, <1>11, <1>12
    <3> QED BY <3>2, <3>4
  <2>2. CASE ~(n < N)
    <3>1. n = N
      <4>1. n <= N
        BY DEF N
      <4> QED BY <4>1, <2>2, <1>1
    <3>2. j \in e..L
      BY <1>4, <1>5, <1>6, <1>11
    <3>3. \A b \in e..L : stream[b] = 0
      BY <3>1, <1>3 DEF e
    <3> QED BY <3>2, <3>3
  <2> QED BY <2>1, <2>2
<1>14. stream[e - 1] # 0 /\ e - 1 \in a..(to - 1)
  <2>1. m \in 1..m /\ a + m - 1 = e - 1 /\ e - 1 \in a..(to - 1)
    BY <1>4, <1>5, <1>6, <1>11
  <2>2. stream[a + m - 1] = nal[m]
    BY <2>1, <1>6
  <2> QED BY <2>1, <2>2, <1>4
<1>15. NalUnit = SubSeq(stream, a, e - 1)
  <2>1. PICK last \in a..(to - 1) :
          /\ NalUnit = SubSeq(stream, a, last) /\ stream[last] # 0
          /\ \A j \in a..(to - 1) : stream[j] # 0 => j <= last
    BY <1>9, <1>14
  <2>2. e - 1 <= last
    BY <2>1, <1>14
  <2>3. ~(last \in e..(to - 1))
    BY <2>1, <1>13
  <2>4. last = e - 1
    BY <2>2, <2>3, <1>4, <1>5, <1>6, <1>11
  <2> QED BY <2>1, <2>4
<1>16. SubSeq(stream, a, e - 1) = nal
  <2> DEFINE w == SubSeq(stream, a, e - 1)
  <2>1. \A j \in a..(e - 1) : stream[j] \in Byte
    <3>1. \A j \in a..(e - 1) : j \in 1..Len(stream)
      BY <1>4, <1>5, <1>6 DEF L
    <3> QED BY <3>1, <1>3
  <2>2. a \in Int /\ e - 1 \in Int /\ a <= e - 1 /\ (e - 1) - a + 1 = m
    BY <1>4, <1>6
  <2>3. /\ w \in Seq(Byte) /\ Len(w) = m
        /\ \A j \in 1..m : w[j] = stream[a + j - 1]
    <3>1. /\ w \in Seq(Byte)
          /\ Len(w) = IF a <= e - 1 THEN (e - 1) - a + 1 ELSE 0
          /\ \A j \in 1..((e - 1) - a + 1) : w[j] = stream[a + j - 1]
      BY <2>1, <2>2, SubSeqProperties
    <3> HIDE DEF w
    <3> QED BY <3>1, <2>2
  <2> HIDE DEF w
  <2>4. Len(nal) = m /\ \A j \in 1..m : w[j] = nal[j]
    BY <2>3, <1>6 DEF m
  <2>5. w = nal
    BY <2>3, <2>4, <1>4, SeqEqual
  <2> QED BY <2>5 DEF w
<1> QED BY <1>7, <1>8, <1>11, <1>12, <1>15, <1>16 DEF nal, e, to, N, L

-----------------------------------------------------------------------------
(* How far the walk of a framed stream has come.                           *)
WalkedSent ==
  framed =>
    /\ sent \in Seq(UnitSet) /\ stream = ByteStream(sent)
    /\ Len(units) <= Len(sent)
    /\ \A k \in DOMAIN units : Recovered(k)
    /\ Past(sent, Len(units)) <= nal_pos
    /\ Len(units) < Len(sent) => nal_pos <= First(sent, Len(units) + 1) - 3

(* Behind the last unit there is no start code.                            *)
LEMMA NoneAfterLast ==
  ASSUME sent \in Seq(UnitSet), stream = ByteStream(sent), nal_pos \in Nat,
         Past(sent, Len(sent)) <= nal_pos
  PROVE  StartCodes(stream, nal_pos) = {}
<1> DEFINE p == Past(sent, Len(sent))
<1>1. LaidOut(sent, stream, Len(sent))
  BY StreamIsLaidOut
<1>2. stream \in Seq(Byte) /\ p \in 1..(Len(stream) + 1) /\ \A j \in p..Len(stream) : stream[j] = 0
  BY <1>1 DEF LaidOut
<1>3. p \in Nat \ {0} /\ p <= nal_pos
  BY <1>2
<1> HIDE DEF p
<1>4. \A b \in p..Len(stream) : ~ThreeByteAt(stream, b) /\ ~FourByteAt(stream, b)
  BY <1>2, <1>3, NoCodeInZeros
<1>5. \A b \in nal_pos..Len(stream) : b \in p..Len(stream)
  BY <1>2, <1>3
<1> QED BY <1>4, <1>5 DEF StartCodes, Codes

LEMMA WalkedRecovers == FramerTypeOK /\ WalkedSent => UnitsRecovered
<1> SUFFICES ASSUME FramerTypeOK, WalkedSent, framed PROVE UnitsRecovered
  BY DEF UnitsRecovered
<1>1. /\ sent \in Seq(UnitSet) /\ stream = ByteStream(sent)
      /\ Len(units) <= Len(sent)
      /\ \A k \in DOMAIN units : Recovered(k)
      /\ Past(sent, Len(units)) <= nal_pos
      /\ Len(units) < Len(sent) => nal_pos <= First(sent, Len(units) + 1) - 3
  BY DEF WalkedSent
<1>2. Len(units) \in Nat /\ Len(sent) \in Nat
  <2>1. Len(units) \in Nat
    BY DEF FramerTypeOK
  <2> QED BY <2>1, <1>1
<1>3. ASSUME Len(units) # Len(sent) PROVE StartCodes(stream, nal_pos) # {}
  <2> DEFINE n == Len(units) + 1
  <2>1. n \in 1..Len(sent) /\ n - 1 = Len(units) /\ Len(units) < Len(sent)
    BY <1>1, <1>2, <1>3
  <2>2. nal_pos \in Past(sent, n - 1)..(First(sent, n) - 3)
    <3>1. sent[n] \in UnitSet
      BY <2>1, <1>1
    <3>2. LaidOut(sent, stream, Len(sent))
      BY <1>1, StreamIsLaidOut
    <3>3. Past(sent, n - 1) \in Nat /\ First(sent, n) \in Nat
      BY <2>1, <3>2 DEF LaidOut, UnitAt
    <3>4. nal_pos \in Nat
      BY DEF FramerTypeOK
    <3>5. Past(sent, n - 1) <= nal_pos /\ nal_pos <= First(sent, n) - 3
      BY <2>1, <1>1
    <3> HIDE DEF n
    <3> QED BY <3>3, <3>4, <3>5
  <2> HIDE DEF n
  <2> QED BY <2>1, <2>2, <1>1, UnitRead
<1> QED BY <1>1, <1>3 DEF UnitsRecovered

LEMMA WalkedNext ==
  ASSUME WalkInv, WalkedSent, NextUnit
  PROVE  WalkedSent'
<1> DEFINE N == Len(sent)
           k == Len(units)
           n == k + 1
           rbsp == StripEmulationPrevention(Tail(NalUnit))
           u == [nal |-> NalUnit, rbsp |-> rbsp]
<1>1. /\ StartCodes(stream, nal_pos) # {}
      /\ nal_pos' = PayloadEnd /\ units' = Append(units, u)
      /\ stream' = stream /\ sent' = sent /\ framed' = framed
  BY DEF NextUnit, Resume, framerInput
<1> SUFFICES ASSUME framed PROVE WalkedSent'
  BY <1>1 DEF WalkedSent
<1>2. /\ sent \in Seq(UnitSet) /\ stream = ByteStream(sent) /\ k <= N
      /\ \A j \in DOMAIN units : Recovered(j)
      /\ Past(sent, k) <= nal_pos
      /\ k < N => nal_pos <= First(sent, k + 1) - 3
  BY DEF WalkedSent
<1>3. /\ units \in Seq([nal : Seq(Byte), rbsp : Seq(Byte)]) /\ nal_pos \in 1..(Len(stream) + 1)
      /\ nal_pos \in Nat
  BY DEF WalkInv, FramerTypeOK, Byte, Rbsp
<1>4. k \in Nat /\ N \in Nat
  BY <1>2, <1>3
<1>5. k < N
  <2>1. k = N => FALSE
    BY <1>1, <1>2, <1>3, NoneAfterLast
  <2> QED BY <2>1, <1>2, <1>4
<1>6. n \in 1..N /\ n - 1 = k
  BY <1>4, <1>5
<1>7. nal_pos \in Past(sent, n - 1)..(First(sent, n) - 3)
  <2>1. LaidOut(sent, stream, N)
    BY <1>2, StreamIsLaidOut
  <2>2. Past(sent, n - 1) \in Nat /\ First(sent, n) \in Nat
    BY <2>1, <1>6 DEF LaidOut, UnitAt
  <2>3. Past(sent, n - 1) <= nal_pos /\ nal_pos <= First(sent, n) - 3
    BY <1>2, <1>5, <1>6
  <2> HIDE DEF n
  <2> QED BY <2>2, <2>3, <1>3
<1>8. /\ NalUnit = Nal(sent[n])
      /\ PayloadEnd \in Past(sent, n)..(Len(stream) + 1)
      /\ n < N => PayloadEnd <= First(sent, n + 1) - 3
  <2> HIDE DEF n
  <2> QED BY <1>2, <1>6, <1>7, UnitRead
<1>9. NalUnit[1] = sent[n].header /\ rbsp = sent[n].rbsp
  <2>1. sent[n] \in UnitSet
    BY <1>2, <1>6
  <2>2. sent[n].rbsp \in Seq(Byte)
    BY <2>1 DEF UnitSet, Byte
  <2>3. StripEmulationPrevention(Escape(sent[n].rbsp)) = sent[n].rbsp
    BY <2>2, EscapeStripsBack
  <2>4. Nal(sent[n])[1] = sent[n].header /\ Tail(Nal(sent[n])) = Escape(sent[n].rbsp)
    BY <2>1, NalIs
  <2> QED BY <2>3, <2>4, <1>8, Zenon
<1>10. u.nal = NalUnit /\ u.rbsp = rbsp
  OBVIOUS
<1> HIDE DEF u, rbsp
<1>11. /\ Len(units') = n /\ DOMAIN units = 1..k /\ DOMAIN units' = 1..n
       /\ (\A j \in 1..k : units'[j] = units[j]) /\ units'[n] = u
  <2>1. /\ Len(Append(units, u)) = k + 1
        /\ DOMAIN units = 1..k /\ DOMAIN Append(units, u) = 1..(k + 1)
        /\ (\A j \in 1..k : Append(units, u)[j] = units[j])
        /\ Append(units, u)[k + 1] = u
    BY <1>3
  <2> QED BY <2>1, <1>1
<1> HIDE DEF k
<1>12. ASSUME NEW j \in 1..n PROVE Recovered(j)'
  <2>1. CASE j = n
    BY <2>1, <1>1, <1>9, <1>10, <1>11 DEF Recovered
  <2>2. CASE j # n
    <3>1. j \in 1..k
      BY <2>2, <1>4
    <3>2. units'[j] = units[j] /\ Recovered(j)
      BY <3>1, <1>2, <1>11
    <3> QED BY <3>2, <1>1 DEF Recovered
  <2> QED BY <2>1, <2>2
<1>13. Past(sent, n) <= PayloadEnd
  <2>1. LaidOut(sent, stream, N)
    BY <1>2, StreamIsLaidOut
  <2>2. First(sent, n) \in Nat
    BY <2>1, <1>6 DEF LaidOut, UnitAt
  <2>3. sent[n] \in UnitSet
    BY <1>2, <1>6
  <2>4. Past(sent, n) \in Nat
    <3>1. Past(sent, n) = First(sent, n) + Len(Nal(sent[n]))
      BY <1>4, PastIs
    <3>2. Len(Nal(sent[n])) \in Nat
      BY <2>3, NalIs
    <3> HIDE DEF n
    <3> QED BY <2>2, <3>1, <3>2
  <2> HIDE DEF n
  <2> QED BY <2>4, <1>8
<1> HIDE DEF n, N
<1>14. n <= N
  BY <1>6, <1>4 DEF n
<1> QED BY <1>1, <1>2, <1>8, <1>11, <1>12, <1>13, <1>14 DEF WalkedSent, N

-----------------------------------------------------------------------------
(* The inductive invariant of the framer.                                  *)
FramerInv == WalkInv /\ WalkedSent

LEMMA FramerInductive ==
  /\ FramerInit => FramerInv
  /\ FramerInv /\ [FramerNext]_framerVars => FramerInv'
<1>1. ASSUME FramerInit PROVE FramerInv
  <2>1. /\ units = << >> /\ nal_pos = 1 /\ nal_status = "walk" /\ slice_is_idr = FALSE
        /\ sps_rbsp = NoBytes /\ pps_rbsp = NoBytes /\ slice_rbsp = NoBytes
        /\ framed \in BOOLEAN
    BY <1>1 DEF FramerInit
  <2>2. framed => sent \in Seq(UnitSet) /\ stream = ByteStream(sent)
    BY <1>1, SentAssumption DEF FramerInit, UnitSet
  <2>3. stream \in Seq(Byte)
    <3>1. CASE framed
      <4>1. LaidOut(sent, stream, Len(sent))
        BY <2>2, <3>1, StreamIsLaidOut
      <4> QED BY <4>1 DEF LaidOut
    <3>2. CASE ~framed
      BY <1>1, <3>2, RawAssumption DEF FramerInit, Byte
    <3> QED BY <3>1, <3>2
  <2>4. Len(units) = 0 /\ DOMAIN units = {}
    BY <2>1
  <2>5. FramerTypeOK
    <3>1. nal_pos \in 1..(Len(stream) + 1)
      BY <2>1, <2>3
    <3>2. units \in Seq([nal : Seq(0..255), rbsp : Rbsp])
      BY <2>1
    <3> QED BY <2>1, <2>3, <3>1, <3>2 DEF FramerTypeOK, Byte
  <2>6. UnitsAreNals
    BY <2>1, <2>4 DEF UnitsAreNals
  <2>7. LastSlice
    BY <2>1, <2>4 DEF LastSlice, SliceUnits
  <2>8. WalkedSent
    <3> SUFFICES ASSUME framed PROVE WalkedSent
      BY DEF WalkedSent
    <3>1. Past(sent, 0) = 1 /\ Len(sent) \in Nat
      BY <2>2 DEF Past
    <3>2. ASSUME 0 < Len(sent) PROVE 1 <= First(sent, 0 + 1) - 3
      <4>1. LaidOut(sent, stream, Len(sent)) /\ 1 \in 1..Len(sent) /\ 0 + 1 = 1 /\ 1 - 1 = 0
        BY <2>2, <3>1, <3>2, StreamIsLaidOut
      <4>2. UnitAt(sent, stream, 1)
        BY <4>1 DEF LaidOut
      <4>3. First(sent, 1) \in Nat /\ Past(sent, 0) + 3 <= First(sent, 1)
        BY <4>1, <4>2 DEF UnitAt
      <4> QED BY <4>1, <4>3, <3>1
    <3> QED BY <2>1, <2>2, <2>4, <3>1, <3>2 DEF WalkedSent
  <2> QED BY <2>5, <2>6, <2>7, <2>8 DEF FramerInv, WalkInv
<1>2. ASSUME FramerInv, [FramerNext]_framerVars PROVE FramerInv'
  <2>1. WalkInv'
    BY <1>2, WalkInvNext DEF FramerInv
  <2>2. ASSUME UNCHANGED <<framerInput, nal_pos, units>> PROVE WalkedSent'
    <3>1. /\ stream' = stream /\ sent' = sent /\ framed' = framed
          /\ nal_pos' = nal_pos /\ units' = units
      BY <2>2 DEF framerInput
    <3> QED BY <1>2, <3>1 DEF FramerInv, WalkedSent, Recovered
  <2>3. WalkedSent'
    <3>1. CASE NextUnit
      BY <1>2, <3>1, WalkedNext DEF FramerInv
    <3>2. CASE EmptyUnit
      BY <2>2, <3>2 DEF EmptyUnit
    <3>3. CASE Collected
      BY <2>2, <3>3 DEF Collected
    <3>4. CASE UNCHANGED framerVars
      BY <2>2, <3>4 DEF framerVars
    <3> QED BY <1>2, <3>1, <3>2, <3>3, <3>4 DEF FramerNext
  <2> QED BY <2>1, <2>3 DEF FramerInv
<1> QED BY <1>1, <1>2

(* Every variable of the framer keeps its type, and the walk stays inside
   its stream.                                                             *)
THEOREM FramerTyped == FramerSpec => []FramerTypeOK
<1>1. FramerInv => FramerTypeOK
  BY DEF FramerInv, WalkInv
<1> QED BY <1>1, FramerInductive, PTL DEF FramerSpec

(* collect_units and strip_emulation_prevention invert the framing of an
   encoder, whatever it framed; and of any bytes at all what is yielded is a
   NAL unit, one start code and one byte at least to each (nal.rs 61-142,
   150-169).                                                               *)
THEOREM FramingIsUndone == FramerSpec => []UnitsYielded
<1>1. FramerInv => UnitsYielded
  BY WalkedRecovers DEF FramerInv, WalkInv, UnitsYielded
<1> QED BY <1>1, FramerInductive, PTL DEF FramerSpec

(* The flag handed to the slice header parser is that of the slice handed
   along, in any stream (frame.rs 395-401).                                *)
THEOREM FlagStaysWithSlice == FramerSpec => []FlagOfSlice
<1>1. FramerInv => FlagOfSlice
  BY FlagIsOfLast DEF FramerInv, WalkInv
<1> QED BY <1>1, FramerInductive, PTL DEF FramerSpec
=============================================================================
