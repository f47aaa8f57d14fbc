----------------------------- MODULE BitReader ------------------------------
(***************************************************************************)
(* bitreader.rs: one read of an Exp-Golomb code, a bit a step, from any    *)
(* position of any bytes.  Words are W bits wide (32 in the source, as     *)
(* many as MAX_EXP_GOLOMB_LEADING_ZEROS).  A debug build checks arithmetic *)
(* for overflow and panics; a release build wraps.                         *)
(***************************************************************************)
EXTENDS Integers, Sequences

CONSTANTS W, Streams, Starts,
          TeMaxima        (* the x of read_te                              *)

ASSUME WidthAssumption == W \in Nat /\ W > 1

ASSUME StreamsAssumption ==
  /\ Streams \subseteq Seq(0..255)
  /\ Starts \subseteq Nat /\ TeMaxima \subseteq Nat \ {0}

VARIABLES
  bytes, start, kind, te_x,  (* the read: kind ue, se or te                *)
  checked,                (* of the build: whether it checks for overflow  *)
  bit_pos,
  zeros,
  suffix, more,           (* of read_bits: the word, and the bits to come  *)
  read_value,
  read_status             (* zeros, suffix, map, ok, or how it ended else  *)

request == <<bytes, start, kind, te_x, checked>>
readerVars == <<request, bit_pos, zeros, suffix, more, read_value, read_status>>

(* 1 << n.                                                                 *)
Pow2[n \in Nat] == IF n = 0 THEN 1 ELSE 2 * Pow2[n - 1]

(* Mutant: no more than "baseline I-frames" are seen to need.              *)
Bug_CapAsSeen == W \div 2

MAX_EXP_GOLOMB_LEADING_ZEROS == W

Bits(bs) == 8 * Len(bs)
Bit(bs, pos) == (bs[(pos \div 8) + 1] \div Pow2[7 - (pos % 8)]) % 2

ReaderInit ==
  /\ bytes \in Streams
  /\ start \in {p \in Starts : p <= Bits(bytes)}
  /\ \/ kind \in {"ue", "se"} /\ te_x = 0
     \/ kind = "te" /\ te_x \in TeMaxima
  /\ checked \in BOOLEAN
  /\ bit_pos = start /\ zeros = 0 /\ suffix = 0 /\ more = 0 /\ read_value = 0
  /\ read_status = "zeros"

(* read_te with a maximum of one is one bit, inverted.                     *)
Flag == kind = "te" /\ te_x = 1

EndOfStream == bit_pos >= Bits(bytes)
NextBit == Bit(bytes, bit_pos)

-----------------------------------------------------------------------------
ReadFlag ==
  /\ read_status = "zeros" /\ Flag /\ ~EndOfStream
  /\ read_value' = 1 - NextBit /\ bit_pos' = bit_pos + 1
  /\ read_status' = "ok"
  /\ UNCHANGED <<request, zeros, suffix, more>>

Leading == read_status = "zeros" /\ ~Flag /\ ~EndOfStream

LeadingZero ==
  /\ Leading /\ NextBit = 0
  /\ bit_pos' = bit_pos + 1
  /\ zeros' = zeros + 1
  /\ read_status' = IF zeros' > MAX_EXP_GOLOMB_LEADING_ZEROS THEN "too_long" ELSE "zeros"
  /\ UNCHANGED <<request, suffix, more, read_value>>

(* The one, and read_bits finding room for the suffix or not.              *)
Marker ==
  /\ Leading /\ NextBit = 1
  /\ bit_pos' = bit_pos + 1
  /\ more' = zeros
  /\ read_status' = IF zeros > 0 /\ bit_pos' + zeros > Bits(bytes)
                     THEN "truncated" ELSE "suffix"
  /\ UNCHANGED <<request, zeros, suffix, read_value>>

ReadSuffixBit ==
  /\ read_status = "suffix" /\ more > 0
  /\ suffix' = 2 * suffix + NextBit
  /\ bit_pos' = bit_pos + 1 /\ more' = more - 1
  /\ UNCHANGED <<request, zeros, read_value, read_status>>

Truncated ==
  /\ read_status = "zeros" /\ EndOfStream
  /\ read_status' = "truncated"
  /\ UNCHANGED <<request, bit_pos, zeros, suffix, more, read_value>>

(* (1 << zeros) - 1 + suffix.  A shift by the width of the word is an overflow:
   the checked build panics, the other shifts by zeros modulo the width.   *)
AddSuffix ==
  /\ read_status = "suffix" /\ more = 0
  /\ IF zeros = W /\ checked
     THEN read_status' = "panic" /\ UNCHANGED read_value
     ELSE read_status' = "map" /\ read_value' = Pow2[zeros % W] - 1 + suffix
  /\ UNCHANGED <<request, bit_pos, zeros, suffix, more>>

(* k + 1 wraps for the largest word, which only the other build meets.     *)
SeOf(k) == IF k % 2 = 1 THEN ((k + 1) % Pow2[W]) \div 2 ELSE -(k \div 2)

Map ==
  /\ read_status = "map"
  /\ read_value' = IF kind = "se" THEN SeOf(read_value) ELSE read_value
  /\ read_status' = "ok"
  /\ UNCHANGED <<request, bit_pos, zeros, suffix, more>>

ReaderNext ==
  \/ ReadFlag \/ LeadingZero \/ Marker \/ ReadSuffixBit \/ Truncated
  \/ AddSuffix \/ Map

ReaderSpec == ReaderInit /\ [][ReaderNext]_readerVars

-----------------------------------------------------------------------------
(* Every variable keeps its type, no bit past the end is read, and both
   words fit their width.                                                  *)
ReaderTypeOK ==
  /\ bytes \in Streams /\ start \in Starts /\ kind \in {"ue", "se", "te"}
  /\ bit_pos \in start..Bits(bytes)
  /\ zeros \in 0..(W + 1) /\ more \in 0..zeros
  /\ suffix \in 0..(Pow2[W] - 1)
  /\ read_value \in -(Pow2[W - 1] - 1)..(Pow2[W] - 1)
  /\ read_status \in {"zeros", "suffix", "map", "ok", "too_long", "truncated", "panic"}

(* The codes of the standard, 9.1: as many zeros as v + 1 has bits after
   its first, then the bits of v + 1.                                      *)
UeZeros(v) == CHOOSE n \in 0..W : Pow2[n] <= v + 1 /\ v + 1 < Pow2[n + 1]
UeCode(v) ==
  LET n == UeZeros(v)
  IN [i \in 1..(2 * n + 1) |-> IF i <= n THEN 0 ELSE ((v + 1) \div Pow2[2 * n + 1 - i]) % 2]
Code(v) ==
  CASE kind = "se" -> UeCode(IF v > 0 THEN 2 * v - 1 ELSE -2 * v)
    [] Flag -> <<1 - v>>
    [] OTHER -> UeCode(v)
ReadValues ==
  CASE kind = "se" -> -(Pow2[W - 1] - 1)..(Pow2[W - 1] - 1)
    [] Flag -> 0..1
    [] OTHER -> 0..(Pow2[W] - 2)

CodedAtStart(v) ==
  LET c == Code(v) IN
    /\ start + Len(c) <= Bits(bytes)
    /\ \A i \in DOMAIN c : Bit(bytes, start + i - 1) = c[i]

(* The numbers whose codes start with W zeros, which the cap lets through.  *)
LongNumbers == (Pow2[W] - 1)..(2 * Pow2[W] - 2)

Stands(v) ==
  /\ start + Len(UeCode(v)) <= Bits(bytes)
  /\ \A e \in DOMAIN UeCode(v) : Bit(bytes, start + e - 1) = UeCode(v)[e]

(* What the wrapping build makes of a long number: it is short of it by the
   shift that was lost.                                                    *)
Wrapped(v) ==
  LET k == v - (Pow2[W] - 1) IN IF kind = "se" THEN SeOf(k) ELSE k

(* A read that succeeds has read one whole code and no bit more, signed,
   truncated or plain, and returns the value of that code, except that a
   build without overflow checks returns the Wrapped value of a code with W
   zeros.  Where no code stands a read fails, and it fails only there:
   neither the cap on leading zeros nor the test for room turns down a code
   the stream holds.  It panics on the codes with W zeros and no others, in
   the build that checks: all reads never panic in bitreader.rs 16, but do at
   113 (bitreader.rs 81-83, 98-114).                                       *)
ReadsOneCode ==
  /\ read_status = "ok" =>
       \/ /\ read_value \in ReadValues
          /\ CodedAtStart(read_value)
          /\ bit_pos = start + Len(Code(read_value))
       \/ /\ ~checked /\ ~Flag
          /\ \E v \in LongNumbers : /\ Stands(v) /\ bit_pos = start + Len(UeCode(v))
                                    /\ read_value = Wrapped(v)
  /\ read_status = "panic" => checked /\ \E v \in LongNumbers : Stands(v)
  /\ read_status \in {"too_long", "truncated"} =>
       /\ \A v \in ReadValues : ~CodedAtStart(v)
       /\ ~Flag => \A v \in LongNumbers : ~Stands(v)

(* A read takes its own code and no bit past the end, and its words stay in
   their width.                                                            *)
ReadsOwnCode == ReaderTypeOK /\ ReadsOneCode
=============================================================================
