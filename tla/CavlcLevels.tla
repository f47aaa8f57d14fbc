---------------------------- MODULE CavlcLevels -----------------------------
(***************************************************************************)
(* decode_levels: the signs of the trailing ones, then a prefix and a      *)
(* suffix for each remaining level, with a suffix length that adapts to    *)
(* what was decoded.  The stream may hold any prefix and suffix, and end   *)
(* anywhere.                                                               *)
(***************************************************************************)
EXTENDS Integers, FiniteSets

CONSTANTS
  Totals,               (* TotalCoeff, of 0..16                            *)
  PrefixSamples(_),     (* level_prefix as a stream has it, by TotalCoeff  *)
  SuffixSamples(_, _)   (* suffixes of that many bits, by TotalCoeff       *)

(* A suffix has as many bits as were asked for, an escape twelve.          *)
ASSUME LevelsAssumption ==
  /\ Totals \subseteq 0..16
  /\ \A n \in 0..16 : /\ PrefixSamples(n) \subseteq Nat
                      /\ \A bits \in 0..12 : SuffixSamples(bits, n) \subseteq 0..(2^bits - 1)

VARIABLES
  total, ones,      (* total_coeff and trailing_ones                       *)
  n_signs,          (* i, of the sign loop                                 *)
  n_read,           (* k, of the level loop                                *)
  suffix_length,
  levels,           (* what the 16 slots hold; 0 is never written          *)
  level_status      (* signs, levels, ok, invalid or truncated             *)

levelVars == <<total, ones, n_signs, n_read, suffix_length, levels, level_status>>
levelToken == <<total, ones>>

Slots == 0..15
NLevels == total - ones

LevelsInit ==
  /\ total \in Totals
  /\ ones \in 0..3                   (* what unpack_ct can return          *)
  /\ n_signs = 0 /\ n_read = 0 /\ suffix_length = 0
  /\ levels = [s \in Slots |-> 0]
  /\ level_status = IF total = 0 THEN "ok"
                    ELSE IF ones > total THEN "invalid" ELSE "signs"

LevelsTruncated ==
  /\ level_status \in {"signs", "levels"}
  /\ level_status = "signs" => n_signs < ones
  /\ level_status' = "truncated"
  /\ UNCHANGED <<levelToken, n_signs, n_read, suffix_length, levels>>

(* Mutant: the signs fill the slots upwards.                               *)
Bug_SignSlot(j) == j

SignSlot(j) == total - 1 - j

ReadSign ==
  /\ level_status = "signs" /\ n_signs < ones
  /\ \E level \in {-1, 1} : levels' = [levels EXCEPT ![SignSlot(n_signs)] = level]
  /\ n_signs' = n_signs + 1
  /\ UNCHANGED <<levelToken, n_read, suffix_length, level_status>>

SignsDone ==
  /\ level_status = "signs" /\ n_signs = ones
  /\ IF NLevels = 0 THEN level_status' = "ok" /\ UNCHANGED suffix_length
     ELSE /\ level_status' = "levels"
          /\ suffix_length' = IF total > 10 /\ ones < 3 THEN 1 ELSE 0
  /\ UNCHANGED <<levelToken, n_signs, n_read, levels>>

-----------------------------------------------------------------------------
SuffixSize(prefix, sl) ==
  IF prefix < 14 THEN sl
  ELSE IF prefix = 14 THEN (IF sl = 0 THEN 4 ELSE sl)
  ELSE 12

LevelCode(prefix, suffix, sl, first) ==
  (IF prefix < 15 THEN prefix ELSE 15) * 2^sl + suffix
  + (IF prefix >= 14 /\ sl = 0 THEN 15 ELSE 0)
  + (IF prefix >= 15 THEN 4096 ELSE 0)
  + (IF first THEN 2 ELSE 0)

Level(code) == IF code % 2 = 0 THEN (code + 2) \div 2 ELSE -((code + 1) \div 2)

Magnitude(level) == IF level < 0 THEN -level ELSE level

Adapt(sl, level) ==
  LET sl1 == IF sl = 0 THEN 1 ELSE sl
  IN  IF Magnitude(level) > 3 * 2^(sl1 - 1) /\ sl1 < 6 THEN sl1 + 1 ELSE sl1

(* read_level_prefix gives up after 32 zeros.                              *)
PrefixInvalid(prefix) == prefix > 32

ReadLevel ==
  /\ level_status = "levels" /\ n_read < NLevels
  /\ \E prefix \in PrefixSamples(total) :
       IF PrefixInvalid(prefix)
       THEN level_status' = "invalid" /\ UNCHANGED <<n_read, suffix_length, levels>>
       ELSE \E suffix \in SuffixSamples(SuffixSize(prefix, suffix_length), total) :
              LET first == n_read = 0 /\ ones < 3
                  level == Level(LevelCode(prefix, suffix, suffix_length, first))
              IN  /\ levels' = [levels EXCEPT ![NLevels - 1 - n_read] = level]
                  /\ suffix_length' = Adapt(suffix_length, level)
                  /\ n_read' = n_read + 1
                  /\ level_status' = IF n_read + 1 = NLevels THEN "ok" ELSE "levels"
  /\ UNCHANGED <<levelToken, n_signs>>

LevelsNext == ReadSign \/ SignsDone \/ ReadLevel \/ LevelsTruncated

LevelsSpec == LevelsInit /\ [][LevelsNext]_levelVars

-----------------------------------------------------------------------------
(* The levels there are codes for.                                         *)
MaxLevel == 4577

Coded == -MaxLevel..MaxLevel

(* The counters stay in their ranges, the escape never shifts by more than
   6, and a level fits the i16 that the comparator of later stages expects. *)
LevelsTypeOK ==
  /\ total \in Totals /\ ones \in 0..3
  /\ level_status \in {"signs", "levels", "ok", "invalid", "truncated"}
  /\ n_signs \in 0..3 /\ n_read \in 0..16
  /\ suffix_length \in 0..6
  /\ \A s \in Slots : levels[s] \in Coded

(* A block that is decoded has a nonzero level in each of its TotalCoeff
   slots and none elsewhere: the signs and the levels fill the slots from
   opposite ends and meet, neither leaving a gap nor writing over the other. *)
SlotsFilled ==
  /\ level_status = "ok" => \A s \in Slots : (levels[s] # 0) <=> (s < total)
  /\ level_status # "invalid" =>
       Cardinality({s \in Slots : levels[s] # 0}) = n_signs + n_read
=============================================================================
