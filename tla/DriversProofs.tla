---------------------------- MODULE DriversProofs ---------------------------
(* The programs around the code: the fold circuit, the GPU battery, the drivers
   of the spikes and their benches, each for its own specification.        *)
EXTENDS FoldCircuit, SpikeHosts, SpikeBench, GpuBattery, SequenceTheorems, TLAPS

-----------------------------------------------------------------------------
(* The fold circuit.                                                       *)

(* A byte is a byte.                                                       *)
LEMMA ByteRange ==
  ASSUME NEW bits \in Words, NEW n \in {0, 8}
  PROVE  Byte(bits, n) \in 0..255
<1>1. \A j \in 0..7 : bits[n + j] \in {0, 1}
  BY DEF Words
<1>2. /\ bits[n] \in {0, 1} /\ bits[n + 1] \in {0, 1}
      /\ bits[n + 2] \in {0, 1} /\ bits[n + 3] \in {0, 1}
      /\ bits[n + 4] \in {0, 1} /\ bits[n + 5] \in {0, 1}
      /\ bits[n + 6] \in {0, 1} /\ bits[n + 7] \in {0, 1}
  BY <1>1
<1> QED
  BY <1>2 DEF Byte

(* The high byte, its sign apart, is zero exactly when none of its seven bits is
   set: what kary_or finds.                                                *)
LEMMA HighByte ==
  ASSUME NEW bits \in Words
  PROVE  /\ bits[15] = 1 => Byte(bits, 8) >= 128
         /\ bits[15] = 0 => Byte(bits, 8) <= 127
         /\ bits[15] = 0 /\ UpperNonzero(bits) = 0 => Byte(bits, 8) = 0
         /\ UpperNonzero(bits) = 1 => Byte(bits, 8) >= 1
         /\ UpperNonzero(bits) \in {0, 1}
<1>1. /\ bits[8] \in {0, 1} /\ bits[9] \in {0, 1} /\ bits[10] \in {0, 1}
      /\ bits[11] \in {0, 1} /\ bits[12] \in {0, 1} /\ bits[13] \in {0, 1}
      /\ bits[14] \in {0, 1} /\ bits[15] \in {0, 1}
  BY DEF Words
<1>2. Byte(bits, 8) = bits[8] + 2 * bits[9] + 4 * bits[10] + 8 * bits[11]
        + 16 * bits[12] + 32 * bits[13] + 64 * bits[14] + 128 * bits[15]
  BY DEF Byte
<1>3. UpperNonzero(bits) \in {0, 1}
  BY DEF UpperNonzero, Or
<1>4. UpperNonzero(bits) = 0 =>
        /\ bits[8] = 0 /\ bits[9] = 0 /\ bits[10] = 0 /\ bits[11] = 0
        /\ bits[12] = 0 /\ bits[13] = 0 /\ bits[14] = 0
  <2>1. UpperNonzero(bits) = 0 => \A n \in 8..14 : bits[n] # 1
    BY DEF UpperNonzero, Or
  <2> QED
    BY <2>1, <1>1
<1>5. UpperNonzero(bits) = 1 =>
        \/ bits[8] = 1 \/ bits[9] = 1 \/ bits[10] = 1 \/ bits[11] = 1
        \/ bits[12] = 1 \/ bits[13] = 1 \/ bits[14] = 1
  <2>1. UpperNonzero(bits) = 1 => \E n \in 8..14 : bits[n] = 1
    BY DEF UpperNonzero, Or
  <2>2. \A n \in 8..14 : n \in {8, 9, 10, 11, 12, 13, 14}
    OBVIOUS
  <2> QED
    BY <2>1, <2>2
<1> QED
  BY <1>1, <1>2, <1>3, <1>4, <1>5

(* The reference, by its high byte.                                        *)
LEMMA NativeByHighByte ==
  ASSUME NEW low \in 0..255, NEW high \in 0..255
  PROVE  /\ high >= 128 => ClampNative(low + 256 * high) = 0
         /\ high = 0 => ClampNative(low + 256 * high) = low
         /\ high \in 1..127 => ClampNative(low + 256 * high) = 255
<1>1. high >= 128 => Signed(low + 256 * high) = low + 256 * high - 65536
  BY DEF Signed
<1>2. high <= 127 => Signed(low + 256 * high) = low + 256 * high
  BY DEF Signed
<1> QED
  BY <1>1, <1>2 DEF ClampNative

(* The gadget and the reference are the same function of the word.         *)
THEOREM GadgetIsClamp ==
  ASSUME NEW bits \in Words
  PROVE  /\ Clamped(bits) = ClampNative(BitsToFp(bits))
         /\ Clamped(bits) \in 0..255
<1> DEFINE low == Byte(bits, 0)
           high == Byte(bits, 8)
           upper == UpperNonzero(bits)
<1>1. low \in 0..255 /\ high \in 0..255
  BY ByteRange
<1>2. bits[15] \in {0, 1}
  BY DEF Words
<1>3. Clamped(bits) = ((1 - bits[15]) * (1 - upper)) * low + ((1 - bits[15]) * upper) * 255
  BY DEF Clamped, And, Not
<1>4. BitsToFp(bits) = low + 256 * high
  BY DEF BitsToFp
<1> DEFINE native_byte == ClampNative(BitsToFp(bits))
<1>5. /\ high >= 128 => native_byte = 0
      /\ high = 0 => native_byte = low
      /\ high \in 1..127 => native_byte = 255
  <2>1. native_byte = ClampNative(low + 256 * high)
    BY ONLY <1>4, SMTT(30)
  <2>2. /\ high >= 128 => ClampNative(low + 256 * high) = 0
        /\ high = 0 => ClampNative(low + 256 * high) = low
        /\ high \in 1..127 => ClampNative(low + 256 * high) = 255
    <3> HIDE DEF low, high
    <3> QED
      BY <1>1, NativeByHighByte
  <2> QED
    BY <2>1, <2>2
<1> HIDE DEF low, high, upper, native_byte
<1>6. upper \in {0, 1}
  BY HighByte DEF upper
<1>7. CASE bits[15] = 1
  <2>1. high >= 128
    BY <1>7, HighByte DEF high
  <2>2. Clamped(bits) = 0
    BY <1>1, <1>3, <1>7, <1>6
  <2>3. native_byte = 0
    BY <1>5, <2>1
  <2> QED
    BY <2>2, <2>3 DEF native_byte
<1>8. CASE bits[15] = 0 /\ upper = 0
  <2>1. high = 0
    BY <1>8, HighByte DEF high, upper
  <2>2. Clamped(bits) = low
    BY <1>1, <1>3, <1>8
  <2>3. native_byte = low
    BY <1>5, <2>1
  <2> QED
    BY <1>1, <2>2, <2>3 DEF native_byte
<1>9. CASE bits[15] = 0 /\ upper = 1
  <2>1. high \in 1..127
    BY <1>1, <1>9, HighByte DEF high, upper
  <2>2. Clamped(bits) = 255
    BY <1>1, <1>3, <1>9
  <2>3. native_byte = 255
    BY <1>5, <2>1
  <2> QED
    BY <2>2, <2>3 DEF native_byte
<1> QED
  BY <1>2, <1>7, <1>8, <1>9, <1>6

(* What the induction needs beyond the property: the sums are numbers.     *)
FoldInv ==
  /\ i \in Nat
  /\ z \in Nat \X Nat
  /\ FoldFollowsNative

LEMMA WordIsNat ==
  ASSUME NEW bits \in Words
  PROVE  BitsToFp(bits) \in Nat
<1> DEFINE low == Byte(bits, 0)
           high == Byte(bits, 8)
<1>1. low \in 0..255 /\ high \in 0..255
  BY ByteRange
<1>2. BitsToFp(bits) = low + 256 * high
  BY DEF BitsToFp
<1> HIDE DEF low, high
<1> QED
  BY <1>1, <1>2

(* Whatever is folded, and however much of it, the committed state is the one
   that clamp_native would give.                                           *)
THEOREM FoldTheorem == FoldSpec => []FoldFollowsNative
<1>1. FoldInit => FoldInv
  BY DEF FoldInit, FoldInv, FoldFollowsNative
<1>2. FoldInv /\ [FoldNext]_foldVars => FoldInv'
  <2> SUFFICES ASSUME FoldInv, [FoldNext]_foldVars PROVE FoldInv'
    OBVIOUS
  <2>1. CASE Fold
    <3>1. PICK bits \in Coefficients :
            /\ z' = StepConstraints(z, bits)
            /\ native' = <<native[1] + BitsToFp(bits),
                           native[2] + ClampNative(BitsToFp(bits))>>
      BY <2>1 DEF Fold
    <3>2. bits \in Words
      BY CoefficientsAssumption
    <3>3. /\ Clamped(bits) = ClampNative(BitsToFp(bits)) /\ Clamped(bits) \in 0..255
          /\ BitsToFp(bits) \in Nat
      BY <3>2, GadgetIsClamp, WordIsNat
    <3>4. i' = i + 1 /\ i \in Nat /\ z[1] \in Nat /\ z[2] \in Nat /\ z = native
      BY <2>1 DEF Fold, FoldInv, FoldFollowsNative
    <3>5. z' = <<z[1] + BitsToFp(bits), z[2] + Clamped(bits)>>
      BY <3>1 DEF StepConstraints
    <3>6. z' = native'
      BY <3>1, <3>3, <3>4, <3>5
    <3>7. z'[2] \in 0..(255 * i')
      BY <3>3, <3>4, <3>5 DEF FoldInv, FoldFollowsNative
    <3> QED
      BY <3>3, <3>4, <3>5, <3>6, <3>7 DEF FoldInv, FoldFollowsNative
  <2>2. CASE UNCHANGED foldVars
    BY <2>2 DEF foldVars, FoldInv, FoldFollowsNative
  <2> QED
    BY <2>1, <2>2 DEF FoldNext
<1>3. FoldInv => FoldFollowsNative
  BY DEF FoldInv
<1> QED
  BY <1>1, <1>2, <1>3, PTL DEF FoldSpec

-----------------------------------------------------------------------------
(* The GPU battery.                                                        *)

(* What the script itself fixes: nine phases of one to four blocks, and a status
   that is seen enters the flag, on its own or as that of its subshell.    *)
LEMMA PhaseTable ==
  /\ Len(Phases) = 9 /\ DOMAIN Phases = 1..9
  /\ \A p \in 1..9 :
       /\ Name(p) = "4-cuda-sha256" <=> p = 4
BY DEF Phases, Name

LEMMA BlockTable ==
  ASSUME NEW p \in 1..9
  PROVE  /\ Len(Blocks(p)) \in 1..4 /\ DOMAIN Blocks(p) = 1..Len(Blocks(p))
         /\ \A b \in DOMAIN Blocks(p) :
              /\ Blocks(p)[b].guard \in {"always", "ok", "gpu", "binary"}
              /\ Len(Blocks(p)[b].commands) \in 1..3
              /\ DOMAIN Blocks(p)[b].commands = 1..Len(Blocks(p)[b].commands)
              /\ \A c \in DOMAIN Blocks(p)[b].commands :
                   <<Name(p), b, c>> \notin Unseen =>
                     \/ Blocks(p)[b].flag = "each"
                     \/ Blocks(p)[b].flag = "last" /\ c = Len(Blocks(p)[b].commands)
<1>1. CASE p = 1
  BY <1>1 DEF Blocks, Name, Phases, Sanity, Block, Always, IfOk, Unseen, Ignored, Lost
<1>2. CASE p = 2
  BY <1>2 DEF Blocks, Name, Phases, Setup, Block, Always, IfOk, Unseen, Ignored, Lost
<1>3. CASE p = 3
  BY <1>3 DEF Blocks, Name, Phases, UnitTests, Block, Always, IfOk, Unseen, Ignored, Lost
<1>4. CASE p = 4
  BY <1>4 DEF Blocks, Name, Phases, CudaSha256, Block, Always, IfOk, Unseen, Ignored, Lost
<1>5. CASE p = 5
  BY <1>5 DEF Blocks, Name, Phases, Sp1ToyDecode, Block, Always, IfOk, Unseen, Ignored, Lost
<1>6. CASE p = 6
  BY <1>6, SMTT(30) DEF Blocks, Name, Phases, Jolt, Block, Always, IfOk, Unseen, Ignored, Lost
<1>7. CASE p = 7
  BY <1>7 DEF Blocks, Name, Phases, Sonobe, Block, Always, IfOk, Unseen, Ignored, Lost
<1>8. CASE p = 8
  BY <1>8 DEF Blocks, Name, Phases, Decider, Block, Always, IfOk, Unseen, Ignored, Lost
<1>9. CASE p = 9
  BY <1>9 DEF Blocks, Name, Phases, M2Proving, Block, Always, IfOk, Unseen, Ignored, Lost
<1> QED BY <1>1, <1>2, <1>3, <1>4, <1>5, <1>6, <1>7, <1>8, <1>9

PhaseInv ==
  /\ has_gpu \in BOOLEAN /\ binary \in BOOLEAN /\ ok \in BOOLEAN
  /\ phase \in 1..10
  /\ k \in IF phase = 10 THEN {0} ELSE 0..(Len(Blocks(phase)) + 1)
  /\ outcome \in Seq(Seq(BOOLEAN))
  /\ k > 0 => Len(outcome) = k - 1

StatusInv ==
  /\ status \in Seq({"RUN", "PASS", "FAIL", "SKIP"})
  /\ Len(status) = LastEnded
  /\ \A p \in 1..(phase - 1) :
       status[p] \in {"PASS", "FAIL"} \/ (status[p] = "SKIP" /\ ~has_gpu)
  /\ k > 0 => status[phase] = "RUN"
  /\ script_exit \in {-1, 0, 1} /\ (script_exit # -1 => phase = 10)
  /\ SafeToTerminate

(* As long as the flag is up, every block gone through that applies has run
   all its commands, and none whose status is seen has failed.             *)
BlockDone(b) ==
  Applies(Blocks(phase)[b]) =>
    /\ DOMAIN outcome[b] = DOMAIN Blocks(phase)[b].commands
    /\ \A c \in DOMAIN outcome[b] : <<Name(phase), b, c>> \notin Unseen => outcome[b][c]

FlagInv == k > 0 /\ ok => \A b \in 1..(k - 1) : BlockDone(b)

BatteryInv == PhaseInv /\ StatusInv /\ FlagInv /\ PassMeansDone

LEMMA BatteryInvInit == BatteryInit => BatteryInv
<1> SUFFICES ASSUME BatteryInit PROVE BatteryInv
  OBVIOUS
<1>1. PhaseInv
  BY BlockTable DEF BatteryInit, PhaseInv
<1>2. StatusInv
  BY DEF BatteryInit, StatusInv, SafeToTerminate, LastEnded
<1>3. FlagInv
  BY DEF BatteryInit, FlagInv
<1>4. PassMeansDone
  BY PhaseTable DEF BatteryInit, PassMeansDone, PassMeans, LastEnded
<1> QED BY <1>1, <1>2, <1>3, <1>4 DEF BatteryInv

(* A block has been gone through, whether it ran or not.                   *)
LEMMA NextBlock ==
  ASSUME PhaseInv, phase \in 1..9, k \in 1..Len(Blocks(phase)),
         NEW ended \in Seq(BOOLEAN), outcome' = Append(outcome, ended),
         k' = k + 1, UNCHANGED <<has_gpu, phase, status, script_exit>>
  PROVE  /\ outcome' \in Seq(Seq(BOOLEAN)) /\ Len(outcome') = k' - 1
         /\ outcome'[k] = ended
         /\ \A b \in 1..(k - 1) : outcome'[b] = outcome[b]
         /\ k' \in 0..(Len(Blocks(phase')) + 1) /\ k' > 0
         /\ LastEnded' = LastEnded
<1>1. k \in Nat /\ Len(Blocks(phase)) \in Nat /\ Len(outcome) = k - 1
  BY BlockTable, SMTT(30) DEF PhaseInv
<1>2. outcome \in Seq(Seq(BOOLEAN))
  BY DEF PhaseInv
<1>3. /\ outcome' \in Seq(Seq(BOOLEAN)) /\ Len(outcome') = k' - 1
      /\ outcome'[k] = ended
      /\ \A b \in 1..(k - 1) : outcome'[b] = outcome[b]
  BY ONLY <1>1, <1>2, ended \in Seq(BOOLEAN), outcome' = Append(outcome, ended), k' = k + 1,
          k \in 1..Len(Blocks(phase))
<1>4. k' \in 0..(Len(Blocks(phase')) + 1) /\ k' > 0
  <2>1. phase' = phase
    OBVIOUS
  <2>2. Len(Blocks(phase')) = Len(Blocks(phase))
    BY ONLY <2>1
  <2> QED BY ONLY <1>1, <2>2, k' = k + 1, k \in 1..Len(Blocks(phase))
<1>5. LastEnded' = LastEnded
  BY <1>1 DEF LastEnded
<1> QED BY <1>3, <1>4, <1>5

LEMMA BatteryInvNext == BatteryInv /\ [BatteryNext]_batteryVars => BatteryInv'
<1> SUFFICES ASSUME BatteryInv, [BatteryNext]_batteryVars PROVE BatteryInv'
  OBVIOUS
<1>t. phase \in 1..10 /\ k \in Nat /\ DOMAIN Phases = 1..9 /\ Len(Phases) = 9
  <2>1. phase \in 1..9 => Len(Blocks(phase)) \in 1..4
    BY BlockTable
  <2> QED BY <2>1, PhaseTable DEF BatteryInv, PhaseInv
<1>1. CASE PhaseStart
  <2>1. phase \in 1..9 /\ k = 0 /\ k' = 1 /\ outcome' = << >> /\ ok' = TRUE
        /\ status' = Append(status, "RUN")
        /\ UNCHANGED <<has_gpu, binary, phase, script_exit>>
    BY <1>1, <1>t DEF PhaseStart
  <2>2. PhaseInv'
    <3>1. Len(Blocks(phase)) \in 1..4
      BY <2>1, BlockTable
    <3> QED BY <2>1, <3>1 DEF BatteryInv, PhaseInv
  <2>3. StatusInv'
    <3>1. script_exit = -1
      BY <2>1 DEF BatteryInv, StatusInv
    <3>2. status \in Seq({"RUN", "PASS", "FAIL", "SKIP"}) /\ Len(status) = phase - 1
      BY <2>1 DEF BatteryInv, StatusInv, LastEnded
    <3>3. /\ status' \in Seq({"RUN", "PASS", "FAIL", "SKIP"}) /\ Len(status') = phase
          /\ status'[phase] = "RUN" /\ \A p \in 1..(phase - 1) : status'[p] = status[p]
      BY <2>1, <3>2
    <3> QED BY <2>1, <3>1, <3>3 DEF BatteryInv, StatusInv, LastEnded, SafeToTerminate
  <2>4. FlagInv'
    BY <2>1 DEF FlagInv
  <2>5. PassMeansDone'
    <3>1. LastEnded' = phase /\ status'[phase] = "RUN"
      BY <2>1, <2>3 DEF StatusInv, LastEnded
    <3> QED BY <2>1, <3>1 DEF PassMeansDone, PassMeans
  <2> QED BY <2>2, <2>3, <2>4, <2>5 DEF BatteryInv
<1>2. ASSUME InPhase, k <= Len(Blocks(phase)), NEW ended \in Seq(BOOLEAN),
             outcome' = Append(outcome, ended), k' = k + 1,
             UNCHANGED <<has_gpu, phase, status, script_exit>>,
             ok' \in BOOLEAN, binary' \in BOOLEAN, ok' => ok,
             NEW at, at = k, ok' => BlockDone(at)'
      PROVE  BatteryInv'
  <2>1. phase \in 1..9 /\ k \in 1..Len(Blocks(phase)) /\ k > 0
    BY <1>2, <1>t, BlockTable DEF InPhase
  <2>2. /\ outcome' \in Seq(Seq(BOOLEAN)) /\ Len(outcome') = k' - 1
        /\ outcome'[k] = ended
        /\ \A b \in 1..(k - 1) : outcome'[b] = outcome[b]
        /\ k' \in 0..(Len(Blocks(phase')) + 1) /\ k' > 0
        /\ LastEnded' = LastEnded
    BY <1>2, <2>1, NextBlock DEF BatteryInv
  <2>3. PhaseInv'
    BY <1>2, <2>1, <2>2 DEF BatteryInv, PhaseInv
  <2>4. StatusInv'
    BY <1>2, <2>1, <2>2 DEF BatteryInv, StatusInv, SafeToTerminate
  <2>5. FlagInv'
    <3> SUFFICES ASSUME ok', NEW b \in 1..(k' - 1) PROVE BlockDone(b)'
      BY <1>2 DEF FlagInv
    <3>1. CASE b = at
      BY <1>2, <3>1
    <3>2. CASE b # at
      <4>1. b \in 1..(k - 1)
        BY <1>2, <1>t, <3>2
      <4>2. BlockDone(b)
        BY <1>2, <2>1, <4>1 DEF BatteryInv, FlagInv
      <4>3. outcome'[b] = outcome[b] /\ phase' = phase /\ has_gpu' = has_gpu
        BY <1>2, <2>2, <4>1
      <4> QED BY <4>2, <4>3 DEF BlockDone, Applies, Good
    <3> QED BY <3>1, <3>2
  <2>6. PassMeansDone'
    <3>1. LastEnded' = phase /\ status'[phase] = "RUN"
      BY <1>2, <2>1, <2>2 DEF BatteryInv, StatusInv, LastEnded
    <3> QED BY <3>1 DEF PassMeansDone, PassMeans
  <2> QED BY <2>3, <2>4, <2>5, <2>6 DEF BatteryInv
<1>3. CASE RunBlock
  <2>1. /\ InPhase /\ k <= Len(Blocks(phase)) /\ k' = k + 1
        /\ UNCHANGED <<has_gpu, phase, status, script_exit>>
    BY <1>3 DEF RunBlock
  <2>2. phase \in 1..9 /\ k \in DOMAIN Blocks(phase) /\ k \in 1..Len(Blocks(phase))
    BY <1>t, <2>1, BlockTable, SMTT(30) DEF InPhase
  <2>3. /\ Len(Current.commands) \in 1..3
        /\ DOMAIN Current.commands = 1..Len(Current.commands)
        /\ \A c \in DOMAIN Current.commands : <<Name(phase), k, c>> \notin Unseen =>
             Current.flag = "each" \/ (Current.flag = "last" /\ c = Len(Current.commands))
    BY <2>2, BlockTable DEF Current
  <2>4. PICK ended \in [DOMAIN Current.commands -> BOOLEAN] :
          /\ outcome' = Append(outcome, ended)
          /\ ok' = (ok /\ CASE Current.flag = "each" -> Good(ended)
                            [] Current.flag = "last" -> ended[Len(ended)]
                            [] Current.flag = "none" -> TRUE)
          /\ binary' = (binary \/ (Name(phase) = "7-sonobe-ivc" /\ k = 1 /\ Good(ended)))
    BY <1>3 DEF RunBlock
  <2>5. ended \in Seq(BOOLEAN)
    BY <2>3, <2>4
  <2>6. ok' \in BOOLEAN /\ binary' \in BOOLEAN /\ (ok' => ok)
    BY <2>4
  <2> PICK at : at = k
    OBVIOUS
  <2>7. ok' => BlockDone(at)'
    <3> SUFFICES ASSUME ok' PROVE BlockDone(at)'
      OBVIOUS
    <3>1. outcome'[at] = ended
      BY <2>1, <2>2, <2>4, <2>5, NextBlock DEF BatteryInv
    <3>2. DOMAIN ended = DOMAIN Blocks(phase)[at].commands
      BY <2>4 DEF Current
    <3>3. ASSUME NEW c \in DOMAIN ended, <<Name(phase), at, c>> \notin Unseen PROVE ended[c]
      <4>1. Current.flag = "each" \/ (Current.flag = "last" /\ c = Len(Current.commands))
        BY <2>3, <2>4, <3>3
      <4>2. CASE Current.flag = "each"
        <5>1. Good(ended)
          BY <2>4, <4>2
        <5> QED BY <5>1 DEF Good
      <4>3. CASE Current.flag = "last" /\ c = Len(Current.commands)
        <5>1. ended[Len(ended)]
          BY <2>4, <4>3
        <5>2. Len(ended) = Len(Current.commands)
          BY <2>3, <2>4
        <5> QED BY <4>3, <5>1, <5>2
      <4> QED BY <4>1, <4>2, <4>3
    <3>4. phase' = phase
      BY <2>1
    <3>5. /\ DOMAIN outcome'[at] = DOMAIN Blocks(phase)[at].commands
          /\ \A c \in DOMAIN outcome'[at] :
               <<Name(phase), at, c>> \notin Unseen => outcome'[at][c]
      BY <3>1, <3>2, <3>3
    <3> QED BY <3>4, <3>5 DEF BlockDone
  <2> QED BY <1>2, <2>1, <2>4, <2>5, <2>6, <2>7
<1>4. CASE PassOver
  <2>1. /\ InPhase /\ k <= Len(Blocks(phase)) /\ k' = k + 1 /\ ~GuardHolds(Current)
        /\ ok' = (ok /\ Current.guard # "binary") /\ outcome' = Append(outcome, << >>)
        /\ UNCHANGED <<has_gpu, binary, phase, status, script_exit>>
    BY <1>4 DEF PassOver
  <2>2. phase \in 1..9 /\ k \in DOMAIN Blocks(phase)
    BY <1>t, <2>1, BlockTable, SMTT(30) DEF InPhase
  <2>3. Current.guard \in {"always", "ok", "gpu", "binary"}
    BY <2>2, BlockTable DEF Current
  <2>4. << >> \in Seq(BOOLEAN)
    OBVIOUS
  <2>5. ok' \in BOOLEAN /\ binary' \in BOOLEAN /\ (ok' => ok)
    BY <2>1 DEF BatteryInv, PhaseInv
  <2> PICK at : at = k
    OBVIOUS
  <2>6. ok' => BlockDone(at)'
    <3> SUFFICES ASSUME ok' PROVE ~Applies(Blocks(phase)[at])'
      BY <2>1 DEF BlockDone
    <3>1. Current.guard = "gpu" /\ ~has_gpu
      BY <2>1, <2>3 DEF GuardHolds
    <3> QED BY <2>1, <3>1 DEF Applies, Current
  <2>7. UNCHANGED <<has_gpu, phase, status, script_exit>>
    BY <2>1
  <2> QED BY <1>2, <2>1, <2>4, <2>5, <2>6, <2>7
<1>5. CASE PhaseEnd
  <2>1. /\ phase \in 1..9 /\ k > 0 /\ k > Len(Blocks(phase))
        /\ status' = [status EXCEPT ![phase] = Verdict] /\ phase' = phase + 1 /\ k' = 0
        /\ UNCHANGED <<has_gpu, binary, ok, outcome, script_exit>>
    BY <1>5, <1>t DEF PhaseEnd, InPhase
  <2>2. PhaseInv'
    <3>1. phase' \in 1..9 => Len(Blocks(phase')) \in 1..4
      BY BlockTable
    <3>2. /\ has_gpu \in BOOLEAN /\ binary \in BOOLEAN /\ ok \in BOOLEAN
          /\ outcome \in Seq(Seq(BOOLEAN))
      BY DEF BatteryInv, PhaseInv
    <3> QED BY <2>1, <3>1, <3>2 DEF PhaseInv
  <2>3. Verdict \in {"PASS", "FAIL"} \/ (Verdict = "SKIP" /\ ~has_gpu)
    BY DEF Verdict
  <2>4. status \in Seq({"RUN", "PASS", "FAIL", "SKIP"}) /\ Len(status) = phase
    BY <2>1 DEF BatteryInv, StatusInv, LastEnded
  <2>5. /\ status' \in Seq({"RUN", "PASS", "FAIL", "SKIP"}) /\ Len(status') = phase
        /\ status'[phase] = Verdict
        /\ \A p \in 1..(phase - 1) : status'[p] = status[p]
    BY <2>1, <2>3, <2>4
  <2>6. LastEnded' = phase
    BY <2>1 DEF LastEnded
  <2>7. StatusInv'
    <3>1. script_exit = -1
      BY <2>1 DEF BatteryInv, StatusInv
    <3>2. \A p \in 1..(phase' - 1) :
            status'[p] \in {"PASS", "FAIL"} \/ (status'[p] = "SKIP" /\ ~has_gpu)
      BY <2>1, <2>3, <2>5 DEF BatteryInv, StatusInv
    <3> QED BY <2>1, <2>5, <2>6, <3>1, <3>2 DEF StatusInv, SafeToTerminate
  <2>8. FlagInv'
    BY <2>1 DEF FlagInv
  <2>9. PassMeansDone'
    <3> PICK p : p = phase
      OBVIOUS
    <3> SUFFICES ASSUME Verdict = "PASS" PROVE Complete(p, Unseen)'
      BY <2>1, <2>5, <2>6, PhaseTable DEF PassMeansDone, PassMeans
    <3>1. ok
      BY DEF Verdict
    <3>2. k - 1 = Len(Blocks(p)) /\ DOMAIN Blocks(p) = 1..(k - 1)
      <4>1. k \in 0..(Len(Blocks(p)) + 1)
        BY <2>1 DEF BatteryInv, PhaseInv
      <4>2. p \in 1..9 /\ Len(Blocks(p)) \in 1..4
        BY <2>1, BlockTable
      <4>3. DOMAIN Blocks(p) = 1..Len(Blocks(p))
        BY ONLY <4>2, BlockTable
      <4>4. k > Len(Blocks(p))
        BY <2>1
      <4> QED BY ONLY <4>1, <4>2, <4>3, <4>4
    <3>3. \A b \in DOMAIN Blocks(p) : BlockDone(b)
      BY <2>1, <3>1, <3>2 DEF BatteryInv, FlagInv
    <3>4. Complete(p, Unseen)
      BY <3>3 DEF BlockDone, Complete
    <3> QED BY <2>1, <3>4 DEF Complete, Applies
  <2> QED BY <2>2, <2>7, <2>8, <2>9 DEF BatteryInv
<1>6. CASE Summary
  <2>1. /\ phase = 10 /\ Len(status) = 9 /\ DOMAIN status = 1..9
        /\ script_exit' = IF \E p \in DOMAIN status : status[p] = "FAIL" THEN 1 ELSE 0
        /\ UNCHANGED <<has_gpu, binary, phase, k, ok, outcome, status>>
    <3>1. phase = 10 /\ k = 0
      BY <1>6, <1>t DEF Summary, BatteryInv, PhaseInv
    <3>2. status \in Seq({"RUN", "PASS", "FAIL", "SKIP"}) /\ Len(status) = 9
      BY <3>1 DEF BatteryInv, StatusInv, LastEnded
    <3> QED BY <1>6, <3>1, <3>2 DEF Summary
  <2>2. SafeToTerminate'
    <3>1. \A p \in DOMAIN status :
            status[p] \in {"PASS", "FAIL"} \/ (status[p] = "SKIP" /\ ~has_gpu)
      BY <2>1 DEF BatteryInv, StatusInv
    <3> QED BY <2>1, <3>1, PhaseTable DEF SafeToTerminate
  <2>3. StatusInv'
    BY <2>1, <2>2 DEF BatteryInv, StatusInv, LastEnded
  <2>4. PhaseInv' /\ FlagInv'
    BY <2>1 DEF BatteryInv, PhaseInv, FlagInv, BlockDone, Applies
  <2>5. PassMeansDone'
    BY <2>1 DEF BatteryInv, PassMeansDone, PassMeans, Complete, Applies, LastEnded
  <2> QED BY <2>3, <2>4, <2>5 DEF BatteryInv
<1>7. CASE UNCHANGED batteryVars
  BY <1>7 DEF batteryVars, BatteryInv, PhaseInv, StatusInv, FlagInv, BlockDone,
              PassMeansDone, PassMeans, Complete, Applies, LastEnded, SafeToTerminate
<1> QED BY <1>1, <1>3, <1>4, <1>5, <1>6, <1>7 DEF BatteryNext

LEMMA BatteryInductive == BatterySpec => []BatteryInv
BY BatteryInvInit, BatteryInvNext, PTL DEF BatterySpec

(* A phase that the script reports PASS ran all its commands, and none failed
   but nvidia-smi, whose failure is meant to be ignored, and the first bench of
   Jolt, whose failure its subshell forgets (full_test_gpu.sh 199).        *)
THEOREM PassesAreHonest == BatterySpec => []PassMeansDone
<1>1. BatteryInv => PassMeansDone
  BY DEF BatteryInv
<1> QED BY <1>1, BatteryInductive, PTL

(* Exit 0 of the script, on which the machine is given back, means that every
   phase was reached and none failed.                                      *)
THEOREM ExitZeroIsSafe == BatterySpec => []SafeToTerminate
<1>1. BatteryInv => SafeToTerminate
  BY DEF BatteryInv, StatusInv
<1> QED BY <1>1, BatteryInductive, PTL

-----------------------------------------------------------------------------
(* The drivers of the spikes.                                              *)

Later(q, n, s) == \E m \in DOMAIN q : m > n /\ q[m] = s
Pending(s) == \E n \in DOMAIN steps : steps[n] = s

StepNames ==
  {"write_commit", "check_length", "prove", "compare", "verify", "serialise", "save",
   "parse", "load", "compare_digest", "compare_min", "read_proof"}

(* How prove goes: whatever is made is verified before it is saved.        *)
ProvePlan(q) ==
  \A n \in DOMAIN q :
    /\ q[n] \in {"write_commit", "check_length", "prove", "compare", "verify",
                 "serialise", "save"}
    /\ q[n] = "prove" => Later(q, n, "verify") /\ Later(q, n, "save")
    /\ q[n] = "verify" => Later(q, n, "save") /\ ~Later(q, n, "prove")
    /\ q[n] = "serialise" => Later(q, n, "save")
    /\ q[n] = "save" => \A s \in {"prove", "verify", "serialise"} : ~Later(q, n, s)

(* How verify goes: it only reads.                                         *)
VerifyPlan(q) ==
  \A n \in DOMAIN q :
    q[n] \in {"parse", "load", "verify", "compare_digest", "compare_min", "read_proof"}

(* Where it compares, everything is compared with what was loaded.         *)
ComparePlan(q, sha) ==
  \A n \in DOMAIN q : q[n] = "load" =>
    /\ Later(q, n, "verify") /\ Later(q, n, "compare_digest")
    /\ sha => Later(q, n, "compare_min")

Compares == system \in {"sp1", "risc0"}
Writes(workload) == ~(system = "jolt" /\ workload = "toy")

(* A whole plan of prove and of verify.                                    *)
WholeProve(q, writes) ==
  /\ q \in Seq(StepNames) /\ q # << >> /\ ProvePlan(q)
  /\ \A s \in {"prove", "verify", "save"} : \E n \in DOMAIN q : q[n] = s
  /\ writes => \E n \in DOMAIN q : q[n] = "write_commit"

WholeVerify(q, compares, sha) ==
  /\ q \in Seq(StepNames) /\ q # << >> /\ VerifyPlan(q)
  /\ compares =>
       /\ ComparePlan(q, sha)
       /\ \A s \in {"load", "verify", "compare_digest"} : \E n \in DOMAIN q : q[n] = s
       /\ sha => \E n \in DOMAIN q : q[n] = "compare_min"

(* The plans of the four drivers are whole.                                *)
LEMMA PlanOfProve == WholeProve(<<"write_commit", "prove", "compare", "verify", "save">>, TRUE)
<1> PICK q : q = <<"write_commit", "prove", "compare", "verify", "save">>
  OBVIOUS
<1>1. q \in Seq(StepNames) /\ DOMAIN q = 1..5 /\ q # << >>
  BY DEF StepNames
<1>2. /\ q[1] = "write_commit" /\ q[2] = "prove" /\ q[3] = "compare"
      /\ q[4] = "verify" /\ q[5] = "save"
  OBVIOUS
<1>3. \A n \in DOMAIN q : n = 1 \/ n = 2 \/ n = 3 \/ n = 4 \/ n = 5
  BY <1>1
<1>4. /\ Later(q, 2, "verify")
      /\ Later(q, 2, "save")
      /\ Later(q, 4, "save")
  BY <1>1, <1>2 DEF Later
<1>5. ProvePlan(q)
  <2>1. /\ \A s \in {"prove", "verify", "serialise"} : ~Later(q, 5, s)
        /\ ~Later(q, 4, "prove")
    BY <1>1, <1>2, <1>3 DEF Later
  <2> QED BY <1>2, <1>3, <1>4, <2>1 DEF ProvePlan
<1> QED BY <1>1, <1>2, <1>5 DEF WholeProve

LEMMA PlanOfRisc0 == WholeProve(<<"write_commit", "prove", "verify", "compare", "save">>, TRUE)
<1> PICK q : q = <<"write_commit", "prove", "verify", "compare", "save">>
  OBVIOUS
<1>1. q \in Seq(StepNames) /\ DOMAIN q = 1..5 /\ q # << >>
  BY DEF StepNames
<1>2. /\ q[1] = "write_commit" /\ q[2] = "prove" /\ q[3] = "verify"
      /\ q[4] = "compare" /\ q[5] = "save"
  OBVIOUS
<1>3. \A n \in DOMAIN q : n = 1 \/ n = 2 \/ n = 3 \/ n = 4 \/ n = 5
  BY <1>1
<1>4. /\ Later(q, 2, "verify")
      /\ Later(q, 2, "save")
      /\ Later(q, 3, "save")
  BY <1>1, <1>2 DEF Later
<1>5. ProvePlan(q)
  <2>1. /\ \A s \in {"prove", "verify", "serialise"} : ~Later(q, 5, s)
        /\ ~Later(q, 3, "prove")
    BY <1>1, <1>2, <1>3 DEF Later
  <2> QED BY <1>2, <1>3, <1>4, <2>1 DEF ProvePlan
<1> QED BY <1>1, <1>2, <1>5 DEF WholeProve

LEMMA PlanOfSonobe == WholeProve(<<"check_length", "prove", "verify", "save", "write_commit">>, TRUE)
<1> PICK q : q = <<"check_length", "prove", "verify", "save", "write_commit">>
  OBVIOUS
<1>1. q \in Seq(StepNames) /\ DOMAIN q = 1..5 /\ q # << >>
  BY DEF StepNames
<1>2. /\ q[1] = "check_length" /\ q[2] = "prove" /\ q[3] = "verify"
      /\ q[4] = "save" /\ q[5] = "write_commit"
  OBVIOUS
<1>3. \A n \in DOMAIN q : n = 1 \/ n = 2 \/ n = 3 \/ n = 4 \/ n = 5
  BY <1>1
<1>4. /\ Later(q, 2, "verify")
      /\ Later(q, 2, "save")
      /\ Later(q, 3, "save")
  BY <1>1, <1>2 DEF Later
<1>5. ProvePlan(q)
  <2>1. /\ \A s \in {"prove", "verify", "serialise"} : ~Later(q, 4, s)
        /\ ~Later(q, 3, "prove")
    BY <1>1, <1>2, <1>3 DEF Later
  <2> QED BY <1>2, <1>3, <1>4, <2>1 DEF ProvePlan
<1> QED BY <1>1, <1>2, <1>5 DEF WholeProve

LEMMA PlanOfJolt == WholeProve(<<"prove", "compare", "serialise", "verify", "save">>, FALSE)
<1> PICK q : q = <<"prove", "compare", "serialise", "verify", "save">>
  OBVIOUS
<1>1. q \in Seq(StepNames) /\ DOMAIN q = 1..5 /\ q # << >>
  BY DEF StepNames
<1>2. /\ q[1] = "prove" /\ q[2] = "compare" /\ q[3] = "serialise"
      /\ q[4] = "verify" /\ q[5] = "save"
  OBVIOUS
<1>3. \A n \in DOMAIN q : n = 1 \/ n = 2 \/ n = 3 \/ n = 4 \/ n = 5
  BY <1>1
<1>4. /\ Later(q, 1, "verify")
      /\ Later(q, 1, "save")
      /\ Later(q, 3, "save")
      /\ Later(q, 4, "save")
  BY <1>1, <1>2 DEF Later
<1>5. ProvePlan(q)
  <2>1. /\ \A s \in {"prove", "verify", "serialise"} : ~Later(q, 5, s)
        /\ ~Later(q, 4, "prove")
    BY <1>1, <1>2, <1>3 DEF Later
  <2> QED BY <1>2, <1>3, <1>4, <2>1 DEF ProvePlan
<1> QED BY <1>1, <1>2, <1>5 DEF WholeProve

LEMMA PlanOfJoltSha == 
  WholeProve(<<"write_commit", "prove", "compare", "serialise", "verify", "save">>, TRUE)
<1> PICK q : q = <<"write_commit", "prove", "compare", "serialise", "verify", "save">>
  OBVIOUS
<1>1. q \in Seq(StepNames) /\ DOMAIN q = 1..6 /\ q # << >>
  BY DEF StepNames
<1>2. /\ q[1] = "write_commit" /\ q[2] = "prove" /\ q[3] = "compare"
      /\ q[4] = "serialise" /\ q[5] = "verify" /\ q[6] = "save"
  OBVIOUS
<1>3. \A n \in DOMAIN q : n = 1 \/ n = 2 \/ n = 3 \/ n = 4 \/ n = 5 \/ n = 6
  BY <1>1
<1>4. /\ Later(q, 2, "verify")
      /\ Later(q, 2, "save")
      /\ Later(q, 4, "save")
      /\ Later(q, 5, "save")
  BY <1>1, <1>2 DEF Later
<1>5. ProvePlan(q)
  <2>1. /\ \A s \in {"prove", "verify", "serialise"} : ~Later(q, 6, s)
        /\ ~Later(q, 5, "prove")
    BY <1>1, <1>2, <1>3 DEF Later
  <2> QED BY <1>2, <1>3, <1>4, <2>1 DEF ProvePlan
<1> QED BY <1>1, <1>2, <1>5 DEF WholeProve

LEMMA PlanOfVerifySha == 
  WholeVerify(<<"parse", "load", "verify", "compare_digest", "compare_min">>, TRUE, TRUE)
<1> PICK q : q = <<"parse", "load", "verify", "compare_digest", "compare_min">>
  OBVIOUS
<1>1. q \in Seq(StepNames) /\ DOMAIN q = 1..5 /\ q # << >>
  BY DEF StepNames
<1>2. /\ q[1] = "parse" /\ q[2] = "load" /\ q[3] = "verify"
      /\ q[4] = "compare_digest" /\ q[5] = "compare_min"
  OBVIOUS
<1>3. \A n \in DOMAIN q : n = 1 \/ n = 2 \/ n = 3 \/ n = 4 \/ n = 5
  BY <1>1
<1>4. /\ Later(q, 2, "verify")
      /\ Later(q, 2, "compare_digest")
      /\ Later(q, 2, "compare_min")
  BY <1>1, <1>2 DEF Later
<1>5. VerifyPlan(q)
  BY <1>2, <1>3 DEF VerifyPlan
<1> QED BY <1>1, <1>2, <1>3, <1>4, <1>5 DEF WholeVerify, ComparePlan

LEMMA PlanOfVerifyToy == 
  WholeVerify(<<"parse", "load", "verify", "compare_digest">>, TRUE, FALSE)
<1> PICK q : q = <<"parse", "load", "verify", "compare_digest">>
  OBVIOUS
<1>1. q \in Seq(StepNames) /\ DOMAIN q = 1..4 /\ q # << >>
  BY DEF StepNames
<1>2. /\ q[1] = "parse" /\ q[2] = "load" /\ q[3] = "verify"
      /\ q[4] = "compare_digest"
  OBVIOUS
<1>3. \A n \in DOMAIN q : n = 1 \/ n = 2 \/ n = 3 \/ n = 4
  BY <1>1
<1>4. /\ Later(q, 2, "verify")
      /\ Later(q, 2, "compare_digest")
  BY <1>1, <1>2 DEF Later
<1>5. VerifyPlan(q)
  BY <1>2, <1>3 DEF VerifyPlan
<1> QED BY <1>1, <1>2, <1>3, <1>4, <1>5 DEF WholeVerify, ComparePlan

LEMMA PlanOfReadProof == ASSUME NEW sha PROVE WholeVerify(<<"read_proof">>, FALSE, sha)
<1> PICK q : q = <<"read_proof">>
  OBVIOUS
<1>1. q \in Seq(StepNames) /\ DOMAIN q = 1..1 /\ q # << >>
  BY DEF StepNames
<1>2. /\ q[1] = "read_proof"
  OBVIOUS
<1>3. \A n \in DOMAIN q : n = 1
  BY <1>1
<1>5. VerifyPlan(q)
  BY <1>2, <1>3 DEF VerifyPlan
<1> QED BY <1>1, <1>5 DEF WholeVerify

LEMMA PlanOfSonobeVerify == ASSUME NEW sha PROVE WholeVerify(<<"load", "verify">>, FALSE, sha)
<1> PICK q : q = <<"load", "verify">>
  OBVIOUS
<1>1. q \in Seq(StepNames) /\ DOMAIN q = 1..2 /\ q # << >>
  BY DEF StepNames
<1>2. /\ q[1] = "load" /\ q[2] = "verify"
  OBVIOUS
<1>3. \A n \in DOMAIN q : n = 1 \/ n = 2
  BY <1>1
<1>5. VerifyPlan(q)
  BY <1>2, <1>3 DEF VerifyPlan
<1> QED BY <1>1, <1>5 DEF WholeVerify

LEMMA ConcatIs ==
  ASSUME NEW S, NEW s \in Seq(S), NEW u \in Seq(S), NEW t \in Seq(S),
         Len(t) = Len(s) + Len(u), \A n \in 1..Len(s) : t[n] = s[n],
         \A n \in 1..Len(u) : t[Len(s) + n] = u[n]
  PROVE  s \o u = t
<1> PICK v : v = s \o u
  OBVIOUS
<1>1. /\ v \in Seq(S) /\ Len(v) = Len(s) + Len(u)
      /\ \A n \in 1..Len(s) : v[n] = s[n]
      /\ \A n \in 1..Len(u) : v[Len(s) + n] = u[n]
  OBVIOUS
<1>2. Len(s) \in Nat /\ Len(u) \in Nat
  OBVIOUS
<1>3. ASSUME NEW n \in 1..Len(t) PROVE v[n] = t[n]
  <2>1. CASE n <= Len(s)
    BY <1>1, <1>2, <2>1
  <2>2. CASE n > Len(s)
    <3> PICK m : m = n - Len(s)
      OBVIOUS
    <3>1. m \in 1..Len(u) /\ n = Len(s) + m
      BY <1>2, <2>2
    <3> QED BY <1>1, <3>1
  <2> QED BY <1>2, <2>1, <2>2
<1> QED BY <1>1, <1>3, SeqEqual

LEMMA JoltProveIs ==
  JoltProve("sha256") =
    <<"write_commit", "prove", "compare", "serialise", "verify", "save">>
<1> PICK s : s = <<"write_commit">>
  OBVIOUS
<1> PICK u : u = JoltRunSha256
  OBVIOUS
<1> PICK t : t = <<"write_commit", "prove", "compare", "serialise", "verify", "save">>
  OBVIOUS
<1>1. s \in Seq(StepNames) /\ u \in Seq(StepNames) /\ t \in Seq(StepNames)
  BY DEF JoltRunSha256, StepNames
<1>2. Len(s) = 1 /\ Len(u) = 5 /\ Len(t) = 6 /\ s[1] = t[1]
  BY DEF JoltRunSha256
<1>3. t[2] = u[1] /\ t[3] = u[2] /\ t[4] = u[3] /\ t[5] = u[4] /\ t[6] = u[5]
  BY DEF JoltRunSha256
<1>4. Len(t) = Len(s) + Len(u) /\ \A n \in 1..Len(s) : t[n] = s[n]
  BY <1>2
<1>5. \A n \in 1..Len(u) : t[Len(s) + n] = u[n]
  BY <1>2, <1>3
<1>6. s \o u = t
  BY ONLY <1>1, <1>4, <1>5, ConcatIs
<1> QED BY <1>6 DEF JoltProve

LEMMA SonobeProveIs ==
  ASSUME NEW workload
  PROVE  SonobeProve(workload) =
           <<"check_length", "prove", "verify", "save", "write_commit">>
<1> PICK r : r = <<"prove", "verify", "save">>
  OBVIOUS
<1> PICK s : s = <<"check_length">>
  OBVIOUS
<1> PICK t : t = <<"check_length", "prove", "verify", "save">>
  OBVIOUS
<1> PICK u : u = <<"write_commit">>
  OBVIOUS
<1> PICK v : v = <<"check_length", "prove", "verify", "save", "write_commit">>
  OBVIOUS
<1>1. /\ r \in Seq(StepNames) /\ s \in Seq(StepNames) /\ t \in Seq(StepNames)
      /\ u \in Seq(StepNames) /\ v \in Seq(StepNames)
  BY DEF StepNames
<1>2. Len(r) = 3 /\ Len(s) = 1 /\ Len(t) = 4 /\ Len(u) = 1 /\ Len(v) = 5
  OBVIOUS
<1>3. s \o r = t
  <2>1. t[1] = s[1] /\ t[2] = r[1] /\ t[3] = r[2] /\ t[4] = r[3]
    OBVIOUS
  <2>2. Len(t) = Len(s) + Len(r) /\ \A n \in 1..Len(s) : t[n] = s[n]
    BY <1>2, <2>1
  <2>3. \A n \in 1..Len(r) : t[Len(s) + n] = r[n]
    BY <1>2, <2>1
  <2> QED BY ONLY <1>1, <2>2, <2>3, ConcatIs
<1>4. t \o u = v
  <2>1. v[1] = t[1] /\ v[2] = t[2] /\ v[3] = t[3] /\ v[4] = t[4] /\ v[5] = u[1]
    OBVIOUS
  <2>2. Len(v) = Len(t) + Len(u) /\ \A n \in 1..Len(t) : v[n] = t[n]
    BY <1>2, <2>1
  <2>3. \A n \in 1..Len(u) : v[Len(t) + n] = u[n]
    BY <1>2, <2>1
  <2> QED BY ONLY <1>1, <2>2, <2>3, ConcatIs
<1>5. (IF workload = "chain" THEN SonobeRunShaChain ELSE SonobeRunToyDecode) = r
  BY DEF SonobeRunShaChain, SonobeRunToyDecode
<1> QED BY <1>3, <1>4, <1>5 DEF SonobeProve

Systems == {"sp1", "risc0", "jolt", "sonobe"}

LEMMA PlansAreWhole ==
  ASSUME system \in Systems, NEW r, r.workload \in Workloads
  PROVE  /\ r.command = "prove" => WholeProve(StepsOf(r), Writes(r.workload))
         /\ r.command # "prove" =>
              WholeVerify(StepsOf(r), Compares, r.workload = "sha256")
<1>0. r.workload = "sha256" \/ r.workload # "sha256"
  OBVIOUS
<1>1. CASE system = "sp1"
  <2>1. Writes(r.workload) = TRUE /\ Compares = TRUE
    BY <1>1 DEF Writes, Compares
  <2>2. r.command = "prove" =>
          StepsOf(r) = <<"write_commit", "prove", "compare", "verify", "save">>
    BY <1>1 DEF StepsOf, Sp1ProveSha256, Sp1ProveToyDecode
  <2>3. r.command # "prove" /\ r.workload = "sha256" =>
          StepsOf(r) = <<"parse", "load", "verify", "compare_digest", "compare_min">>
    BY <1>1 DEF StepsOf, Sp1VerifySha256
  <2>4. r.command # "prove" /\ r.workload # "sha256" =>
          StepsOf(r) = <<"parse", "load", "verify", "compare_digest">>
    BY <1>1 DEF StepsOf, Sp1VerifyToyDecode
  <2> QED BY <1>0, <2>1, <2>2, <2>3, <2>4, PlanOfProve, PlanOfVerifySha, PlanOfVerifyToy
<1>2. CASE system = "risc0"
  <2>1. Writes(r.workload) = TRUE /\ Compares = TRUE /\ (r.workload = "sha256") = TRUE
    BY <1>2 DEF Writes, Compares, Workloads
  <2>2. r.command = "prove" =>
          StepsOf(r) = <<"write_commit", "prove", "verify", "compare", "save">>
    BY <1>2 DEF StepsOf, Risc0Prove
  <2>3. r.command # "prove" =>
          StepsOf(r) = <<"parse", "load", "verify", "compare_digest", "compare_min">>
    BY <1>2 DEF StepsOf, Risc0Verify
  <2> QED BY <2>1, <2>2, <2>3, PlanOfRisc0, PlanOfVerifySha
<1>3. CASE system = "jolt"
  <2>1. Compares = FALSE
    BY <1>3 DEF Compares
  <2>2. r.command = "prove" /\ r.workload = "sha256" =>
          /\ StepsOf(r) = <<"write_commit", "prove", "compare", "serialise", "verify", "save">>
          /\ Writes(r.workload) = TRUE
    BY <1>3, JoltProveIs DEF StepsOf, Writes
  <2>3. r.command = "prove" /\ r.workload # "sha256" =>
          StepsOf(r) = <<"prove", "compare", "serialise", "verify", "save">>
    BY <1>3 DEF StepsOf, JoltProve, JoltRunToyDecode
  <2>4. r.command # "prove" => StepsOf(r) = <<"read_proof">>
    BY <1>3 DEF StepsOf, JoltVerify
  <2>5. r.workload # "sha256" => Writes(r.workload) = FALSE
    BY <1>3 DEF Writes, Workloads
  <2> QED BY <1>0, <2>1, <2>2, <2>3, <2>4, <2>5, PlanOfJolt, PlanOfJoltSha, PlanOfReadProof
<1>4. CASE system = "sonobe"
  <2>1. Writes(r.workload) = TRUE /\ Compares = FALSE
    BY <1>4 DEF Writes, Compares
  <2>2. r.command = "prove" =>
          StepsOf(r) = <<"check_length", "prove", "verify", "save", "write_commit">>
    BY <1>4, SonobeProveIs DEF StepsOf
  <2>3. r.command # "prove" => StepsOf(r) = <<"load", "verify">>
    BY <1>4 DEF StepsOf, SonobeVerify
  <2> QED BY <2>1, <2>2, <2>3, PlanOfSonobe, PlanOfSonobeVerify
<1> QED BY <1>1, <1>2, <1>3, <1>4 DEF Systems

Engaged == host_exit \in {"running", "ok"}
Proving == Engaged /\ request.command = "prove"
Verifying == Engaged /\ request.command = "verify"

RequestInv ==
  /\ system \in Systems /\ host_exit \in {"idle", "running", "ok", "stopped"}
  /\ Engaged =>
       /\ request.workload \in Workloads /\ request.command \in {"prove", "verify"}
       /\ request.min \in MinSizes
       /\ request.command = "prove" => request.data \in Inputs

PlanInv ==
  /\ Engaged => steps \in Seq(StepNames)
  /\ host_exit = "running" => steps # << >>
  /\ host_exit = "ok" => steps = << >>
  /\ Proving => ProvePlan(steps)
  /\ Verifying => VerifyPlan(steps)
  /\ Verifying /\ Compares => ComparePlan(steps, request.workload = "sha256")

Made == proof.sound =>
  /\ proof = Proof(request.workload, Expected, TRUE, "driver")
  /\ GuestAccepts(request.workload, request.data, request.min)

(* What prove has done once a step is behind it.                           *)
ProvingInv == Proving =>
  /\ ~Pending("prove") => Made
  /\ ~Pending("verify") => proof.sound
  /\ ~Pending("save") /\ serialised =>
       out = Proof(request.workload, Expected, TRUE, "driver")
  /\ ~Pending("write_commit") /\ request.commit_out /\ Writes(request.workload) =>
       commit_file = NewCommit

(* And verify, where it compares.                                          *)
VerifyingInv == Verifying /\ Compares =>
  /\ ~Pending("load") => proof = out /\ out.kind = "proof"
  /\ ~Pending("verify") => proof.sound /\ proof.workload = request.workload
  /\ ~Pending("compare_digest") => proof.values[1] = request.commit
  /\ ~Pending("compare_min") /\ request.workload = "sha256" =>
       proof.values[2] = request.min

(* A sound proof shows what its program commits for an input it accepts.   *)
Shows(f) ==
  f.kind = "proof" /\ f.sound =>
    \E d \in Inputs, min \in MinSizes :
      f.values = Values(f.workload, d, min) /\ GuestAccepts(f.workload, d, min)

FileInv == Shows(out) /\ (out.kind = "proof" /\ out.maker = "driver" => out.sound)

HostsInv == RequestInv /\ PlanInv /\ ProvingInv /\ VerifyingInv /\ FileInv

LEMMA ValuesStay ==
  ASSUME UNCHANGED system
  PROVE  /\ \A w, d : Commitment(w, d)' = Commitment(w, d)
         /\ \A w, d, min : Values(w, d, min)' = Values(w, d, min)
         /\ Workloads' = Workloads /\ Compares' = Compares
         /\ \A w : Writes(w)' = Writes(w)
BY DEF Commitment, Values, Workloads, Compares, Writes

LEMMA ShowsStays ==
  ASSUME UNCHANGED system, UNCHANGED out
  PROVE  FileInv => FileInv'
<1>1. \A w, d, min : Values(w, d, min)' = Values(w, d, min)
  BY ValuesStay
<1> QED BY <1>1 DEF FileInv, Shows

LEMMA HostsInvInit == HostsInit => HostsInv
<1> SUFFICES ASSUME HostsInit PROVE HostsInv
  OBVIOUS
<1>1. RequestInv /\ PlanInv /\ ProvingInv /\ VerifyingInv
  BY DEF HostsInit, RequestInv, PlanInv, ProvingInv, VerifyingInv, Systems, Engaged,
         Proving, Verifying
<1>2. CASE out = Absent
  <2>1. out.kind # "proof"
    BY <1>2 DEF Absent
  <2> QED BY <1>1, <2>1 DEF HostsInv, FileInv, Shows
<1>3. CASE \E w \in Workloads : out \in Received(w) /\ Honest(w, out)
  <2> PICK w \in Workloads : out \in Received(w) /\ Honest(w, out)
    BY <1>3
  <2>1. PICK d \in Inputs, min \in MinSizes, sound \in BOOLEAN :
          out = Proof(w, Values(w, d, min), sound, "other")
    BY DEF Received
  <2>2. out.workload = w /\ out.maker = "other"
    BY <2>1 DEF Proof
  <2>3. Shows(out)
    BY <2>2 DEF Shows, Honest
  <2> QED BY <1>1, <2>2, <2>3 DEF HostsInv, FileInv
<1> QED BY <1>2, <1>3 DEF HostsInit

(* A step that is done leaves what was later in the plan.                  *)
LEMMA StepDone ==
  ASSUME RequestInv, PlanInv, host_exit = "running", Done, NEW h, At(h)
  PROVE  /\ RequestInv' /\ PlanInv'
         /\ \A s : s # h /\ ~Pending(s)' => ~Pending(s)
         /\ \A s : Later(steps, 1, s) => Pending(s)'
         /\ 1 \in DOMAIN steps /\ steps[1] = h
         /\ Engaged /\ Engaged' /\ request' = request /\ system' = system
         /\ (Proving' <=> Proving) /\ (Verifying' <=> Verifying)
<1>1. /\ steps' = Tail(steps) /\ UNCHANGED <<system, request, runs>>
      /\ host_exit' = IF Len(steps) = 1 THEN "ok" ELSE "running"
  BY DEF Done
<1>2. Engaged /\ Engaged' /\ (Proving' <=> Proving) /\ (Verifying' <=> Verifying)
  BY <1>1 DEF Engaged, Proving, Verifying
<1> PICK q : q = steps
  OBVIOUS
<1> PICK t : t = steps'
  OBVIOUS
<1>3. q \in Seq(StepNames) /\ q # << >> /\ q[1] = h
  BY <1>2 DEF PlanInv, At
<1>4. /\ t \in Seq(StepNames) /\ Len(t) = Len(q) - 1 /\ Len(q) \in Nat \ {0}
      /\ DOMAIN q = 1..Len(q) /\ DOMAIN t = 1..(Len(q) - 1)
      /\ \A n \in 1..(Len(q) - 1) : t[n] = q[n + 1]
  BY <1>1, <1>3
<1>5. \A n \in DOMAIN t : n + 1 \in DOMAIN q /\ t[n] = q[n + 1]
  BY <1>4
<1>6. \A s : \A n \in DOMAIN t : Later(t, n, s) <=> Later(q, n + 1, s)
  <2> SUFFICES ASSUME NEW n \in DOMAIN t, NEW s PROVE Later(t, n, s) <=> Later(q, n + 1, s)
    OBVIOUS
  <2>1. ASSUME Later(t, n, s) PROVE Later(q, n + 1, s)
    <3> PICK m \in DOMAIN t : m > n /\ t[m] = s
      BY <2>1 DEF Later
    <3>1. m + 1 \in DOMAIN q /\ m + 1 > n + 1 /\ q[m + 1] = s
      BY <1>4, <1>5
    <3> QED BY <3>1 DEF Later
  <2>2. ASSUME Later(q, n + 1, s) PROVE Later(t, n, s)
    <3> PICK m \in DOMAIN q : m > n + 1 /\ q[m] = s
      BY <2>2 DEF Later
    <3> PICK p : p = m - 1
      OBVIOUS
    <3>1. p \in DOMAIN t /\ p > n /\ m = p + 1
      BY <1>4
    <3>2. t[p] = s
      BY <1>5, <3>1
    <3> QED BY <3>1, <3>2 DEF Later
  <2> QED BY <2>1, <2>2
<1>7. ProvePlan(q) => ProvePlan(t)
  BY <1>5, <1>6 DEF ProvePlan
<1>8. VerifyPlan(q) => VerifyPlan(t)
  BY <1>5 DEF VerifyPlan
<1>9. \A sha : ComparePlan(q, sha) => ComparePlan(t, sha)
  BY <1>5, <1>6 DEF ComparePlan
<1>10. RequestInv'
  BY <1>1, <1>2, ValuesStay DEF RequestInv, Engaged
<1>11. PlanInv'
  <2>1. (Len(q) = 1 => t = << >>) /\ (Len(q) # 1 => t # << >>)
    BY <1>4
  <2>2. /\ host_exit' = "running" => t # << >>
        /\ host_exit' = "ok" => t = << >>
    BY <1>1, <2>1
  <2>3. Compares' = Compares
    BY <1>1, ValuesStay
  <2> QED BY <1>1, <1>2, <1>4, <1>7, <1>8, <1>9, <2>2, <2>3 DEF PlanInv
<1>12. \A s : s # h /\ ~Pending(s)' => ~Pending(s)
  <2> SUFFICES ASSUME NEW s, s # h, NEW n \in DOMAIN q, q[n] = s PROVE Pending(s)'
    BY DEF Pending
  <2> PICK p : p = n - 1
    OBVIOUS
  <2>1. n # 1
    BY <1>3
  <2>2. p \in DOMAIN t /\ n = p + 1
    BY <1>4, <2>1
  <2>3. t[p] = s
    BY <1>5, <2>2
  <2> QED BY <2>2, <2>3 DEF Pending
<1>13. \A s : Later(steps, 1, s) => Pending(s)'
  <2> SUFFICES ASSUME NEW s, NEW n \in DOMAIN q, n > 1, q[n] = s PROVE Pending(s)'
    BY DEF Later
  <2> PICK p : p = n - 1
    OBVIOUS
  <2>1. p \in DOMAIN t /\ n = p + 1
    BY <1>4
  <2>2. t[p] = s
    BY <1>5, <2>1
  <2> QED BY <2>1, <2>2 DEF Pending
<1> QED BY <1>1, <1>2, <1>3, <1>4, <1>10, <1>11, <1>12, <1>13

(* The plan of the running command, at its head.                           *)
LEMMA HeadOfPlan ==
  ASSUME RequestInv, PlanInv, host_exit = "running", NEW h, At(h)
  PROVE  /\ 1 \in DOMAIN steps /\ steps[1] = h
         /\ h \in {"write_commit", "prove", "serialise", "save"} => Proving
         /\ h \in {"load", "compare_digest", "compare_min"} => Verifying
         /\ Proving \/ Verifying
         /\ ~(Proving /\ Verifying)
         /\ h = "prove" => Later(steps, 1, "verify") /\ Later(steps, 1, "save")
         /\ Proving /\ h = "verify" => Later(steps, 1, "save") /\ ~Pending("prove")
         /\ h = "serialise" => Later(steps, 1, "save")
         /\ h = "save" => ~Pending("prove") /\ ~Pending("verify")
         /\ h = "load" /\ Compares =>
              /\ Later(steps, 1, "verify") /\ Later(steps, 1, "compare_digest")
              /\ request.workload = "sha256" => Later(steps, 1, "compare_min")
<1>1. Engaged /\ (Proving \/ Verifying) /\ ~(Proving /\ Verifying)
  BY DEF Engaged, Proving, Verifying, RequestInv
<1>2. steps \in Seq(StepNames) /\ steps # << >> /\ steps[1] = h
  BY <1>1 DEF PlanInv, At
<1>3. 1 \in DOMAIN steps /\ \A n \in DOMAIN steps : n = 1 \/ n > 1
  BY <1>2
<1>4. Proving => /\ h \notin {"load", "compare_digest", "compare_min"}
                 /\ h = "prove" => Later(steps, 1, "verify") /\ Later(steps, 1, "save")
                 /\ h = "verify" => Later(steps, 1, "save") /\ ~Later(steps, 1, "prove")
                 /\ h = "serialise" => Later(steps, 1, "save")
                 /\ h = "save" => ~Later(steps, 1, "prove") /\ ~Later(steps, 1, "verify")
  BY <1>2, <1>3 DEF PlanInv, ProvePlan
<1>5. Verifying => h \notin {"write_commit", "prove", "serialise", "save"}
  BY <1>2, <1>3 DEF PlanInv, VerifyPlan
<1>6. Verifying /\ Compares /\ h = "load" =>
        /\ Later(steps, 1, "verify") /\ Later(steps, 1, "compare_digest")
        /\ request.workload = "sha256" => Later(steps, 1, "compare_min")
  BY <1>2, <1>3 DEF PlanInv, ComparePlan
<1>7. \A s : s # h /\ Pending(s) => Later(steps, 1, s)
  BY <1>2, <1>3 DEF Pending, Later
<1> QED BY <1>1, <1>2, <1>3, <1>4, <1>5, <1>6, <1>7

(* What is kept by a step that touches neither the proof nor the files.     *)
LEMMA ProvingKept ==
  ASSUME ProvingInv, Proving' <=> Proving, UNCHANGED <<system, request, proof, out>>,
         NEW h, h # "prove", \A s : s # h /\ ~Pending(s)' => ~Pending(s),
         h = "verify" /\ Proving => proof.sound,
         h = "save" /\ Proving /\ serialised' =>
           out = Proof(request.workload, Expected, TRUE, "driver"),
         ~Pending("save")' => serialised' = serialised,
         h = "write_commit" /\ request.commit_out => commit_file' = NewCommit,
         h # "write_commit" => commit_file' = commit_file
  PROVE  ProvingInv'
<1> SUFFICES ASSUME Proving PROVE ProvingInv'
  BY DEF ProvingInv
<1>1. /\ Expected' = Expected /\ NewCommit' = NewCommit
      /\ Writes(request.workload)' = Writes(request.workload)
  BY ValuesStay DEF Expected, NewCommit
<1>2. ~Pending("prove")' => Made'
  BY <1>1 DEF ProvingInv, Made
<1>3. ~Pending("verify")' => proof'.sound
  BY DEF ProvingInv
<1>4. ~Pending("save")' /\ serialised' =>
        out' = Proof(request'.workload, Expected', TRUE, "driver")
  BY <1>1 DEF ProvingInv
<1>5. ~Pending("write_commit")' /\ request'.commit_out /\ Writes(request.workload)' =>
        commit_file' = NewCommit'
  BY <1>1 DEF ProvingInv
<1> QED BY <1>2, <1>3, <1>4, <1>5 DEF ProvingInv

LEMMA VerifyingKept ==
  ASSUME VerifyingInv, Verifying' <=> Verifying, UNCHANGED <<system, request, proof, out>>,
         NEW h, h # "load", \A s : s # h /\ ~Pending(s)' => ~Pending(s),
         h = "verify" => proof.sound /\ proof.workload = request.workload,
         h = "compare_digest" => proof.values[1] = request.commit,
         h = "compare_min" => proof.values[2] = request.min
  PROVE  VerifyingInv'
<1> SUFFICES ASSUME Verifying, Compares PROVE VerifyingInv'
  BY ValuesStay DEF VerifyingInv
<1>1. ~Pending("load")' => proof' = out' /\ out'.kind = "proof"
  BY DEF VerifyingInv
<1>2. ~Pending("verify")' => proof'.sound /\ proof'.workload = request'.workload
  BY DEF VerifyingInv
<1>3. ~Pending("compare_digest")' => proof'.values[1] = request'.commit
  BY DEF VerifyingInv
<1>4. ~Pending("compare_min")' /\ request'.workload = "sha256" =>
        proof'.values[2] = request'.min
  BY DEF VerifyingInv
<1> QED BY <1>1, <1>2, <1>3, <1>4 DEF VerifyingInv

(* Steps that change neither the proof nor the files, by what they find.   *)
LEMMA ReadingStep ==
  ASSUME HostsInv, host_exit = "running", Done, NEW h, At(h),
         h \notin {"prove", "load", "save"}, UNCHANGED <<proof, out>>,
         h = "verify" => proof.sound /\ proof.workload = request.workload,
         h = "compare_digest" => proof.values[1] = request.commit,
         h = "compare_min" => proof.values[2] = request.min,
         h = "write_commit" /\ request.commit_out => commit_file' = NewCommit,
         h # "write_commit" => commit_file' = commit_file,
         h # "serialise" => serialised' = serialised
  PROVE  HostsInv'
<1>1. /\ RequestInv' /\ PlanInv' /\ request' = request /\ system' = system
      /\ \A s : s # h /\ ~Pending(s)' => ~Pending(s)
      /\ \A s : Later(steps, 1, s) => Pending(s)'
      /\ (Proving' <=> Proving) /\ (Verifying' <=> Verifying)
  BY StepDone DEF HostsInv
<1>2. ~Pending("save")' => serialised' = serialised
  BY <1>1, HeadOfPlan DEF HostsInv
<1>3. ProvingInv'
  BY <1>1, <1>2, ProvingKept DEF HostsInv
<1>4. VerifyingInv'
  BY <1>1, VerifyingKept DEF HostsInv
<1>5. FileInv'
  BY <1>1, ShowsStays DEF HostsInv
<1> QED BY <1>1, <1>3, <1>4, <1>5 DEF HostsInv

LEMMA StartKeeps == HostsInv /\ Start => HostsInv'
<1> SUFFICES ASSUME HostsInv, Start PROVE HostsInv'
  OBVIOUS
<1>1. PICK w \in Workloads : \E r \in Proves(w) \cup Verifies(w) :
        request' = r /\ steps' = StepsOf(r)
  BY DEF Start
<1>2. /\ steps' = StepsOf(request') /\ request' \in Proves(w) \cup Verifies(w)
      /\ host_exit' = "running" /\ UNCHANGED <<system, out, commit_file>>
  BY <1>1 DEF Start, files
<1>3. /\ request'.workload = w /\ request'.command \in {"prove", "verify"}
      /\ request'.min \in MinSizes
      /\ request'.command = "prove" => request'.data \in Inputs
  BY <1>2 DEF Proves, Verifies
<1>4. RequestInv'
  BY <1>2, <1>3, ValuesStay DEF HostsInv, RequestInv
<1> PICK r : r = request'
  OBVIOUS
<1>5. /\ r.command = "prove" => WholeProve(StepsOf(r), Writes(r.workload))
      /\ r.command # "prove" =>
           WholeVerify(StepsOf(r), Compares, r.workload = "sha256")
  <2>1. system \in Systems /\ r.workload \in Workloads
    BY <1>3 DEF HostsInv, RequestInv
  <2> QED BY <2>1, PlansAreWhole
<1>6. /\ r.command = "prove" => WholeProve(steps', Writes(r.workload)')
      /\ r.command # "prove" => WholeVerify(steps', Compares', r.workload = "sha256")
  BY <1>2, <1>5, ValuesStay
<1>7. Engaged' /\ (Proving' <=> r.command = "prove") /\ (Verifying' <=> r.command # "prove")
  BY <1>2, <1>3 DEF Engaged, Proving, Verifying
<1>8. PlanInv'
  BY <1>2, <1>6, <1>7 DEF PlanInv, WholeProve, WholeVerify
<1>9. ProvingInv'
  <2>1. Proving' => Pending("prove")' /\ Pending("verify")' /\ Pending("save")'
    BY <1>6, <1>7 DEF WholeProve, Pending
  <2>2. Proving' /\ Writes(r.workload)' => Pending("write_commit")'
    BY <1>6, <1>7 DEF WholeProve, Pending
  <2> QED BY <2>1, <2>2 DEF ProvingInv
<1>10. VerifyingInv'
  <2>1. Verifying' /\ Compares' =>
          Pending("load")' /\ Pending("verify")' /\ Pending("compare_digest")'
    BY <1>6, <1>7 DEF WholeVerify, Pending
  <2>2. Verifying' /\ Compares' /\ r.workload = "sha256" => Pending("compare_min")'
    BY <1>6, <1>7 DEF WholeVerify, Pending
  <2> QED BY <2>1, <2>2 DEF VerifyingInv
<1>11. FileInv'
  BY <1>2, ShowsStays DEF HostsInv
<1> QED BY <1>4, <1>8, <1>9, <1>10, <1>11 DEF HostsInv

LEMMA ProveKeeps == HostsInv /\ Prove => HostsInv'
<1> SUFFICES ASSUME HostsInv, Prove PROVE HostsInv'
  OBVIOUS
<1>1. /\ At("prove") /\ host_exit = "running" /\ Done
      /\ UNCHANGED <<serialised, out, commit_file>>
  BY DEF Prove, At, files
<1>2. /\ RequestInv' /\ PlanInv' /\ request' = request /\ system' = system
      /\ \A s : s # "prove" /\ ~Pending(s)' => ~Pending(s)
      /\ \A s : Later(steps, 1, s) => Pending(s)'
      /\ (Proving' <=> Proving) /\ (Verifying' <=> Verifying)
  BY <1>1, StepDone DEF HostsInv
<1>3. Proving /\ ~Verifying /\ Pending("verify")' /\ Pending("save")'
  BY <1>1, <1>2, HeadOfPlan DEF HostsInv
<1>4. /\ Expected' = Expected /\ NewCommit' = NewCommit
      /\ Writes(request.workload)' = Writes(request.workload)
  BY <1>2, ValuesStay DEF Expected, NewCommit
<1>5. \/ /\ GuestAccepts(request.workload, request.data, request.min)
         /\ proof' = Proof(request.workload, Expected, TRUE, "driver")
      \/ \E v : proof' = Proof(request.workload, v, FALSE, "driver")
  BY DEF Prove
<1>6. Made'
  <2>1. proof'.sound => /\ GuestAccepts(request.workload, request.data, request.min)
                        /\ proof' = Proof(request.workload, Expected, TRUE, "driver")
    BY <1>5 DEF Proof
  <2> QED BY <1>2, <1>4, <2>1 DEF Made
<1>7. ~Pending("write_commit")' /\ request'.commit_out /\ Writes(request.workload)' =>
        commit_file' = NewCommit'
  BY <1>1, <1>2, <1>3, <1>4 DEF HostsInv, ProvingInv
<1>8. ProvingInv'
  BY <1>2, <1>3, <1>6, <1>7 DEF ProvingInv
<1>9. VerifyingInv'
  BY <1>2, <1>3 DEF VerifyingInv
<1>10. FileInv'
  BY <1>1, <1>2, ShowsStays DEF HostsInv
<1> QED BY <1>2, <1>8, <1>9, <1>10 DEF HostsInv

(* The proof is sound, and it is the one of the request.                   *)
LEMMA ReadyToSave ==
  ASSUME HostsInv, host_exit = "running", At("save")
  PROVE  /\ Proving /\ proof = Proof(request.workload, Expected, TRUE, "driver")
         /\ proof.sound /\ Shows(proof)
<1>1. Proving /\ ~Pending("prove") /\ ~Pending("verify")
  BY HeadOfPlan DEF HostsInv
<1>2. /\ proof.sound /\ proof = Proof(request.workload, Expected, TRUE, "driver")
      /\ GuestAccepts(request.workload, request.data, request.min)
  BY <1>1 DEF HostsInv, ProvingInv, Made
<1>3. request.data \in Inputs /\ request.min \in MinSizes
  BY <1>1 DEF HostsInv, RequestInv, Proving
<1>4. proof.workload = request.workload /\ proof.values = Expected
  BY <1>2 DEF Proof
<1>5. Shows(proof)
  BY <1>2, <1>3, <1>4 DEF Shows, Expected
<1> QED BY <1>1, <1>2, <1>5

LEMMA SaveKeeps == HostsInv /\ Save => HostsInv'
<1> SUFFICES ASSUME HostsInv, Save PROVE HostsInv'
  OBVIOUS
<1>1. /\ At("save") /\ host_exit = "running" /\ Done
      /\ out' = (IF serialised THEN proof ELSE out)
      /\ UNCHANGED <<proof, serialised, commit_file>>
  BY DEF Save, At
<1>2. /\ RequestInv' /\ PlanInv' /\ request' = request /\ system' = system
      /\ \A s : s # "save" /\ ~Pending(s)' => ~Pending(s)
      /\ (Proving' <=> Proving) /\ (Verifying' <=> Verifying)
  BY <1>1, StepDone DEF HostsInv
<1>3. /\ Proving /\ proof = Proof(request.workload, Expected, TRUE, "driver")
      /\ proof.sound /\ Shows(proof) /\ ~Verifying
  BY <1>1, ReadyToSave, HeadOfPlan DEF HostsInv
<1>4. /\ Expected' = Expected /\ NewCommit' = NewCommit
      /\ Writes(request.workload)' = Writes(request.workload)
      /\ \A w, d, min : Values(w, d, min)' = Values(w, d, min)
  BY <1>2, ValuesStay DEF Expected, NewCommit
<1>5. ProvingInv'
  <2>1. ~Pending("prove")' => Made'
    BY <1>1, <1>2, <1>3, <1>4 DEF HostsInv, ProvingInv, Made
  <2>2. proof'.sound
    BY <1>1, <1>3
  <2>3. serialised' => out' = Proof(request'.workload, Expected', TRUE, "driver")
    BY <1>1, <1>2, <1>3, <1>4
  <2>4. ~Pending("write_commit")' /\ request'.commit_out /\ Writes(request.workload)' =>
          commit_file' = NewCommit'
    BY <1>1, <1>2, <1>3, <1>4 DEF HostsInv, ProvingInv
  <2> QED BY <1>2, <2>1, <2>2, <2>3, <2>4 DEF ProvingInv
<1>6. VerifyingInv'
  BY <1>2, <1>3 DEF VerifyingInv
<1>7. FileInv'
  <2>1. Shows(out) /\ (out.kind = "proof" /\ out.maker = "driver" => out.sound)
    BY DEF HostsInv, FileInv
  <2>2. out' = proof \/ out' = out
    BY <1>1
  <2> QED BY <1>3, <1>4, <2>1, <2>2 DEF FileInv, Shows
<1> QED BY <1>2, <1>5, <1>6, <1>7 DEF HostsInv

LEMMA LoadKeeps == HostsInv /\ Load => HostsInv'
<1> SUFFICES ASSUME HostsInv, Load PROVE HostsInv'
  OBVIOUS
<1>1. /\ At("load") /\ host_exit = "running" /\ Done /\ out.kind = "proof" /\ proof' = out
      /\ UNCHANGED <<serialised, out, commit_file>>
  BY DEF Load, At, files
<1>2. /\ RequestInv' /\ PlanInv' /\ request' = request /\ system' = system
      /\ \A s : Later(steps, 1, s) => Pending(s)'
      /\ (Proving' <=> Proving) /\ (Verifying' <=> Verifying)
  BY <1>1, StepDone DEF HostsInv
<1>3. Verifying /\ ~Proving
  BY <1>1, HeadOfPlan DEF HostsInv
<1>4. VerifyingInv'
  <2> SUFFICES ASSUME Compares PROVE VerifyingInv'
    BY <1>2, ValuesStay DEF VerifyingInv
  <2>1. /\ Pending("verify")' /\ Pending("compare_digest")'
        /\ request.workload = "sha256" => Pending("compare_min")'
    BY <1>1, <1>2, HeadOfPlan DEF HostsInv
  <2> QED BY <1>1, <1>2, <2>1 DEF VerifyingInv
<1>5. ProvingInv'
  BY <1>2, <1>3 DEF ProvingInv
<1>6. FileInv'
  BY <1>1, <1>2, ShowsStays DEF HostsInv
<1> QED BY <1>2, <1>4, <1>5, <1>6 DEF HostsInv

LEMMA StopKeeps == HostsInv /\ Stop => HostsInv'
<1> SUFFICES ASSUME HostsInv, Stop PROVE HostsInv'
  OBVIOUS
<1>1. /\ host_exit = "running" /\ host_exit' = "stopped" /\ UNCHANGED <<system, request>>
      /\ out' \in {out} \cup IF At("save") /\ serialised THEN {CutShort, proof} ELSE {}
  BY DEF Stop
<1>2. ~Engaged' /\ ~Proving' /\ ~Verifying'
  BY <1>1 DEF Engaged, Proving, Verifying
<1>3. RequestInv' /\ PlanInv' /\ ProvingInv' /\ VerifyingInv'
  BY <1>1, <1>2 DEF HostsInv, RequestInv, PlanInv, ProvingInv, VerifyingInv
<1>4. FileInv'
  <2>1. \A w, d, min : Values(w, d, min)' = Values(w, d, min)
    BY <1>1, ValuesStay
  <2>2. CASE out' = out
    BY <1>1, <2>2, ShowsStays DEF HostsInv
  <2>3. CASE out' = CutShort
    <3>1. out'.kind # "proof"
      BY <2>3 DEF CutShort
    <3> QED BY <3>1 DEF FileInv, Shows
  <2>4. CASE out' = proof /\ At("save")
    <3>1. proof.sound /\ Shows(proof)
      BY <1>1, <2>4, ReadyToSave
    <3> QED BY <2>1, <2>4, <3>1 DEF FileInv, Shows
  <2> QED BY <1>1, <2>2, <2>3, <2>4
<1> QED BY <1>3, <1>4 DEF HostsInv

LEMMA HostsInvNext == HostsInv /\ [HostsNext]_hostVars => HostsInv'
<1> SUFFICES ASSUME HostsInv, [HostsNext]_hostVars PROVE HostsInv'
  OBVIOUS
<1>1. CASE WriteCommit
  <2>1. At("write_commit") /\ Done /\ host_exit = "running"
    BY <1>1 DEF WriteCommit, At
  <2>2. /\ request.commit_out => commit_file' = NewCommit
        /\ UNCHANGED <<proof, serialised, out>>
    BY <1>1 DEF WriteCommit
  <2> QED BY <2>1, <2>2, ReadingStep
<1>2. CASE CheckLength
  <2>1. At("check_length") /\ Done /\ host_exit = "running"
        /\ UNCHANGED <<proof, serialised, out, commit_file>>
    BY <1>2 DEF CheckLength, At, files
  <2> QED BY <2>1, ReadingStep
<1>3. CASE CompareValues
  <2>1. At("compare") /\ Done /\ host_exit = "running"
        /\ UNCHANGED <<proof, serialised, out, commit_file>>
    BY <1>3 DEF CompareValues, At, files
  <2> QED BY <2>1, ReadingStep
<1>4. CASE Verify
  <2>1. At("verify") /\ Done /\ host_exit = "running"
        /\ proof.sound /\ proof.workload = request.workload
        /\ UNCHANGED <<proof, serialised, out, commit_file>>
    BY <1>4 DEF Verify, At, files
  <2> QED BY <2>1, ReadingStep
<1>5. CASE Serialise
  <2>1. At("serialise") /\ Done /\ host_exit = "running"
        /\ UNCHANGED <<proof, out, commit_file>>
    BY <1>5 DEF Serialise, At, files
  <2> QED BY <2>1, ReadingStep
<1>6. CASE Parse
  <2>1. At("parse") /\ Done /\ host_exit = "running"
        /\ UNCHANGED <<proof, serialised, out, commit_file>>
    BY <1>6 DEF Parse, At, files
  <2> QED BY <2>1, ReadingStep
<1>7. CASE ReadProof
  <2>1. At("read_proof") /\ Done /\ host_exit = "running"
        /\ UNCHANGED <<proof, serialised, out, commit_file>>
    BY <1>7 DEF ReadProof, At, files
  <2> QED BY <2>1, ReadingStep
<1>8. CASE CompareDigest
  <2>1. At("compare_digest") /\ Done /\ host_exit = "running"
        /\ proof.values[1] = request.commit
        /\ UNCHANGED <<proof, serialised, out, commit_file>>
    BY <1>8 DEF CompareDigest, At, files
  <2> QED BY <2>1, ReadingStep
<1>9. CASE CompareMin
  <2>1. At("compare_min") /\ Done /\ host_exit = "running"
        /\ proof.values[2] = request.min
        /\ UNCHANGED <<proof, serialised, out, commit_file>>
    BY <1>9 DEF CompareMin, At, files
  <2> QED BY <2>1, ReadingStep
<1>10. CASE UNCHANGED hostVars
  <2>1. /\ UNCHANGED <<system, request, steps, proof, serialised, out, commit_file>>
        /\ host_exit' = host_exit
    BY <1>10 DEF hostVars, files
  <2>2. \A s : Pending(s)' <=> Pending(s)
    BY <2>1 DEF Pending
  <2>3. (Engaged' <=> Engaged) /\ (Proving' <=> Proving) /\ (Verifying' <=> Verifying)
    BY <2>1 DEF Engaged, Proving, Verifying
  <2>4. RequestInv'
    BY <2>1, <2>3, ValuesStay DEF HostsInv, RequestInv
  <2>5. PlanInv'
    BY <2>1, <2>3, ValuesStay DEF HostsInv, PlanInv
  <2>6. Expected' = Expected /\ NewCommit' = NewCommit
    BY <2>1, ValuesStay DEF Expected, NewCommit
  <2>7. ProvingInv'
    <3>1. Made' <=> Made
      BY <2>1, <2>6 DEF Made
    <3> QED BY <2>1, <2>2, <2>3, <2>6, <3>1, ValuesStay DEF HostsInv, ProvingInv
  <2>8. VerifyingInv'
    BY <2>1, <2>2, <2>3, ValuesStay DEF HostsInv, VerifyingInv
  <2>9. FileInv'
    BY <2>1, ShowsStays DEF HostsInv
  <2> QED BY <2>4, <2>5, <2>7, <2>8, <2>9 DEF HostsInv
<1> QED BY <1>1, <1>2, <1>3, <1>4, <1>5, <1>6, <1>7, <1>8, <1>9, <1>10, StartKeeps,
           ProveKeeps, SaveKeeps, LoadKeeps, StopKeeps DEF HostsNext

LEMMA HostsInductive == HostsSpec => []HostsInv
BY HostsInvInit, HostsInvNext, PTL DEF HostsSpec

(* An input that the guest accepts is as long as it must be, although the
   guest has seen the length after a cast.                                 *)
LEMMA CastOnlyShortens ==
  ASSUME NEW d \in Inputs, NEW min \in MinSizes, GuestAccepts("sha256", d, min)
  PROVE  Len(d) >= min
<1>1. Len(d) \in Nat /\ LenMod \in Nat \ {0} /\ min \in Nat
  BY HostsAssumption
<1>2. Len(d) % LenMod <= Len(d)
  BY <1>1
<1>3. Len(d) % LenMod >= min
  BY DEF GuestAccepts, LenU32
<1> QED BY <1>1, <1>2, <1>3

LEMMA FirstValues ==
  ASSUME NEW w, NEW d, NEW min
  PROVE  /\ Values(w, d, min)[1] = Commitment(w, d)
         /\ w = "sha256" => Values(w, d, min)[2] = min
<1> PICK c : c = Commitment(w, d)
  OBVIOUS
<1>1. PICK rest : /\ Values(w, d, min) = <<c>> \o rest
                  /\ rest \in {<<min>>, <<16, 16>>, << >>}
                  /\ w = "sha256" => rest = <<min>>
  BY DEF Values
<1>2. (<<c>> \o rest)[1] = c
  BY <1>1
<1>3. w = "sha256" => (<<c>> \o rest)[2] = min
  BY <1>1
<1> QED BY <1>1, <1>2, <1>3

(* Whoever made the file: if verify of SP1 or RISC Zero says Ok, the proof is
   sound and its statement holds of some input.  Nothing is said of Jolt, whose
   verify only reads the file.                                             *)
THEOREM OkMeansProved == HostsSpec => []VerifiedMeansProved
<1>1. HostsInv => VerifiedMeansProved
  <2> SUFFICES ASSUME HostsInv, host_exit = "ok", request.command = "verify",
                      system \in {"sp1", "risc0"}
               PROVE  /\ out.kind = "proof" /\ out.sound
                      /\ \E d \in Inputs :
                           /\ Commitment(request.workload, d) = request.commit
                           /\ request.workload = "sha256" => Len(d) >= request.min
    BY DEF VerifiedMeansProved
  <2>1. Verifying /\ Compares /\ \A s : ~Pending(s)
    BY DEF Verifying, Engaged, Compares, HostsInv, PlanInv, Pending
  <2>2. /\ proof = out /\ out.kind = "proof" /\ proof.sound
        /\ proof.workload = request.workload /\ proof.values[1] = request.commit
        /\ request.workload = "sha256" => proof.values[2] = request.min
    BY <2>1 DEF HostsInv, VerifyingInv
  <2>3. PICK d \in Inputs, min \in MinSizes :
          /\ out.values = Values(request.workload, d, min)
          /\ GuestAccepts(request.workload, d, min)
    BY <2>2 DEF HostsInv, FileInv, Shows
  <2>4. Commitment(request.workload, d) = request.commit
    BY <2>2, <2>3, FirstValues
  <2>5. request.workload = "sha256" => Len(d) >= request.min
    BY <2>2, <2>3, FirstValues, CastOnlyShortens
  <2> QED BY <2>2, <2>4, <2>5
<1> QED BY <1>1, HostsInductive, PTL

(* Wherever a driver stopped, a proof of its own at --out is sound; and after
   Ok of prove the files are of its input.                                 *)
THEOREM OkMeansSaved == HostsSpec => []SavedPairMatches
<1>1. HostsInv => SavedPairMatches
  <2> SUFFICES ASSUME HostsInv PROVE SavedPairMatches
    OBVIOUS
  <2>1. out.kind = "proof" /\ out.maker = "driver" =>
          /\ out.sound
          /\ \E d \in Inputs, min \in MinSizes : out.values = Values(out.workload, d, min)
    BY DEF HostsInv, FileInv, Shows
  <2>2. ASSUME host_exit = "ok", request.command = "prove"
        PROVE  /\ serialised => out = Proof(request.workload, Expected, TRUE, "driver")
               /\ request.commit_out /\ Writes(request.workload) => commit_file = NewCommit
    <3>1. Proving /\ \A s : ~Pending(s)
      BY <2>2 DEF Proving, Engaged, HostsInv, PlanInv, Pending
    <3> QED BY <3>1 DEF HostsInv, ProvingInv
  <2> QED BY <2>1, <2>2 DEF SavedPairMatches, Writes
<1> QED BY <1>1, HostsInductive, PTL

-----------------------------------------------------------------------------
(* The benches of the spikes.                                              *)

SizeLabels == {Sizes[n] : n \in DOMAIN Sizes}
AnyLabel == SizeLabels \cup {"16x16", "none"}
RowSet == [label : AnyLabel, session : Nat, cycles : AnyLabel]

OwnCycles(r) == \A j \in DOMAIN r : r[j].cycles \in {r[j].label, "none"}
WholeRows == {r \in Seq(RowSet) : r # << >> /\ OneSession(r) /\ OwnCycles(r)}

(* What a result file may be.                                              *)
WholeFiles == {None} \cup {Document(r) : r \in WholeRows}

Stages == {"off", "next", "create", "write", "sync", "rename", "success", "failure"}
Writing == stage \in {"create", "write", "sync", "rename"}

BenchShape ==
  /\ present \subseteq SizeLabels
  /\ session \in Nat /\ mode \in {"driver", "script", "alone"}
  /\ queue \in Seq(Benches) /\ (mode = "driver" => queue \in Seq(Sides))
  /\ stage \in Stages /\ (stage # "off" => session_exit = "running" /\ queue # << >>)
  /\ rows \in Seq(RowSet)
  /\ acked \in [Benches -> Seq(RowSet)]
  /\ DOMAIN results = Sides /\ results = [s \in Sides |-> results[s]]

(* The running bench: its rows are of this session, and the file that takes
   the place of the old one holds them all.                                *)
RunInv ==
  stage \notin {"off", "failure"} =>
    /\ \A j \in DOMAIN rows : rows[j].session = session
    /\ OwnCycles(rows)
    /\ place \in 1..(Len(Labels(Bench)) + 1)
    /\ stage = "success" => place = Len(Labels(Bench)) + 1
    /\ Writing => rows # << >> /\ place <= Len(Labels(Bench))
    /\ stage = "sync" => tmp = Unsynced(Document(rows))
    /\ stage = "rename" => tmp = Document(rows)

DiskInv ==
  /\ file \in [Benches -> WholeFiles]
  /\ older \in [Benches -> SUBSET WholeFiles]
  /\ \A b \in Benches : acked[b] # << >> => file[b] = Document(acked[b])

(* The rows are those of the fixtures among the first n - 1 sizes.         *)
Covers(r, n) ==
  /\ {r[j].label : j \in DOMAIN r} = {Sizes[m] : m \in 1..(n - 1)} \cap present
  /\ \A j \in DOMAIN r : r[j] = Row(r[j].label, r[j].label)
  /\ \A j, later \in DOMAIN r : j < later => Place(r[j].label) < Place(r[later].label)

CoverInv ==
  mode = "driver" /\ stage \notin {"off", "failure"} =>
    /\ Covers(rows, IF Writing THEN place + 1 ELSE place)
    /\ ~Writing /\ rows # << >> => file[Bench] = Document(rows)

ResultsInv ==
  mode = "driver" /\ session > 0 /\ session_exit \in {"running", "ok"} =>
    /\ present # {} => \A s \in Sides :
         results[s].kind = "document" => RowPerFixture(results[s].rows)
    /\ session_exit = "ok" => comparison = Comparison

BenchInv == BenchShape /\ RunInv /\ DiskInv /\ CoverInv /\ ResultsInv

(* The six benches.                                                        *)
LEMMA BenchTable ==
  /\ Benches = {"sp1", "sp1_toy", "risc0", "jolt", "jolt_toy", "sonobe"}
  /\ Sides \subseteq Benches
  /\ \A b \in Benches : Labels(b) = Sizes \/ Labels(b) = <<"16x16">>
  /\ \A b \in Sides : Labels(b) = Sizes /\ Kind[b].cycles # "log"
<1>1. Benches = {"sp1", "sp1_toy", "risc0", "jolt", "jolt_toy", "sonobe"}
  BY DEF Benches, Kind
<1>2. /\ Kind["sp1"] = Sp1BenchSha256 /\ Kind["sp1_toy"] = Sp1BenchToyDecode
      /\ Kind["risc0"] = Risc0Bench /\ Kind["jolt"] = JoltBench(Sizes)
      /\ Kind["jolt_toy"] = JoltBench(<<"16x16">>) /\ Kind["sonobe"] = SonobeBench
  BY DEF Kind
<1>3. /\ Sp1BenchSha256.labels = Sizes /\ Sp1BenchToyDecode.labels = <<"16x16">>
      /\ Risc0Bench.labels = Sizes /\ JoltBench(Sizes).labels = Sizes
      /\ JoltBench(<<"16x16">>).labels = <<"16x16">> /\ SonobeBench.labels = Sizes
      /\ Sp1BenchSha256.cycles # "log" /\ Risc0Bench.cycles # "log"
  BY DEF Sp1BenchSha256, Sp1BenchToyDecode, Risc0Bench, JoltBench, SonobeBench, BenchKind
<1> QED BY <1>1, <1>2, <1>3 DEF Labels, Sides

LEMMA LabelsAreLabels ==
  ASSUME NEW b \in Benches
  PROVE  /\ Len(Labels(b)) \in Nat /\ DOMAIN Labels(b) = 1..Len(Labels(b))
         /\ \A n \in 1..Len(Labels(b)) : Labels(b)[n] \in AnyLabel
<1>1. Sizes \in Seq(STRING \ {"16x16"})
  BY SizesAssumption
<1>2. Len(Sizes) \in Nat /\ DOMAIN Sizes = 1..Len(Sizes)
      /\ \A n \in 1..Len(Sizes) : Sizes[n] \in AnyLabel
  BY <1>1 DEF AnyLabel, SizeLabels
<1>3. CASE Labels(b) = <<"16x16">>
  BY <1>3 DEF AnyLabel
<1> QED BY <1>2, <1>3, BenchTable

LEMMA PlaceIs ==
  ASSUME NEW n \in DOMAIN Sizes
  PROVE  Place(Sizes[n]) = n /\ Sizes[n] # "16x16"
<1>1. \A m \in DOMAIN Sizes : Sizes[m] = Sizes[n] => m = n
  BY SizesAssumption
<1>2. Place(Sizes[n]) = n
  BY <1>1 DEF Place
<1>3. Sizes[n] \in STRING \ {"16x16"}
  BY SizesAssumption
<1> QED BY <1>2, <1>3

LEMMA CoverNothing == Covers(<< >>, 1)
BY DEF Covers

LEMMA CoverSkip ==
  ASSUME NEW r, NEW n \in DOMAIN Sizes, Covers(r, n), Sizes[n] \notin present
  PROVE  Covers(r, n + 1)
<1>1. n \in Nat /\ n > 0
  BY SizesAssumption
<1>2. {Sizes[m] : m \in 1..n} = {Sizes[m] : m \in 1..(n - 1)} \cup {Sizes[n]}
  BY <1>1
<1>3. (n + 1) - 1 = n
  BY <1>1
<1> QED BY <1>2, <1>3 DEF Covers

LEMMA CoverMeasure ==
  ASSUME BenchShape, NEW r \in Seq(RowSet), NEW n \in DOMAIN Sizes, Covers(r, n),
         Sizes[n] \in present
  PROVE  Covers(Append(r, Row(Sizes[n], Sizes[n])), n + 1)
<1> PICK e : e = Row(Sizes[n], Sizes[n])
  OBVIOUS
<1> PICK t : t = Append(r, e)
  OBVIOUS
<1>1. n \in Nat /\ n > 0 /\ DOMAIN Sizes = 1..Len(Sizes) /\ Len(Sizes) \in Nat
  BY SizesAssumption
<1>2. e.label = Sizes[n] /\ e = Row(e.label, e.label)
  BY DEF Row
<1>3. e \in RowSet
  BY <1>2 DEF RowSet, Row, AnyLabel, SizeLabels, BenchShape
<1>4. /\ DOMAIN r = 1..Len(r) /\ Len(r) \in Nat /\ DOMAIN t = 1..(Len(r) + 1)
      /\ t[Len(r) + 1] = e /\ \A j \in DOMAIN r : t[j] = r[j]
  BY <1>3
<1>5. {Sizes[m] : m \in 1..n} = {Sizes[m] : m \in 1..(n - 1)} \cup {Sizes[n]}
  BY <1>1
<1>6. {t[j].label : j \in DOMAIN t} = {r[j].label : j \in DOMAIN r} \cup {e.label}
  <2>1. \A j \in DOMAIN t : j \in DOMAIN r \/ j = Len(r) + 1
    BY <1>4
  <2>2. \A j \in DOMAIN r : j \in DOMAIN t
    BY <1>4
  <2>3. Len(r) + 1 \in DOMAIN t
    BY <1>4
  <2> QED BY <1>4, <2>1, <2>2, <2>3
<1>7. {t[j].label : j \in DOMAIN t} = {Sizes[m] : m \in 1..((n + 1) - 1)} \cap present
  <2>1. (n + 1) - 1 = n
    BY <1>1
  <2> QED BY <1>2, <1>5, <1>6, <2>1 DEF Covers
<1>8. \A j \in DOMAIN t : t[j] = Row(t[j].label, t[j].label)
  BY <1>2, <1>4 DEF Covers
<1>9. ASSUME NEW j \in DOMAIN t, NEW later \in DOMAIN t, j < later
      PROVE  Place(t[j].label) < Place(t[later].label)
  <2>1. j \in DOMAIN r
    BY <1>4, <1>9
  <2>2. CASE later \in DOMAIN r
    BY <1>4, <1>9, <2>1, <2>2 DEF Covers
  <2>3. CASE later = Len(r) + 1
    <3>1. PICK m \in 1..(n - 1) : r[j].label = Sizes[m]
      BY <2>1 DEF Covers
    <3>2. m \in DOMAIN Sizes /\ m < n
      BY <1>1
    <3>3. Place(Sizes[m]) = m /\ Place(Sizes[n]) = n
      BY <3>2, PlaceIs
    <3> QED BY <1>2, <1>4, <2>1, <2>3, <3>1, <3>2, <3>3
  <2> QED BY <1>4, <2>2, <2>3
<1> QED BY <1>7, <1>8, <1>9 DEF Covers

LEMMA CoverAll ==
  ASSUME BenchShape, NEW r, Covers(r, Len(Sizes) + 1)
  PROVE  RowPerFixture(r)
<1>1. DOMAIN Sizes = 1..((Len(Sizes) + 1) - 1)
  BY SizesAssumption
<1>2. {Sizes[m] : m \in 1..((Len(Sizes) + 1) - 1)} \cap present = present
  BY <1>1 DEF BenchShape, SizeLabels
<1> QED BY <1>2 DEF Covers, RowPerFixture

LEMMA BenchInvInit == BenchInit => BenchInv
<1> SUFFICES ASSUME BenchInit PROVE BenchInv
  OBVIOUS
<1>1. BenchShape
  BY DEF BenchInit, BenchShape, SizeLabels, Stages
<1>2. DiskInv
  BY DEF BenchInit, DiskInv, WholeFiles
<1>3. RunInv /\ CoverInv /\ ResultsInv
  BY DEF BenchInit, RunInv, CoverInv, ResultsInv
<1> QED BY <1>1, <1>2, <1>3 DEF BenchInv

(* The bench that runs.                                                    *)
LEMMA RunningBench ==
  ASSUME BenchShape, queue # << >>
  PROVE  /\ Bench \in Benches /\ (mode = "driver" => Bench \in Sides)
         /\ Tail(queue) \in Seq(Benches) /\ (mode = "driver" => Tail(queue) \in Seq(Sides))
BY DEF BenchShape, Bench

LEMMA ResultsKept ==
  ASSUME BenchInv, UNCHANGED <<mode, session, present, results>>,
         session_exit = "running", session_exit' # "ok"
  PROVE  ResultsInv'
BY DEF BenchInv, ResultsInv, RowPerFixture, Row

LEMMA CoversKept ==
  ASSUME UNCHANGED <<session, present>>
  PROVE  \A r, n : Covers(r, n)' <=> Covers(r, n)
BY DEF Covers, Row

(* A document of the running bench.                                        *)
LEMMA RowsAreWhole ==
  ASSUME BenchShape, RunInv, stage \notin {"off", "failure"}, rows # << >>
  PROVE  rows \in WholeRows
<1>1. 1 \in DOMAIN rows /\ rows \in Seq(RowSet)
  BY DEF BenchShape
<1>2. OneSession(rows) /\ OwnCycles(rows)
  BY <1>1 DEF RunInv, OneSession
<1> QED BY <1>1, <1>2 DEF WholeRows

LEMMA StartSessionKeeps == BenchInv /\ StartSession => BenchInv'
<1> SUFFICES ASSUME BenchInv, StartSession PROVE BenchInv'
  OBVIOUS
<1>1. /\ stage' = "off" /\ session_exit' = "running" /\ session' = session + 1
      /\ present' \subseteq SizeLabels /\ results' = [s \in Sides |-> None]
      /\ UNCHANGED <<rows, tmp, file, older, acked, comparison>>
  BY DEF StartSession, StartDriver, StartScript, StartAlone, SizeLabels, disk
<1>2. /\ mode' \in {"driver", "script", "alone"} /\ queue' \in Seq(Benches)
      /\ mode' = "driver" => queue' \in Seq(Sides)
  <2>1. CASE StartDriver
    <3>1. /\ <<"sp1", "risc0">> \in Seq(Sides) /\ <<"sp1">> \in Seq(Sides)
          /\ <<"risc0">> \in Seq(Sides) /\ << >> \in Seq(Sides)
      BY DEF Sides
    <3>2. /\ <<"sp1", "risc0">> \in Seq(Benches) /\ <<"sp1">> \in Seq(Benches)
          /\ <<"risc0">> \in Seq(Benches) /\ << >> \in Seq(Benches)
      BY BenchTable
    <3> QED BY <2>1, <3>1, <3>2 DEF StartDriver
  <2>2. CASE StartScript
    <3>1. <<"risc0", "sp1">> \in Seq(Benches)
      BY BenchTable
    <3> QED BY <2>2, <3>1 DEF StartScript
  <2>3. CASE StartAlone
    BY <2>3 DEF StartAlone
  <2> QED BY <2>1, <2>2, <2>3 DEF StartSession
<1>3. BenchShape'
  BY <1>1, <1>2 DEF BenchInv, BenchShape, Stages
<1>4. DiskInv'
  BY <1>1 DEF BenchInv, DiskInv
<1>5. RunInv' /\ CoverInv'
  BY <1>1 DEF RunInv, CoverInv
<1>6. ResultsInv'
  <2>1. \A s \in Sides : results'[s].kind # "document"
    BY <1>1 DEF None
  <2> QED BY <1>1, <2>1 DEF ResultsInv
<1> QED BY <1>3, <1>4, <1>5, <1>6 DEF BenchInv

LEMMA SpawnKeeps == BenchInv /\ Spawn => BenchInv'
<1> SUFFICES ASSUME BenchInv, Spawn PROVE BenchInv'
  OBVIOUS
<1>1. /\ session_exit = "running" /\ queue # << >> /\ stage' = "next" /\ place' = 1
      /\ rows' = << >> /\ acked' = [acked EXCEPT ![Bench] = << >>]
      /\ UNCHANGED <<present, session, mode, queue, file, older, results, session_exit>>
  BY DEF Spawn, disk
<1>2. Bench \in Benches /\ Bench' = Bench
  BY <1>1, RunningBench DEF BenchInv, Bench
<1>3. BenchShape'
  BY <1>1, <1>2 DEF BenchInv, BenchShape, Stages
<1>4. RunInv'
  BY <1>1, <1>2, LabelsAreLabels DEF RunInv, OwnCycles, Writing
<1>5. DiskInv'
  <2>1. \A b \in Benches : acked'[b] # << >> => b # Bench /\ acked'[b] = acked[b]
    BY <1>1, <1>2 DEF BenchInv, BenchShape
  <2> QED BY <1>1, <2>1 DEF BenchInv, DiskInv
<1>6. CoverInv'
  <2>1. Covers(<< >>, 1)'
    BY DEF Covers
  <2> QED BY <1>1, <2>1 DEF CoverInv, Writing
<1>7. ResultsInv'
  BY <1>1, ResultsKept
<1> QED BY <1>3, <1>4, <1>5, <1>6, <1>7 DEF BenchInv

(* Inside the loop over the sizes.                                         *)
LEMMA LoopBody ==
  ASSUME BenchInv, InLoop
  PROVE  /\ session_exit = "running" /\ stage = "next" /\ queue # << >> /\ ~Writing
         /\ Bench \in Benches /\ (mode = "driver" => Bench \in Sides)
         /\ place \in 1..Len(Labels(Bench)) /\ Label \in AnyLabel
         /\ Len(Labels(Bench)) \in Nat
         /\ mode = "driver" =>
              /\ place \in DOMAIN Sizes /\ Label = Sizes[place]
              /\ Found(Label) <=> Sizes[place] \in present
              /\ Covers(rows, place)
<1>1. /\ session_exit = "running" /\ stage = "next" /\ queue # << >> /\ ~Writing
      /\ place <= Len(Labels(Bench))
  BY DEF InLoop, Running, Writing, BenchInv, BenchShape
<1>2. Bench \in Benches /\ (mode = "driver" => Bench \in Sides)
  BY <1>1, RunningBench DEF BenchInv
<1>3. place \in 1..Len(Labels(Bench)) /\ Len(Labels(Bench)) \in Nat
  BY <1>1, <1>2, LabelsAreLabels DEF BenchInv, RunInv
<1>4. Label \in AnyLabel
  BY <1>2, <1>3, LabelsAreLabels DEF Label
<1>5. ASSUME mode = "driver"
      PROVE  /\ place \in DOMAIN Sizes /\ Label = Sizes[place]
             /\ Found(Label) <=> Sizes[place] \in present
             /\ Covers(rows, place)
  <2>1. Labels(Bench) = Sizes
    BY <1>2, <1>5, BenchTable
  <2>2. place \in DOMAIN Sizes /\ Label = Sizes[place]
    BY <1>3, <2>1, SizesAssumption DEF Label
  <2>3. Sizes[place] # "16x16"
    BY <2>2, PlaceIs
  <2>4. Covers(rows, place)
    BY <1>1, <1>5 DEF BenchInv, CoverInv
  <2> QED BY <2>2, <2>3, <2>4 DEF Found
<1> QED BY <1>1, <1>2, <1>3, <1>4, <1>5

LEMMA SkipKeeps == BenchInv /\ Skip => BenchInv'
<1> SUFFICES ASSUME BenchInv, Skip PROVE BenchInv'
  OBVIOUS
<1>1. /\ InLoop /\ ~Found(Label) /\ place' = place + 1
      /\ UNCHANGED <<present, session, mode, queue, stage, rows, tmp, file, older, acked,
                     results, session_exit>>
  BY DEF Skip, disk
<1>2. /\ session_exit = "running" /\ stage = "next" /\ ~Writing /\ ~Writing'
      /\ place \in 1..Len(Labels(Bench)) /\ Bench' = Bench /\ Len(Labels(Bench)) \in Nat
  BY <1>1, LoopBody DEF Bench, Writing
<1>3. BenchShape' /\ DiskInv'
  BY <1>1 DEF BenchInv, BenchShape, DiskInv
<1>4. RunInv'
  BY <1>1, <1>2 DEF BenchInv, RunInv, OwnCycles
<1>5. CoverInv'
  <2> SUFFICES ASSUME mode = "driver"
               PROVE  Covers(rows, place + 1) /\ (rows # << >> => file[Bench] = Document(rows))
    BY <1>1, <1>2, CoversKept DEF CoverInv
  <2>1. /\ place \in DOMAIN Sizes /\ Sizes[place] \notin present /\ Covers(rows, place)
    BY <1>1, LoopBody
  <2> QED BY <1>2, <2>1, CoverSkip DEF BenchInv, CoverInv
<1>6. ResultsInv'
  BY <1>1, <1>2, ResultsKept
<1> QED BY <1>3, <1>4, <1>5, <1>6 DEF BenchInv

LEMMA AppendIs ==
  ASSUME NEW S, NEW q \in Seq(S), NEW x \in S
  PROVE  /\ Append(q, x) \in Seq(S) /\ Append(q, x) # << >>
         /\ \A j \in DOMAIN Append(q, x) :
              Append(q, x)[j] = x \/ (j \in DOMAIN q /\ Append(q, x)[j] = q[j])
<1>1. /\ Append(q, x) \in Seq(S) /\ Len(q) \in Nat /\ DOMAIN q = 1..Len(q)
      /\ DOMAIN Append(q, x) = 1..(Len(q) + 1)
      /\ Append(q, x)[Len(q) + 1] = x
      /\ \A j \in 1..Len(q) : Append(q, x)[j] = q[j]
  OBVIOUS
<1>2. Len(q) + 1 \in DOMAIN Append(q, x)
  BY <1>1
<1> QED BY <1>1, <1>2

LEMMA MeasureKeeps == BenchInv /\ Measure => BenchInv'
<1> SUFFICES ASSUME BenchInv, Measure PROVE BenchInv'
  OBVIOUS
<1>1. /\ InLoop /\ Found(Label)
      /\ stage' = "create"
      /\ UNCHANGED <<present, session, mode, queue, place, tmp, file, older, acked,
                     results, session_exit>>
  BY DEF Measure, disk
<1>2. PICK logged \in BOOLEAN :
        /\ Kind[Bench].cycles # "log" => logged = TRUE
        /\ captured' = CyclesSeen(logged)
        /\ rows' = Append(rows, Row(Label, captured'))
  BY DEF Measure
<1>3. /\ session_exit = "running" /\ stage = "next" /\ ~Writing
      /\ place \in 1..Len(Labels(Bench)) /\ Bench' = Bench /\ Label \in AnyLabel
      /\ Len(Labels(Bench)) \in Nat
  BY <1>1, LoopBody DEF Bench
<1> PICK e : e = Row(Label, captured')
  OBVIOUS
<1>4. captured' \in {Label, "none"}
  BY <1>2 DEF CyclesSeen
<1>5. /\ e \in RowSet /\ e.session = session /\ e.label = Label /\ e.cycles = captured'
  BY <1>3, <1>4 DEF Row, RowSet, AnyLabel, BenchInv, BenchShape
<1>6. /\ rows' \in Seq(RowSet) /\ rows' # << >>
      /\ \A j \in DOMAIN rows' : rows'[j] = e \/ (j \in DOMAIN rows /\ rows'[j] = rows[j])
  <2>1. rows \in Seq(RowSet) /\ rows' = Append(rows, e) /\ e \in RowSet
    BY <1>2, <1>5 DEF BenchInv, BenchShape
  <2> QED BY ONLY <2>1, AppendIs
<1>7. BenchShape'
  BY <1>1, <1>3, <1>6 DEF BenchInv, BenchShape, Stages
<1>8. DiskInv'
  BY <1>1 DEF BenchInv, DiskInv
<1>9. RunInv'
  <2>1. \A j \in DOMAIN rows : /\ rows[j].session = session
                               /\ rows[j].cycles \in {rows[j].label, "none"}
    BY <1>3 DEF BenchInv, RunInv, OwnCycles
  <2>2. \A j \in DOMAIN rows' : /\ rows'[j].session = session'
                                /\ rows'[j].cycles \in {rows'[j].label, "none"}
    BY <1>1, <1>4, <1>5, <1>6, <2>1
  <2>3. stage' = "create" /\ place' \in 1..Len(Labels(Bench))
    BY <1>1, <1>3
  <2> QED BY <1>3, <1>6, <2>2, <2>3 DEF RunInv, OwnCycles, Writing
<1>10. CoverInv'
  <2> SUFFICES ASSUME mode = "driver" PROVE Covers(rows', place + 1) /\ Writing' /\ place' = place
    BY <1>1, CoversKept DEF CoverInv
  <2>1. /\ place \in DOMAIN Sizes /\ Label = Sizes[place] /\ Sizes[place] \in present
        /\ Covers(rows, place) /\ Bench \in Sides
    BY <1>1, LoopBody
  <2>2. captured' = Label
    BY <1>2, <2>1, BenchTable DEF CyclesSeen
  <2>3. rows' = Append(rows, Row(Sizes[place], Sizes[place]))
    BY <1>2, <2>1, <2>2
  <2>4. Covers(rows', place + 1)
    BY <2>1, <2>3, CoverMeasure DEF BenchInv, BenchShape
  <2> QED BY <1>1, <2>1, <2>4 DEF Writing
<1>11. ResultsInv'
  BY <1>1, <1>3, ResultsKept
<1> QED BY <1>7, <1>8, <1>9, <1>10, <1>11 DEF BenchInv

(* create, write_all and sync_all touch the new file only.                  *)
LEMMA WritePartialKeeps ==
  ASSUME BenchInv, NEW from, NEW to, NEW content, WritePartial(from, to, content),
         from \in {"create", "write", "sync"}, to \in {"write", "sync", "rename"},
         to = "sync" => content = Unsynced(Document(rows)),
         to = "rename" => content = Document(rows)
  PROVE  BenchInv'
<1>1. /\ session_exit = "running" /\ stage = from /\ stage' = to /\ tmp' = content
      /\ UNCHANGED <<present, session, mode, queue, place, rows, file, older, acked,
                     results, session_exit>>
  BY DEF WritePartial, Running, disk
<1>2. Writing /\ Writing' /\ Bench' = Bench
  BY <1>1 DEF Writing, Bench
<1>3. BenchShape' /\ DiskInv'
  BY <1>1 DEF BenchInv, BenchShape, DiskInv, Stages
<1>4. RunInv'
  BY <1>1, <1>2 DEF BenchInv, RunInv, OwnCycles
<1>5. CoverInv'
  BY <1>1, <1>2, CoversKept DEF BenchInv, CoverInv
<1>6. ResultsInv'
  BY <1>1, ResultsKept
<1> QED BY <1>3, <1>4, <1>5, <1>6 DEF BenchInv

LEMMA RenameKeeps == BenchInv /\ Rename => BenchInv'
<1> SUFFICES ASSUME BenchInv, Rename PROVE BenchInv'
  OBVIOUS
<1>1. /\ session_exit = "running" /\ stage = "rename" /\ stage' = "next"
      /\ place' = place + 1
      /\ older' = [older EXCEPT ![Bench] = @ \cup {file[Bench]}]
      /\ file' = [file EXCEPT ![Bench] = tmp]
      /\ acked' = [acked EXCEPT ![Bench] = rows]
      /\ UNCHANGED <<present, session, mode, queue, rows, results, session_exit>>
  BY DEF Rename, Running
<1>2. queue # << >> /\ Bench \in Benches /\ Bench' = Bench /\ Writing /\ ~Writing'
  BY <1>1, RunningBench DEF BenchInv, BenchShape, Bench, Writing
<1>3. rows # << >> /\ tmp = Document(rows) /\ place \in 1..Len(Labels(Bench))
      /\ Len(Labels(Bench)) \in Nat
  BY <1>1, <1>2, LabelsAreLabels DEF BenchInv, RunInv
<1>4. tmp \in WholeFiles
  BY <1>1, <1>3, RowsAreWhole DEF BenchInv, WholeFiles
<1>5. BenchShape'
  BY <1>1, <1>2 DEF BenchInv, BenchShape, Stages
<1>6. DiskInv'
  <2>1. file' \in [Benches -> WholeFiles] /\ older' \in [Benches -> SUBSET WholeFiles]
    BY <1>1, <1>2, <1>4 DEF BenchInv, DiskInv
  <2>2. \A b \in Benches : acked'[b] # << >> => file'[b] = Document(acked'[b])
    <3> SUFFICES ASSUME NEW b \in Benches, acked'[b] # << >>
                 PROVE  file'[b] = Document(acked'[b])
      OBVIOUS
    <3>1. CASE b = Bench
      BY <1>1, <1>2, <1>3, <3>1 DEF BenchInv, DiskInv, BenchShape
    <3>2. CASE b # Bench
      BY <1>1, <1>2, <3>2 DEF BenchInv, DiskInv, BenchShape
    <3> QED BY <3>1, <3>2
  <2> QED BY <2>1, <2>2 DEF DiskInv
<1>7. RunInv'
  BY <1>1, <1>2, <1>3 DEF BenchInv, RunInv, OwnCycles
<1>8. CoverInv'
  <2>1. file'[Bench] = Document(rows)
    BY <1>1, <1>2, <1>3 DEF BenchInv, DiskInv
  <2> QED BY <1>1, <1>2, <2>1, CoversKept DEF BenchInv, CoverInv
<1>9. ResultsInv'
  BY <1>1, ResultsKept
<1> QED BY <1>5, <1>6, <1>7, <1>8, <1>9 DEF BenchInv

LEMMA FinishKeeps == BenchInv /\ Finish => BenchInv'
<1> SUFFICES ASSUME BenchInv, Finish PROVE BenchInv'
  OBVIOUS
<1>1. /\ session_exit = "running" /\ stage = "next" /\ stage' = "success"
      /\ place > Len(Labels(Bench))
      /\ UNCHANGED <<present, session, mode, queue, place, rows, tmp, file, older, acked,
                     results, session_exit>>
  BY DEF Finish, Running, disk
<1>2. queue # << >> /\ Bench \in Benches /\ Bench' = Bench /\ ~Writing /\ ~Writing'
      /\ Len(Labels(Bench)) \in Nat
  BY <1>1, RunningBench, LabelsAreLabels DEF BenchInv, BenchShape, Bench, Writing
<1>3. BenchShape' /\ DiskInv'
  BY <1>1 DEF BenchInv, BenchShape, DiskInv, Stages
<1>4. RunInv'
  BY <1>1, <1>2 DEF BenchInv, RunInv, OwnCycles
<1>5. CoverInv'
  BY <1>1, <1>2, CoversKept DEF BenchInv, CoverInv
<1>6. ResultsInv'
  BY <1>1, ResultsKept
<1> QED BY <1>3, <1>4, <1>5, <1>6 DEF BenchInv

LEMMA FailKeeps == BenchInv /\ Fail => BenchInv'
<1> SUFFICES ASSUME BenchInv, Fail PROVE BenchInv'
  OBVIOUS
<1>1. /\ session_exit = "running" /\ queue # << >> /\ stage' = "failure"
      /\ UNCHANGED <<present, session, mode, queue, rows, file, older, acked,
                     results, session_exit>>
  BY DEF Fail, disk
<1>2. BenchShape' /\ DiskInv'
  BY <1>1 DEF BenchInv, BenchShape, DiskInv, Stages
<1>3. RunInv' /\ CoverInv'
  BY <1>1 DEF RunInv, CoverInv
<1>4. ResultsInv'
  BY <1>1, ResultsKept
<1> QED BY <1>2, <1>3, <1>4 DEF BenchInv

(* What bench-driver reads back of a side is all there was to measure.     *)
LEMMA SideIsFresh ==
  ASSUME BenchInv, SideEnded, mode = "driver", present # {},
         RunSide(Bench).kind = "document"
  PROVE  RowPerFixture(RunSide(Bench).rows)
<1>1. stage = "success" /\ ~Writing /\ queue # << >>
  BY DEF RunSide, None, Writing, BenchInv, BenchShape
<1>2. Bench \in Sides /\ Labels(Bench) = Sizes /\ Bench \in Benches
  BY <1>1, RunningBench, BenchTable DEF BenchInv
<1>3. Covers(rows, Len(Sizes) + 1)
  BY <1>1, <1>2 DEF BenchInv, RunInv, CoverInv
<1>4. RowPerFixture(rows)
  BY <1>3, CoverAll DEF BenchInv
<1>5. rows # << >>
  BY <1>4 DEF RowPerFixture
<1>6. file[Bench] = Document(rows)
  BY <1>1, <1>5 DEF BenchInv, CoverInv
<1>7. Content(file[Bench]) = Document(rows)
  BY <1>6 DEF Content, Document
<1>8. RunSide(Bench) = Document(rows)
  BY <1>1, <1>7 DEF RunSide, Document
<1> QED BY <1>4, <1>8 DEF Document

LEMMA SideEndsKeeps == BenchInv /\ SideEnds => BenchInv'
<1> SUFFICES ASSUME BenchInv, SideEnds PROVE BenchInv'
  OBVIOUS
<1>1. /\ SideEnded /\ session_exit = "running" /\ stage # "off"
      /\ queue' = Tail(queue) /\ stage' = "off"
      /\ UNCHANGED <<present, session, mode, rows, file, older, acked, comparison>>
  BY DEF SideEnds, SideEnded, Running, disk
<1>2. \/ /\ mode = "driver" /\ session_exit' = session_exit
         /\ results' = [results EXCEPT ![Bench] = RunSide(Bench)]
      \/ mode # "driver" /\ results' = results
  BY DEF SideEnds
<1>3. queue # << >> /\ Bench \in Benches /\ (mode = "driver" => Bench \in Sides)
      /\ Tail(queue) \in Seq(Benches) /\ (mode = "driver" => Tail(queue) \in Seq(Sides))
  BY <1>1, RunningBench DEF BenchInv, BenchShape
<1>4. DOMAIN results' = Sides /\ results' = [s \in Sides |-> results'[s]]
  BY <1>2 DEF BenchInv, BenchShape
<1>5. BenchShape'
  BY <1>1, <1>3, <1>4 DEF BenchInv, BenchShape, Stages
<1>6. DiskInv'
  BY <1>1 DEF BenchInv, DiskInv
<1>7. RunInv' /\ CoverInv'
  BY <1>1 DEF RunInv, CoverInv
<1>8. ResultsInv'
  <2> SUFFICES ASSUME mode = "driver", session > 0 PROVE ResultsInv'
    BY <1>1 DEF ResultsInv
  <2>1. session_exit' = "running" /\ results' = [results EXCEPT ![Bench] = RunSide(Bench)]
    BY <1>1, <1>2
  <2> SUFFICES ASSUME present # {}, NEW s \in Sides, results'[s].kind = "document"
               PROVE  RowPerFixture(results'[s].rows)
    BY <1>1, <2>1 DEF ResultsInv, RowPerFixture, Row
  <2>2. CASE s = Bench
    <3>1. results'[s] = RunSide(Bench)
      BY <1>3, <2>1, <2>2 DEF BenchInv, BenchShape
    <3>2. RunSide(Bench).kind = "document"
      BY <3>1
    <3> QED BY <1>1, <3>1, <3>2, SideIsFresh
  <2>3. CASE s # Bench
    <3>1. results'[s] = results[s]
      BY <1>3, <2>1, <2>3 DEF BenchInv, BenchShape
    <3> QED BY <1>1, <3>1 DEF BenchInv, ResultsInv
  <2> QED BY <2>2, <2>3
<1> QED BY <1>5, <1>6, <1>7, <1>8 DEF BenchInv

LEMMA CompareSidesKeeps == BenchInv /\ CompareSides => BenchInv'
<1> SUFFICES ASSUME BenchInv, CompareSides PROVE BenchInv'
  OBVIOUS
<1>1. /\ session_exit = "running" /\ queue = << >>
      /\ session_exit' = "failed" \/ (session_exit' = "ok" /\ comparison' = Comparison)
      /\ UNCHANGED <<present, session, mode, queue, stage, rows, file, older, acked, results>>
  BY DEF CompareSides, process, disk
<1>2. stage = "off"
  BY <1>1 DEF BenchInv, BenchShape
<1>3. BenchShape' /\ DiskInv'
  BY <1>1, <1>2 DEF BenchInv, BenchShape, DiskInv
<1>4. RunInv' /\ CoverInv'
  BY <1>1, <1>2 DEF RunInv, CoverInv
<1>5. ResultsInv'
  <2>1. Comparison' = Comparison
    BY <1>1 DEF Comparison
  <2> QED BY <1>1, <2>1 DEF BenchInv, ResultsInv, RowPerFixture, Row
<1> QED BY <1>3, <1>4, <1>5 DEF BenchInv

LEMMA KillKeeps == BenchInv /\ Kill => BenchInv'
<1> SUFFICES ASSUME BenchInv, Kill PROVE BenchInv'
  OBVIOUS
<1>1. /\ session_exit' = "dead" /\ queue' = << >> /\ stage' = "off"
      /\ UNCHANGED <<present, session, mode, rows, file, older, acked, results>>
  BY DEF Kill, disk
<1>2. BenchShape' /\ DiskInv'
  BY <1>1 DEF BenchInv, BenchShape, DiskInv, Stages
<1> QED BY <1>1, <1>2 DEF BenchInv, RunInv, CoverInv, ResultsInv

(* A loss of power leaves what was synced: a whole file under every name.  *)
LEMMA PowerLossKeeps == BenchInv /\ PowerLoss => BenchInv'
<1> SUFFICES ASSUME BenchInv, PowerLoss PROVE BenchInv'
  OBVIOUS
<1>1. /\ session_exit' = "dead" /\ queue' = << >> /\ stage' = "off"
      /\ older' = [b \in Benches |-> {}] /\ acked' = [b \in Benches |-> << >>]
      /\ UNCHANGED <<present, session, mode, rows, results>>
  BY DEF PowerLoss
<1>2. PICK found : /\ \A b \in AtRisk : found[b] \in Survivors(b)
                   /\ file' = [b \in Benches |-> IF b \in AtRisk THEN found[b] ELSE file[b]]
  BY DEF PowerLoss
<1>3. ASSUME NEW b \in Benches PROVE Survivors(b) \subseteq WholeFiles
  <2>1. older[b] \cup {file[b]} \subseteq WholeFiles
    BY DEF BenchInv, DiskInv
  <2>2. \A f \in WholeFiles : AfterLoss(f) = {f}
    BY DEF WholeFiles, AfterLoss, None, Document
  <2> QED BY <2>1, <2>2 DEF Survivors
<1>4. file' \in [Benches -> WholeFiles]
  BY <1>2, <1>3 DEF BenchInv, DiskInv, AtRisk
<1>5. DiskInv'
  BY <1>1, <1>4 DEF DiskInv
<1>6. BenchShape'
  BY <1>1 DEF BenchInv, BenchShape, Stages
<1> QED BY <1>1, <1>5, <1>6 DEF BenchInv, RunInv, CoverInv, ResultsInv

LEMMA BenchInvNext == BenchInv /\ [BenchNext]_benchVars => BenchInv'
<1> SUFFICES ASSUME BenchInv, [BenchNext]_benchVars PROVE BenchInv'
  OBVIOUS
<1>1. CASE Create
  BY <1>1, WritePartialKeeps DEF Create
<1>2. CASE WriteAll
  BY <1>2, WritePartialKeeps DEF WriteAll
<1>3. CASE SyncAll
  <2>1. stage = "sync"
    BY <1>3 DEF SyncAll, WritePartial
  <2>2. tmp.content = Document(rows)
    BY <2>1 DEF BenchInv, RunInv, Unsynced
  <2> QED BY <1>3, <2>2, WritePartialKeeps DEF SyncAll
<1>4. CASE UNCHANGED benchVars
  <2>1. UNCHANGED <<present, session, mode, queue, stage, place, rows, tmp, file, older,
                    acked, results, comparison, session_exit>>
    BY <1>4 DEF benchVars, process, disk
  <2>2. BenchShape' /\ DiskInv'
    BY <2>1 DEF BenchInv, BenchShape, DiskInv
  <2>3. (Writing' <=> Writing) /\ Bench' = Bench
    BY <2>1 DEF Writing, Bench
  <2>4. RunInv' /\ CoverInv'
    BY <2>1, <2>3, CoversKept DEF BenchInv, RunInv, CoverInv, OwnCycles
  <2>5. Comparison' = Comparison
    BY <2>1 DEF Comparison
  <2>6. ResultsInv'
    BY <2>1, <2>5 DEF BenchInv, ResultsInv, RowPerFixture, Row
  <2> QED BY <2>2, <2>4, <2>6 DEF BenchInv
<1> QED BY <1>1, <1>2, <1>3, <1>4, StartSessionKeeps, SpawnKeeps, SkipKeeps, MeasureKeeps,
           RenameKeeps, FinishKeeps, FailKeeps, SideEndsKeeps, CompareSidesKeeps, KillKeeps,
           PowerLossKeeps DEF BenchNext

LEMMA BenchInductive == BenchSpec => []BenchInv
BY BenchInvInit, BenchInvNext, PTL DEF BenchSpec

(* Wherever a bench stops, and wherever the power fails, a result file is not
   there or is a whole document of one session.  The rows whose write_partial
   returned are in it until the power fails: after that they may be gone, as
   nobody syncs the directory, and the code's "always durable on disk"
   (spike/risc0/host/src/main.rs 110-112) is not proved of them.           *)
THEOREM CrashLeavesWholeFiles == BenchSpec => []ResultSurvivesCrash
<1>1. BenchInv => ResultSurvivesCrash
  <2> SUFFICES ASSUME BenchInv, NEW b \in Benches
               PROVE  /\ file[b].kind # "torn"
                      /\ acked[b] # << >> => Content(file[b]) = Document(acked[b])
                      /\ Content(file[b]).kind = "document" =>
                           LET r == Content(file[b]).rows
                           IN  /\ r # << >> /\ OneSession(r)
                               /\ \A j \in DOMAIN r : r[j].cycles \in {r[j].label, "none"}
    BY DEF ResultSurvivesCrash
  <2>1. file[b] \in WholeFiles
    BY DEF BenchInv, DiskInv
  <2>2. file[b] = None \/ \E r \in WholeRows : file[b] = Document(r)
    BY <2>1 DEF WholeFiles
  <2>3. /\ Content(file[b]) = file[b] /\ file[b].kind # "torn"
        /\ file[b].kind = "document" => file[b].rows \in WholeRows
    <3>1. CASE file[b] = None
      BY <3>1 DEF Content, None
    <3>2. ASSUME NEW r \in WholeRows, file[b] = Document(r)
          PROVE  /\ Content(file[b]) = file[b] /\ file[b].kind = "document"
                 /\ file[b].rows = r
      <4>1. Document(r).kind = "document" /\ Document(r).rows = r
        BY DEF Document
      <4> QED BY <3>2, <4>1 DEF Content
    <3> QED BY <2>2, <3>1, <3>2 DEF None
  <2>4. acked[b] # << >> => file[b] = Document(acked[b])
    BY DEF BenchInv, DiskInv
  <2> QED BY <2>3, <2>4 DEF WholeRows, OwnCycles
<1> QED BY <1>1, BenchInductive, PTL

(* Exit 0 of bench-driver, when there was a fixture: what it compared was measured
   in this session.  Without a fixture it reads the files of an earlier one.  *)
THEOREM ComparisonOfThisSession == BenchSpec => []ComparisonIsFresh
<1>1. BenchInv => ComparisonIsFresh
  <2> SUFFICES ASSUME BenchInv, session_exit = "ok", mode = "driver", session > 0
               PROVE  /\ comparison.kind = "comparison" /\ comparison.session = session
                      /\ present # {} =>
                           \A s \in Sides : comparison.sides[s].kind = "document" =>
                             RowPerFixture(comparison.sides[s].rows)
    BY DEF ComparisonIsFresh
  <2>1. comparison = Comparison
    BY DEF BenchInv, ResultsInv
  <2>2. /\ comparison.kind = "comparison" /\ comparison.session = session
        /\ comparison.sides = results
    BY <2>1 DEF Comparison
  <2> QED BY <2>2 DEF BenchInv, ResultsInv
<1> QED BY <1>1, BenchInductive, PTL
=============================================================================
