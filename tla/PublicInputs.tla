---------------------------- MODULE PublicInputs ----------------------------
(***************************************************************************)
(* The byte string that public_inputs_digest hashes, with the canonical    *)
(* encoding of a manifest body inside it, and the file that toy-encode     *)
(* writes.  SHA-256 is left out: two digests are taken to be equal when    *)
(* these strings are.                                                      *)
(*                                                                         *)
(* Base stands for the 256 values of a byte, so that an integer of n bytes *)
(* is n digits, least significant first, and boundaries between fields can *)
(* be confused in the model exactly where they could be in the code.       *)
(***************************************************************************)
EXTENDS Integers, Sequences

CONSTANTS
  Base,
  RootSize, DeviceIdSize, PubkeySize, SignatureSize,  (* 32, 64, 32, 64    *)
  Inputs              (* the public inputs to tell apart                   *)

ASSUME BaseAssumption == Base \in Nat \ {0, 1}
ASSUME ArraysAssumption ==
  {RootSize, DeviceIdSize, PubkeySize, SignatureSize} \subseteq Nat

-----------------------------------------------------------------------------
(* The types: how many values the integers of 2, 4 and 8 bytes have.       *)
Values16 == Base * Base
Values32 == Values16 * Values16
Values64 == Values32 * Values32

Unsigned(values) == 0..(values - 1)
Signed(values) == (-(values \div 2))..((values \div 2) - 1)

Byte == Unsigned(Base)
Array(n) == [1..n -> Byte]

AudioDescriptors ==
  [kind : {"some"}, sample_rate : Unsigned(Values32), channels : Byte,
   sample_count : Unsigned(Values32), merkle_root : Array(RootSize)]

AudioOptions == {[kind |-> "none"]} \union AudioDescriptors

ManifestBodies ==
  [version : Byte, width : Unsigned(Values16), height : Unsigned(Values16),
   fps_num : Unsigned(Values32), fps_den : Unsigned(Values32),
   frame_count : Unsigned(Values32), merkle_root : Array(RootSize),
   audio : AudioOptions,
   created_at : Unsigned(Values64), device_id : Array(DeviceIdSize)]

(* An encoder writes at most 65535 * 65535 coefficients, which is less than
   the values a u32 has.                                                   *)
CoeffVecs == {coeffs \in Seq(Signed(Values16)) : Len(coeffs) < Values32}

PublicInputSet ==
  [width : Unsigned(Values16), height : Unsigned(Values16), qp : Byte, chroma_format : Byte,
   coeffs_y : CoeffVecs, coeffs_u : CoeffVecs, coeffs_v : CoeffVecs,
   body : ManifestBodies, pubkey : Array(PubkeySize), signature : Array(SignatureSize),
   tolerance : Signed(Values64)]

ASSUME InputsAssumption == Inputs \subseteq PublicInputSet

-----------------------------------------------------------------------------
(* to_le_bytes of u16, u32 and u64.                                        *)
LE16(n) == <<n % Base, n \div Base>>
LE32(n) == LE16(n % Values16) \o LE16(n \div Values16)
LE64(n) == LE32(n % Values32) \o LE32(n \div Values32)

(* i16 and i64 go in as their two's complement; a length is cast to u32.   *)
TwosComplement(n, values) == IF n < 0 THEN values + n ELSE n

Count(items) == LE32(Len(items) % Values32)

AudioBytes(audio) ==
  IF audio.kind = "some"
  THEN <<1>> \o LE32(audio.sample_rate) \o <<audio.channels>>
         \o LE32(audio.sample_count) \o audio.merkle_root
  ELSE <<0>>

ToBytes(body) ==
  <<body.version>>
    \o LE16(body.width) \o LE16(body.height)
    \o LE32(body.fps_num) \o LE32(body.fps_den) \o LE32(body.frame_count)
    \o body.merkle_root
    \o AudioBytes(body.audio)
    \o LE64(body.created_at) \o body.device_id

Coefficients(coeffs) ==
  [k \in 1..(2 * Len(coeffs)) |->
     LE16(TwosComplement(coeffs[(k + 1) \div 2], Values16))[2 - (k % 2)]]

(* Mutant: the coefficients of a plane are hashed without their count.     *)
Bug_CoeffsUnprefixed(coeffs) == Coefficients(coeffs)

HashCoeffs(coeffs) == Count(coeffs) \o Coefficients(coeffs)

Preimage(p) ==
  LE16(p.width) \o LE16(p.height) \o <<p.qp, p.chroma_format>>
    \o HashCoeffs(p.coeffs_y) \o HashCoeffs(p.coeffs_u) \o HashCoeffs(p.coeffs_v)
    \o Count(ToBytes(p.body)) \o ToBytes(p.body)
    \o p.pubkey \o p.signature
    \o LE64(TwosComplement(p.tolerance, Values64))

(* The file toy-encode writes: what was encoded, all counts first.         *)
EncodedFile(p) ==
  LE16(p.width) \o LE16(p.height) \o <<p.qp, p.chroma_format>>
    \o Count(p.coeffs_y) \o Count(p.coeffs_u) \o Count(p.coeffs_v)
    \o Coefficients(p.coeffs_y) \o Coefficients(p.coeffs_u) \o Coefficients(p.coeffs_v)
=============================================================================
