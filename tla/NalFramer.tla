----------------------------- MODULE NalFramer ------------------------------
(***************************************************************************)
(* collect_units over the Annex-B framer of nal.rs: one NAL unit a step,   *)
(* stripped of its emulation prevention bytes and kept if it is one of the *)
(* four kinds a picture needs.  Streams are bytes; indices start at 1.     *)
(***************************************************************************)
EXTENDS Integers, Sequences

CONSTANTS
  Sent,          (* streams an encoder framed, as sequences of
                    [header, rbsp, code, zeros]                            *)
  RawStreams     (* any bytes at all                                       *)

(* An RBSP ends in its stop bit, or in two zeros for a cabac_zero_word.    *)
Legal(rbsp) ==
  LET n == Len(rbsp)
  IN n > 0 => rbsp[n] # 0 \/ (n > 2 /\ rbsp[n - 1] = 0 /\ rbsp[n - 2] # 0)

ASSUME SentAssumption ==
  Sent \subseteq Seq([header : 1..255, rbsp : {r \in Seq(0..255) : Legal(r)},
                      code : Nat \ 0..2, zeros : Nat])
ASSUME RawAssumption == RawStreams \subseteq Seq(0..255)

SPS == 7
PPS == 8
IDR_SLICE == 5
NON_IDR_SLICE == 1

NoBytes == <<-1>>    (* no byte string                                        *)

VARIABLES
  stream, sent, framed,    (* framed: the stream is that of sent           *)
  nal_pos,
  units,                   (* what the iterator has yielded                *)
  sps_rbsp, pps_rbsp, slice_rbsp, slice_is_idr,
  nal_status               (* walk, units, err                             *)

framerInput == <<stream, sent, framed>>
found == <<sps_rbsp, pps_rbsp, slice_rbsp, slice_is_idr>>
framerVars == <<framerInput, nal_pos, units, found, nal_status>>

-----------------------------------------------------------------------------
(* The encoder: 03 before a byte 0..3 that follows two zeros, and after a
   final zero; then a start code, and zeros up to the next one.            *)
EndsInZeros(s) == Len(s) > 1 /\ s[Len(s)] = 0 /\ s[Len(s) - 1] = 0

EscapedPrefix(rbsp) ==
  LET escaped[n \in 0..Len(rbsp)] ==
        IF n = 0 THEN << >>
        ELSE IF EndsInZeros(escaped[n - 1]) /\ rbsp[n] <= 3
             THEN escaped[n - 1] \o <<3, rbsp[n]>>
             ELSE Append(escaped[n - 1], rbsp[n])
  IN escaped

Escape(rbsp) ==
  LET escaped == EscapedPrefix(rbsp)[Len(rbsp)]
  IN IF EndsInZeros(escaped) THEN Append(escaped, 3) ELSE escaped

Nal(u) == <<u.header>> \o Escape(u.rbsp)

Zeros(n) == [k \in 1..n |-> 0]

Framed(u) == Zeros(u.code - 1) \o (<<1>> \o (Nal(u) \o Zeros(u.zeros)))

FramedPrefix(us) ==
  LET bytes[n \in 0..Len(us)] ==
        IF n = 0 THEN << >> ELSE bytes[n - 1] \o Framed(us[n])
  IN bytes

ByteStream(us) == FramedPrefix(us)[Len(us)]

-----------------------------------------------------------------------------
(* find_start_code: where the first start code at or after from begins, and
   where what it introduces does.                                          *)
ThreeByteAt(s, i) == i + 2 <= Len(s) /\ SubSeq(s, i, i + 2) = <<0, 0, 1>>
FourByteAt(s, i) == i + 3 <= Len(s) /\ SubSeq(s, i, i + 3) = <<0, 0, 0, 1>>

Codes(s, from) == {i \in from..Len(s) : ThreeByteAt(s, i) \/ FourByteAt(s, i)}

StartCodes(s, from) == Codes(s, from)

FindStartCode(s, from) ==
  LET i == CHOOSE i \in StartCodes(s, from) : \A j \in StartCodes(s, from) : i <= j
  IN [start |-> i, after |-> IF ThreeByteAt(s, i) THEN i + 3 ELSE i + 4]

(* The bytes up to the next start code or the end, without trailing zeros. *)
PayloadStart == FindStartCode(stream, nal_pos).after
PayloadEnd ==
  IF StartCodes(stream, PayloadStart) = {} THEN Len(stream) + 1
  ELSE FindStartCode(stream, PayloadStart).start
NalUnit ==
  LET used == {i \in PayloadStart..(PayloadEnd - 1) : stream[i] # 0}
      last == CHOOSE i \in used : \A j \in used : j <= i
  IN IF used = {} THEN << >> ELSE SubSeq(stream, PayloadStart, last)

(* Mutant: an emulation prevention byte is looked for before a byte only.  *)
Bug_PreventsByte(payload, i) ==
  i > 2 /\ i < Len(payload) /\ SubSeq(payload, i - 2, i) = <<0, 0, 3>>

IsEmulationPrevention(payload, i) ==
  i > 2 /\ SubSeq(payload, i - 2, i) = <<0, 0, 3>>

(* What the loop has in out behind each byte.  It goes on after the 03 of a
   00 00 03, and so finds them all: two of them never overlap.             *)
StrippedPrefix(payload) ==
  LET out[i \in 0..Len(payload)] ==
        IF i = 0 THEN << >>
        ELSE IF IsEmulationPrevention(payload, i) THEN out[i - 1]
        ELSE Append(out[i - 1], payload[i])
  IN out

StripEmulationPrevention(payload) == StrippedPrefix(payload)[Len(payload)]

UnitType(nal) == nal[1] % 32
Forbidden(nal) == nal[1] >= 128

-----------------------------------------------------------------------------
FramerInit ==
  /\ \/ /\ framed = TRUE
        /\ sent \in Sent
        /\ stream = ByteStream(sent)
     \/ /\ framed = FALSE
        /\ sent = << >>
        /\ stream \in RawStreams
  /\ nal_pos = 1 /\ units = << >>
  /\ sps_rbsp = NoBytes /\ pps_rbsp = NoBytes /\ slice_rbsp = NoBytes
  /\ slice_is_idr = FALSE
  /\ nal_status = "walk"

(* Mutant: a slice that is no IDR slice leaves the flag of an earlier one. *)
Bug_KeepFlag(type, rbsp) ==
  /\ sps_rbsp' = IF type = SPS THEN rbsp ELSE sps_rbsp
  /\ pps_rbsp' = IF type = PPS THEN rbsp ELSE pps_rbsp
  /\ slice_rbsp' = IF type \in {IDR_SLICE, NON_IDR_SLICE} THEN rbsp ELSE slice_rbsp
  /\ slice_is_idr' = (type = IDR_SLICE \/ slice_is_idr)

(* A later unit of a kind replaces an earlier one; other kinds are dropped. *)
Keep(type, rbsp) ==
  /\ sps_rbsp' = IF type = SPS THEN rbsp ELSE sps_rbsp
  /\ pps_rbsp' = IF type = PPS THEN rbsp ELSE pps_rbsp
  /\ IF type \in {IDR_SLICE, NON_IDR_SLICE}
     THEN slice_rbsp' = rbsp /\ slice_is_idr' = (type = IDR_SLICE)
     ELSE UNCHANGED <<slice_rbsp, slice_is_idr>>

Resume == nal_pos' = PayloadEnd

NextUnit ==
  /\ nal_status = "walk" /\ StartCodes(stream, nal_pos) # {}
  /\ NalUnit # << >>
  /\ Resume
  /\ LET rbsp == StripEmulationPrevention(Tail(NalUnit)) IN
       /\ units' = Append(units, [nal |-> NalUnit, rbsp |-> rbsp])
       /\ IF Forbidden(NalUnit) THEN nal_status' = "err" /\ UNCHANGED found
          ELSE Keep(UnitType(NalUnit), rbsp) /\ UNCHANGED nal_status
  /\ UNCHANGED framerInput

(* A start code with nothing behind it.                                    *)
EmptyUnit ==
  /\ nal_status = "walk" /\ StartCodes(stream, nal_pos) # {}
  /\ NalUnit = << >>
  /\ nal_status' = "err"
  /\ UNCHANGED <<framerInput, nal_pos, units, found>>

Collected ==
  /\ nal_status = "walk" /\ StartCodes(stream, nal_pos) = {}
  /\ nal_status' = IF NoBytes \in {sps_rbsp, pps_rbsp, slice_rbsp} THEN "err" ELSE "units"
  /\ UNCHANGED <<framerInput, nal_pos, units, found>>

FramerNext == NextUnit \/ EmptyUnit \/ Collected

FramerSpec == FramerInit /\ [][FramerNext]_framerVars

-----------------------------------------------------------------------------
(* Every variable keeps its type, and the walk stays inside the stream.    *)
Rbsp == Seq(0..255)
FramerTypeOK ==
  /\ framed \in BOOLEAN /\ stream \in Seq(0..255)
  /\ nal_pos \in 1..(Len(stream) + 1)
  /\ units \in Seq([nal : Seq(0..255), rbsp : Rbsp])
  /\ \A r \in {sps_rbsp, pps_rbsp, slice_rbsp} : r = NoBytes \/ r \in Rbsp
  /\ slice_is_idr \in BOOLEAN
  /\ nal_status \in {"walk", "units", "err"}

(* What an encoder framed comes out as it went in: the units of the walk
   are the first of those sent, header and payload, whichever start codes
   and padding stand between them and wherever prevention bytes were put
   in, and when the walk is over they are all of them (nal.rs 115-142, 150-169).    *)
Recovered(k) ==
  units[k].nal[1] = sent[k].header /\ units[k].rbsp = sent[k].rbsp
UnitsRecovered ==
  framed =>
    /\ Len(units) <= Len(sent)
    /\ \A k \in DOMAIN units : Recovered(k)
    /\ StartCodes(stream, nal_pos) = {} => Len(units) = Len(sent)

(* Of any bytes at all, what is yielded as a NAL unit is one: it is not
   empty, holds no start code and does not end in the padding.  Each leaves a
   start code and a byte behind, so a walk is no longer than its stream.   *)
UnitsAreNals ==
  /\ nal_pos > 4 * Len(units)
  /\ \A k \in DOMAIN units :
       LET nal == units[k].nal IN
         /\ nal # << >> /\ nal[Len(nal)] # 0
         /\ \A i \in DOMAIN nal : ~ThreeByteAt(nal, i)

(* NalFramer: the units framed by an encoder come back byte for byte, and of
   any other stream what is yielded are NAL units, one start code and one byte
   at least to each.                                                       *)
UnitsYielded == UnitsRecovered /\ UnitsAreNals

(* The flag decode_iframe hands to the slice header parser is that of the
   slice it hands along, the last of either kind (frame.rs 395-401).       *)
SliceUnits == {k \in DOMAIN units : UnitType(units[k].nal) \in {IDR_SLICE, NON_IDR_SLICE}
                                 /\ ~Forbidden(units[k].nal)}
FlagOfSlice ==
  IF SliceUnits = {} THEN slice_rbsp = NoBytes
  ELSE LET last == CHOOSE k \in SliceUnits : \A j \in SliceUnits : j <= k IN
         /\ slice_rbsp = units[last].rbsp
         /\ slice_is_idr = (UnitType(units[last].nal) = IDR_SLICE)
=============================================================================
