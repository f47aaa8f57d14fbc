------------------------------ MODULE Headers -------------------------------
(***************************************************************************)
(* slice.rs: Sps::parse, Pps::parse and SliceHeader::parse_into, a syntax  *)
(* element a step.  An encoder has written the elements its options call   *)
(* for by the syntax tables of the standard; the parser reads those its    *)
(* own conditions call for.  An element is its name and, where something   *)
(* depends on it, its value; the bits may run out at any read.             *)
(***************************************************************************)
EXTENDS Integers, Sequences

CONSTANTS SpsOptions, PpsOptions, SliceOptions

ASSUME SpsAssumption ==
  SpsOptions \subseteq
    [profile : Nat, frame_num : Nat, poc : 0..2, frames : 0..1, crop : 0..1, vui : 0..1]
ASSUME PpsAssumption ==
  PpsOptions \subseteq [cabac : 0..1, groups : Nat, weighted : 0..1, bipred : Nat]

(* No operation is 0, which ends them; an IDR slice has none.  poc is that of
   an accepted SPS; bottom_field and redundant are the two flags of the PPS
   that announce elements, reference is nal_ref_idc.                       *)
ASSUME SliceAssumption ==
  /\ SliceOptions \subseteq
       [first : Nat, type : 0..9, poc : {0, 2}, deblocking : -1..2, bottom_field : BOOLEAN,
        redundant : BOOLEAN, reference : BOOLEAN, idr : BOOLEAN, mmcos : Seq(Nat \ {0})]
  /\ \A o \in SliceOptions : o.idr => o.mmcos = << >>

VARIABLES
  header, options,  (* which was written, and with what                    *)
  coded,            (* the elements of it, <<name, value>>                 *)
  read_pos,
  agenda,           (* the names the parser has yet to read                *)
  header_status     (* reading, parsed, out_of_scope, unsupported, truncated *)

headerVars == <<header, options, coded, read_pos, agenda, header_status>>

If(condition, elements) == IF condition THEN elements ELSE << >>
E(name) == <<name, 0>>

-----------------------------------------------------------------------------
(* The encoder: ITU-T H.264 7.3.2.1.1, 7.3.2.2, 7.3.3 and 7.3.3.3, for the
   profile that has neither bit depths nor scaling lists.                  *)
WrittenSps(o) ==
  <<<<"profile_idc", o.profile>>, E("constraint_flags"), E("level_idc"),
    E("seq_parameter_set_id"), <<"log2_max_frame_num_minus4", o.frame_num>>>>
  \o (<<<<"pic_order_cnt_type", o.poc>>>>
        \o (If(o.poc = 0, <<E("log2_max_pic_order_cnt_lsb_minus4")>>)
              \o If(o.poc = 1, <<E("delta_pic_order_always_zero_flag")>>)))
  \o <<E("num_ref_frames"), E("gaps_in_frame_num_value_allowed_flag"),
       E("pic_width_in_mbs_minus1"), E("pic_height_in_map_units_minus1")>>
  \o (<<<<"frame_mbs_only_flag", o.frames>>>>
        \o If(o.frames = 0, <<E("mb_adaptive_frame_field_flag")>>))
  \o <<E("direct_8x8_inference_flag")>>
  \o (<<<<"frame_cropping_flag", o.crop>>>>
        \o If(o.crop = 1, <<E("left"), E("right"), E("top"), E("bottom")>>))
  \o <<<<"vui_parameters_present_flag", o.vui>>>>
  \o If(o.vui = 1, <<E("vui_parameters")>>)

WrittenPps(o) ==
  <<E("pic_parameter_set_id"), E("seq_parameter_set_id"),
    <<"entropy_coding_mode_flag", o.cabac>>,
    E("bottom_field_pic_order_in_frame_present_flag")>>
  \o (<<<<"num_slice_groups_minus1", o.groups>>>>
        \o If(o.groups > 0, <<E("slice_group_map_type")>>))
  \o <<E("num_ref_idx_l0_default_active_minus1"), E("num_ref_idx_l1_default_active_minus1"),
       <<"weighted_pred_flag", o.weighted>>, <<"weighted_bipred_idc", o.bipred>>,
       E("pic_init_qp_minus26"), E("pic_init_qs_minus26"), E("chroma_qp_index_offset"),
       E("deblocking_filter_control_present_flag"), E("constrained_intra_pred_flag"),
       E("redundant_pic_cnt_present_flag")>>

Operands(mmco) ==
  CASE mmco = 1 -> <<E("difference_of_pic_nums_minus1")>>
    [] mmco = 2 -> <<E("long_term_pic_num")>>
    [] mmco = 3 -> <<E("difference_of_pic_nums_minus1"), E("long_term_frame_idx")>>
    [] mmco = 4 -> <<E("max_long_term_frame_idx_plus1")>>
    [] mmco = 6 -> <<E("long_term_frame_idx")>>
    [] OTHER -> << >>

(* The last n operations and the 0 that ends them.                         *)
Operations(mmcos) ==
  LET last[n \in 0..Len(mmcos)] ==
        IF n = 0 THEN <<<<"mmco", 0>>>>
        ELSE LET mmco == mmcos[Len(mmcos) + 1 - n]
             IN <<<<"mmco", mmco>>>> \o (Operands(mmco) \o last[n - 1])
  IN last

WrittenMarking(o) ==
  IF o.idr THEN <<E("no_output_of_prior_pics_flag"), E("long_term_reference_flag")>>
  ELSE IF o.mmcos = << >> THEN <<E("adaptive_ref_pic_marking_mode_flag")>>
  ELSE <<<<"adaptive_ref_pic_marking_mode_flag", 1>>>> \o Operations(o.mmcos)[Len(o.mmcos)]

WrittenSlice(o) ==
  <<<<"first_mb_in_slice", o.first>>, <<"slice_type", o.type>>,
    E("pic_parameter_set_id"), E("frame_num")>>
  \o If(o.idr, <<E("idr_pic_id")>>)
  \o If(o.poc = 0, <<E("pic_order_cnt_lsb")>>)
  \o If(o.poc = 0 /\ o.bottom_field, <<E("delta_pic_order_cnt_bottom")>>)
  \o If(o.redundant, <<E("redundant_pic_cnt")>>)
  \o If(o.reference, WrittenMarking(o))
  \o <<E("slice_qp_delta")>>
  \o If(o.deblocking >= 0,
        <<<<"disable_deblocking_filter_idc", o.deblocking>>>>
          \o If(o.deblocking # 1,
                <<E("slice_alpha_c0_offset_div2"), E("slice_beta_offset_div2")>>))

-----------------------------------------------------------------------------
(* The parser: the names it reads in any case, in order,                   *)
SpsAgenda ==
  <<"profile_idc", "constraint_flags", "level_idc", "seq_parameter_set_id",
    "log2_max_frame_num_minus4">>
  \o <<"pic_order_cnt_type">>
  \o <<"num_ref_frames", "gaps_in_frame_num_value_allowed_flag",
       "pic_width_in_mbs_minus1", "pic_height_in_map_units_minus1">>
  \o <<"frame_mbs_only_flag">>
  \o <<"direct_8x8_inference_flag">>
  \o <<"frame_cropping_flag">>
  \o <<"vui_parameters_present_flag">>

PpsAgenda ==
  <<"pic_parameter_set_id", "seq_parameter_set_id", "entropy_coding_mode_flag",
    "bottom_field_pic_order_in_frame_present_flag">>
  \o <<"num_slice_groups_minus1">>
  \o <<"num_ref_idx_l0_default_active_minus1", "num_ref_idx_l1_default_active_minus1",
       "weighted_pred_flag", "weighted_bipred_idc", "pic_init_qp_minus26",
       "pic_init_qs_minus26", "chroma_qp_index_offset",
       "deblocking_filter_control_present_flag", "constrained_intra_pred_flag",
       "redundant_pic_cnt_present_flag">>

(* with is_idr, the SPS and the PPS deciding some of a slice header's;     *)
SliceAgenda(o) ==
  <<"first_mb_in_slice", "slice_type", "pic_parameter_set_id", "frame_num">>
  \o If(o.idr, <<"idr_pic_id">>)
  \o If(o.poc = 0, <<"pic_order_cnt_lsb">>)
  \o (IF o.idr THEN <<"no_output_of_prior_pics_flag", "long_term_reference_flag">>
      ELSE <<"adaptive_ref_pic_marking_mode_flag">>)
  \o <<"slice_qp_delta">>
  \o If(o.deblocking >= 0, <<"disable_deblocking_filter_idc">>)

(* Mutant: operation 3 is taken to have one operand, like its neighbours.  *)
Bug_OneOperand(mmco) ==
  CASE mmco \in {1, 3} -> <<"difference_of_pic_nums_minus1">>
    [] mmco = 2 -> <<"long_term_pic_num">>
    [] mmco = 4 -> <<"max_long_term_frame_idx_plus1">>
    [] mmco = 6 -> <<"long_term_frame_idx">>
    [] OTHER -> << >>

MmcoOperands(mmco) ==
  (CASE mmco \in {1, 3} -> <<"difference_of_pic_nums_minus1">>
     [] mmco = 2 -> <<"long_term_pic_num">>
     [] mmco = 4 -> <<"max_long_term_frame_idx_plus1">>
     [] mmco = 6 -> <<"long_term_frame_idx">>
     [] OTHER -> << >>)
  \o If(mmco = 3, <<"long_term_frame_idx">>)

FilterOffsets(idc) ==
  If(idc # 1, <<"slice_alpha_c0_offset_div2", "slice_beta_offset_div2">>)

(* and those it reads next because of a value it has read.                 *)
SpsReadNext(name, value) ==
  CASE name = "pic_order_cnt_type" /\ value = 0 -> <<"log2_max_pic_order_cnt_lsb_minus4">>
    [] name = "frame_cropping_flag" /\ value = 1 -> <<"left", "right", "top", "bottom">>
    [] OTHER -> << >>

SliceReadNext(name, value) ==
  CASE name = "adaptive_ref_pic_marking_mode_flag" /\ value = 1 -> <<"mmco">>
    [] name = "mmco" /\ value # 0 -> MmcoOperands(value) \o <<"mmco">>
    [] name = "disable_deblocking_filter_idc" -> FilterOffsets(value)
    [] OTHER -> << >>

(* Mutant: the type is compared before it is reduced.                      *)
Bug_IsIUnreduced(raw) == raw = 2

(* SliceType::from_raw.                                                    *)
IsI(raw) == raw % 5 = 2

SpsOutOfScope(name, value) ==
  \/ name = "log2_max_frame_num_minus4" /\ value > 12
  \/ name = "pic_order_cnt_type" /\ value \notin {0, 2}
  \/ name = "frame_mbs_only_flag" /\ value = 0

PpsOutOfScope(name, value) ==
  \/ name \in {"entropy_coding_mode_flag", "weighted_pred_flag"} /\ value = 1
  \/ name = "num_slice_groups_minus1" /\ value > 0
  \/ name = "weighted_bipred_idc" /\ value # 0

SliceOutOfScope(name, value) ==
  \/ name = "first_mb_in_slice" /\ value # 0
  \/ name = "slice_type" /\ ~IsI(value)
  \/ name = "mmco" /\ value > 6

-----------------------------------------------------------------------------
HeadersInit ==
  /\ \/ /\ header = "sps" /\ options \in SpsOptions
        /\ coded = WrittenSps(options) /\ agenda = SpsAgenda
     \/ /\ header = "pps" /\ options \in PpsOptions
        /\ coded = WrittenPps(options) /\ agenda = PpsAgenda
     \/ /\ header = "slice" /\ options \in SliceOptions
        /\ coded = WrittenSlice(options) /\ agenda = SliceAgenda(options)
  /\ read_pos = 1 /\ header_status = "reading"

Take(readNext, outOfScope) ==
  /\ read_pos' = read_pos + 1
  /\ agenda' = readNext \o Tail(agenda)
  /\ header_status' = IF outOfScope THEN "out_of_scope" ELSE "reading"
  /\ UNCHANGED <<header, options, coded>>

Due == header_status = "reading" /\ agenda # << >> /\ read_pos <= Len(coded)
Name == Head(agenda)
Value == coded[read_pos][2]
Reading == Due /\ coded[read_pos][1] = Name

ReadSps ==
  /\ Reading /\ header = "sps" /\ ~(Name = "profile_idc" /\ Value # 66)
  /\ Take(SpsReadNext(Name, Value), SpsOutOfScope(Name, Value))

UnsupportedProfile ==
  /\ Reading /\ header = "sps" /\ Name = "profile_idc" /\ Value # 66
  /\ read_pos' = read_pos + 1 /\ agenda' = Tail(agenda)
  /\ header_status' = "unsupported"
  /\ UNCHANGED <<header, options, coded>>

ReadPps ==
  /\ Reading /\ header = "pps"
  /\ Take(<< >>, PpsOutOfScope(Name, Value))

ReadSlice ==
  /\ Reading /\ header = "slice"
  /\ Take(SliceReadNext(Name, Value), SliceOutOfScope(Name, Value))

(* The bits of another element are read as the one that is due: from there on
   no read begins where an element does, and the parse may end in any way. *)
Astray ==
  /\ Due /\ coded[read_pos][1] # Name
  /\ header_status' \in {"parsed", "out_of_scope", "truncated"}
  /\ UNCHANGED <<header, options, coded, read_pos, agenda>>

HeaderTruncated ==
  /\ header_status = "reading" /\ agenda # << >>
  /\ header_status' = "truncated"
  /\ UNCHANGED <<header, options, coded, read_pos, agenda>>

HeaderParsed ==
  /\ header_status = "reading" /\ agenda = << >>
  /\ header_status' = "parsed"
  /\ UNCHANGED <<header, options, coded, read_pos, agenda>>

HeadersNext ==
  \/ ReadSps \/ UnsupportedProfile \/ ReadPps \/ ReadSlice
  \/ Astray \/ HeaderTruncated \/ HeaderParsed

HeadersSpec == HeadersInit /\ [][HeadersNext]_headerVars

-----------------------------------------------------------------------------
(* The slice headers with elements the parser does not know of, or without
   the marking it reads in any of them; and the first element they differ in. *)
Departs ==
  /\ header = "slice"
  /\ (options.poc = 0 /\ options.bottom_field) \/ options.redundant \/ ~options.reference
Departure == 5 + (IF options.idr THEN 1 ELSE 0) + (IF options.poc = 0 THEN 1 ELSE 0)

(* Every variable keeps its type, and no more is ever asked for than is
   left of what was written.                                               *)
HeadersTypeOK ==
  /\ header \in {"sps", "pps", "slice"}
  /\ read_pos \in 1..(Len(coded) + 1)
  /\ Departs \/ read_pos + Len(agenda) <= Len(coded) + 1
  /\ header_status \in {"reading", "parsed", "out_of_scope", "unsupported", "truncated"}

(* The parser reads the element that was written, whatever was read before
   it: every optional one is read when its condition holds and only then,
   and every operand of every marking operation is passed over.  A slice
   header is read to its end, so what follows is macroblock data.  Those that
   Departs names are read in step up to their Departure and no further:
   bottom_field_pic_order_in_frame_present_flag, for whose elements line 338
   says "M3 is progressive, so the per-bottom-field POCs aren't present",
   redundant_pic_cnt_present_flag, and nal_ref_idc 0, which line 348 does not
   ask about (slice.rs 304-391).                                           *)
InStep ==
  /\ header_status = "reading" /\ agenda # << >>
       => /\ read_pos <= Len(coded)
          /\ coded[read_pos][1] = Head(agenda) <=> ~(Departs /\ read_pos = Departure)
  /\ header_status = "parsed" /\ header = "slice"
       => read_pos = IF Departs THEN Departure ELSE Len(coded) + 1
  /\ Departs => read_pos <= Departure

(* The scope of milestone 3, of what was written (slice.rs 11-13, 22-25, 45). *)
InScope ==
  CASE header = "sps" -> /\ options.profile = 66 /\ options.frame_num <= 12
                       /\ options.poc = 0 /\ options.frames = 1 /\ options.vui = 0
    [] header = "pps" -> /\ options.cabac = 0 /\ options.groups = 0
                       /\ options.weighted = 0 /\ options.bipred = 0
    [] header = "slice" -> /\ options.first = 0 /\ options.type \in {2, 7}
                         /\ \A n \in DOMAIN options.mmcos : options.mmcos[n] <= 6

(* What is parsed although the same lines declare it rejected or unsupported:
   an SPS with VUI parameters (130 reads the flag and drops it) or with
   pic_order_cnt_type 2 (101).                                             *)
LetThrough ==
  /\ header = "sps"
  /\ options.vui = 1 \/ options.poc = 2
  /\ options.profile = 66 /\ options.frame_num <= 12
  /\ options.poc # 1 /\ options.frames = 1

(* Exactly the headers in scope are accepted, and those LetThrough: no other
   feature that is not decoded gets past the parser, and no header is turned
   down but for one.  Of a slice header read out of step this is said only as
   far as its first two elements.                                          *)
ScopeEnforced ==
  /\ header_status = "parsed" =>
       \/ InScope \/ LetThrough
       \/ Departs /\ options.first = 0 /\ options.type \in {2, 7}
  /\ header_status \in {"out_of_scope", "unsupported"} =>
       Departs \/ (~InScope /\ ~LetThrough)
=============================================================================
