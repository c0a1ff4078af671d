------------------------------ MODULE BitFields ------------------------------
(***************************************************************************)
(* A bit field of a word and the accessors that read and set it.             *)
(*                                                                           *)
(* A word is the set of the positions of its one bits.  Position 0 is the    *)
(* most significant bit, as in get_value<FromBit, ToBit>.                    *)
(***************************************************************************)
EXTENDS Integers, Sequences, FiniteSets, FiniteSetsExt, TLC

NoLimit == 1073741824

\* One accessor: the bits, and value = number * scale + bias, at most top.
Limited(from, to, scale, bias, top) ==
    [from |-> from, to |-> to, scale |-> scale, bias |-> bias, top |-> top, rule |-> "number"]
Biased(from, to, scale, bias) == Limited(from, to, scale, bias, NoLimit)
Scaled(from, to, scale) == Biased(from, to, scale, 0)
Plain(from, to) == Scaled(from, to, 1)

\* The same for a 32-bit word whose bits are counted from the least
\* significant one.
Packed(low, high, scale) == Scaled(31 - high, 31 - low, scale)

\* An accessor whose value is computed in another way (Value).
Special(from, to, rule) == [Plain(from, to) EXCEPT !.rule = rule]

-----------------------------------------------------------------------------
(* Reading and writing the bits: get_value, set_value, set_scaled_value. *)

Positions(f) == f.from .. f.to
Number(w, f) ==
    MapThenSumSet(LAMBDA p : 2 ^ (f.to - p), {p \in w \cap Positions(f) : f.to - p < 27})
\* Fields of 32 bits take any number; the model uses small ones there.
Wide(f) == f.to - f.from >= 26
Largest(f) == 2 ^ (IF Wide(f) THEN 26 ELSE f.to - f.from + 1) - 1

BitsOf(f, n) == {p \in Positions(f) : f.to - p < 27 /\ (n \div 2 ^ (f.to - p)) % 2 = 1}

\* Faulty: the bits are not cleared before the new ones are set.
WithNumberKept(w, f, n) == w \cup BitsOf(f, n)

WithNumber(w, f, n) == (w \ Positions(f)) \cup BitsOf(f, n)

NumberAccepted(f, v) ==
    /\ v >= f.bias /\ v <= f.top
    /\ (v - f.bias) % f.scale = 0
    /\ Wide(f) \/ (v - f.bias) \div f.scale <= Largest(f)

-----------------------------------------------------------------------------
(***************************************************************************)
(* The bit fields of the load configuration: dynamic relocations, epilog     *)
(* branch descriptors, CHPE ranges and the stride in the guard flags         *)
(* (load_config_directory.h, load_config_directory-inl.h and .cpp).          *)
(***************************************************************************)

\* The same for a 16-bit word; its bits are the last of the positions.
Low(low, high) == Packed(low, high, 1)
PageRelativeOffset == Low(0, 11)

ImportControlTransferFields ==
    [page_relative_offset |-> PageRelativeOffset, indirect_call |-> Low(12, 12),
     iat_index |-> Low(13, 31)]
IndirControlTransferFields ==
    [page_relative_offset |-> PageRelativeOffset, indirect_call |-> Low(12, 12),
     rex_w_prefix |-> Low(13, 13), cfg_check |-> Low(14, 14)]
SwitchtableBranchFields ==
    [page_relative_offset |-> PageRelativeOffset, register |-> Low(12, 15)]
FunctionOverrideFields ==
    [page_relative_offset |-> PageRelativeOffset, type |-> Low(12, 15)]

\* The type of an ARM64X relocation are the two low bits of its meta; the two
\* high ones are the power of its size, or the multiplier (1 is 8, 0 is 4) and
\* the sign of its delta.
Arm64xFields ==
    [page_relative_offset |-> PageRelativeOffset, meta |-> Low(12, 15),
     type |-> Special(18, 19, "read only")]
Arm64xSizedFields == Arm64xFields @@ [size |-> Special(16, 17, "power of two")]
Arm64xDeltaFields == Arm64xFields @@ [multiplier |-> Low(15, 15), sign |-> Low(14, 14)]

BranchDescriptorFields ==
    [instr_size |-> Low(0, 3), disp_offset |-> Low(4, 7), disp_size |-> Low(8, 11)]

\* An address shares its word with the type of its code.  set_rva takes any
\* address and drops the low bits: those of the model have none.
ChpeArm64xFields == [code_type |-> Low(0, 1), rva |-> Packed(2, 31, 4)]
ChpeX86Fields == [code_type |-> Low(0, 0), rva |-> Packed(1, 31, 2)]

\* The stride of the function table: its setter ors the new one to the old.
GuardFlagsFields == [flags |-> Special(4, 31, "read only"), stride |-> Special(0, 3, "stride")]
WithStride(w, f, n) == w \cup BitsOf(f, n)

PowerAccepted(v) == v \in {1, 2, 4, 8}
Power(v) == CHOOSE n \in 0 .. 3 : 2 ^ n = v

LoadConfigWords ==
    [import_control_transfer |-> ImportControlTransferFields,
     indir_control_transfer |-> IndirControlTransferFields,
     switchtable_branch |-> SwitchtableBranchFields,
     function_override |-> FunctionOverrideFields,
     arm64x_sized |-> Arm64xSizedFields, arm64x_add_delta |-> Arm64xDeltaFields,
     epilogue_branch_descriptor |-> BranchDescriptorFields,
     chpe_arm64x_range |-> ChpeArm64xFields, chpe_x86_range |-> ChpeX86Fields,
     guard_flags |-> GuardFlagsFields]

-----------------------------------------------------------------------------
(***************************************************************************)
(* The bit fields of unwind data and the accessors that read and set them:  *)
(* unwind codes of ARM and ARM64 (arm_common_unwind_info-inl.h and the       *)
(* opcode classes), packed unwind words, epilog scopes, headers of .xdata    *)
(* records and the x64 unwind codes and their header.                        *)
(***************************************************************************)

-----------------------------------------------------------------------------
(* Lists of registers.  A value is a set of registers; LR is 13. *)

LR == 13

\* save_r4rx_lr (least = 4) and save_r4rx_lr_wide (least = 8): r4 up to one
\* of four registers, and the link register.
FromR4(n, least) == 4 .. ((n % 4) + least) \cup IF n >= 4 THEN {LR} ELSE {}
FromR4Accepted(v, least) ==
    /\ v \subseteq (4 .. least + 3) \cup {LR}
    /\ 4 .. least \subseteq v
    /\ v \ {LR} = 4 .. Max(v \ {LR})
FromR4Number(v, least) == Max(v \ {LR}) - least + (IF LR \in v THEN 4 ELSE 0)

\* save_d8dx: d8 up to a register.
FromD8Accepted(v) == 8 \in v /\ v = 8 .. Max(v)

\* save_r0r7_lr: any of r0 to r7, and the link register in the bit before.
LowRegisters(w) == {7 - (p - 8) : p \in w \cap 8 .. 15} \cup IF 7 \in w THEN {LR} ELSE {}
LowRegistersAccepted(v) == v \subseteq 0 .. 7 \cup {LR}
LowRegistersNumber(v) ==
    MapThenSumSet(LAMBDA r : 2 ^ (IF r = LR THEN 8 ELSE r), v)

-----------------------------------------------------------------------------
(* Codes of ARM64: length in bytes, first bytes they match, and accessors. *)

Shape(length, first, count) == [length |-> length, first |-> first .. first + count - 1]

Arm64IntegerShapes ==
    [alloc_s |-> Shape(1, 0, 32), save_r19r20_x |-> Shape(1, 32, 32),
     save_fplr |-> Shape(1, 64, 64), save_fplr_x |-> Shape(1, 128, 64),
     alloc_m |-> Shape(2, 192, 8), save_regp |-> Shape(2, 200, 4),
     save_regp_x |-> Shape(2, 204, 4), save_reg |-> Shape(2, 208, 4),
     save_reg_x |-> Shape(2, 212, 2), save_lrpair |-> Shape(2, 214, 2)]

Arm64OtherShapes ==
    [save_fregp |-> Shape(2, 216, 2), save_fregp_x |-> Shape(2, 218, 2),
     save_freg |-> Shape(2, 220, 2), save_freg_x |-> Shape(2, 222, 1),
     alloc_l |-> Shape(4, 224, 1), set_fp |-> Shape(1, 225, 1),
     add_fp |-> Shape(2, 226, 1), nop |-> Shape(1, 227, 1), end |-> Shape(1, 228, 1),
     end_c |-> Shape(1, 229, 1), save_next |-> Shape(1, 230, 1),
     save_reg_any |-> Shape(3, 231, 1), reserved_custom_stack |-> Shape(1, 232, 8),
     pacibsp |-> Shape(1, 252, 1)]

Arm64FrameFields ==
    [alloc_s |-> [allocation_size |-> Scaled(3, 7, 16)],
     save_r19r20_x |-> [offset |-> Scaled(3, 7, 8)],
     save_fplr |-> [offset |-> Scaled(2, 7, 8)],
     save_fplr_x |-> [offset |-> Biased(2, 7, 8, 8)],
     alloc_m |-> [allocation_size |-> Scaled(5, 15, 16)]]

Arm64RegisterFields ==
    [save_regp |-> [offset |-> Scaled(10, 15, 8), register_pair |-> Limited(6, 9, 1, 19, 29)],
     save_regp_x |-> [offset |-> Biased(10, 15, 8, 8), register_pair |-> Limited(6, 9, 1, 19, 29)],
     save_reg |-> [offset |-> Scaled(10, 15, 8), register |-> Limited(6, 9, 1, 19, 30)],
     save_reg_x |-> [offset |-> Biased(11, 15, 8, 8), register |-> Limited(7, 10, 1, 19, 30)],
     save_lrpair |-> [offset |-> Scaled(10, 15, 8), register |-> Limited(7, 9, 2, 19, 30)]]

Arm64FloatFields ==
    [save_fregp |-> [offset |-> Scaled(10, 15, 8), register_pair |-> Limited(7, 9, 1, 8, 30)],
     save_fregp_x |-> [offset |-> Biased(10, 15, 8, 8), register_pair |-> Limited(7, 9, 1, 8, 30)],
     save_freg |-> [offset |-> Scaled(10, 15, 8), register |-> Limited(7, 9, 1, 8, 31)],
     save_freg_x |-> [offset |-> Biased(11, 15, 8, 8), register |-> Limited(8, 10, 1, 8, 31)]]

Arm64OtherFields ==
    [alloc_l |-> [allocation_size |-> Scaled(8, 31, 16)],
     add_fp |-> [delta |-> Scaled(8, 15, 8)],
     reserved_custom_stack |-> [custom_stack_case |-> Plain(5, 7)],
     save_reg_any |-> [reg_pair |-> Plain(9, 9), negative_offset |-> Plain(10, 10),
                       register |-> Plain(11, 15), register_character |-> Plain(16, 17),
                       offset |-> Special(18, 23, "signed offset")]]

-----------------------------------------------------------------------------
(* Codes of ARM. *)

ArmShapes ==
    [alloc_s |-> Shape(1, 0, 128), save_r0r12_lr |-> Shape(2, 128, 64),
     mov_sprx |-> Shape(1, 192, 16), save_r4rx_lr |-> Shape(1, 208, 8),
     save_r4rx_lr_wide |-> Shape(1, 216, 8), save_d8dx |-> Shape(1, 224, 8),
     alloc_s_wide |-> Shape(2, 232, 4), save_r0r7_lr |-> Shape(2, 236, 2),
     ms_specific |-> Shape(2, 238, 1), ldr_lr_sp |-> Shape(2, 239, 1)]

ArmLongShapes ==
    [save_dsde |-> Shape(2, 245, 1), save_dsde_16 |-> Shape(2, 246, 1),
     alloc_m |-> Shape(3, 247, 1), alloc_l |-> Shape(4, 248, 1),
     alloc_m_wide |-> Shape(3, 249, 1), alloc_l_wide |-> Shape(4, 250, 1),
     nop |-> Shape(1, 251, 1), nop_wide |-> Shape(1, 252, 1),
     end_nop |-> Shape(1, 253, 1), end_nop_wide |-> Shape(1, 254, 1), end |-> Shape(1, 255, 1)]

ArmFields ==
    [alloc_s |-> [allocation_size |-> Scaled(1, 7, 4)],
     save_r0r12_lr |-> [saved_registers |-> Plain(2, 15)],
     mov_sprx |-> [delta |-> Plain(4, 7)],
     save_d8dx |-> [saved_registers |-> Special(5, 7, "from d8")],
     alloc_s_wide |-> [allocation_size |-> Scaled(6, 15, 4)],
     save_r0r7_lr |-> [saved_registers |-> Special(7, 15, "low registers")],
     ldr_lr_sp |-> [delta |-> Scaled(12, 15, 4)]]

ArmRegisterListFields ==
    [save_r4rx_lr |-> [saved_registers |-> Special(5, 7, "from r4")],
     save_r4rx_lr_wide |-> [saved_registers |-> Special(5, 7, "from r8")]]

ArmLongFields ==
    [save_dsde |-> [saved_registers_range |-> Special(8, 15, "range")],
     save_dsde_16 |-> [saved_registers_range |-> Special(8, 15, "range 16")],
     alloc_m |-> [allocation_size |-> Scaled(8, 23, 4)],
     alloc_m_wide |-> [allocation_size |-> Scaled(8, 23, 4)],
     alloc_l |-> [allocation_size |-> Scaled(8, 31, 4)],
     alloc_l_wide |-> [allocation_size |-> Scaled(8, 31, 4)]]

-----------------------------------------------------------------------------
(* Words without a first byte that tells them: packed unwind data, epilog   *)
(* scopes, headers of .xdata records.                                       *)

Arm64PackedFields ==
    [flag |-> Packed(0, 1, 1), function_length |-> Packed(2, 12, 4),
     reg_fp |-> Special(16, 18, "none or more than one"), reg_int |-> Packed(16, 19, 1),
     homes_integer_parameter_registers |-> Packed(20, 20, 1), cr |-> Packed(21, 22, 1),
     frame_size |-> Packed(23, 31, 16)]

ArmPackedFields ==
    [flag |-> Packed(0, 1, 1), function_length |-> Packed(2, 12, 2), ret |-> Packed(13, 14, 1),
     homes_integer_parameter_registers |-> Packed(15, 15, 1),
     last_saved_register |-> Special(13, 15, "last register"),
     saved_registers |-> Special(12, 15, "saved registers"),
     save_restore_lr |-> Packed(20, 20, 1), includes_extra_instructions |-> Packed(21, 21, 1),
     stack_adjust |-> Special(0, 9, "stack adjust"),
     stack_adjust_flags |-> Special(6, 9, "stack adjust flags")]

EpilogFields(hasCondition) ==
    [start_offset |-> Packed(0, 17, 2)]
    @@ IF hasCondition THEN [condition |-> Packed(20, 23, 1), start_index |-> Packed(24, 31, 1)]
       ELSE [start_index |-> Packed(22, 31, 1)]

RecordFields(multiplier) ==
    [function_length |-> Packed(0, 17, multiplier),
     version |-> [Packed(18, 19, 1) EXCEPT !.top = 0],
     has_exception_data |-> Packed(20, 20, 1), single_epilog_info_packed |-> Packed(21, 21, 1)]

\* set_extended_epilog_count and set_extended_code_words clear with the mask of
\* what they should keep: the other field is lost, their own bits are kept.
ExtendedFields ==
    [extended_epilog_count |-> Special(16, 31, "extended"),
     extended_code_words |-> Special(8, 15, "extended")]

WithExtended(w, f, n) == (w \cap Positions(f)) \cup BitsOf(f, n)

(* The codes of x64: offset in the prolog, code and info, and a node. *)
InfoField(scale, bias) == Biased(8, 11, scale, bias)
NodeField(scale) == Scaled(16, 31, scale)
FarNodeField(scale) == Scaled(16, 47, scale)
X64Fields ==
    [push_nonvol |-> [register |-> InfoField(1, 0)],
     alloc_large_1 |-> [allocation_size |-> NodeField(8)],
     alloc_large_2 |-> [allocation_size |-> FarNodeField(1)],
     alloc_small |-> [allocation_size |-> InfoField(8, 8)],
     save_nonvol |-> [register |-> InfoField(1, 0), stack_offset |-> NodeField(8)],
     save_nonvol_far |-> [register |-> InfoField(1, 0), stack_offset |-> FarNodeField(1)],
     epilog |-> [size |-> InfoField(1, 0)],
     save_xmm128 |-> [register |-> InfoField(1, 0), stack_offset |-> NodeField(16)],
     save_xmm128_far |-> [register |-> InfoField(1, 0), stack_offset |-> FarNodeField(1)],
     push_machframe |-> [push_error_code |-> Limited(8, 11, 1, 0, 1)],
     set_fpreg_large |-> [offset |-> FarNodeField(16)]]

\* Value 0 of the frame register is clear_frame_register.
X64InfoFields ==
    [unwind_info |->
        [version |-> Plain(5, 7), unwind_flags |-> Special(0, 4, "unwind flags"),
         frame_register |-> Plain(28, 31), scaled_frame_register_offset |-> Scaled(24, 27, 16)]]

Words ==
    [arm64 |-> Arm64FrameFields @@ Arm64RegisterFields @@ Arm64FloatFields @@ Arm64OtherFields,
     arm |-> ArmFields @@ ArmRegisterListFields @@ ArmLongFields,
     x64 |-> X64Fields @@ X64InfoFields,
     words |-> [arm64_packed |-> Arm64PackedFields, arm_packed |-> ArmPackedFields,
                arm64_epilog |-> EpilogFields(FALSE), arm_epilog |-> EpilogFields(TRUE),
                arm64_record |-> RecordFields(4), arm_record |-> RecordFields(2),
                extended_header |-> ExtendedFields],
     load_config |-> LoadConfigWords]

Arm64Shapes == Arm64IntegerShapes @@ Arm64OtherShapes
AllArmShapes == ArmShapes @@ ArmLongShapes

Fields(k) == Words[k[1]][k[2]]
Accessors(k) == DOMAIN Fields(k)

-----------------------------------------------------------------------------
(* The accessors whose values depend on more than their own bits. *)

RegisterField == Packed(16, 18, 1)
FloatBit == 12      \* 0x80000
AdjustField == Packed(22, 31, 1)
NegativeBit == 10

SavedRegisters(w) ==
    IF FloatBit \notin w THEN "integer"
    ELSE IF Number(w, RegisterField) = 7 THEN "none" ELSE "floating_point"

LastRegister(w) ==
    CASE SavedRegisters(w) = "integer" -> Number(w, RegisterField) + 4
      [] SavedRegisters(w) = "floating_point" -> Number(w, RegisterField) + 8
      [] OTHER -> 0

LastRegisterAccepted(w, v) ==
    \/ SavedRegisters(w) = "integer" /\ v \in 4 .. 11
    \/ SavedRegisters(w) = "floating_point" /\ v \in 8 .. 14

WithLastRegister(w, v) ==
    WithNumber(w, RegisterField, v - IF SavedRegisters(w) = "integer" THEN 4 ELSE 8)

\* Leaving "none" does not only clear the register bits: the word becomes the
\* mask of all the others.
NoneLeft(w) ==
    IF SavedRegisters(w) # "none" THEN w ELSE (0 .. 31) \ Positions(RegisterField)

SavedRegistersAccepted(w, v) ==
    v = "floating_point" => Number(NoneLeft(w), RegisterField) # 7

WithSavedRegisters(w, v) ==
    CASE v = "integer" -> NoneLeft(w) \ {FloatBit}
      [] v = "none" -> w \cup Positions(RegisterField) \cup {FloatBit}
      [] OTHER -> NoneLeft(w) \cup {FloatBit}

StackAdjust(w) == LET n == Number(w, AdjustField) IN 4 * (IF n >= 1012 THEN 1008 ELSE n)

StackFlags(w) ==
    LET n == Number(w, AdjustField) IN
    IF n < 1012 THEN <<>> ELSE <<(n % 4) + 1, (n \div 4) % 2 = 1, (n \div 8) % 2 = 1>>

StackFlagsAccepted(w, v) ==
    /\ StackAdjust(w) = 4 * 1008
    /\ v[1] \in 1 .. 4
    /\ v[2] \/ v[3]

WithStackFlags(w, v) ==
    WithNumber(w, Packed(22, 25, 1),
               v[1] - 1 + (IF v[2] THEN 4 ELSE 0) + (IF v[3] THEN 8 ELSE 0))

Sign(w) == IF NegativeBit \in w THEN 1 ELSE 0
RangeDelta(f) == IF f.rule = "range" THEN 0 ELSE 16
IsRange(f) == f.rule \in {"range", "range 16"}

-----------------------------------------------------------------------------
(* What an accessor reads, takes and writes. *)

Value(w, f) ==
    LET n == Number(w, f) IN
    CASE f.rule = "from r4" -> FromR4(n, 4)
      [] f.rule = "from r8" -> FromR4(n, 8)
      [] f.rule = "from d8" -> 8 .. n + 8
      [] f.rule = "low registers" -> LowRegisters(w)
      [] IsRange(f) -> <<(n \div 16) + RangeDelta(f), (n % 16) + RangeDelta(f)>>
      [] f.rule = "signed offset" -> (n + Sign(w)) * 16
      [] f.rule = "none or more than one" -> IF n = 0 THEN 0 ELSE n + 1
      [] f.rule = "saved registers" -> SavedRegisters(w)
      [] f.rule = "last register" -> LastRegister(w)
      [] f.rule = "stack adjust" -> StackAdjust(w)
      [] f.rule = "stack adjust flags" -> StackFlags(w)
      [] f.rule = "power of two" -> 2 ^ n
      [] OTHER -> n * f.scale + f.bias

Accepts(w, f, v) ==
    CASE f.rule = "from r4" -> FromR4Accepted(v, 4)
      [] f.rule = "from r8" -> FromR4Accepted(v, 8)
      [] f.rule = "from d8" -> FromD8Accepted(v) /\ Max(v) - 8 <= Largest(f)
      [] f.rule = "low registers" -> LowRegistersAccepted(v)
      [] IsRange(f) -> /\ v[1] >= RangeDelta(f) /\ v[1] <= v[2]
                       /\ v[2] <= RangeDelta(f) + 15
      [] f.rule = "signed offset" ->
            v >= 16 * Sign(w) /\ v % 16 = 0 /\ (v \div 16) - Sign(w) <= Largest(f)
      [] f.rule = "none or more than one" -> v <= 8 /\ v # 1
      [] f.rule = "unwind flags" -> v < 4 \/ v = 4
      [] f.rule = "saved registers" -> SavedRegistersAccepted(w, v)
      [] f.rule = "last register" -> LastRegisterAccepted(w, v)
      [] f.rule = "stack adjust" -> v % 4 = 0 /\ v \div 4 <= 1011
      [] f.rule = "stack adjust flags" -> StackFlagsAccepted(w, v)
      [] f.rule = "extended" -> TRUE
      [] f.rule = "power of two" -> PowerAccepted(v)
      [] f.rule = "stride" -> v <= Largest(f)
      [] f.rule = "read only" -> FALSE
      [] OTHER -> NumberAccepted(f, v)

Written(w, f, v) ==
    CASE f.rule = "from r4" -> WithNumber(w, f, FromR4Number(v, 4))
      [] f.rule = "from r8" -> WithNumber(w, f, FromR4Number(v, 8))
      [] f.rule = "from d8" -> WithNumber(w, f, Max(v) - 8)
      [] f.rule = "low registers" -> WithNumber(w, f, LowRegistersNumber(v))
      [] IsRange(f) ->
            WithNumber(w, f, (v[1] - RangeDelta(f)) * 16 + v[2] - RangeDelta(f))
      [] f.rule = "signed offset" -> WithNumber(w, f, (v \div 16) - Sign(w))
      [] f.rule = "none or more than one" -> WithNumber(w, f, IF v = 0 THEN 0 ELSE v - 1)
      [] f.rule = "saved registers" -> WithSavedRegisters(w, v)
      [] f.rule = "last register" -> WithLastRegister(w, v)
      [] f.rule = "stack adjust" -> WithNumber(w, f, v \div 4)
      [] f.rule = "stack adjust flags" -> WithStackFlags(w, v)
      [] f.rule = "extended" -> WithExtended(w, f, v)
      [] f.rule = "power of two" -> WithNumber(w, f, Power(v))
      [] f.rule = "stride" -> WithStride(w, f, v)
      [] OTHER -> WithNumber(w, f, (v - f.bias) \div f.scale)

=============================================================================
