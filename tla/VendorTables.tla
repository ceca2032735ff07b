---------------------------- MODULE VendorTables ----------------------------
(***************************************************************************)
(* The vendor decoders of non-standard sections that store what they       *)
(* decode: HiSilicon (common section and HIP08), JaguarMicro, NVIDIA       *)
(* (Grace and Vera) and Yitian.  For each: the columns of its table, the   *)
(* enumeration that numbers the parameters of its INSERT, and the list of  *)
(* binds its decoder makes for a section, each with the field that has to  *)
(* be valid for it.  A bind is a parameter and the fields of the section   *)
(* its value is made from; names and register values are left out.         *)
(***************************************************************************)
EXTENDS Naturals, Sequences

\* A bind that is only made when the field is valid, and one always made.
If(field, param) == [valid |-> field, param |-> param, src |-> <<field>>]
Always(field, param) == [valid |-> "", param |-> param, src |-> <<field>>]

\* Do the valid fields of a section let a bind through?
IsMade(b, valid) == b.valid = "" \/ b.valid \in valid

\* The registers of a list that the section marks as valid.
ValidRegs(regs, valid) == SelectSeq(regs, LAMBDA r : r \in valid)

-----------------------------------------------------------------------------
(* HiSilicon common section (non-standard-hisilicon.c).                    *)
hisi_common_section_fields == <<"id", "timestamp", "version", "soc_id", "socket_id", "totem_id",
    "nimbus_id", "sub_system_id", "module_id", "sub_module_id", "core_id", "port_id",
    "err_type", "pcie_info", "err_severity", "regs_dump">>
HISI_COMMON_FIELD == [TIMESTAMP |-> 1, VERSION |-> 2, SOC_ID |-> 3, SOCKET_ID |-> 4,
    TOTEM_ID |-> 5, NIMBUS_ID |-> 6, SUB_SYSTEM_ID |-> 7, MODULE_ID |-> 8, SUB_MODULE_ID |-> 9,
    CORE_ID |-> 10, PORT_ID |-> 11, ERR_TYPE |-> 12, PCIE_INFO |-> 13, ERR_SEVERITY |-> 14,
    REGS_DUMP |-> 15]
HISI_COMMON_VALID == {"soc_id", "socket_id", "totem_id", "nimbus_id", "subsystem_id",
    "module_id", "submodule_id", "core_id", "port_id", "err_type", "pcie_info",
    "err_severity", "reg_array_size"}

decode_hisi_common_section_hdr == LET F == HISI_COMMON_FIELD IN
    <<Always("version", F.VERSION), If("soc_id", F.SOC_ID),
    If("socket_id", F.SOCKET_ID), If("totem_id", F.TOTEM_ID), If("nimbus_id", F.NIMBUS_ID),
    If("subsystem_id", F.SUB_SYSTEM_ID), If("module_id", F.MODULE_ID),
    If("submodule_id", F.SUB_MODULE_ID), If("core_id", F.CORE_ID), If("port_id", F.PORT_ID),
    If("err_type", F.ERR_TYPE), If("pcie_info", F.PCIE_INFO),
    If("err_severity", F.ERR_SEVERITY)>>

(* reg_msg is cleared with the rest of hevent: without registers it is "". *)
decode_hisi_common_section(valid) == LET F == HISI_COMMON_FIELD IN
    decode_hisi_common_section_hdr \o
    <<Always("timestamp", F.TIMESTAMP),
      [valid |-> "", param |-> F.REGS_DUMP,
       src |-> ValidRegs(<<"reg_array_size">>, valid)]>>

-----------------------------------------------------------------------------
(* HIP08 (non-standard-hisi_hip08.c).  The two OEM types have the same     *)
(* columns and header; they differ in their registers.                     *)
hip08_oem_event_fields == <<"id", "timestamp", "version", "soc_id", "socket_id", "nimbus_id",
    "module_id", "sub_module_id", "err_severity", "regs_dump">>
HIP08_OEM_TYPE1_FIELD == [TIMESTAMP |-> 1, VERSION |-> 2, SOC_ID |-> 3, SOCKET_ID |-> 4,
    NIMBUS_ID |-> 5, MODULE_ID |-> 6, SUB_MODULE_ID |-> 7, ERR_SEV |-> 8, REGS_DUMP |-> 9]
HIP08_OEM_TYPE2_FIELD == [TIMESTAMP |-> 1, VERSION |-> 2, SOC_ID |-> 3, SOCKET_ID |-> 4,
    NIMBUS_ID |-> 5, MODULE_ID |-> 6, SUB_MODULE_ID |-> 7, ERR_SEV |-> 8, REGS_DUMP |-> 9]
HISI_OEM_VALID == {"soc_id", "socket_id", "nimbus_id", "module_id", "sub_module_id",
    "err_severity"}
HISI_OEM_TYPE1_REGS ==
    <<"err_misc_0", "err_misc_1", "err_misc_2", "err_misc_3", "err_misc_4", "err_addr">>
HISI_OEM_TYPE2_REGS ==
    <<"err_fr", "err_ctrl", "err_status", "err_addr", "err_misc0", "err_misc1">>

\* What a buffer on the stack holds before anything is written to it.
Uninitialised == <<"uninitialised">>

(* The three *_err_regs functions: buf is not cleared, and with no valid   *)
(* register it is bound as it is.                                          *)
RegsDump(param, regs, valid) ==
    [valid |-> "", param |-> param,
     src |-> IF ValidRegs(regs, valid) = << >> THEN Uninitialised ELSE ValidRegs(regs, valid)]

decode_oem_type1_err_hdr == LET F == HIP08_OEM_TYPE1_FIELD IN
    <<Always("version", F.VERSION), If("soc_id", F.SOC_ID),
    If("socket_id", F.SOCKET_ID), If("nimbus_id", F.NIMBUS_ID), If("module_id", F.MODULE_ID),
    If("sub_module_id", F.SUB_MODULE_ID), If("err_severity", F.ERR_SEV)>>
decode_oem_type1_err_regs(valid) ==
    RegsDump(HIP08_OEM_TYPE1_FIELD.REGS_DUMP, HISI_OEM_TYPE1_REGS, valid)
decode_hip08_oem_type1_error(valid) == LET F == HIP08_OEM_TYPE1_FIELD IN
    IF valid = {} THEN << >>
    ELSE <<Always("timestamp", F.TIMESTAMP)>> \o decode_oem_type1_err_hdr
         \o <<decode_oem_type1_err_regs(valid)>>

decode_oem_type2_err_hdr == LET F == HIP08_OEM_TYPE2_FIELD IN
    <<Always("version", F.VERSION), If("soc_id", F.SOC_ID),
    If("socket_id", F.SOCKET_ID), If("nimbus_id", F.NIMBUS_ID), If("module_id", F.MODULE_ID),
    If("sub_module_id", F.SUB_MODULE_ID), If("err_severity", F.ERR_SEV)>>
decode_oem_type2_err_regs(valid) ==
    RegsDump(HIP08_OEM_TYPE2_FIELD.REGS_DUMP, HISI_OEM_TYPE2_REGS, valid)
decode_hip08_oem_type2_error(valid) == LET F == HIP08_OEM_TYPE2_FIELD IN
    IF valid = {} THEN << >>
    ELSE <<Always("timestamp", F.TIMESTAMP)>> \o decode_oem_type2_err_hdr
         \o <<decode_oem_type2_err_regs(valid)>>

hip08_pcie_local_event_fields == <<"id", "timestamp", "version", "soc_id", "socket_id",
    "nimbus_id", "sub_module_id", "core_id", "port_id", "err_severity", "err_type", "regs_dump">>
HIP08_PCIE_LOCAL_FIELD == [TIMESTAMP |-> 1, VERSION |-> 2, SOC_ID |-> 3, SOCKET_ID |-> 4,
    NIMBUS_ID |-> 5, SUB_MODULE_ID |-> 6, CORE_ID |-> 7, PORT_ID |-> 8, ERR_SEV |-> 9,
    ERR_TYPE |-> 10, REGS_DUMP |-> 11]
HISI_PCIE_LOCAL_VALID == {"version", "soc_id", "socket_id", "nimbus_id", "sub_module_id",
    "core_id", "port_id", "err_type", "err_severity"}
HISI_PCIE_LOCAL_REGS == <<"err_misc">>    \* the 33 registers as one

decode_pcie_local_err_hdr == LET F == HIP08_PCIE_LOCAL_FIELD IN
    <<Always("version", F.VERSION), If("soc_id", F.SOC_ID),
    If("socket_id", F.SOCKET_ID), If("nimbus_id", F.NIMBUS_ID),
    If("sub_module_id", F.SUB_MODULE_ID), If("core_id", F.CORE_ID), If("port_id", F.PORT_ID),
    If("err_severity", F.ERR_SEV), If("err_type", F.ERR_TYPE)>>
decode_pcie_local_err_regs(valid) ==
    RegsDump(HIP08_PCIE_LOCAL_FIELD.REGS_DUMP, HISI_PCIE_LOCAL_REGS, valid)
decode_hip08_pcie_local_error(valid) == LET F == HIP08_PCIE_LOCAL_FIELD IN
    IF valid = {} THEN << >>
    ELSE <<Always("timestamp", F.TIMESTAMP)>> \o decode_pcie_local_err_hdr
         \o <<decode_pcie_local_err_regs(valid)>>

-----------------------------------------------------------------------------
(* JaguarMicro (non-standard-jaguarmicro.c): five payload types with one   *)
(* table and one header, each with its own registers.                      *)
jm_payload0_event_fields == <<"id", "timestamp", "version", "soc_id", "subsystem", "module",
    "module_id", "sub_module", "submodule_id", "dev", "dev_id", "err_type", "err_severity",
    "regs_dump">>
JM_PAYLOAD_FIELD == [TIMESTAMP |-> 1, VERSION |-> 2, SOC_ID |-> 3, SUB_SYS |-> 4, MODULE_NAME |-> 5,
    MODULE_ID |-> 6, SUB_MODULE |-> 7, SUBMODULE_ID |-> 8, DEV |-> 9, DEV_ID |-> 10,
    ERR_TYPE |-> 11, ERR_SEVERITY |-> 12, REGS_DUMP |-> 13]
JM_COMMON_VALID == {"version", "soc_id", "subsystem_id", "module_id", "submodule_id", "dev_id",
    "err_type", "err_severity", "reg_array_size"}

\* A bind made when another field than the one it holds is valid.
IfOther(valid, field, param) == [valid |-> valid, param |-> param, src |-> <<field>>]

(* The version goes with the bit of the SoC, and the number of the         *)
(* submodule is bound to the parameter of the module's.                    *)
decode_jm_common_sec_head == LET F == JM_PAYLOAD_FIELD IN
    <<IfOther("soc_id", "version", F.VERSION), If("soc_id", F.SOC_ID),
    If("subsystem_id", F.SUB_SYS),
    If("module_id", F.MODULE_NAME), If("module_id", F.MODULE_ID),
    If("submodule_id", F.SUB_MODULE), If("submodule_id", F.MODULE_ID),
    If("dev_id", F.DEV), If("dev_id", F.DEV_ID),
    If("err_type", F.ERR_TYPE), If("err_severity", F.ERR_SEVERITY)>>
decode_jm_common_sec_tail(valid) == ValidRegs(<<"reg_array_size">>, valid)

\* The registers each payload type writes to reg_msg.
decode_jm_payload0_err_regs == <<"lock_control", "lock_function", "cfg_ram_id", "err_fr_low32",
    "err_fr_high32", "err_ctlr_low32", "ecc_status_low32", "ecc_addr_low32", "ecc_addr_high32",
    "ecc_misc0_low32", "ecc_misc0_high32", "ecc_misc1_low32", "ecc_misc1_high32",
    "ecc_misc2_low32", "ecc_misc2_high32">>
decode_jm_payload1_err_regs == <<"smmu_csr", "errfr", "errctlr", "errstatus", "errgen">>
decode_jm_payload2_err_regs ==
    <<"ecc_1bit_int_low", "ecc_1bit_int_high", "ecc_2bit_int_low", "ecc_2bit_int_high">>
decode_jm_payload5_err_regs == <<"cfgm_mxp_0", "cfgm_hnf_0", "cfgm_hni_0", "cfgm_sbsx_0",
    "errfr_NS", "errctlrr_NS", "errstatusr_NS", "erraddrr_NS", "errmiscr_NS", "errfr",
    "errctlr", "errstatus", "erraddr", "errmisc">>
decode_jm_payload6_err_regs == <<"record_id", "gict_err_fr", "gict_err_ctlr",
    "gict_err_status", "gict_err_addr", "gict_err_misc0", "gict_err_misc1", "gict_errgsr">>

\* The registers in the structures of non-standard-jaguarmicro.h.
jm_payload0_type_sec == <<"lock_control", "lock_function", "cfg_ram_id", "err_fr_low32",
    "err_fr_high32", "err_ctlr_low32", "ecc_status_low32", "ecc_addr_low32", "ecc_addr_high32",
    "ecc_misc0_low32", "ecc_misc0_high32", "ecc_misc1_low32", "ecc_misc1_high32",
    "ecc_misc2_low32", "ecc_misc2_high32">>
jm_payload1_type_sec == <<"smmu_csr", "errfr", "errctlr", "errstatus", "errgen">>
jm_payload2_type_sec ==
    <<"ecc_1bit_int_low", "ecc_1bit_int_high", "ecc_2bit_int_low", "ecc_2bit_int_high">>
jm_payload5_type_sec == <<"cfgm_mxp_0", "cfgm_hnf_0", "cfgm_hni_0", "cfgm_sbsx_0",
    "errfr_NS", "errctlrr_NS", "errstatusr_NS", "erraddrr_NS", "errmiscr_NS", "errfr",
    "errctlr", "errstatus", "erraddr", "errmisc">>
jm_payload6_type_sec == <<"record_id", "gict_err_fr", "gict_err_ctlr",
    "gict_err_status", "gict_err_addr", "gict_err_misc0", "gict_err_misc1", "gict_errgsr">>

decode_jm_oem_type_error(regs, valid) == LET F == JM_PAYLOAD_FIELD IN
    <<Always("timestamp", F.TIMESTAMP)>> \o decode_jm_common_sec_head \o
    <<[valid |-> "", param |-> F.REGS_DUMP, src |-> regs \o decode_jm_common_sec_tail(valid)]>>

-----------------------------------------------------------------------------
(* NVIDIA (non-standard-nvidia.c).  The parameters are numbers in the      *)
(* code; they are named here by the columns they are meant for.  The       *)
(* registers that follow a Grace section are its only optional part, and   *)
(* parameter 9 is bound to NULL without them.                              *)
nvidia_ns_fields == <<"id", "timestamp", "signature", "error_type", "error_instance",
    "severity", "socket", "number_regs", "instance_base", "reg_data", "raw_data">>

nvidia_ns_decode(valid) ==
    IF "cper_sec" \notin valid THEN << >>     \* event->length is too small
    ELSE <<Always("timestamp", 1), Always("signature", 2), Always("error_type", 3),
           Always("error_instance", 4), Always("severity", 5), Always("socket", 6),
           Always("number_regs", 7), Always("instance_base", 8),
           [valid |-> "", param |-> 9, src |-> IF "reg_data" \in valid THEN <<"reg_data">> ELSE << >>],
           Always("raw_data", 10)>>

nvidia_vera_ns_fields == <<"id", "timestamp", "signature", "event_type", "event_sub_type",
    "event_link_id", "source_device_type", "event_context_count", "socket", "architecture",
    "chip_serial_number", "instance_base", "raw_data">>
nvidia_vera_ns_decode == <<Always("timestamp", 1), Always("signature", 2),
    Always("event_type", 3), Always("event_sub_type", 4), Always("event_link_id", 5),
    Always("source_device_type", 6), Always("event_context_count", 7), Always("socket", 8),
    Always("architecture", 9), Always("chip_serial_number", 10), Always("instance_base", 11),
    Always("raw_data", 12)>>

-----------------------------------------------------------------------------
(* Yitian (non-standard-yitian.c).  The address is the literal 0.          *)
yitian_ddr_payload_fields == <<"id", "timestamp", "address", "regs_dump">>
record_yitian_ddr_reg_dump_event ==
    <<Always("timestamp", 1), Always("address", 2), Always("regs_dump", 3)>>
decode_yitian710_ns_error(valid) ==
    IF "ddr" \notin valid THEN << >>          \* wrong payload type
    ELSE record_yitian_ddr_reg_dump_event
=============================================================================
