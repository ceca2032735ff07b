------------------------------- MODULE MceCpu -------------------------------
(***************************************************************************)
(* Which decoder a machine check gets (ras-mce-handler.c, ras-erst.c and   *)
(* mce-intel.c): /proc/cpuinfo gives a CPU type, the CPU type a parser,    *)
(* and for Intel a decoder of the model-specific part.  A CPU is the five  *)
(* lines that detect_cpu looks for; "" is a line that is not there.        *)
(***************************************************************************)
EXTENDS Integers, FiniteSets

(* The chain of models of family 6 in select_intel_cputype, which writes   *)
(* them in hexadecimal.                                                    *)
Family6 == {
    [type |-> "CORE2", models |-> {15, 23}],  \* 0x0f, 0x17
    [type |-> "DUNNINGTON", models |-> {29}],  \* 0x1d
    [type |-> "NEHALEM", models |-> {26, 44, 30, 37}],  \* 0x1a, 0x2c, 0x1e, 0x25
    [type |-> "XEON75XX", models |-> {46, 47}],  \* 0x2e, 0x2f
    [type |-> "SANDY_BRIDGE", models |-> {42}],  \* 0x2a
    [type |-> "SANDY_BRIDGE_EP", models |-> {45}],  \* 0x2d
    [type |-> "IVY_BRIDGE", models |-> {58}],  \* 0x3a
    [type |-> "IVY_BRIDGE_EPEX", models |-> {62}],  \* 0x3e
    [type |-> "HASWELL", models |-> {60, 69, 70}],  \* 0x3c, 0x45, 0x46
    [type |-> "HASWELL_EPEX", models |-> {63}],  \* 0x3f
    [type |-> "BROADWELL_DE", models |-> {86}],  \* 0x56
    [type |-> "BROADWELL_EPEX", models |-> {79}],  \* 0x4f
    [type |-> "BROADWELL", models |-> {61}],  \* 0x3d
    [type |-> "KNIGHTS_LANDING", models |-> {87}],  \* 0x57
    [type |-> "KNIGHTS_MILL", models |-> {133}],  \* 0x85
    [type |-> "SKYLAKE_XEON", models |-> {85}],  \* 0x55
    [type |-> "ICELAKE_XEON", models |-> {106}],  \* 0x6a
    [type |-> "ICELAKE_DE", models |-> {108}],  \* 0x6c
    [type |-> "TREMONT_D", models |-> {134}],  \* 0x86
    [type |-> "SAPPHIRERAPIDS", models |-> {143}],  \* 0x8f
    [type |-> "EMERALDRAPIDS", models |-> {207}],  \* 0xcf
    [type |-> "GRANITERAPIDS", models |-> {173}],  \* 0xad
    [type |-> "GRANITERAPIDS_D", models |-> {174}],  \* 0xae
    [type |-> "SIERRAFOREST", models |-> {175}],  \* 0xaf
    [type |-> "CLEARWATERFOREST", models |-> {221}] }  \* 0xdd

select_intel_cputype(family, model) ==
    LET known == {r \in Family6 : model \in r.models}
    IN  IF family = 15 THEN IF model = 6 THEN "TULSA" ELSE "P4"
        ELSE IF family = 6 /\ model < 15 THEN "P6OLD"  \* 0x0f
        ELSE IF family = 6 /\ known # {} THEN (CHOOSE r \in known : TRUE).type
        ELSE IF family = 6 /\ model > 26 THEN "INTEL"  \* 0x1a
        ELSE IF family = 19 /\ model = 1 THEN "DIAMONDRAPIDS"
        ELSE IF family > 6 THEN "INTEL"
        ELSE IF family = 6 THEN "P6OLD" ELSE "GENERIC"

\* Mutant: the family is looked at before the flag.
AmdType_FamilyFirst(cpu) ==
    IF cpu.family > 25 THEN [rc |-> "EINVAL", cputype |-> "GENERIC"]
    ELSE [rc |-> "ok", cputype |-> IF cpu.smca THEN "AMD_SMCA"
                                   ELSE IF cpu.family = 15 THEN "K8" ELSE "GENERIC"]

(* The AMD branch: any family with the smca flag, K8, or the generic type; *)
(* a later family without the flag is refused.                             *)
AmdType(cpu) ==
    IF cpu.smca THEN [rc |-> "ok", cputype |-> "AMD_SMCA"]
    ELSE [rc |-> IF cpu.family > 25 THEN "EINVAL" ELSE "ok",
          cputype |-> IF cpu.family = 15 THEN "K8" ELSE "GENERIC"]

(* detect_cpu: a file without any of the lines is no x86 machine.          *)
detect_cpu(cpu) ==
    LET found(type) == [rc |-> "ok", cputype |-> type]
    IN  CASE cpu.seen = "none" -> [rc |-> "ENOENT", cputype |-> "GENERIC"]
          [] cpu.seen = "some" -> [rc |-> "EINVAL", cputype |-> "GENERIC"]
          [] cpu.seen = "all" /\ cpu.vendor = "AuthenticAMD" -> AmdType(cpu)
          [] cpu.seen = "all" /\ cpu.vendor = "HygonGenuine" ->
                found(IF cpu.family = 24 THEN "DHYANA" ELSE "GENERIC")
          [] cpu.seen = "all" /\ cpu.vendor = "GenuineIntel" ->
                found(select_intel_cputype(cpu.family, cpu.model))
          [] cpu.seen = "all" /\ cpu.vendor \in {"CentaurHauls", "  Shanghai  "} ->
                found(IF cpu.family = 7 /\ cpu.model = 123 THEN "ZHAOXIN_KH50000" ELSE "ZHAOXIN")  \* 0x7b
          [] OTHER -> [rc |-> "EINVAL", cputype |-> "GENERIC"]

(* The switch of ras_mce_event_handler.                                    *)
event_parser(type) ==
    CASE type = "GENERIC" -> "none"
      [] type = "K8" -> "parse_amd_k8_event"
      [] type \in {"AMD_SMCA", "DHYANA"} -> "parse_amd_smca_event"
      [] type \in {"ZHAOXIN", "ZHAOXIN_KH50000"} -> "parse_zhaoxin_event"
      [] OTHER -> "parse_intel_event"

(* The switch of ras_erst_mce_handler, which has no Zhaoxin cases.         *)
erst_parser(type) ==
    CASE type = "GENERIC" -> "none"
      [] type = "K8" -> "parse_amd_k8_event"
      [] type \in {"AMD_SMCA", "DHYANA"} -> "parse_amd_smca_event"
      [] OTHER -> "parse_intel_event"

(* set_imc_log and set_intel_imc_log: the types for which the extended log *)
(* of memory errors is switched on in an MSR of every CPU.                 *)
ImcLogTypes == {"SANDY_BRIDGE_EP", "IVY_BRIDGE_EPEX", "HASWELL_EPEX", "KNIGHTS_LANDING",
                "KNIGHTS_MILL"}

(* The second switch of parse_intel_event: what decodes the model-specific *)
(* registers.                                                              *)
parse_intel_event(type) ==
    CASE type = "NEHALEM" -> "nehalem_decode_model"
      [] type = "XEON75XX" -> "xeon75xx_decode_model"
      [] type = "DUNNINGTON" -> "dunnington_decode_model"
      [] type = "TULSA" -> "tulsa_decode_model"
      [] type \in {"SANDY_BRIDGE", "SANDY_BRIDGE_EP"} -> "snb_decode_model"
      [] type = "IVY_BRIDGE_EPEX" -> "ivb_decode_model"
      [] type = "HASWELL_EPEX" -> "hsw_decode_model"
      [] type \in {"KNIGHTS_LANDING", "KNIGHTS_MILL"} -> "knl_decode_model"
      [] type = "BROADWELL_DE" -> "broadwell_de_decode_model"
      [] type = "BROADWELL_EPEX" -> "broadwell_epex_decode_model"
      [] type = "SKYLAKE_XEON" -> "skylake_s_decode_model"
      [] type \in {"ICELAKE_XEON", "ICELAKE_DE", "TREMONT_D", "SAPPHIRERAPIDS",
                   "EMERALDRAPIDS"} -> "i10nm_decode_model"
      [] type \in {"GRANITERAPIDS", "GRANITERAPIDS_D", "SIERRAFOREST",
                   "CLEARWATERFOREST"} -> "granite_decode_model"
      [] type = "DIAMONDRAPIDS" -> "diamond_decode_model"
      [] OTHER -> "none"
=============================================================================
