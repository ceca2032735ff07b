------------------------------ MODULE DbTables ------------------------------
(***************************************************************************)
(* The tables of the event database (ras-record.c): for each, its columns  *)
(* in the order of its db_fields array, and the fields of the event that   *)
(* its ras_store_* function binds, in the order of the parameters.  The    *)
(* INSERT names the columns and gives NULL for the id, so parameter k is   *)
(* the value of column k + 1.  Column types and SQL text are left out.     *)
(***************************************************************************)
EXTENDS Naturals, Sequences

mc_event_fields == <<"id", "timestamp", "err_count", "err_type", "err_msg", "label", "mc",
    "top_layer", "middle_layer", "lower_layer", "address", "grain", "syndrome", "driver_detail">>
ras_store_mc_event == <<"timestamp", "error_count", "error_type", "msg", "label", "mc_index",
    "top_layer", "middle_layer", "lower_layer", "address", "grain", "syndrome", "driver_detail">>

aer_event_fields == <<"id", "timestamp", "dev_name", "err_type", "err_msg">>
ras_store_aer_event == <<"timestamp", "dev_name", "error_type", "msg">>

non_standard_event_fields ==
    <<"id", "timestamp", "sec_type", "fru_id", "fru_text", "severity", "error">>
ras_store_non_standard_record ==
    <<"timestamp", "sec_type", "fru_id", "fru_text", "severity", "error">>

arm_event_fields == <<"id", "timestamp", "error_count", "affinity", "mpidr", "running_state",
    "psci_state", "err_info", "context_info", "vendor_info", "error_type", "error_flags",
    "error_info", "virt_fault_addr", "phy_fault_addr">>
ras_store_arm_record == <<"timestamp", "error_count", "affinity", "mpidr", "running_state",
    "psci_state", "pei_error", "ctx_error", "vsei_error", "error_types", "error_flags",
    "error_info", "virt_fault_addr", "phy_fault_addr">>

extlog_event_fields == <<"id", "timestamp", "etype", "error_count", "severity", "address",
    "fru_id", "fru_text", "cper_data">>
ras_store_extlog_mem_record == <<"timestamp", "etype", "error_seq", "severity", "address",
    "fru_id", "fru_text", "cper_data">>

mce_record_fields == <<"id", "timestamp", "mcgcap", "mcgstatus", "status", "addr", "misc", "ip",
    "tsc", "walltime", "ppin", "cpu", "cpuid", "apicid", "socketid", "cs", "bank", "cpuvendor",
    "microcode", "bank_name", "error_msg", "mcgstatus_msg", "mcistatus_msg", "mcastatus_msg",
    "user_action", "mc_location">>
ras_store_mce_record == <<"timestamp", "mcgcap", "mcgstatus", "status", "addr", "misc", "ip",
    "tsc", "walltime", "ppin", "cpu", "cpuid", "apicid", "socketid", "cs", "bank", "cpuvendor",
    "microcode", "bank_name", "error_msg", "mcgstatus_msg", "mcistatus_msg", "mcastatus_msg",
    "user_action", "mc_location">>

devlink_event_fields ==
    <<"id", "timestamp", "bus_name", "dev_name", "driver_name", "reporter_name", "msg">>
ras_store_devlink_event ==
    <<"timestamp", "bus_name", "dev_name", "driver_name", "reporter_name", "msg">>

diskerror_event_fields ==
    <<"id", "timestamp", "dev", "sector", "nr_sector", "error", "rwbs", "cmd">>
ras_store_diskerror_event ==
    <<"timestamp", "dev", "sector", "nr_sector", "error", "rwbs", "cmd">>

mf_event_fields == <<"id", "timestamp", "pfn", "page_type", "action_result">>
ras_store_mf_event == <<"timestamp", "pfn", "page_type", "action_result">>

cxl_poison_event_fields == <<"id", "timestamp", "memdev", "host", "serial", "trace_type",
    "region", "region_uuid", "hpa", "dpa", "dpa_length", "source", "flags", "overflow_ts",
    "hpa_alias0">>
ras_store_cxl_poison_event == <<"timestamp", "memdev", "host", "serial", "trace_type",
    "region", "uuid", "hpa", "dpa", "dpa_length", "source", "flags", "overflow_ts",
    "hpa_alias0">>

cxl_aer_ue_event_fields == <<"id", "timestamp", "memdev", "host", "serial", "error_status",
    "first_error", "header_log">>
ras_store_cxl_aer_ue_event == <<"timestamp", "memdev", "host", "serial", "error_status",
    "first_error", "header_log">>

cxl_aer_ce_event_fields == <<"id", "timestamp", "memdev", "host", "serial", "error_status">>
ras_store_cxl_aer_ce_event == <<"timestamp", "memdev", "host", "serial", "error_status">>

cxl_overflow_event_fields ==
    <<"id", "timestamp", "memdev", "host", "serial", "log_type", "count", "first_ts", "last_ts">>
ras_store_cxl_overflow_event ==
    <<"timestamp", "memdev", "host", "serial", "log_type", "count", "first_ts", "last_ts">>

ras_store_cxl_common_hdr == <<"timestamp", "memdev", "host", "serial", "log_type", "hdr_uuid",
    "hdr_flags", "hdr_handle", "hdr_related_handle", "hdr_timestamp", "hdr_length",
    "hdr_maint_op_class", "hdr_maint_op_sub_class", "hdr_ld_id", "hdr_head_id">>

cxl_generic_event_fields == <<"id", "timestamp", "memdev", "host", "serial", "log_type",
    "hdr_uuid", "hdr_flags", "hdr_handle", "hdr_related_handle", "hdr_ts", "hdr_length",
    "hdr_maint_op_class", "hdr_maint_op_sub_class", "hdr_ld_id", "hdr_head_id", "data">>
ras_store_cxl_generic_event == ras_store_cxl_common_hdr \o <<"data">>

cxl_general_media_event_fields == <<"id", "timestamp", "memdev", "host", "serial", "log_type",
    "hdr_uuid", "hdr_flags", "hdr_handle", "hdr_related_handle", "hdr_ts", "hdr_length",
    "hdr_maint_op_class", "hdr_maint_op_sub_class", "hdr_ld_id", "hdr_head_id", "dpa",
    "dpa_flags", "descriptor", "type", "transaction_type", "channel", "rank", "device",
    "comp_id", "hpa", "region", "region_uuid", "pldm_entity_id", "pldm_resource_id",
    "sub_type", "cme_threshold_ev_flags", "cme_count", "hpa_alias0">>
ras_store_cxl_general_media_event == ras_store_cxl_common_hdr \o <<"dpa", "dpa_flags",
    "descriptor", "type", "transaction_type", "channel", "rank", "device", "comp_id", "hpa",
    "region", "region_uuid", "entity_id", "res_id", "sub_type", "cme_threshold_ev_flags",
    "cme_count", "hpa_alias0">>

cxl_dram_event_fields == <<"id", "timestamp", "memdev", "host", "serial", "log_type",
    "hdr_uuid", "hdr_flags", "hdr_handle", "hdr_related_handle", "hdr_ts", "hdr_length",
    "hdr_maint_op_class", "hdr_maint_op_sub_class", "hdr_ld_id", "hdr_head_id", "dpa",
    "dpa_flags", "descriptor", "type", "transaction_type", "channel", "rank", "nibble_mask",
    "bank_group", "bank", "row", "column", "cor_mask", "hpa", "region", "region_uuid",
    "comp_id", "pldm_entity_id", "pldm_resource_id", "sub_type", "sub_channel",
    "cme_threshold_ev_flags", "cvme_count", "hpa_alias0">>

ras_store_cxl_dram_event == ras_store_cxl_common_hdr \o <<"dpa", "dpa_flags",
    "descriptor", "type", "transaction_type", "channel", "rank", "nibble_mask", "bank_group",
    "bank", "row", "column", "cor_mask", "hpa", "region", "region_uuid", "comp_id",
    "entity_id", "res_id", "sub_type", "sub_channel", "cme_threshold_ev_flags", "cvme_count",
    "hpa_alias0">>

cxl_memory_module_event_fields == <<"id", "timestamp", "memdev", "host", "serial", "log_type",
    "hdr_uuid", "hdr_flags", "hdr_handle", "hdr_related_handle", "hdr_ts", "hdr_length",
    "hdr_maint_op_class", "hdr_maint_op_sub_class", "hdr_ld_id", "hdr_head_id", "event_type",
    "health_status", "media_status", "life_used", "dirty_shutdown_cnt", "cor_vol_err_cnt",
    "cor_per_err_cnt", "device_temp", "add_status", "event_sub_type", "comp_id",
    "pldm_entity_id", "pldm_resource_id">>
ras_store_cxl_memory_module_event == ras_store_cxl_common_hdr \o <<"event_type",
    "health_status", "media_status", "life_used", "dirty_shutdown_cnt", "cor_vol_err_cnt",
    "cor_per_err_cnt", "device_temp", "add_status", "event_sub_type", "comp_id",
    "entity_id", "res_id">>

signal_event_fields ==
    <<"id", "timestamp", "sig", "errorno", "code", "comm", "pid", "grp", "res">>
ras_store_signal_event ==
    <<"timestamp", "sig", "error_no", "code", "comm", "pid", "group", "result">>

reri_event_fields == <<"id", "timestamp", "err_src_id", "source_type", "severity", "hart_id",
    "cluster_id", "status", "addr_info", "info", "suppl_info", "timestamp_val">>
ras_store_reri_event == <<"timestamp", "err_src_id", "source_type", "severity", "hart_id",
    "cluster_id", "status", "addr_info", "info", "suppl_info", "timestamp_val">>

-----------------------------------------------------------------------------
(* The tables in the order in which ras_mc_event_opendb creates them.      *)
CoreTables == <<
    [name |-> "mc_event", fields |-> mc_event_fields, binds |-> ras_store_mc_event],
    [name |-> "aer_event", fields |-> aer_event_fields, binds |-> ras_store_aer_event],
    [name |-> "extlog_event", fields |-> extlog_event_fields, binds |-> ras_store_extlog_mem_record],
    [name |-> "mce_record", fields |-> mce_record_fields, binds |-> ras_store_mce_record],
    [name |-> "non_standard_event", fields |-> non_standard_event_fields,
        binds |-> ras_store_non_standard_record],
    [name |-> "arm_event", fields |-> arm_event_fields, binds |-> ras_store_arm_record],
    [name |-> "devlink_event", fields |-> devlink_event_fields, binds |-> ras_store_devlink_event],
    [name |-> "disk_errors", fields |-> diskerror_event_fields, binds |-> ras_store_diskerror_event],
    [name |-> "memory_failure_event", fields |-> mf_event_fields, binds |-> ras_store_mf_event],
    [name |-> "cxl_poison_event", fields |-> cxl_poison_event_fields,
        binds |-> ras_store_cxl_poison_event],
    [name |-> "cxl_aer_ue_event", fields |-> cxl_aer_ue_event_fields,
        binds |-> ras_store_cxl_aer_ue_event],
    [name |-> "cxl_aer_ce_event", fields |-> cxl_aer_ce_event_fields,
        binds |-> ras_store_cxl_aer_ce_event],
    [name |-> "cxl_overflow_event", fields |-> cxl_overflow_event_fields,
        binds |-> ras_store_cxl_overflow_event],
    [name |-> "cxl_generic_event", fields |-> cxl_generic_event_fields,
        binds |-> ras_store_cxl_generic_event],
    [name |-> "cxl_general_media_event", fields |-> cxl_general_media_event_fields,
        binds |-> ras_store_cxl_general_media_event],
    [name |-> "cxl_dram_event", fields |-> cxl_dram_event_fields, binds |-> ras_store_cxl_dram_event],
    [name |-> "cxl_memory_module_event", fields |-> cxl_memory_module_event_fields,
        binds |-> ras_store_cxl_memory_module_event],
    [name |-> "signal_event", fields |-> signal_event_fields, binds |-> ras_store_signal_event],
    [name |-> "reri_event", fields |-> reri_event_fields, binds |-> ras_store_reri_event] >>

(* Columns that have another name than the field of the event they hold.   *)
Renamed(table) ==
    CASE table = "mc_event" -> [err_count |-> "error_count", err_type |-> "error_type",
                                err_msg |-> "msg", mc |-> "mc_index"]
      [] table = "aer_event" -> [err_type |-> "error_type", err_msg |-> "msg"]
      [] table = "arm_event" -> [err_info |-> "pei_error", context_info |-> "ctx_error",
                                 vendor_info |-> "vsei_error", error_type |-> "error_types"]
      [] table = "extlog_event" -> [error_count |-> "error_seq"]
      [] table = "cxl_poison_event" -> [region_uuid |-> "uuid"]
      [] table = "signal_event" -> [errorno |-> "error_no", grp |-> "group", res |-> "result"]
      [] OTHER -> [hdr_ts |-> "hdr_timestamp", pldm_entity_id |-> "entity_id",
                   pldm_resource_id |-> "res_id"]

(* The field of the event that a column of a table is meant for.           *)
FieldOf(table, column) ==
    IF column \in DOMAIN Renamed(table) THEN Renamed(table)[column] ELSE column
=============================================================================
