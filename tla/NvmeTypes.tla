------------------------------ MODULE NvmeTypes ------------------------------
(***************************************************************************)
(* How the data of libnvme's commands lies in memory, as its header        *)
(* declares it (libnvme/src/nvme/types.h), and which of it a function of   *)
(* ioctl.h is handed.                                                      *)
(*                                                                         *)
(* A structure is the sequence of its runs: fields, or elements of an      *)
(* array, that have the same width and follow each other.  A run is the    *)
(* pair of its alignment and its size in bytes.  An array without a length *)
(* (the entries behind a header) is a run of size 0.                       *)
(***************************************************************************)
EXTENDS Integers, Sequences, TLC

LOCAL INSTANCE SequencesExt

U8(n) == <<1, n>>
U16(n) == <<2, 2 * n>>
U32(n) == <<4, 4 * n>>
U64(n) == <<8, 8 * n>>

AlignOf(struct) == LET aligns == {run[1] : run \in Range(struct)} IN
                   CHOOSE a \in aligns : \A b \in aligns : b <= a
(* Without the padding of the compiler: see Tight. *)
SizeOf(struct) == FoldLeft(LAMBDA sum, run : sum + run[2], 0, struct)
Arr(struct, n) == <<AlignOf(struct), n * SizeOf(struct)>>

OffsetOf(struct, i) == SizeOf(SubSeq(struct, 1, i - 1))
(* The compiler adds no padding. *)
Tight(struct) ==
    /\ \A i \in DOMAIN struct : OffsetOf(struct, i) % struct[i][1] = 0
    /\ SizeOf(struct) % AlignOf(struct) = 0

----------------------------------------------------------------------------
(* The data of Identify. *)
nvme_id_psd == <<U16(1), U8(2), U32(2), U8(4), U16(1), U8(2), U16(1), U8(10)>>
nvme_id_ctrl ==
    <<U16(2), U8(74), U16(1), U32(5), U16(1), U8(26), U16(3), U8(122), U16(1), U8(8), U16(3), U32(2),
      U8(32), U32(1), U16(1), U8(2), U16(4), U32(2), U16(3), U8(2), U32(3), U8(158), U16(1), U32(1),
      U16(2), U8(2), U16(2), U8(2), U16(1), U8(2), U32(2), U8(1248), U32(2), U16(1), U8(2), U16(1),
      U8(242), Arr(nvme_id_psd, 32), U8(1024)>>
nvme_lbaf == <<U16(1), U8(2)>>
nvme_id_ns ==
    <<U64(3), U8(10), U16(7), U8(16), U16(6), U32(1), U8(12), U32(1), U8(4), U16(2), U8(24),
      Arr(nvme_lbaf, 16), U8(3904)>>
nvme_ns_id_desc == <<U8(2), U16(1)>>
nvme_nvmset_attr == <<U16(2), U8(4), U32(2), U8(112)>>
nvme_id_nvmset_list == <<U8(128), Arr(nvme_nvmset_attr, 31)>>
nvme_id_ns_granularity_desc == <<U64(2)>>
nvme_id_ns_granularity_list == <<U32(1), U8(28), Arr(nvme_id_ns_granularity_desc, 16), U8(3808)>>
nvme_id_uuid_list_entry == <<U8(32)>>
nvme_id_uuid_list == <<U8(32), Arr(nvme_id_uuid_list_entry, 127)>>
nvme_ctrl_list == <<U16(2048)>>
nvme_ns_list == <<U32(1024)>>
nvme_id_ctrl_nvm == <<U8(4), U32(1), U64(1), U8(4080)>>
nvme_zns_lbafe == <<U64(1), U8(8)>>
nvme_zns_id_ns == <<U16(2), U32(4), U8(2796), Arr(nvme_zns_lbafe, 16), U8(1024)>>
nvme_zns_id_ctrl == <<U8(4096)>>
nvme_primary_ctrl_cap == <<U16(2), U8(28), U32(2), U16(4), U8(16), U32(2), U16(4), U8(4016)>>
nvme_secondary_ctrl == <<U16(2), U8(4), U16(3), U8(18)>>
nvme_secondary_ctrl_list == <<U8(32), Arr(nvme_secondary_ctrl, 127)>>
nvme_id_iocs == <<U64(512)>>

(* The log pages. *)
nvme_error_log_page == <<U64(1), U16(4), U64(1), U32(1), U8(4), U64(1), U16(1), U8(22)>>
nvme_smart_log == <<U8(192), U32(2), U16(8), U32(4), U8(280)>>
nvme_firmware_slot == <<U8(512)>>
nvme_cmd_effects_log == <<U32(512), U8(2048)>>
nvme_st_result == <<U8(4), U64(1), U32(1), U64(1), U8(4)>>     \* packed
nvme_self_test_log == <<U8(4), Arr(nvme_st_result, 20)>>     \* packed
nvme_telemetry_log == <<U8(8), U16(3), U8(498)>>
nvme_endurance_group_log == <<U8(512)>>
nvme_nvmset_predictable_lat_log == <<U8(2), U16(1), U8(28), U64(5), U8(56), U64(3), U8(360)>>
nvme_ana_group_desc == <<U32(2), U64(1), U8(16), U32(0)>>
nvme_ana_log == <<U64(1), U16(1), U8(6), Arr(nvme_ana_group_desc, 0)>>
nvme_persistent_event_log ==
    <<U8(4), U32(1), U64(1), U8(2), U16(1), U64(1), U8(16), U64(1), U16(2), U8(456)>>     \* packed
nvme_persistent_event_entry == <<U8(4), U16(1), U64(1), U8(6), U16(2)>>
nvme_lba_rd == <<U64(1), U32(1), U8(4)>>
nvme_lbas_ns_element == <<U32(2), U8(8), Arr(nvme_lba_rd, 0)>>
nvme_lba_status_log == <<U32(3), U8(2), U16(1), Arr(nvme_lbas_ns_element, 0)>>
nvme_resv_notification_log == <<U64(1), U8(4), U32(1), U8(48)>>
nvme_sanitize_log_page == <<U16(2), U32(7), U8(480)>>
nvme_zns_changed_zone_log == <<U16(1), U8(6), U64(511)>>
nvmf_disc_log_entry == <<U8(4), U16(3), U8(758), U16(128)>>     \* tsas, a union, in 16-bit halves
nvmf_discovery_log == <<U64(2), U16(1), U8(1006), Arr(nvmf_disc_log_entry, 0)>>

(* What persistent events tell. *)
nvme_fw_commit_event == <<U64(2), U8(4), U16(1)>>     \* packed
nvme_time_stamp_change_event == <<U64(2)>>
nvme_power_on_reset_info_list == <<U16(1), U8(14), U32(1), U64(2)>>     \* packed
nvme_nss_hw_err_event == <<U16(1), U8(2), U64(1)>>
nvme_change_ns_event == <<U32(1), U8(4), U64(1), U8(8), U64(1), U8(4), U32(1), U16(2), U32(1)>>
nvme_format_nvm_start_event == <<U32(1), U8(4), U32(1)>>
nvme_format_nvm_compln_event == <<U32(1), U8(2), U16(1), U32(1)>>
nvme_sanitize_start_event == <<U32(3)>>
nvme_sanitize_compln_event == <<U16(3), U8(2)>>

(* The data of the other commands. *)
nvme_zns_desc == <<U8(8), U64(3), U8(32)>>
nvme_zone_report == <<U64(1), U8(56), Arr(nvme_zns_desc, 0)>>
nvme_lba_status_desc == <<U64(1), U32(1), U8(4)>>
nvme_lba_status == <<U32(1), U8(4), Arr(nvme_lba_status_desc, 0)>>
nvme_feat_auto_pst == <<U64(32)>>
nvme_timestamp == <<U8(8)>>
nvme_lba_range_type_entry == <<U8(16), U64(2), U8(32)>>
nvme_lba_range_type == <<Arr(nvme_lba_range_type_entry, 64)>>
nvme_plm_config == <<U16(1), U8(30), U64(3), U8(456)>>
nvme_feat_host_behavior == <<U8(512)>>
nvme_dsm_range == <<U32(2), U64(1)>>
nvme_copy_range == <<U8(8), U64(1), U16(1), U8(6), U32(1), U16(2)>>
nvme_registered_ctrl == <<U16(1), U8(6), U64(2)>>
nvme_registered_ctrl_ext == <<U16(1), U8(6), U64(1), U8(48)>>
nvme_resv_status == <<U32(1), U8(20), Arr(nvme_registered_ctrl, 0), U8(40), Arr(nvme_registered_ctrl_ext, 0)>>
nvme_streams_directive_params == <<U16(3), U8(10), U32(1), U16(3), U8(6)>>
nvme_id_directives == <<U8(4096)>>
nvmf_connect_data == <<U8(16), U16(1), U8(1006)>>

----------------------------------------------------------------------------
(* What the functions of ioctl.h are handed to be filled. *)
IdentifyData ==
    [f \in {"identify_ns", "identify_allocated_ns"} |-> nvme_id_ns]
    @@ [f \in {"identify_active_ns_list", "identify_allocated_ns_list"} |-> nvme_ns_list]
    @@ [f \in {"identify_ctrl_list", "identify_nsid_ctrl_list"} |-> nvme_ctrl_list]
    @@ [identify_ctrl |-> nvme_id_ctrl, identify_ns_descs |-> nvme_ns_id_desc]

IdentifyMoreData == [
    identify_nvmset_list |-> nvme_id_nvmset_list, identify_primary_ctrl |-> nvme_primary_ctrl_cap,
    identify_secondary_ctrl_list |-> nvme_secondary_ctrl_list,
    identify_ns_granularity |-> nvme_id_ns_granularity_list, identify_uuid |-> nvme_id_uuid_list,
    nvm_identify_ctrl |-> nvme_id_ctrl_nvm, identify_iocs |-> nvme_id_iocs,
    zns_identify_ns |-> nvme_zns_id_ns, zns_identify_ctrl |-> nvme_zns_id_ctrl]

LogData == [
    get_log_error |-> nvme_error_log_page, get_log_smart |-> nvme_smart_log,
    get_log_fw_slot |-> nvme_firmware_slot, get_log_changed_ns_list |-> nvme_ns_list,
    get_log_cmd_effects |-> nvme_cmd_effects_log, get_log_device_self_test |-> nvme_self_test_log,
    get_log_create_telemetry_host |-> nvme_telemetry_log]

LogMoreData == [
    get_log_endurance_group |-> nvme_endurance_group_log,
    get_log_predictable_lat_nvmset |-> nvme_nvmset_predictable_lat_log,
    get_log_reservation |-> nvme_resv_notification_log, get_log_sanitize |-> nvme_sanitize_log_page,
    get_log_zns_changed_zones |-> nvme_zns_changed_zone_log]

Received == IdentifyData @@ IdentifyMoreData @@ LogData @@ LogMoreData

(* The structures that are not declared packed but have to lie as if they  *)
(* were.                                                                   *)
Unpacked ==
    {Received[f] : f \in DOMAIN Received \ {"get_log_device_self_test"}}
    \cup {nvme_id_psd, nvme_lbaf, nvme_nvmset_attr, nvme_secondary_ctrl, nvme_zns_lbafe,
          nvme_id_ns_granularity_desc, nvme_id_uuid_list_entry, nvme_ana_group_desc, nvme_ana_log,
          nvme_persistent_event_entry, nvme_lba_rd, nvme_lbas_ns_element, nvme_lba_status_log,
          nvmf_disc_log_entry, nvmf_discovery_log, nvme_time_stamp_change_event, nvme_nss_hw_err_event,
          nvme_change_ns_event, nvme_format_nvm_start_event, nvme_format_nvm_compln_event,
          nvme_sanitize_start_event, nvme_sanitize_compln_event, nvme_zns_desc, nvme_zone_report,
          nvme_lba_status_desc, nvme_lba_status, nvme_feat_auto_pst, nvme_timestamp,
          nvme_lba_range_type_entry, nvme_lba_range_type, nvme_plm_config, nvme_feat_host_behavior,
          nvme_dsm_range, nvme_copy_range, nvme_registered_ctrl, nvme_registered_ctrl_ext,
          nvme_resv_status, nvme_streams_directive_params, nvme_id_directives, nvmf_connect_data}

----------------------------------------------------------------------------
(* How much of them a controller sends, after the NVMe specifications, and *)
(* where some fields lie: <<offset, width>>.                               *)
DeviceSize(f) ==
    CASE f \in DOMAIN IdentifyData \cup DOMAIN IdentifyMoreData
              \cup {"get_log_changed_ns_list", "get_log_cmd_effects", "get_log_zns_changed_zones"} -> 4096
      [] f \in {"get_log_error", "get_log_reservation"} -> 64
      [] f = "get_log_device_self_test" -> 564
      [] OTHER -> 512

Places == [
    identify_ctrl |-> {<<0, 2>>, <<78, 2>>, <<80, 4>>, <<100, 2>>, <<128, 2>>, <<256, 2>>, <<266, 2>>,
        <<272, 4>>, <<312, 4>>, <<316, 2>>, <<320, 2>>, <<328, 4>>, <<336, 2>>, <<344, 4>>, <<514, 2>>,
        <<516, 4>>, <<520, 2>>, <<526, 2>>, <<532, 2>>, <<536, 4>>, <<1792, 4>>, <<1800, 2>>, <<1804, 2>>,
        <<2048, 4>>},
    identify_ns |-> {<<0, 8>>, <<34, 2>>, <<64, 2>>, <<76, 4>>, <<92, 4>>, <<100, 2>>, <<128, 2>>},
    zns_identify_ns |-> {<<0, 2>>, <<4, 4>>, <<2816, 8>>},
    identify_primary_ctrl |-> {<<0, 2>>, <<32, 4>>, <<40, 2>>, <<64, 4>>, <<72, 2>>},
    identify_nvmset_list |-> {<<128, 4>>},
    get_log_error |-> {<<0, 8>>, <<8, 2>>, <<16, 8>>, <<24, 4>>, <<32, 8>>, <<40, 2>>},
    get_log_smart |-> {<<192, 4>>, <<200, 2>>, <<216, 4>>},
    get_log_predictable_lat_nvmset |-> {<<2, 2>>, <<32, 8>>, <<128, 8>>},
    get_log_reservation |-> {<<0, 8>>, <<12, 4>>},
    get_log_sanitize |-> {<<0, 2>>, <<4, 4>>},
    get_log_zns_changed_zones |-> {<<0, 2>>, <<8, 8>>}]

(* What the controller sends fits, and lies where the structure has it.    *)
LaidOut(f) ==
    LET struct == Received[f] IN
    /\ DeviceSize(f) <= SizeOf(struct)
    /\ f \in DOMAIN Places =>
           \A p \in Places[f] : \E i \in DOMAIN struct : OffsetOf(struct, i) = p[1] /\ struct[i][1] = p[2]

----------------------------------------------------------------------------
(* util.c: how long the data of a feature is; -1 for what it does not know *)
(* (of the features ioctl.h names, one).                                   *)
DataFeatures == [
    lba_range |-> SizeOf(nvme_lba_range_type), auto_pst |-> SizeOf(nvme_feat_auto_pst),
    plm_config |-> SizeOf(nvme_plm_config), timestamp |-> SizeOf(nvme_timestamp),
    host_behavior |-> SizeOf(nvme_feat_host_behavior)]

nvme_get_feature_length(feature, exhid) ==
    IF feature = "host_id" THEN IF exhid THEN 16 ELSE 8
    ELSE IF feature \in DOMAIN DataFeatures THEN DataFeatures[feature]
    ELSE IF feature = "iocs_profile" THEN -1 ELSE 0

(* What a directive returns, by its type and operation; -1 for others.     *)
nvme_get_directive_receive_length(d) ==
    CASE d = <<"identify", "param">> -> SizeOf(nvme_id_directives)
      [] d = <<"streams", "param">> -> SizeOf(nvme_streams_directive_params)
      [] d = <<"streams", "status">> -> 128 * 1024 * 2
      [] d = <<"streams", "resource">> -> 0
      [] OTHER -> -1

(* The same after the NVMe specification. *)
FeatureSize == [lba_range |-> 4096, auto_pst |-> 256, plm_config |-> 512, timestamp |-> 8,
                host_behavior |-> 512, host_id |-> 8, arbitration |-> 0, resv_mask |-> 0, volatile_wc |-> 0]
DirectiveSize == (<<"identify", "param">> :> 4096) @@ (<<"streams", "param">> :> 32)
                 @@ (<<"streams", "status">> :> 2 + 2 * 65535) @@ (<<"streams", "resource">> :> 0)
=============================================================================
