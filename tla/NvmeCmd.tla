------------------------------- MODULE NvmeCmd -------------------------------
(***************************************************************************)
(* How libnvme (libnvme/src/nvme/ioctl.c) turns the arguments of its       *)
(* functions into NVMe commands.                                           *)
(*                                                                         *)
(* A command is the set of its bits that come from an argument: the tuple  *)
(* <<dw, bit, arg, i, less>> says that bit `bit' of command dword dw is    *)
(* bit i of arg - less, where less is 1 for a number that counts from      *)
(* zero, 4 for one of dwords made from a length, and else 0.  So one table *)
(* speaks of all values of the arguments.                                  *)
(* Dword 1 is the namespace identifier and dword 6 the data pointer, of    *)
(* which only their being passed is of interest: one bit each.  Arguments  *)
(* that are constants zero leave no bits; other constants (a log page, a   *)
(* feature) are not arguments and are left out, except where they are      *)
(* handed on in the wrong place.                                           *)
(***************************************************************************)
EXTENDS Integers, Sequences, TLC

Zero == "0"

(* The shifts and masks of enum nvme_cmd_dword_fields. *)
Field(shift, width) == [shift |-> shift, mask |-> 0 .. width - 1]

F == [
    DEVICE_SELF_TEST_STC |-> Field(0, 3),
    DIRECTIVE_DOPER |-> Field(0, 8), DIRECTIVE_DTYPE |-> Field(8, 8), DIRECTIVE_DPSEC |-> Field(16, 16),
    DIRECTIVE_SEND_IDENTIFY_ENDIR |-> Field(0, 1), DIRECTIVE_SEND_IDENTIFY_DTYPE |-> Field(1, 1),
    FW_COMMIT_FS |-> Field(0, 3), FW_COMMIT_CA |-> Field(3, 3), FW_COMMIT_BPID |-> Field(31, 1),
    GET_FEATURES_SEL |-> Field(8, 3), SET_FEATURES_SAVE |-> Field(31, 1),
    FEATURES_FID |-> Field(0, 8), FEATURES_UUID |-> Field(0, 7),
    LOG_LID |-> Field(0, 8), LOG_LSP |-> Field(8, 4), LOG_RAE |-> Field(15, 1),
    LOG_LSI |-> Field(16, 8), LOG_UUID |-> Field(0, 7), LOG_CSI |-> Field(24, 8),
    IDENTIFY_CNS |-> Field(0, 8), IDENTIFY_CNTID |-> Field(16, 16), IDENTIFY_NVMSETID |-> Field(0, 16),
    IDENTIFY_UUID |-> Field(0, 7), IDENTIFY_CSI |-> Field(24, 8),
    NAMESPACE_ATTACH_SEL |-> Field(0, 4), NAMESPACE_MGMT_SEL |-> Field(0, 4),
    \* the masks are 0, 8 and 16: the widths' and shifts' values
    VIRT_MGMT_ACT |-> [shift |-> 0, mask |-> {}], VIRT_MGMT_RT |-> [shift |-> 8, mask |-> {3}],
    VIRT_MGMT_CNTLID |-> [shift |-> 16, mask |-> {4}], VIRT_MGMT_NR |-> Field(0, 16),
    FORMAT_LBAF |-> Field(0, 4), FORMAT_MSET |-> Field(4, 1), FORMAT_PI |-> Field(5, 3),
    FORMAT_PIL |-> Field(8, 1), FORMAT_SES |-> Field(9, 3),
    SANITIZE_SANACT |-> Field(0, 3), SANITIZE_AUSE |-> Field(3, 1), SANITIZE_OWPASS |-> Field(4, 4),
    SANITIZE_OIPBP |-> Field(8, 1), SANITIZE_NODAS |-> Field(9, 1),
    SECURITY_NSSF |-> Field(0, 8), SECURITY_SPSP0 |-> Field(8, 8), SECURITY_SPSP1 |-> Field(16, 8),
    SECURITY_SECP |-> Field(24, 8),     \* the mask has 16 bits, the argument 8
    GET_LBA_STATUS_RL |-> Field(0, 16), GET_LBA_STATUS_ATYPE |-> Field(24, 8),
    ZNS_MGMT_SEND_SEL |-> Field(8, 1), ZNS_MGMT_SEND_ZSA |-> Field(0, 8),
    ZNS_MGMT_RECV_ZRA |-> Field(0, 8), ZNS_MGMT_RECV_ZRASF |-> Field(8, 8),
    ZNS_MGMT_RECV_ZRAS_FEAT |-> Field(16, 1)]

(* The fields of the features, in util.h. *)
FEAT == [
    ARBITRATION_BURST |-> Field(0, 3), ARBITRATION_LPW |-> Field(8, 8),
    ARBITRATION_MPW |-> Field(16, 8), ARBITRATION_HPW |-> Field(24, 8),
    PWRMGMT_PS |-> Field(0, 5), PWRMGMT_WH |-> Field(5, 3),
    TT_TMPTH |-> Field(0, 16), TT_TMPSEL |-> Field(16, 4), TT_THSEL |-> Field(20, 2),
    ERROR_RECOVERY_TLER |-> Field(0, 16), ERROR_RECOVERY_DULBE |-> Field(16, 1),
    VWC_WCE |-> Field(0, 1), IRQC_THR |-> Field(0, 8), IRQC_TIME |-> Field(8, 8),
    ICFG_IV |-> Field(0, 16), ICFG_CD |-> Field(16, 1), WA_DN |-> Field(0, 1),
    APST_APSTE |-> Field(0, 1), HCTM_TMT2 |-> Field(0, 16), HCTM_TMT1 |-> Field(16, 16),
    NOPS_NOPPME |-> Field(0, 1), PLMW_WS |-> Field(0, 3),
    LBAS_LSIRI |-> Field(0, 16), LBAS_LSIPI |-> Field(16, 16), IOCSP_IOCSCI |-> Field(0, 8)]

(* NVME_SET(arg, field), in dword dw; and arguments that are put in whole. *)
(* Mutant: the value is shifted before it is masked. *)
NVME_SET_ShiftFirst(dw, arg, field) ==
    IF arg = Zero THEN {}
    ELSE {<<dw, b, arg, b - field.shift, 0>> : b \in {c \in field.mask : c >= field.shift}}
NVME_SET(dw, arg, field) ==
    IF arg = Zero THEN {} ELSE {<<dw, field.shift + b, arg, b, 0>> : b \in field.mask}
At(dw, shift, width, arg) == NVME_SET(dw, arg, Field(shift, width))
Dword(dw, arg) == At(dw, 0, 32, arg)
Qword(dw, arg) ==
    IF arg = Zero THEN {} ELSE Dword(dw, arg) \cup {<<dw + 1, b, arg, 32 + b, 0>> : b \in 0 .. 31}
Nsid(arg) == IF arg = Zero THEN {} ELSE {<<1, 0, arg, 0, 0>>}
Data(arg) == IF arg = Zero THEN {} ELSE {<<6, 0, arg, 0, 0>>}

(* (len >> 2) - 1, a number of dwords less one, is (len - 4) >> 2: bit 2   *)
(* is the lowest that counts.                                              *)
Numd(dw, arg) == IF arg = Zero THEN {} ELSE {<<dw, b, arg, b + 2, 4>> : b \in 0 .. 29}

(* nr - 1, a number that counts from zero. *)
ZeroBased(dw, width, arg) == {<<dw, b, arg, b, 1>> : b \in 0 .. width - 1}

Call(op, params, bits) == [op |-> op, params |-> params, bits |-> bits]

----------------------------------------------------------------------------
nvme_identify(params, nsid, cntid, nvmsetid, uuidx, csi) ==
    Call("identify", params \cup {"data"},
         Nsid(nsid) \cup Data("data")
         \cup NVME_SET(10, cntid, F.IDENTIFY_CNTID) \cup NVME_SET(11, nvmsetid, F.IDENTIFY_NVMSETID)
         \cup NVME_SET(11, csi, F.IDENTIFY_CSI) \cup NVME_SET(14, uuidx, F.IDENTIFY_UUID))

__nvme_identify(params, nsid) == nvme_identify(params, nsid, Zero, Zero, Zero, Zero)

IdentifyCalls ==
    [f \in {"identify_ctrl", "identify_ns_granularity", "identify_uuid"} |-> __nvme_identify({}, Zero)]
    @@ [f \in {"identify_ns", "identify_allocated_ns", "identify_active_ns_list",
               "identify_allocated_ns_list", "identify_ns_descs"} |-> __nvme_identify({"nsid"}, "nsid")]
    @@ [f \in {"identify_ctrl_list", "identify_primary_ctrl"} |->
            nvme_identify({"cntid"}, Zero, "cntid", Zero, Zero, Zero)]
    @@ [f \in {"identify_nsid_ctrl_list", "identify_secondary_ctrl_list"} |->
            nvme_identify({"nsid", "cntid"}, "nsid", "cntid", Zero, Zero, Zero)]
    @@ [identify_nvmset_list |-> nvme_identify({"nvmsetid"}, Zero, Zero, "nvmsetid", Zero, Zero),
        identify_ctrl_csi |-> nvme_identify({"csi"}, Zero, Zero, Zero, Zero, "csi"),
        identify_ns_csi |-> nvme_identify({"nsid", "csi"}, "nsid", Zero, Zero, Zero, "csi"),
        identify_iocs |-> nvme_identify({"cntid"}, Zero, "cntid", Zero, Zero, Zero),
        zns_identify_ns |-> nvme_identify({"nsid"}, "nsid", Zero, Zero, Zero, "#CSI_ZNS"),
        identify |-> nvme_identify({"nsid", "cntid", "nvmsetid", "uuidx", "csi"},
                                   "nsid", "cntid", "nvmsetid", "uuidx", "csi")]
    @@ [f \in {"zns_identify_ctrl", "nvm_identify_ctrl"} |->
            nvme_identify({}, Zero, Zero, Zero, Zero, "#CSI")]

----------------------------------------------------------------------------
(* The length's low and high half go to cdw10 and cdw11. *)
NumdHalves(arg) ==
    IF arg = Zero THEN {}
    ELSE {<<10, 16 + b, arg, b + 2, 4>> : b \in 0 .. 15} \cup {<<11, b, arg, b + 18, 4>> : b \in 0 .. 13}

nvme_get_log(params, nsid, lpo, lsp, lsi, rae, uuidx, csi, len) ==
    Call("get_log", params \cup {"data"},
         Nsid(nsid) \cup Data("data")
         \cup NVME_SET(10, lsp, F.LOG_LSP) \cup NVME_SET(10, rae, F.LOG_RAE) \cup NumdHalves(len)
         \cup NVME_SET(11, lsi, F.LOG_LSI) \cup Qword(12, lpo)
         \cup NVME_SET(14, uuidx, F.LOG_UUID) \cup NVME_SET(14, csi, F.LOG_CSI))

(* The last arguments it passes are one place off: rae is taken for csi. *)
__nvme_get_log(params, rae, len) ==
    nvme_get_log(params, "#NSID_ALL", Zero, Zero, Zero, Zero, Zero, rae, len)

nvme_get_log_part(params) ==
    nvme_get_log(params, Zero, "offset", Zero, Zero, "rae", Zero, Zero, "len")

LogCalls ==
    [f \in {"get_log_fw_slot", "get_log_changed_ns_list", "get_log_reservation", "get_log_sanitize"} |->
        __nvme_get_log({"rae"}, "rae", "#size")]
    @@ [f \in {"get_log_lba_status", "get_log_endurance_grp_evt", "get_log_discovery",
               "get_log_predictable_lat_event", "get_log_telemetry_ctrl"} |->
            nvme_get_log_part({"rae", "offset", "len"})]
    @@ [get_log |-> nvme_get_log({"nsid", "offset", "lsp", "lsi", "rae", "uuidx", "csi", "len"},
                                 "nsid", "offset", "lsp", "lsi", "rae", "uuidx", "csi", "len"),
        get_log_error |-> __nvme_get_log({"len", "rae"}, "rae", "len"),
        get_log_smart |-> nvme_get_log({"nsid", "rae"}, "nsid", Zero, Zero, Zero, "rae", Zero, Zero, "#size"),
        get_log_cmd_effects |->
            nvme_get_log({"csi"}, "#NSID_ALL", Zero, Zero, Zero, Zero, "csi", Zero, "#size"),
        get_log_device_self_test |-> __nvme_get_log({}, Zero, "#size"),
        get_log_create_telemetry_host |->
            nvme_get_log({}, Zero, Zero, "#CREATE", Zero, Zero, Zero, Zero, "#size"),
        get_log_telemetry_host |->
            nvme_get_log({"offset", "len"}, Zero, "offset", Zero, Zero, Zero, Zero, Zero, "len"),
        get_log_endurance_group |->
            nvme_get_log({"endgid"}, Zero, Zero, Zero, "endgid", Zero, Zero, Zero, "#size"),
        get_log_predictable_lat_nvmset |->
            nvme_get_log({"nvmsetid"}, Zero, Zero, Zero, "nvmsetid", Zero, Zero, Zero, "#size"),
        get_log_ana |->
            nvme_get_log({"lsp", "rae", "offset", "len"}, Zero, "offset", "lsp", Zero, Zero, Zero, Zero, "len"),
        get_log_ana_groups |->
            nvme_get_log({"rae", "len"}, Zero, Zero, "#GROUPS", Zero, Zero, Zero, Zero, "len"),
        get_log_persistent_event |-> __nvme_get_log({"action", "len"}, Zero, "len"),
        get_log_zns_changed_zones |->
            nvme_get_log({"nsid", "rae"}, "nsid", Zero, Zero, Zero, "rae", Zero, "#CSI_ZNS", "#size")]

----------------------------------------------------------------------------
nvme_set_features(params, nsid, cdw11, cdw12, save, uuidx, data) ==
    Call("set_features", params,
         Nsid(nsid) \cup Data(data) \cup cdw11 \cup cdw12
         \cup NVME_SET(10, save, F.SET_FEATURES_SAVE) \cup NVME_SET(14, uuidx, F.FEATURES_UUID))

__nvme_set_features(params, cdw11) ==
    nvme_set_features(params \cup {"save"}, Zero, cdw11, {}, "save", Zero, Zero)

SetFeaturesCalls == [
    set_features |-> nvme_set_features({"nsid", "cdw11", "cdw12", "save", "uuidx", "data"},
        "nsid", Dword(11, "cdw11"), Dword(12, "cdw12"), "save", "uuidx", "data"),
    set_features_arbitration |-> __nvme_set_features({"ab", "lpw", "mpw", "hpw"},
        NVME_SET(11, "ab", FEAT.ARBITRATION_BURST) \cup NVME_SET(11, "lpw", FEAT.ARBITRATION_LPW)
        \cup NVME_SET(11, "mpw", FEAT.ARBITRATION_MPW) \cup NVME_SET(11, "hpw", FEAT.ARBITRATION_HPW)),
    set_features_power_mgmt |-> __nvme_set_features({"ps", "wh"},
        NVME_SET(11, "ps", FEAT.PWRMGMT_PS) \cup NVME_SET(11, "wh", FEAT.PWRMGMT_PS)),
    set_features_temp_thresh |-> __nvme_set_features({"tmpth", "tmpsel", "thsel"},
        NVME_SET(11, "tmpth", FEAT.TT_TMPTH) \cup NVME_SET(11, "tmpsel", FEAT.TT_TMPSEL)
        \cup NVME_SET(11, "thsel", FEAT.TT_THSEL)),
    set_features_err_recovery |-> __nvme_set_features({"nsid", "tler", "dulbe"},
        NVME_SET(11, "tler", FEAT.ERROR_RECOVERY_TLER)
        \cup NVME_SET(11, "dulbe", FEAT.ERROR_RECOVERY_DULBE)),
    set_features_volatile_wc |-> __nvme_set_features({"wce"}, NVME_SET(11, "wce", FEAT.VWC_WCE)),
    set_features_irq_coalesce |-> __nvme_set_features({"thr", "time"},
        NVME_SET(11, "thr", FEAT.IRQC_TIME) \cup NVME_SET(11, "time", FEAT.IRQC_THR)),
    set_features_irq_config |-> __nvme_set_features({"iv", "cd"},
        NVME_SET(11, "iv", FEAT.ICFG_IV) \cup NVME_SET(11, "cd", FEAT.ICFG_CD)),
    set_features_write_atomic |-> __nvme_set_features({"dn"}, NVME_SET(11, "dn", FEAT.WA_DN)),
    set_features_async_event |-> __nvme_set_features({"events"}, Dword(11, "events")),
    set_features_auto_pst |-> __nvme_set_features({"apste", "data"}, NVME_SET(11, "apste", FEAT.APST_APSTE)),
    \* the copy into the buffer goes the wrong way round: what is sent is not the argument
    set_features_timestamp |-> nvme_set_features({"save", "timestamp"}, Zero, {}, {}, "save", Zero, "#garbage"),
    set_features_hctm |-> __nvme_set_features({"tmt1", "tmt2"},
        NVME_SET(11, "tmt2", FEAT.HCTM_TMT2) \cup NVME_SET(11, "tmt1", FEAT.HCTM_TMT1))]

SetLaterFeaturesCalls == [
    set_features_nopsc |-> __nvme_set_features({"noppme"}, NVME_SET(11, "noppme", FEAT.NOPS_NOPPME)),
    set_features_rrl |-> nvme_set_features({"rrl", "nvmsetid", "save"},
        Zero, At(11, 0, 16, "nvmsetid"), At(12, 0, 8, "rrl"), "save", Zero, Zero),
    set_features_plm_config |-> nvme_set_features({"plm", "nvmsetid", "save", "data"},
        Zero, At(11, 0, 16, "nvmsetid"), At(12, 0, 1, "plm"), "save", Zero, Zero),
    set_features_plm_window |-> nvme_set_features({"sel", "nvmsetid", "save"},
        Zero, At(11, 0, 16, "nvmsetid"), NVME_SET(12, "sel", FEAT.PLMW_WS), "save", Zero, Zero),
    set_features_lba_sts_interval |-> __nvme_set_features({"lsiri", "lsipi"},
        NVME_SET(11, "lsiri", FEAT.LBAS_LSIRI) \cup NVME_SET(11, "lsipi", FEAT.LBAS_LSIPI)),
    set_features_host_behavior |-> nvme_set_features({"save", "data"},
        Zero, At(11, 0, 1, "save"), {}, Zero, Zero, "data"),
    set_features_sanitize |-> __nvme_set_features({"nodrm"}, At(11, 0, 1, "nodrm")),
    set_features_endurance_evt_cfg |-> __nvme_set_features({"endgid", "egwarn"},
        At(11, 0, 16, "endgid") \cup At(11, 16, 8, "egwarn")),
    set_features_sw_progress |-> __nvme_set_features({"pbslc"}, At(11, 0, 8, "pbslc")),
    set_features_host_id |-> nvme_set_features({"save", "exhid", "data"},
        Zero, At(11, 0, 1, "save"), At(12, 0, 1, "exhid"), Zero, Zero, "data"),
    set_features_resv_mask |-> __nvme_set_features({"mask"}, Dword(11, "mask")),
    set_features_resv_persist |-> __nvme_set_features({"ptpl"}, At(11, 0, 1, "ptpl")),
    set_features_write_protect |-> __nvme_set_features({"state"}, Dword(11, "state")),
    set_features_iocs_profile |-> __nvme_set_features({"iocsi"}, NVME_SET(11, "iocsi", FEAT.IOCSP_IOCSCI))]

----------------------------------------------------------------------------
nvme_get_features(params, nsid, cdw11, uuidx, data) ==
    Call("get_features", params \cup {"sel"},
         Nsid(nsid) \cup Data(data) \cup cdw11
         \cup NVME_SET(10, "sel", F.GET_FEATURES_SEL) \cup NVME_SET(14, uuidx, F.FEATURES_UUID))

GetFeaturesCalls ==
    [f \in {"get_features_" \o n : n \in {"arbitration", "power_mgmt", "temp_thresh", "err_recovery",
                "volatile_wc", "num_queues", "irq_coalesce", "write_atomic", "async_event",
                "host_mem_buf", "kato", "hctm", "nopsc", "rrl", "lba_sts_interval", "sanitize",
                "sw_progress", "resv_mask", "resv_persist", "iocs_profile"}} |->
        nvme_get_features({}, Zero, {}, Zero, Zero)]
    @@ [f \in {"get_features_lba_range", "get_features_auto_pst", "get_features_timestamp",
               "get_features_host_behavior"} |-> nvme_get_features({"data"}, Zero, {}, Zero, Zero)]
    @@ [get_features |-> nvme_get_features({"nsid", "cdw11", "uuidx", "data"},
                                           "nsid", Dword(11, "cdw11"), "uuidx", "data"),
        get_features_irq_config |-> nvme_get_features({"iv"}, Zero, At(11, 0, 16, "iv"), Zero, Zero),
        get_features_plm_config |->
            nvme_get_features({"nvmsetid", "data"}, Zero, At(11, 0, 16, "nvmsetid"), Zero, Zero),
        get_features_plm_window |->
            nvme_get_features({"nvmsetid"}, Zero, At(11, 0, 16, "nvmsetid"), Zero, Zero),
        get_features_endurance_event_cfg |-> nvme_get_features({"endgid"}, Zero, {}, Zero, Zero),
        get_features_host_id |->
            nvme_get_features({"exhid", "data"}, Zero, At(11, 0, 1, "exhid"), Zero, "data"),
        get_features_write_protect |-> nvme_get_features({"nsid"}, "nsid", {}, Zero, Zero)]

----------------------------------------------------------------------------
AdminCalls == [
    format_nvm |-> Call("format", {"nsid", "lbaf", "mset", "pi", "pil", "ses"},
        Nsid("nsid") \cup NVME_SET(10, "lbaf", F.FORMAT_LBAF) \cup NVME_SET(10, "mset", F.FORMAT_MSET)
        \cup NVME_SET(10, "pi", F.FORMAT_PI) \cup NVME_SET(10, "pil", F.FORMAT_PIL)
        \cup NVME_SET(10, "ses", F.FORMAT_SES)),
    ns_mgmt |-> Call("ns_mgmt", {"nsid", "sel", "data"},
        Nsid("nsid") \cup NVME_SET(10, "sel", F.NAMESPACE_MGMT_SEL) \cup Data("data")),
    ns_mgmt_create |-> Call("ns_mgmt", {"data"}, Data("data")),
    ns_mgmt_delete |-> Call("ns_mgmt", {"nsid"}, Nsid("nsid")),
    ns_attach |-> Call("ns_attach", {"nsid", "sel", "data"},
        Nsid("nsid") \cup NVME_SET(10, "sel", F.NAMESPACE_ATTACH_SEL) \cup Data("data")),
    ns_attach_ctrls |-> Call("ns_attach", {"nsid", "data"}, Nsid("nsid") \cup Data("data")),
    ns_detach_ctrls |-> Call("ns_attach", {"nsid", "data"},
        Nsid("nsid") \cup NVME_SET(10, "#detach", F.NAMESPACE_ATTACH_SEL) \cup Data("data")),
    fw_download |-> Call("fw_download", {"offset", "len", "data"},
        Numd(10, "len") \cup {<<11, b, "offset", b + 2, 0>> : b \in 0 .. 29} \cup Data("data")),
    fw_commit |-> Call("fw_commit", {"slot", "action", "bpid"},
        NVME_SET(10, "slot", F.FW_COMMIT_FS) \cup NVME_SET(10, "action", F.FW_COMMIT_CA)
        \cup NVME_SET(10, "bpid", F.FW_COMMIT_BPID))]

SecurityCalls ==
    [f \in {"security_send", "security_receive"} |->
        Call("security", {"nsid", "nssf", "spsp0", "spsp1", "secp", "length", "data"},
            Nsid("nsid") \cup Data("data") \cup Dword(11, "length")
            \cup NVME_SET(10, "secp", F.SECURITY_SECP) \cup NVME_SET(10, "spsp0", F.SECURITY_SPSP0)
            \cup NVME_SET(10, "spsp1", F.SECURITY_SPSP1) \cup NVME_SET(10, "nssf", F.SECURITY_NSSF))]

(* No data_len is set: the data pointer is passed for a buffer of no size. *)
LbaStatusCalls == [
    get_lba_status |-> Call("get_lba_status", {"nsid", "slba", "mndw", "rl", "atype", "data"},
        Nsid("nsid") \cup Qword(10, "slba") \cup Dword(12, "mndw")
        \cup NVME_SET(13, "rl", F.GET_LBA_STATUS_RL) \cup NVME_SET(13, "atype", F.GET_LBA_STATUS_ATYPE))]

(* The two directive commands.  The functions for the single operations    *)
(* name the operation dtype and pass it for the type, and the type for the *)
(* operation; it makes no difference where both are 1.                     *)
Directive(params, dspec, doper, dtype, cdw12, len, data) ==
    Call("directive", params \cup {"nsid"},
         Nsid("nsid") \cup Data(data) \cup Numd(10, len) \cup cdw12
         \cup NVME_SET(11, doper, F.DIRECTIVE_DOPER) \cup NVME_SET(11, dtype, F.DIRECTIVE_DTYPE)
         \cup NVME_SET(11, dspec, F.DIRECTIVE_DPSEC))

DirectiveCalls ==
    [f \in {"directive_send", "directive_recv"} |->
        Directive({"dspec", "doper", "dtype", "cdw12", "len", "data"},
                  "dspec", "doper", "dtype", Dword(12, "cdw12"), "len", "data")]
    @@ [directive_send_id_endir |-> Directive({"doper", "dtype", "endir", "target", "data"},
            Zero, "dtype", "doper", NVME_SET(12, "target", F.DIRECTIVE_SEND_IDENTIFY_DTYPE)
            \cup NVME_SET(12, "endir", F.DIRECTIVE_SEND_IDENTIFY_ENDIR), "#size", "data"),
        directive_send_stream_release_identifier |->
            Directive({"dspec"}, "dspec", "#1", "#1", {}, Zero, Zero),
        directive_send_stream_release_resource |->
            Directive({"doper", "dtype"}, Zero, "dtype", "doper", {}, Zero, Zero),
        directive_recv_identify_parameters |->
            Directive({"doper", "dtype", "data"}, Zero, "dtype", "doper", {}, "#size", "data"),
        directive_recv_stream_parameters |->
            Directive({"data"}, Zero, "#1", "#1", {}, "#size", "data"),
        directive_recv_stream_status |->
            Directive({"doper", "dtype", "len", "data"}, Zero, "dtype", "doper", {}, "#size", "data"),
        directive_recv_stream_allocate |->
            Directive({"doper", "dtype", "nsr"}, Zero, "dtype", "doper", At(12, 0, 16, "nsr"), Zero, Zero)]

ControllerCalls ==
    [set_property |-> Call("property", {"offset", "value"}, Dword(11, "offset") \cup Qword(12, "value")),
     get_property |-> Call("property", {"offset"}, Dword(11, "offset")),
     sanitize_nvm |-> Call("sanitize", {"sanact", "ause", "owpass", "oipbp", "nodas", "ovrpat"},
        NVME_SET(10, "sanact", F.SANITIZE_SANACT) \cup NVME_SET(10, "ause", F.SANITIZE_AUSE)
        \cup NVME_SET(10, "owpass", F.SANITIZE_OWPASS) \cup NVME_SET(10, "oipbp", F.SANITIZE_OIPBP)
        \cup NVME_SET(10, "nodas", F.SANITIZE_NODAS) \cup Dword(11, "ovrpat")),
     dev_self_test |-> Call("self_test", {"nsid", "stc"},
        Nsid("nsid") \cup NVME_SET(10, "stc", F.DEVICE_SELF_TEST_STC)),
     virtual_mgmt |-> Call("virtual_mgmt", {"act", "rt", "cntlid", "nr"},
        NVME_SET(10, "act", F.VIRT_MGMT_ACT) \cup NVME_SET(10, "rt", F.VIRT_MGMT_RT)
        \cup NVME_SET(10, "cntlid", F.VIRT_MGMT_CNTLID) \cup NVME_SET(11, "nr", F.VIRT_MGMT_NR))]

----------------------------------------------------------------------------
nvme_io(params, nlb, control, flags, reftag, apptag, appmask, data) ==
    Call("io", params \cup {"nsid", "slba", "nlb"},
         Nsid("nsid") \cup Qword(10, "slba") \cup At(12, 0, 16, nlb) \cup At(12, 16, 16, control)
         \cup flags \cup Dword(14, reftag) \cup At(15, 0, 16, apptag) \cup At(15, 16, 16, appmask)
         \cup Data(data))

Protected == {"control", "reftag", "apptag", "appmask"}
IoCalls ==
    [flush |-> Call("io", {"nsid"}, Nsid("nsid")),
     read |-> nvme_io(Protected \cup {"dsm", "data"}, "nlb", "control", At(13, 0, 8, "dsm"),
                      "reftag", "apptag", "appmask", "data"),
     write |-> nvme_io(Protected \cup {"dsm", "dspec", "data"}, "nlb", "control",
                       At(13, 0, 8, "dsm") \cup At(13, 16, 16, "dspec"),
                       "reftag", "apptag", "appmask", "data"),
     compare |-> nvme_io(Protected \cup {"data"}, "nlb", "control", {}, "reftag", "apptag", "appmask", "data"),
     write_uncorrectable |-> nvme_io({}, "nlb", Zero, {}, Zero, Zero, Zero, Zero)]
    @@ [f \in {"write_zeros", "verify"} |->
            nvme_io(Protected, "nlb", "control", {}, "reftag", "apptag", "appmask", Zero)]

RangeCalls == [
    dsm |-> Call("dsm", {"nsid", "attrs", "nr", "data"},
        Nsid("nsid") \cup Data("data") \cup ZeroBased(10, 16, "nr") \cup Dword(11, "attrs")),
    copy |-> Call("copy", {"nsid", "data", "slba", "nr", "prinfor", "prinfow", "dtype", "dspec",
                           "format", "lr", "fua", "reftag", "apptag", "appmask"},
        Nsid("nsid") \cup Data("data") \cup Qword(10, "slba")
        \cup ZeroBased(12, 8, "nr") \cup At(12, 8, 4, "format") \cup At(12, 12, 4, "prinfor")
        \cup At(12, 20, 4, "dtype") \cup At(12, 26, 4, "prinfow") \cup At(12, 30, 1, "fua")
        \cup At(12, 31, 1, "lr") \cup At(13, 16, 16, "dspec") \cup Dword(14, "reftag")
        \cup At(15, 16, 16, "appmask") \cup At(15, 0, 16, "apptag"))]

Reservation(action, bits) ==
    Call("resv", {"nsid", "iekey", "data"} \cup action,
         Nsid("nsid") \cup Data("data") \cup At(10, 3, 1, "iekey") \cup bits)

ReservationCalls == [
    resv_acquire |-> Reservation({"racqa", "rtype"}, At(10, 0, 3, "racqa") \cup At(10, 8, 24, "rtype")),
    resv_register |-> Reservation({"rrega", "cptpl"}, At(10, 0, 3, "rrega") \cup At(10, 30, 2, "cptpl")),
    resv_release |-> Reservation({"rrela", "rtype"}, At(10, 0, 3, "rrela") \cup At(10, 8, 24, "rtype")),
    resv_report |-> Call("resv_report", {"nsid", "eds", "len", "data"},
        Nsid("nsid") \cup Numd(10, "len") \cup At(11, 0, 1, "eds") \cup Data("data"))]

nvme_zns_mgmt_recv(zra, zrasf, feat) ==
    Call("zns", {"nsid", "slba", zra, zrasf, feat, "len", "data"},
         Nsid("nsid") \cup Data("data") \cup Qword(10, "slba") \cup Numd(12, "len")
         \cup NVME_SET(13, zra, F.ZNS_MGMT_RECV_ZRA) \cup NVME_SET(13, zrasf, F.ZNS_MGMT_RECV_ZRASF)
         \cup NVME_SET(13, feat, F.ZNS_MGMT_RECV_ZRAS_FEAT))

ZonedCalls == [
    zns_mgmt_send |-> Call("zns", {"nsid", "slba", "select_all", "zsa", "data"},
        Nsid("nsid") \cup Data("data") \cup Qword(10, "slba")
        \cup NVME_SET(13, "select_all", F.ZNS_MGMT_SEND_SEL) \cup NVME_SET(13, "zsa", F.ZNS_MGMT_SEND_ZSA)),
    zns_mgmt_recv |-> nvme_zns_mgmt_recv("zra", "zrasf", "zras_feat"),
    zns_report_zones |-> nvme_zns_mgmt_recv("extended", "opts", "partial"),
    zns_append |-> Call("io", {"nsid", "slba", "nlb", "control", "reftag", "apptag", "appmask", "data"},
        Nsid("nsid") \cup Data("data") \cup Qword(10, "slba") \cup At(12, 0, 16, "nlb")
        \cup At(12, 16, 16, "control") \cup Dword(14, "reftag")
        \cup At(15, 0, 16, "apptag") \cup At(15, 16, 16, "appmask"))]

(* nvme_passthru, nvme_passthru64: the command dwords as they are given.   *)
nvme_passthru ==
    Call("passthru", {"nsid", "data", "cdw2", "cdw3", "cdw10", "cdw11", "cdw12", "cdw13", "cdw14", "cdw15"},
         Nsid("nsid") \cup Data("data") \cup Dword(2, "cdw2") \cup Dword(3, "cdw3")
         \cup Dword(10, "cdw10") \cup Dword(11, "cdw11") \cup Dword(12, "cdw12")
         \cup Dword(13, "cdw13") \cup Dword(14, "cdw14") \cup Dword(15, "cdw15"))
AdminPassthru == [f \in {"admin_passthru", "admin_passthru64"} |-> nvme_passthru]
IoPassthru == [f \in {"io_passthru", "io_passthru64"} |-> nvme_passthru]

Calls == AdminPassthru @@ IoPassthru @@ IdentifyCalls @@ LogCalls @@ SetFeaturesCalls @@ SetLaterFeaturesCalls @@ GetFeaturesCalls @@ AdminCalls
         @@ SecurityCalls @@ LbaStatusCalls @@ DirectiveCalls @@ ControllerCalls
         @@ IoCalls @@ RangeCalls @@ ReservationCalls @@ ZonedCalls

----------------------------------------------------------------------------
(* Where the device finds the arguments of a command, after the NVMe       *)
(* specifications: bit i of the argument less `less' in bit `bit' of dword *)
(* dw.  Lengths are numbers of dwords, and they, ranges and descriptors    *)
(* count from zero; the offset of a firmware image does not.               *)
At0(dw, lo, width) == {<<dw, lo + b, b, 0>> : b \in 0 .. width - 1}
High(dw) == {<<dw, b, b + 32, 0>> : b \in 0 .. 31}
InDwords(dw, less) == {<<dw, b, b + 2, less>> : b \in 0 .. 29}
Count(dw) == InDwords(dw, 4)
Ranges(dw) == {<<dw, b, b, 1>> : b \in 0 .. 7}
Common == [nsid |-> At0(1, 0, 1), data |-> At0(6, 0, 1), slba |-> At0(10, 0, 32) \cup High(11),
           cdw11 |-> At0(11, 0, 32), cdw12 |-> At0(12, 0, 32)]
LogCount == {<<10, 16 + b, b + 2, 4>> : b \in 0 .. 15} \cup {<<11, b, b + 18, 4>> : b \in 0 .. 13}

Reads == [
    passthru |-> Common @@ [cdw2 |-> At0(2, 0, 32), cdw3 |-> At0(3, 0, 32), cdw10 |-> At0(10, 0, 32),
        cdw13 |-> At0(13, 0, 32), cdw14 |-> At0(14, 0, 32), cdw15 |-> At0(15, 0, 32)],
    identify |-> Common @@ [cntid |-> At0(10, 16, 16), nvmsetid |-> At0(11, 0, 16),
        csi |-> At0(11, 24, 8), uuidx |-> At0(14, 0, 7)],
    get_log |-> Common @@ [lsp |-> At0(10, 8, 4), action |-> At0(10, 8, 4), rae |-> At0(10, 15, 1),
        len |-> LogCount, lsi |-> At0(11, 16, 16), endgid |-> At0(11, 16, 16), nvmsetid |-> At0(11, 16, 16),
        offset |-> At0(12, 0, 32) \cup High(13),
        uuidx |-> At0(14, 0, 7), csi |-> At0(14, 24, 8)],
    set_features |-> Common @@ [save |-> At0(10, 31, 1), uuidx |-> At0(14, 0, 7),
        ab |-> At0(11, 0, 3), lpw |-> At0(11, 8, 8), mpw |-> At0(11, 16, 8), hpw |-> At0(11, 24, 8),
        ps |-> At0(11, 0, 5), wh |-> At0(11, 5, 3), tmpth |-> At0(11, 0, 16), tmpsel |-> At0(11, 16, 4),
        thsel |-> At0(11, 20, 2), tler |-> At0(11, 0, 16), dulbe |-> At0(11, 16, 1), wce |-> At0(11, 0, 1),
        thr |-> At0(11, 0, 8), time |-> At0(11, 8, 8), iv |-> At0(11, 0, 16), cd |-> At0(11, 16, 1),
        dn |-> At0(11, 0, 1), events |-> At0(11, 0, 32), apste |-> At0(11, 0, 1),
        timestamp |-> At0(6, 0, 1), tmt2 |-> At0(11, 0, 16), tmt1 |-> At0(11, 16, 16),
        noppme |-> At0(11, 0, 1), nvmsetid |-> At0(11, 0, 16), rrl |-> At0(12, 0, 8), plm |-> At0(12, 0, 1),
        sel |-> At0(12, 0, 3), lsiri |-> At0(11, 0, 16), lsipi |-> At0(11, 16, 16), nodrm |-> At0(11, 0, 1),
        endgid |-> At0(11, 0, 16), egwarn |-> At0(11, 16, 8), pbslc |-> At0(11, 0, 8), exhid |-> At0(11, 0, 1),
        mask |-> At0(11, 0, 32), ptpl |-> At0(11, 0, 1), state |-> At0(11, 0, 3), iocsi |-> At0(11, 0, 8)],
    get_features |-> Common @@ [sel |-> At0(10, 8, 3), uuidx |-> At0(14, 0, 7), iv |-> At0(11, 0, 16),
        nvmsetid |-> At0(11, 0, 16), endgid |-> At0(11, 0, 16), exhid |-> At0(11, 0, 1)],
    format |-> Common @@ [lbaf |-> At0(10, 0, 4), mset |-> At0(10, 4, 1), pi |-> At0(10, 5, 3),
        pil |-> At0(10, 8, 1), ses |-> At0(10, 9, 3)],
    ns_mgmt |-> Common @@ [sel |-> At0(10, 0, 4)],
    ns_attach |-> Common @@ [sel |-> At0(10, 0, 4)],
    fw_download |-> Common @@ [len |-> Count(10), offset |-> InDwords(11, 0)],
    fw_commit |-> [slot |-> At0(10, 0, 3), action |-> At0(10, 3, 3), bpid |-> At0(10, 31, 1)],
    security |-> Common @@ [nssf |-> At0(10, 0, 8), spsp0 |-> At0(10, 8, 8), spsp1 |-> At0(10, 16, 8),
        secp |-> At0(10, 24, 8), length |-> At0(11, 0, 32)],
    get_lba_status |-> Common @@ [mndw |-> At0(12, 0, 32), rl |-> At0(13, 0, 16), atype |-> At0(13, 24, 8)],
    directive |-> Common @@ [doper |-> At0(11, 0, 8), dtype |-> At0(11, 8, 8), dspec |-> At0(11, 16, 16),
        len |-> Count(10), endir |-> At0(12, 0, 1), target |-> At0(12, 8, 8), nsr |-> At0(12, 0, 16)],
    property |-> [offset |-> At0(11, 0, 32), value |-> At0(12, 0, 32) \cup High(13)],
    sanitize |-> [sanact |-> At0(10, 0, 3), ause |-> At0(10, 3, 1), owpass |-> At0(10, 4, 4),
        oipbp |-> At0(10, 8, 1), nodas |-> At0(10, 9, 1), ovrpat |-> At0(11, 0, 32)],
    self_test |-> Common @@ [stc |-> At0(10, 0, 4)],
    virtual_mgmt |-> [act |-> At0(10, 0, 4), rt |-> At0(10, 8, 3), cntlid |-> At0(10, 16, 16), nr |-> At0(11, 0, 16)],
    io |-> Common @@ [nlb |-> At0(12, 0, 16), control |-> At0(12, 16, 16), dsm |-> At0(13, 0, 8),
        dspec |-> At0(13, 16, 16), reftag |-> At0(14, 0, 32), apptag |-> At0(15, 0, 16), appmask |-> At0(15, 16, 16)],
    dsm |-> Common @@ [nr |-> Ranges(10), attrs |-> At0(11, 0, 32)],
    copy |-> Common @@ [nr |-> Ranges(12), format |-> At0(12, 8, 4), prinfor |-> At0(12, 12, 4),
        dtype |-> At0(12, 20, 4), prinfow |-> At0(12, 26, 4), fua |-> At0(12, 30, 1), lr |-> At0(12, 31, 1),
        dspec |-> At0(13, 16, 16), reftag |-> At0(14, 0, 32), apptag |-> At0(15, 0, 16), appmask |-> At0(15, 16, 16)],
    resv |-> Common @@ [racqa |-> At0(10, 0, 3), rrega |-> At0(10, 0, 3), rrela |-> At0(10, 0, 3),
        iekey |-> At0(10, 3, 1), rtype |-> At0(10, 8, 8), cptpl |-> At0(10, 30, 2)],
    resv_report |-> Common @@ [len |-> Count(10), eds |-> At0(11, 0, 1)],
    zns |-> Common @@ [select_all |-> At0(13, 8, 1), zsa |-> At0(13, 0, 8), zra |-> At0(13, 0, 8),
        extended |-> At0(13, 0, 8), zrasf |-> At0(13, 8, 8), opts |-> At0(13, 8, 8),
        zras_feat |-> At0(13, 16, 1), partial |-> At0(13, 16, 1), len |-> Count(12)]]

(* Does the device read argument p of the command as it was given: all its *)
(* bits, unmixed and less as much as it expects, and is none of them taken *)
(* for something else?                                                     *)
Arrives(c, p) ==
    LET field == Reads[c.op][p] IN
    /\ \A f \in field :
          {<<b[3], b[4], b[5]>> : b \in {x \in c.bits : x[1] = f[1] /\ x[2] = f[2]}} = {<<p, f[3], f[4]>>}
    /\ \A b \in c.bits : (b[3] = p /\ b[4] \in {f[3] : f \in field}) => <<b[1], b[2], b[4], b[5]>> \in field
=============================================================================
