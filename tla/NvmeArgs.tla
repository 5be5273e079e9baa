------------------------------- MODULE NvmeArgs -------------------------------
(***************************************************************************)
(* The declarations of libnvme's command functions                         *)
(* (libnvme/src/nvme/ioctl.h): how many bits an argument has, so that one  *)
(* can ask which of them the commands of NvmeCmd carry, and what command   *)
(* is sent.                                                                *)
(***************************************************************************)
EXTENDS NvmeCmd, NvmeTypes

u8 == 8
u16 == 16
u32 == 32
u64 == 64
bool == 1
int == 32
(* Of an enumeration, the bits that its largest member needs. *)
Enum(largest) == CHOOSE bits \in 1 .. 8 : 2 ^ (bits - 1) <= largest /\ largest < 2 ^ bits

EnumFields == [
    get_features_sel |-> Enum(3), format_mset |-> Enum(1), format_pi |-> Enum(3), format_pil |-> Enum(1),
    format_ses |-> Enum(2), ns_mgmt_sel |-> Enum(1), ns_attach_sel |-> Enum(1), fw_commit_ca |-> Enum(7),
    directive_dtype |-> Enum(1), directive_doper |-> Enum(3), directive_endir |-> Enum(1),
    sanitize_sanact |-> Enum(4)]
MoreEnumFields == [dst_stc |-> Enum(15), virt_mgmt_act |-> Enum(9), virt_mgmt_rt |-> Enum(1)]
nvme_csi == Enum(2)
nvme_lba_status_atype == Enum(17)
log_ana_lsp == Enum(1)
pevent_log_action == Enum(2)
feat_tmpthresh_thsel == Enum(1)
feat_plm_window_select == Enum(2)
feat_nswpcfg_state == Enum(3)
resv_rtype == Enum(6)
resv_racqa == Enum(2)
resv_rrega == Enum(2)
resv_cptpl == Enum(3)
resv_rrela == Enum(1)
zns_send_action == Enum(16)
zns_recv_action == Enum(1)
zns_report_options == Enum(7)

----------------------------------------------------------------------------
(* The arguments, by the command they are for. *)
IdentifyArgs == [cntid |-> u16, nvmsetid |-> u16, uuidx |-> u8, csi |-> u8]

LogArgs == [lsp |-> u8, lsi |-> u16, rae |-> bool, uuidx |-> u8, csi |-> nvme_csi, offset |-> u64,
            len |-> u32, endgid |-> u16, nvmsetid |-> u16, action |-> pevent_log_action]
(* Some are declared otherwise: a log page of an aggregate is read from an *)
(* offset below 4 GiB.                                                     *)
LogArgsOf(f) ==
    CASE f \in {"get_log_predictable_lat_event", "get_log_endurance_grp_evt", "get_log_discovery"} ->
            [LogArgs EXCEPT !.offset = u32]
      [] f = "get_log_ana" -> [LogArgs EXCEPT !.lsp = log_ana_lsp]
      [] OTHER -> LogArgs

SetFeaturesArgs == [
    cdw11 |-> u32, cdw12 |-> u32, save |-> bool, uuidx |-> u8, ab |-> u8, lpw |-> u8, mpw |-> u8, hpw |-> u8,
    ps |-> u8, wh |-> u8, tmpth |-> u16, tmpsel |-> u8, thsel |-> feat_tmpthresh_thsel, tler |-> u16,
    dulbe |-> bool, wce |-> bool, thr |-> u8, time |-> u8, iv |-> u16, cd |-> bool, dn |-> bool]
SetMoreFeaturesArgs == [
    events |-> u32, apste |-> bool, timestamp |-> u64, tmt1 |-> u16, tmt2 |-> u16, noppme |-> bool, rrl |-> u8,
    nvmsetid |-> u16, plm |-> bool, sel |-> feat_plm_window_select, lsiri |-> u16, lsipi |-> u16, nodrm |-> bool]
SetLastFeaturesArgs == [
    endgid |-> u16, egwarn |-> u8, pbslc |-> u8, exhid |-> bool, mask |-> u32, ptpl |-> bool,
    state |-> feat_nswpcfg_state, iocsi |-> u8]

GetFeaturesArgs == [sel |-> EnumFields.get_features_sel, cdw11 |-> u32, uuidx |-> u8, iv |-> u16]
GetMoreFeaturesArgs == [nvmsetid |-> u16, endgid |-> u16, exhid |-> bool]

FormatArgs == [lbaf |-> u8, mset |-> EnumFields.format_mset, pi |-> EnumFields.format_pi,
               pil |-> EnumFields.format_pil, ses |-> EnumFields.format_ses]
AttachArgs == [sel |-> EnumFields.ns_attach_sel]
MgmtArgs == [sel |-> EnumFields.ns_mgmt_sel]
DownloadArgs == [offset |-> u32, len |-> u32]
CommitArgs == [slot |-> u8, action |-> EnumFields.fw_commit_ca, bpid |-> bool]
SecurityArgs == [nssf |-> u8, spsp0 |-> u8, spsp1 |-> u8, secp |-> u8, length |-> u32]
LbaStatusArgs == [slba |-> u64, mndw |-> u32, rl |-> u16, atype |-> nvme_lba_status_atype]
DirectiveArgs == [dspec |-> u16, doper |-> EnumFields.directive_doper, dtype |-> EnumFields.directive_dtype,
                  cdw12 |-> u32, len |-> u32, endir |-> bool, target |-> EnumFields.directive_dtype, nsr |-> u16]
PropertyArgs == [offset |-> int, value |-> u64]
SanitizeArgs == [sanact |-> EnumFields.sanitize_sanact, ause |-> bool, owpass |-> u8, oipbp |-> bool,
                 nodas |-> bool, ovrpat |-> u32]
SelfTestArgs == [stc |-> MoreEnumFields.dst_stc]
VirtualArgs == [act |-> MoreEnumFields.virt_mgmt_act, rt |-> MoreEnumFields.virt_mgmt_rt,
                cntlid |-> u16, nr |-> u16]
IoArgs == [slba |-> u64, nlb |-> u16, control |-> u16, dsm |-> u8, dspec |-> u16,
           reftag |-> u32, apptag |-> u16, appmask |-> u16]
DsmArgs == [nr |-> u16, attrs |-> u32]
CopyArgs == [slba |-> u64, nr |-> u16, prinfor |-> u8, prinfow |-> u8, dtype |-> u8, dspec |-> u16,
             format |-> u8, lr |-> int, fua |-> int, reftag |-> u32, apptag |-> u16, appmask |-> u16]
ReservationArgs == [rtype |-> resv_rtype, racqa |-> resv_racqa, rrega |-> resv_rrega, cptpl |-> resv_cptpl,
                    rrela |-> resv_rrela, iekey |-> bool]
ReportArgs == [eds |-> bool, len |-> u32]
ZonedArgs == [slba |-> u64, select_all |-> bool, zsa |-> zns_send_action, zra |-> zns_recv_action,
              zrasf |-> u16, zras_feat |-> bool, extended |-> bool, opts |-> zns_report_options,
              partial |-> bool, len |-> u32]
PassthruArgs == [cdw2 |-> u32, cdw3 |-> u32, cdw10 |-> u32, cdw11 |-> u32, cdw12 |-> u32, cdw13 |-> u32,
                 cdw14 |-> u32, cdw15 |-> u32]

Args(f) ==
    LET op == Calls[f].op IN
    IF op = "get_log" THEN LogArgsOf(f)
    ELSE [identify |-> IdentifyArgs, set_features |-> SetFeaturesArgs @@ SetMoreFeaturesArgs @@ SetLastFeaturesArgs,
          get_features |-> GetFeaturesArgs @@ GetMoreFeaturesArgs, format |-> FormatArgs, ns_mgmt |-> MgmtArgs,
          ns_attach |-> AttachArgs, fw_download |-> DownloadArgs, fw_commit |-> CommitArgs,
          security |-> SecurityArgs, get_lba_status |-> LbaStatusArgs, directive |-> DirectiveArgs,
          property |-> PropertyArgs, sanitize |-> SanitizeArgs, self_test |-> SelfTestArgs,
          virtual_mgmt |-> VirtualArgs, io |-> IoArgs, dsm |-> DsmArgs, copy |-> CopyArgs,
          resv |-> ReservationArgs, resv_report |-> ReportArgs, zns |-> ZonedArgs, passthru |-> PassthruArgs][op]

(* The bits of its arguments that the command of a function leaves out.    *)
(* The namespace and the data, of which NvmeCmd keeps one bit, are not     *)
(* asked for.                                                              *)
Carried(f, p) == {b[4] : b \in {x \in Calls[f].bits : x[3] = p}}
Lost == [f \in DOMAIN Calls |-> [p \in Calls[f].params \ {"nsid", "data"} |->
            {i \in 0 .. Args(f)[p] - 1 : i \notin Carried(f, p)}]]
----------------------------------------------------------------------------
(* The opcodes.  Their two lowest bits tell the kernel which way the data  *)
(* goes: 1 to the device, 2 from it.                                       *)
DirectiveSends == {"directive_send", "directive_send_id_endir", "directive_send_stream_release_identifier",
                   "directive_send_stream_release_resource"}
AdminOpcode ==
    [f \in DOMAIN IdentifyCalls |-> 6] @@ [f \in DOMAIN LogCalls |-> 2]
    @@ [f \in DOMAIN SetFeaturesCalls \cup DOMAIN SetLaterFeaturesCalls |-> 9]
    @@ [f \in DOMAIN GetFeaturesCalls |-> 10]
    @@ [f \in {"ns_mgmt", "ns_mgmt_create", "ns_mgmt_delete"} |-> 13]
    @@ [f \in {"ns_attach", "ns_attach_ctrls", "ns_detach_ctrls"} |-> 21]
    @@ [f \in DirectiveSends |-> 25] @@ [f \in DOMAIN DirectiveCalls \ DirectiveSends |-> 26]
    @@ [fw_commit |-> 16, fw_download |-> 17, dev_self_test |-> 20, virtual_mgmt |-> 28, format_nvm |-> 128,
        security_send |-> 129, security_receive |-> 130, sanitize_nvm |-> 132, get_lba_status |-> 134,
        set_property |-> 127, get_property |-> 127]

IoOpcode == [
    flush |-> 0, write |-> 1, read |-> 2, write_uncorrectable |-> 4, compare |-> 5, write_zeros |-> 8,
    dsm |-> 9, verify |-> 12, resv_register |-> 13, resv_report |-> 14, resv_acquire |-> 17,
    resv_release |-> 21, copy |-> 25, zns_mgmt_send |-> 121, zns_mgmt_recv |-> 122,
    zns_report_zones |-> 122, zns_append |-> 125]

Opcode == AdminOpcode @@ IoOpcode

(* The functions whose data is for the device. *)
Senders ==
    DOMAIN SetFeaturesCalls \cup DOMAIN SetLaterFeaturesCalls
    \cup {"ns_mgmt", "ns_mgmt_create", "ns_attach", "ns_attach_ctrls", "ns_detach_ctrls", "fw_download",
          "security_send", "directive_send", "directive_send_id_endir", "write", "compare", "dsm", "copy",
          "resv_acquire", "resv_register", "resv_release", "zns_mgmt_send", "zns_append"}

(* What Identify asks for: its CNS, and the command set where it counts.   *)
IdentifyCns == [
    identify_ns |-> <<0, 0>>, identify_ctrl |-> <<1, 0>>, identify_active_ns_list |-> <<2, 0>>,
    identify_ns_descs |-> <<3, 0>>, identify_nvmset_list |-> <<4, 0>>, zns_identify_ns |-> <<5, 2>>,
    zns_identify_ctrl |-> <<6, 2>>, nvm_identify_ctrl |-> <<6, 0>>, identify_iocs |-> <<6, 0>>,
    identify_allocated_ns_list |-> <<16, 0>>, identify_allocated_ns |-> <<17, 0>>,
    identify_nsid_ctrl_list |-> <<18, 0>>, identify_ctrl_list |-> <<19, 0>>,
    identify_primary_ctrl |-> <<20, 0>>, identify_secondary_ctrl_list |-> <<21, 0>>,
    identify_ns_granularity |-> <<22, 0>>, identify_uuid |-> <<23, 0>>]
=============================================================================
