------------------------------ MODULE NvmeStatus ------------------------------
(***************************************************************************)
(* What becomes of the status of a command: the error number and the text  *)
(* that libnvme makes of it (libnvme/src/nvme/util.c, with the codes of    *)
(* types.h), and the text that the decoder of this repository makes of it  *)
(* (src/common/nvmeprint.cpp).                                             *)
(*                                                                         *)
(* A status is a type and a code of 8 bits, and flags above them.  A text  *)
(* is the table it is in and its place there.                              *)
(***************************************************************************)
EXTENDS Integers

NVME_SCT_GENERIC == 0
NVME_SCT_CMD_SPECIFIC == 256
NVME_SCT_MEDIA == 512
NVME_SCT_PATH == 768
NVME_SCT_VS == 1792

nvme_status_code_type(status) == ((status \div 256) % 8) * 256
(* Mutant: the type is not masked off. *)
nvme_status_code_Whole(status) == status % 2048
nvme_status_code(status) == status % 256

(* The codes that types.h declares for commands of all kinds, for those of *)
(* the NVM and zoned command sets, and for those of fabrics.               *)
GenericCodes == (0 .. 22) \cup (24 .. 36) \cup (128 .. 132)
CommandCodes == (0 .. 22) \cup (24 .. 45)
NvmCodes == (128 .. 131) \cup (184 .. 191)
FabricsCodes == (128 .. 133) \cup {144, 145}
MediaCodes == 128 .. 136
PathCodes == (0 .. 3) \cup {96, 112, 113}

Declared(status, fabrics) ==
    LET code == nvme_status_code(status) IN
    CASE nvme_status_code_type(status) = NVME_SCT_GENERIC -> code \in GenericCodes
      [] nvme_status_code_type(status) = NVME_SCT_CMD_SPECIFIC ->
            code \in CommandCodes \cup (IF fabrics THEN FabricsCodes ELSE NvmCodes)
      [] nvme_status_code_type(status) = NVME_SCT_MEDIA -> code \in MediaCodes
      [] nvme_status_code_type(status) = NVME_SCT_PATH -> code \in PathCodes
      [] OTHER -> FALSE

----------------------------------------------------------------------------
(* util.c *)
nvme_generic_status_to_errno(sc) ==
    CASE sc \in {1, 2, 11, 22} \cup (13 .. 17) -> "EINVAL"
      [] sc = 3 -> "EADDRINUSE"
      [] sc \in {5} \cup (7 .. 10) -> "EWOULDBLOCK"
      [] sc = 12 -> "EILSEQ"
      [] sc = 29 -> "EINPROGRESS"
      [] sc \in {32, 130, 131} -> "EACCES"
      [] sc = 128 -> "EREMOTEIO"
      [] sc = 129 -> "ENOSPC"
      [] OTHER -> "EIO"

nvme_cmd_specific_status_to_errno(sc) ==
    CASE sc \in (0 .. 2) \cup (6 .. 10) \cup {12, 21, 22, 28, 128, 129} -> "EINVAL"
      [] sc \in {3, 5} -> "EDQUOT"
      [] sc \in {11, 16, 18} -> "ERESTART"
      [] sc \in {13, 14, 15, 19, 25, 30, 35, 130} -> "EPERM"
      [] sc \in {20, 26} -> "ENOSPC"
      [] sc = 24 -> "EALREADY"
      [] sc = 27 -> "EOPNOTSUPP"
      [] OTHER -> "EIO"

nvme_fabrics_status_to_errno(sc) ==
    CASE sc \in {128, 130} -> "EINVAL"
      [] sc = 129 -> "EBUSY"
      [] sc = 131 -> "ERESTART"
      [] sc = 132 -> "ECONNREFUSED"
      [] sc = 144 -> "EAGAIN"
      [] sc = 145 -> "EPERM"
      [] OTHER -> "EIO"

(* A negative status is that of a system call that failed: its own errno.  *)
nvme_status_to_errno(status, fabrics) ==
    IF status = 0 THEN "0"
    ELSE CASE nvme_status_code_type(status) = NVME_SCT_GENERIC ->
                nvme_generic_status_to_errno(nvme_status_code(status))
           [] nvme_status_code_type(status) = NVME_SCT_CMD_SPECIFIC ->
                IF fabrics THEN nvme_fabrics_status_to_errno(nvme_status_code(status))
                ELSE nvme_cmd_specific_status_to_errno(nvme_status_code(status))
           [] OTHER -> "EIO"

(* The tables of texts: the places that are filled. *)
generic_status == (0 .. 22) \cup (24 .. 36) \cup (128 .. 132)
cmd_spec_status == (0 .. 22) \cup (24 .. 45)
nvm_status == (128 .. 131) \cup (184 .. 191)
nvmf_status == (128 .. 133) \cup {144, 145}
media_status == 128 .. 136
path_status == (0 .. 3) \cup {96, 112, 113}

Unknown == <<"unknown", 0>>
arg_str(table, strings, sc) == IF sc \in strings THEN <<table, sc>> ELSE Unknown
(* The table of specific codes ends with the last of them, the others take *)
(* over from there.                                                        *)
nvme_status_to_string(status, fabrics) ==
    LET sc == nvme_status_code(status) IN
    CASE nvme_status_code_type(status) = NVME_SCT_GENERIC -> arg_str("generic", generic_status, sc)
      [] nvme_status_code_type(status) = NVME_SCT_CMD_SPECIFIC ->
            IF \E last \in cmd_spec_status : sc <= last THEN arg_str("command", cmd_spec_status, sc)
            ELSE IF fabrics THEN arg_str("fabrics", nvmf_status, sc) ELSE arg_str("nvm", nvm_status, sc)
      [] nvme_status_code_type(status) = NVME_SCT_MEDIA -> arg_str("media", media_status, sc)
      [] nvme_status_code_type(status) = NVME_SCT_PATH -> arg_str("path", path_status, sc)
      [] nvme_status_code_type(status) = NVME_SCT_VS -> <<"vendor", 0>>
      [] OTHER -> Unknown

----------------------------------------------------------------------------
(* The decoder of this repository: one number for type and code; of the    *)
(* two meanings that some specific codes have, those of fabrics have no    *)
(* text.                                                                   *)
Shifted(type, codes) == {type + code : code \in codes}
NVMEx_SC ==
    Shifted(NVME_SCT_GENERIC, (0 .. 22) \cup (24 .. 29) \cup (32 .. 34) \cup (128 .. 132))
    \cup Shifted(NVME_SCT_CMD_SPECIFIC, (0 .. 22) \cup (24 .. 37) \cup (41 .. 44) \cup (128 .. 131)
                                        \cup {132, 144, 145} \cup (184 .. 191))
    \cup Shifted(NVME_SCT_MEDIA, 128 .. 135)
    \cup Shifted(NVME_SCT_PATH, {0, 1, 2, 3, 96, 112, 113})
ss_nvme_status_to_string(status) ==
    LET sc == status % 2048 IN
    IF sc \in NVMEx_SC \ Shifted(NVME_SCT_CMD_SPECIFIC, {132, 144, 145}) THEN sc ELSE -1
=============================================================================
