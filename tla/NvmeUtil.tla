------------------------------ MODULE NvmeUtil ------------------------------
(***************************************************************************)
(* The calls of libnvme that take several commands (libnvme/src/nvme/      *)
(* util.c), on top of the single commands of NvmeCmd: fetching a log whose *)
(* length its own header tells, and downloading firmware; and the reads    *)
(* and writes on a namespace, which are given in bytes (tree.c).           *)
(*                                                                         *)
(* The controller is external.  `lens' holds the length of every           *)
(* generation of the log so far, the last one is the current one.  A       *)
(* controller-initiated telemetry log is latched: it does not change while *)
(* its event is pending, and a read that does not retain the event lets it *)
(* go.  A host-initiated one changes when some host asks for a new one; a  *)
(* log of LBA status changes when it likes.  The unit of a log is 512      *)
(* bytes; one in host memory is the generation it was read from, 0 if it   *)
(* holds nothing.  The length is in the first unit.                        *)
(***************************************************************************)
EXTENDS NvmeArgs, NvmeStatus

CONSTANTS
    MaxLen,         \* bound on the units of a log
    Chunk,          \* units of one transfer (8 in the code: 4096 bytes)
    MaxChanges,     \* bound on the changes of the log
    MaxFaults,      \* bound on failing commands and allocations
    MaxCalls,       \* bound on the calls
    Sizes, Xfers, Offsets,  \* the firmware downloads, in bytes
    Counts, BlockSize       \* the I/O on a namespace, in bytes

ASSUME UtilAssumption ==
    /\ MaxLen \in Nat \ {0} /\ Chunk \in Nat \ {0}
    /\ MaxChanges \in Nat /\ MaxFaults \in Nat /\ MaxCalls \in Nat
    /\ Counts \subseteq Nat /\ BlockSize \in Nat \ {0}
    /\ Sizes \subseteq Nat /\ Xfers \subseteq Nat \ {0} /\ Offsets \subseteq Nat

VARIABLES
    page,           \* the log page in use, "none" for the other calls
    lens, event,    \* the log of the controller, its pending event
    image,          \* the controller's firmware area, by dword
    pc, call, out,  \* where the library is, in which call, and its result
    buf, size, off, \* the caller's log: its units, how many are allocated, and read
    done,           \* the bytes of firmware sent
    calls, faults,
    avail,          \* history: did the header say that there is a log
    interfered      \* history: did another host let the log go or renew it

deviceVars == <<page, lens, event, image>>
logVars == <<buf, size, off, avail>>
vars == <<deviceVars, pc, call, out, logVars, done, calls, faults, interfered>>

gen == Len(lens)
Lengths == IF page = "lba" THEN 0 .. MaxLen ELSE 1 .. MaxLen
None == [kind |-> "none"]

(* The dwords of the firmware area: the byte of the image each begins with. *)
Old == -1
Junk == -2
Dwords == UNION {(o \div 4) .. ((o + s) \div 4) : o \in Offsets, s \in Sizes}

CommandCalls == [kind : {"cmd"}, f : DOMAIN Calls]
SpaceCalls == [kind : {"io"}, offset : Offsets, count : Counts]
FirmwareCalls == [kind : {"fw"}, size : Sizes, xfer : Xfers, offset : Offsets]
(* A status that a command has ended with: around the codes that there are.*)
Statuses ==
    {type + code : type \in {NVME_SCT_GENERIC, NVME_SCT_CMD_SPECIFIC, NVME_SCT_MEDIA, NVME_SCT_PATH, 1024, NVME_SCT_VS},
                   code \in (0 .. 4) \cup (21 .. 48) \cup (95 .. 97) \cup (111 .. 147) \cup (182 .. 193)}
StatusCalls == [kind : {"status"}, status : Statuses, fabrics : BOOLEAN]
(* nvme_get_ctrl_telemetry, nvme_get_host_telemetry,                       *)
(* nvme_get_new_host_telemetry, nvme_get_lba_status_log                    *)
LogFetches ==
    CASE page = "host" -> [kind : {"log"}, create : BOOLEAN, rae : {FALSE}]
      [] page = "none" -> {}
      [] OTHER -> [kind : {"log"}, create : {FALSE}, rae : BOOLEAN]

Init ==
    /\ page \in {"ctrl", "host", "lba", "none"}
    /\ lens \in {<<n>> : n \in Lengths} /\ event = FALSE
    /\ page = "none" => lens = <<1>>
    /\ image = [d \in Dwords |-> Old]
    /\ pc = "idle" /\ call = None /\ out = "none"
    /\ buf = [u \in 0 .. MaxLen - 1 |-> 0] /\ size = 0 /\ off = 0 /\ done = 0
    /\ calls = 0 /\ faults = 0 /\ avail = FALSE /\ interfered = FALSE

Return(result) == pc' = "idle" /\ out' = result

----------------------------------------------------------------------------
(* The controller and the other hosts. *)

Renewed == \E n \in Lengths : lens' = Append(lens, n)

Change ==
    /\ page \in {"ctrl", "lba"}
    /\ gen <= MaxChanges
    /\ page = "ctrl" => ~ event
    /\ Renewed /\ event' = TRUE
    /\ interfered' = (interfered \/ (page = "lba" /\ pc = "body"))
    /\ UNCHANGED <<page, image, pc, call, out, logVars, done, calls, faults>>

OtherCreates ==
    /\ page = "host"
    /\ gen <= MaxChanges
    /\ Renewed
    /\ interfered' = (interfered \/ pc = "body")
    /\ UNCHANGED <<page, event, image, pc, call, out, logVars, done, calls, faults>>

OtherReads ==
    /\ page \in {"ctrl", "lba"} /\ event
    /\ event' = FALSE
    /\ interfered' = (interfered \/ (page = "ctrl" /\ pc = "body"))
    /\ UNCHANGED <<page, lens, image, pc, call, out, logVars, done, calls, faults>>

----------------------------------------------------------------------------
(* A single command of the table: what the system call returns is returned. *)
Begin(c, at) ==
    /\ pc = "idle" /\ calls < MaxCalls
    /\ call' = c /\ pc' = at /\ out' = "none" /\ calls' = calls + 1

Invoke ==
    /\ page = "none"
    /\ \E c \in CommandCalls : Begin(c, "cmd")
    /\ UNCHANGED <<deviceVars, logVars, done, faults, interfered>>

Complete ==
    /\ pc \in {"cmd", "io"}
    /\ \E result \in {"ok", "err"} : Return(result)
    /\ UNCHANGED <<deviceVars, call, logVars, done, calls, faults, interfered>>

(* The caller has a status explained. *)
Explain ==
    /\ page = "none"
    /\ \E c \in StatusCalls :
        /\ pc = "idle" /\ calls < MaxCalls
        /\ call' = c /\ calls' = calls + 1
        /\ Return(IF nvme_status_to_errno(c.status, c.fabrics) = "0" THEN "ok" ELSE "err")
    /\ UNCHANGED <<deviceVars, logVars, done, faults, interfered>>

(* nvme_bytes_to_lba, for nvme_ns_read, nvme_ns_write and the others of    *)
(* tree.c: a bit is tested where the remainder is meant, so that what it   *)
(* refuses are odd block numbers.  The number of blocks less one has 16    *)
(* bits.                                                                   *)
Odd(bytes) == (bytes \div BlockSize) % 2 = 1
BytesRefused(c) == c.count = 0 \/ Odd(c.offset) \/ Odd(c.count)
FirstBlock(c) == c.offset \div BlockSize
(* Mutant: the field holds the number of blocks. *)
Blocks_Whole(c) == c.count \div BlockSize + 1
Blocks(c) == ((c.count \div BlockSize - 1) % 65536) + 1

SpaceIo ==
    /\ page = "none"
    /\ \E c \in SpaceCalls :
        /\ pc = "idle" /\ calls < MaxCalls
        /\ call' = c /\ calls' = calls + 1
        /\ IF BytesRefused(c) THEN Return("err") ELSE pc' = "io" /\ out' = "none"
    /\ UNCHANGED <<deviceVars, logVars, done, faults, interfered>>

----------------------------------------------------------------------------
(* nvme_get_telemetry_log, nvme_get_lba_status_log: the header first. *)

Fetch ==
    /\ \E c \in LogFetches : Begin(c, "header")
    /\ buf' = [u \in DOMAIN buf |-> 0] /\ size' = 1 /\ off' = 0
    /\ avail' = FALSE /\ interfered' = FALSE
    /\ UNCHANGED <<deviceVars, done, faults>>

(* What is allocated for a log whose header tells length n. *)
BufferSize(n) == n

(* Is there more than the header: ctrlavail, lslplen. *)
More(n) == (page = "ctrl" => event) /\ (page = "lba" => n > 0)

HeaderOf(g) ==
    /\ buf' = [buf EXCEPT ![0] = IF lens'[g] > 0 THEN g ELSE 0]
    /\ avail' = More(lens'[g])
    /\ IF avail' THEN pc' = "body" /\ size' = BufferSize(lens'[g]) /\ UNCHANGED out
       ELSE Return("ok") /\ UNCHANGED size

(* The headers are read with the event retained.  Asking for a new log     *)
(* makes the controller take one.                                          *)
ReadHeader ==
    /\ pc = "header" /\ ~ call.create
    /\ UNCHANGED lens /\ HeaderOf(gen)
    /\ UNCHANGED <<page, event, image, call, off, done, calls, faults, interfered>>

CreateHeader ==
    /\ pc = "header" /\ call.create
    /\ Renewed /\ HeaderOf(gen + 1)
    /\ UNCHANGED <<page, event, image, call, off, done, calls, faults, interfered>>

(* __nvme_get_log_page: the units of the next transfer, and whether it     *)
(* retains the event: all but the last one do.                             *)
(* Mutant: the last transfer is as long as the others. *)
Xfer_Full == Chunk
Xfer == IF size - off > Chunk THEN Chunk ELSE size - off

(* Mutants: every transfer retains as asked; the last one never does. *)
Retain_AsAsked(last) == call.rae
Retain_NotLast(last) == ~ last
Retain(last) == last => call.rae

Transfer ==
    /\ pc = "body"
    /\ buf' = [u \in DOMAIN buf |->
                  IF u \in off .. off + Xfer - 1 THEN IF u < lens[gen] THEN gen ELSE 0 ELSE buf[u]]
    /\ event' = (event /\ Retain(off + Xfer = size))
    /\ off' = off + Xfer
    /\ IF off' < size THEN UNCHANGED <<pc, out>> ELSE Return("ok")
    /\ UNCHANGED <<page, lens, image, call, size, avail, done, calls, faults, interfered>>

(* A command or an allocation fails: the buffer is given back. *)
FetchFails ==
    /\ pc \in {"header", "body"}
    /\ faults < MaxFaults /\ faults' = faults + 1
    /\ Return("err")
    /\ buf' = [u \in DOMAIN buf |-> 0] /\ size' = 0 /\ off' = 0
    /\ UNCHANGED <<deviceVars, call, done, calls, avail, interfered>>

----------------------------------------------------------------------------
(* nvme_fw_download_seq *)

Download ==
    /\ page = "none"
    /\ \E c \in FirmwareCalls : Begin(c, "fw")
    /\ image' = [d \in Dwords |-> Old] /\ done' = 0
    /\ UNCHANGED <<page, lens, event, logVars, faults, interfered>>

(* nvme_fw_download: a command counts in dwords.  The number of dwords     *)
(* less one wraps around for a length of less than one: all there is, of   *)
(* what lies behind the buffer.                                            *)
Placed(offset, len, first) ==
    LET d0 == offset \div 4 IN
    [d \in Dwords |->
        IF d < d0 THEN image[d]
        ELSE IF len < 4 THEN Junk
        ELSE IF d < d0 + len \div 4 THEN first + 4 * (d - d0) ELSE image[d]]

(* Mutant: the offset of the first part is used for all of them. *)
PartOffset_First == call.offset
PartOffset == call.offset + done

Part == LET left == call.size - done IN IF call.xfer < left THEN call.xfer ELSE left

SendPart ==
    /\ pc = "fw" /\ done < call.size
    /\ image' = Placed(PartOffset, Part, done)
    /\ done' = done + Part
    /\ UNCHANGED <<page, lens, event, pc, call, out, logVars, calls, faults, interfered>>

PartFails ==
    /\ pc = "fw" /\ done < call.size
    /\ faults < MaxFaults /\ faults' = faults + 1
    /\ Return("err")
    /\ UNCHANGED <<deviceVars, call, logVars, done, calls, interfered>>

Downloaded ==
    /\ pc = "fw" /\ done = call.size
    /\ Return("ok")
    /\ UNCHANGED <<deviceVars, call, logVars, done, calls, faults, interfered>>

Environment == Change \/ OtherCreates \/ OtherReads
Library == Complete \/ ReadHeader \/ CreateHeader \/ Transfer \/ SendPart \/ Downloaded
Next ==
    \/ Environment \/ Library
    \/ Invoke \/ Explain \/ SpaceIo \/ Fetch \/ Download
    \/ FetchFails \/ PartFails

Spec == Init /\ [][Next]_vars

----------------------------------------------------------------------------
(* Every variable has its type. *)
TypeOK ==
    /\ page \in {"ctrl", "host", "lba", "none"}
    /\ lens \in Seq(0 .. MaxLen) /\ event \in BOOLEAN
    /\ image \in [Dwords -> Int]
    /\ pc \in {"idle", "cmd", "io", "header", "body", "fw"}
    /\ call \in {None} \cup CommandCalls \cup StatusCalls \cup SpaceCalls \cup LogFetches \cup FirmwareCalls
    /\ out \in {"none", "ok", "err"}
    /\ buf \in [0 .. MaxLen - 1 -> 0 .. gen]
    /\ size \in 0 .. MaxLen /\ off \in 0 .. MaxLen
    /\ done \in Nat /\ calls \in 0 .. MaxCalls /\ faults \in 0 .. MaxFaults
    /\ avail \in BOOLEAN /\ interfered \in BOOLEAN

(* The arguments of these functions do not reach the device: ioctl.c puts  *)
(* them into the wrong bits, cuts them, swaps them or leaves them out.     *)
Misplaced ==
    {<<"get_log", "lsi">>, <<"get_log_endurance_group", "endgid">>,
     <<"get_log_predictable_lat_nvmset", "nvmsetid">>, <<"get_log_cmd_effects", "csi">>,
     <<"get_log_persistent_event", "action">>, <<"set_features_err_recovery", "nsid">>,
     <<"set_features_auto_pst", "data">>, <<"set_features_timestamp", "timestamp">>,
     <<"set_features_host_behavior", "save">>, <<"get_features_endurance_event_cfg", "endgid">>,
     <<"get_lba_status", "data">>, <<"dev_self_test", "stc">>,
     <<"directive_recv_stream_status", "len">>, <<"directive_send_id_endir", "target">>}
    \cup {"get_log_" \o f : f \in {"error", "fw_slot", "changed_ns_list", "reservation",
                                   "sanitize", "ana", "ana_groups"}} \X {"rae"}
    \cup {"set_features_power_mgmt"} \X {"ps", "wh"}
    \cup {"set_features_irq_coalesce"} \X {"thr", "time"}
    \cup {"set_features_host_id"} \X {"save", "exhid"}
    \cup {"set_features_plm_config", "get_features_plm_config", "get_features_lba_range",
          "get_features_auto_pst", "get_features_timestamp", "get_features_host_behavior"} \X {"data"}
    \cup {"directive_send_id_endir", "directive_send_stream_release_resource",
          "directive_recv_identify_parameters", "directive_recv_stream_status",
          "directive_recv_stream_allocate"} \X {"doper", "dtype"}
    \cup {"virtual_mgmt"} \X {"act", "rt", "cntlid"}

(* These have more bits than the command has room for: what is above is    *)
(* cut off, not refused.                                                   *)
Narrowed ==
    {<<"format_nvm", "lbaf">>, <<"fw_commit", "slot">>, <<"sanitize_nvm", "owpass">>, <<"get_log", "lsp">>,
     <<"set_features_arbitration", "ab">>, <<"set_features_temp_thresh", "tmpsel">>, <<"zns_mgmt_recv", "zrasf">>}
    \cup {"identify", "get_log", "set_features", "get_features"} \X {"uuidx"}
    \cup {"copy"} \X {"nr", "format", "prinfor", "prinfow", "dtype", "lr", "fua"}
(* Lengths and offsets that count in dwords lose the bits below. *)
BelowDword(f, p) == IF p = "len" \/ <<f, p>> = <<"fw_download", "offset">> THEN {0, 1} ELSE {}

ArgumentsPlaced(f) ==
    \A p \in Calls[f].params : Arrives(Calls[f], p) <=> <<f, p>> \notin Misplaced
ArgumentsWhole(f) ==
    \A p \in DOMAIN Lost[f] :
        <<f, p>> \notin Misplaced => (Lost[f][p] \subseteq BelowDword(f, p) <=> <<f, p>> \notin Narrowed)
DataDirected(f) ==
    (f \in DOMAIN Opcode /\ "data" \in Calls[f].params /\ <<f, "data">> \notin Misplaced) =>
        Opcode[f] % 4 = IF f \in Senders THEN 1 ELSE 2
(* One function asks for what another one does, and takes it for something *)
(* else.                                                                   *)
Confused == {"identify_iocs", "nvm_identify_ctrl"}
AnswerExpected(f) ==
    f \in DOMAIN IdentifyCns =>
        \A g \in DOMAIN IdentifyCns :
            (IdentifyCns[f] = IdentifyCns[g] /\ Received[f] # Received[g]) <=> (f # g /\ {f, g} = Confused)

(* A controller's answer fits the structure it is received in and its      *)
(* fields lie where the structure has them (types.h), but for one function *)
(* that is declared to take a single descriptor and receives a page of     *)
(* them; and util.c tells the length of the data of features, directives.  *)
AnswerFits(f) ==
    /\ f \in DOMAIN Received => (LaidOut(f) <=> f # "identify_ns_descs")
    /\ f \in DOMAIN Received \ {"get_log_device_self_test"} => Tight(Received[f])
    /\ \A x \in DOMAIN FeatureSize :
           f \in {"set_features_" \o x, "get_features_" \o x} =>
               nvme_get_feature_length(x, FALSE) = FeatureSize[x]
    /\ f = "directive_recv" =>
           \A d \in DOMAIN DirectiveSize : nvme_get_directive_receive_length(d) >= DirectiveSize[d]

(* Of a command that is sent, the device reads every argument in all its   *)
(* bits and reads none for another, but for the arguments listed above     *)
(* (ioctl.c): those the programs of this repository use are not among them.*)
(* The kernel moves the data the way the function means, and what is asked *)
(* for is what the structure handed in describes, but for one function; in *)
(* that structure the answer fits.                                         *)
ArgumentsArrive ==
    pc = "cmd" => /\ ArgumentsPlaced(call.f) /\ ArgumentsWhole(call.f)
                  /\ DataDirected(call.f) /\ AnswerExpected(call.f)
                  /\ AnswerFits(call.f)

(* No transfer of a log reaches beyond what was allocated for it, although *)
(* the length comes from a header that was read earlier (util.c:445).      *)
BufferSafe == pc = "body" => off + Xfer <= size

(* Types, and no data past the end of the buffer that is there for it.    *)
WellFormed == TypeOK /\ BufferSafe

(* A log that is returned is all of it and of one generation, although it  *)
(* takes several commands: the event is retained until the last of them    *)
(* and so keeps it (util.c:451).  Unless another host meddled, or a log    *)
(* changed that nothing keeps.                                             *)
WholeLog ==
    (out = "ok" /\ call.kind = "log" /\ avail /\ ~ interfered) =>
        \E g \in 1 .. gen : lens[g] = size /\ \A u \in 0 .. size - 1 : buf[u] = g

(* The caller's rae reaches the controller through all the commands of a   *)
(* fetch: an event he asks to retain is never lost by one, whichever of    *)
(* its commands runs or fails, and otherwise it has been acknowledged when *)
(* the fetch succeeds, so that the controller can take the next log        *)
(* (util.c:445).  It has not if there was no log to fetch.                 *)
EventAsAsked ==
    [][/\ (call.kind = "log" /\ call.rae /\ event /\ (pc' # pc \/ off' # off)) => event'
       /\ (pc = "body" /\ pc' = "idle" /\ out' = "ok" /\ ~ call.rae) => ~ event']_vars

ByteAt(b) == LET w == image[b \div 4] IN IF w < 0 THEN w ELSE w + (b % 4)
(* A download that succeeds has put every byte where it belongs if the     *)
(* offset and all the lengths it sends are whole dwords, and only then     *)
(* (util.c:403 with ioctl.c:1305).                                         *)
FirmwareWhole ==
    (out = "ok" /\ call.kind = "fw" /\ call.size > 0) =>
        ((\A b \in 0 .. call.size - 1 : ByteAt(call.offset + b) = b)
         <=> (call.offset % 4 = 0 /\ call.size % 4 = 0 /\ (call.xfer % 4 = 0 \/ call.size <= call.xfer)))

(* The command of a read or write on a namespace moves the bytes that were *)
(* asked for, no more and no less, if they begin and end with a block, and *)
(* only then; what is refused is not what does not fit but what begins at  *)
(* an odd block or has an odd number of them (tree.c:1242).                *)
SpaceIoExact ==
    (call.kind = "io" /\ call.count > 0) =>
        /\ pc = "io" => ((FirstBlock(call) * BlockSize = call.offset /\ Blocks(call) * BlockSize = call.count)
                          <=> (call.offset % BlockSize = 0 /\ call.count % BlockSize = 0))
        /\ (pc = "idle" /\ \A x \in {call.offset, call.count} : x % (2 * BlockSize) = 0) =>
               ~ BytesRefused(call)

(* Single commands and sequences of them move exactly the bytes asked for. *)
BytesExact == FirmwareWhole /\ SpaceIoExact

(* What this repository's decoder does not know of what libnvme does:      *)
(* transfers to unaligned or unsupported places, lockdown and media not    *)
(* ready; attachment limits, lockdown, identifiers; storage tags.          *)
Unexplained == {30, 31, 35, 36} \cup {294, 295, 296, 301} \cup {648}

(* No failed command is taken for a success, whatever flags its status has *)
(* (util.c:133); every status that is declared has a text and it is its    *)
(* own, not one of another type of status or of another transport, if the  *)
(* caller says which it was (util.c:305); and the decoder of this          *)
(* repository (nvmeprint.cpp:97) tells the same errors of a local device   *)
(* apart as libnvme does, but for those above.                             *)
ErrorsTold ==
    call.kind = "status" =>
        LET s == call.status IN
        /\ out = "ok" <=> s = NVME_SCT_GENERIC
        /\ \A flags \in {2048, 8192, 16384} :
               /\ nvme_status_to_errno(s + flags, call.fabrics) # "0"
               /\ nvme_status_to_string(s + flags, call.fabrics) = nvme_status_to_string(s, call.fabrics)
        /\ nvme_status_code_type(s) # NVME_SCT_VS =>
               (Declared(s, call.fabrics) <=> nvme_status_to_string(s, call.fabrics) # Unknown)
        /\ \A t \in Statuses :
               (Declared(s, call.fabrics) /\ Declared(t, call.fabrics) /\ s # t) =>
                   nvme_status_to_string(s, call.fabrics) # nvme_status_to_string(t, call.fabrics)
        /\ ~ call.fabrics =>
               (ss_nvme_status_to_string(s) = -1 <=> (~ Declared(s, call.fabrics) \/ s \in Unexplained))
=============================================================================
