---------------------------- MODULE NvmeDiscovery ----------------------------
(***************************************************************************)
(* libnvme's host side of NVMe over Fabrics (libnvme/src/nvme/fabrics.c),  *)
(* driven as examples/discover-loop.c drives it: connect the discovery     *)
(* controller, fetch its log, connect an entry of the log.                 *)
(*                                                                         *)
(* The discovery controller is external.  Its log changes whenever it      *)
(* likes: `recs' is the number of records of every generation so far, the  *)
(* last one is the current one.  A change raises an asynchronous event,    *)
(* which stays masked until a read of the log clears it.  The kernel's     *)
(* /dev/nvme-fabrics is external too.                                      *)
(*                                                                         *)
(* A log is read in units of 512 bytes, the transfer length the code asks  *)
(* for: the header is two units, a record two more.  A unit in host memory *)
(* is the generation it was read from, 0 if it was only cleared.           *)
(***************************************************************************)
EXTENDS Integers, Sequences, FiniteSets

CONSTANTS
    MaxNumrec,      \* bound on the records of a generation
    MaxChanges,     \* bound on the changes of the log
    MaxFaults,      \* bound on the failing commands and system calls
    MaxCalls,       \* bound on the fetches of the log
    MaxRetries      \* nvmf_get_discovery_log's max_retries

ASSUME DiscoveryAssumption ==
    /\ MaxNumrec \in Nat /\ MaxChanges \in Nat /\ MaxFaults \in Nat
    /\ MaxCalls \in Nat /\ MaxRetries \in Nat

VARIABLES
    recs, event,    \* the log of the controller, and its pending event
    kernel,         \* the kernel: does it know disable_sqflow; its connections
    pc,             \* where the program is
    fd,             \* is the discovery controller connected
    log, off,       \* the host's buffer, the unit read next
    numrec, genctr, retries,
    out,            \* what the last call returned
    entry,          \* what is being connected
    user,           \* the options the caller asks for
    cfg,            \* the options set in the controller object
    sqflow,         \* nvmf_connect_disc_entry's disable_sqflow
    args,           \* the options written to the kernel
    calls, faults,
    since,          \* history: the generation when the call began
    before,         \* history: the faults when the call began
    known, late     \* history: connections handed out; faults after the kernel connected

ctrlVars == <<recs, event>>
fetchVars == <<log, off, numrec, genctr, retries>>
objectVars == <<entry, user, cfg, sqflow, args>>
connectVars == <<kernel, objectVars, known, late>>
vars == <<ctrlVars, pc, fd, fetchVars, out, connectVars, calls, faults, since, before>>

----------------------------------------------------------------------------
(* The options of struct nvme_fabrics_config.  A set of options stands for *)
(* a configuration: those that have a value other than the default.        *)
QueueOptions == {"nr_io_queues", "nr_write_queues", "nr_poll_queues", "queue_size"}
LossOptions == {"ctrl_loss_tmo", "fast_io_fail_tmo", "tos"}
DigestOptions == {"hdr_digest", "data_digest"}
OtherOptions == {"keep_alive_tmo", "reconnect_delay"}
Switches == {"duplicate_connect", "disable_sqflow"}
Options == QueueOptions \cup LossOptions \cup DigestOptions \cup OtherOptions \cup Switches

Entries == [subtype : {"disc", "nvme", "referral"}, sqflow : BOOLEAN,
            trtype : {"rdma", "tcp", "fc", "loop", "pcie"}, adrfam : {"ip", "fc", "ib"}]
DiscoveryCtrl == [subtype |-> "disc", sqflow |-> FALSE, trtype |-> "loop", adrfam |-> "ip"]

Units == 0 .. 2 * MaxNumrec + 1
gen == Len(recs)
Cleared == [u \in Units |-> 0]

(* What a caller asks for: any of the switches, all or none of the rest. *)
Choices == {S \cup T : S \in SUBSET Switches, T \in {{}, Options \ Switches}}

Init ==
    /\ recs \in {<<n>> : n \in 0 .. MaxNumrec} /\ event = FALSE
    /\ kernel \in [old : BOOLEAN, conns : {0}]
    /\ pc = "idle" /\ fd = FALSE /\ out = "none"
    /\ log = Cleared /\ off = 0 /\ numrec = 0 /\ genctr = 0 /\ retries = 0
    /\ entry = DiscoveryCtrl /\ user = {} /\ cfg = {} /\ sqflow = FALSE /\ args = {}
    /\ calls = 0 /\ faults = 0 /\ since = 1 /\ before = 0
    /\ known = 0 /\ late = 0

Fault == faults < MaxFaults /\ faults' = faults + 1
Return(result) == pc' = "idle" /\ out' = result

(* The controller's log changes; the host is notified.  (While the host is *)
(* connecting, a change would make no difference.)                         *)
Change ==
    /\ pc \notin {"write", "read"}
    /\ gen <= MaxChanges
    /\ \E n \in 0 .. MaxNumrec : recs' = Append(recs, n)
    /\ event' = TRUE
    /\ UNCHANGED <<pc, fd, fetchVars, out, connectVars, calls, faults, since, before>>

----------------------------------------------------------------------------
(* __nvme_get_log_page: the transfers that are under way, their number and *)
(* whether the event is retained.                                          *)

(* Mutant: the header is read again without retaining the event. *)
Rae_Reread(at) == at = "header"
Rae(at) == at \in {"header", "reread"}

Transfers(at) ==
    CASE at = "header" -> 1             \* 0x100 bytes
      [] at = "body" -> 2 * numrec + 2
      [] OTHER -> 2

Last == off + 1 = Transfers(pc)

(* One transfer: retained unless it is the last one of a read with rae = 0. *)
Transfer ==
    /\ log' = [log EXCEPT ![off] = gen]
    /\ event' = (event /\ (Last => Rae(pc)))
    /\ UNCHANGED <<recs, fd, connectVars, calls, faults, since, before>>

NextUnit ==
    /\ pc \in {"header", "body", "reread"} /\ ~ Last
    /\ Transfer
    /\ off' = off + 1
    /\ UNCHANGED <<pc, numrec, genctr, retries, out>>

(* nvmf_get_discovery_log *)
GetLog ==
    /\ pc = "idle" /\ fd /\ calls < MaxCalls
    /\ calls' = calls + 1
    /\ pc' = "header" /\ out' = "none"
    /\ log' = Cleared /\ off' = 0 /\ retries' = 0
    /\ since' = gen /\ before' = faults
    /\ UNCHANGED <<ctrlVars, numrec, genctr, fd, connectVars, faults>>

(* The head of the loop, with the header of generation g in the buffer. *)
Round(g, buffer) ==
    /\ numrec' = recs[g] /\ genctr' = g
    /\ off' = 0
    /\ IF recs[g] = 0 THEN Return("ok") /\ log' = buffer
       ELSE pc' = "body" /\ log' = Cleared /\ UNCHANGED out

HeaderRead ==
    /\ pc = "header" /\ Last
    /\ Round(gen, [log EXCEPT ![off] = gen])
    /\ event' = (event /\ Rae(pc))
    /\ UNCHANGED <<recs, retries, fd, connectVars, calls, faults, since, before>>

BodyRead ==
    /\ pc = "body" /\ Last
    /\ Transfer
    /\ genctr' = log[0]
    /\ pc' = "reread" /\ off' = 0
    /\ UNCHANGED <<numrec, retries, out>>

(* Mutant: no second try. *)
TryAgain_Never(g) == FALSE
TryAgain(g) == genctr # g /\ retries + 1 < MaxRetries

(* Mutant: only the number of records is compared. *)
Verdict_Numrec(g) == IF numrec # recs[g] THEN "EBADSLT" ELSE "ok"
Verdict(g) ==
    IF genctr # g THEN "EAGAIN" ELSE IF numrec # recs[g] THEN "EBADSLT" ELSE "ok"

Reread ==
    /\ pc = "reread" /\ Last
    /\ event' = (event /\ Rae(pc))
    /\ \/ TryAgain(log[0]) /\ Round(log[0], [log EXCEPT ![off] = gen]) /\ retries' = retries + 1
       \/ /\ ~ TryAgain(log[0])
          /\ Return(Verdict(log[0]))
          /\ log' = [log EXCEPT ![off] = gen]
          /\ UNCHANGED <<off, numrec, genctr, retries>>
    /\ UNCHANGED <<recs, fd, connectVars, calls, faults, since, before>>

(* A transfer fails: by itself, or because the log now ends before it. *)
TransferFails ==
    /\ pc \in {"header", "body", "reread"}
    /\ Fault \/ (off >= 2 * recs[gen] + 2 /\ UNCHANGED faults)
    /\ Return("EIO")
    /\ UNCHANGED <<ctrlVars, fd, fetchVars, connectVars, calls, since, before>>

----------------------------------------------------------------------------
(* merge_config, on a controller object whose options are c.  A new object *)
(* holds a ctrl_loss_tmo of 0, and only one of 600 is replaced.            *)
merge_config(c, u) == c \cup (u \ {"ctrl_loss_tmo"})

(* Mutant: the queue options are sent to a discovery controller and to no other. *)
build_options_Inverted(e, c) ==
    {o \in c : /\ o \in QueueOptions => e.subtype = "disc"
               /\ o \in LossOptions => e.trtype # "loop"
               /\ o \in DigestOptions => e.trtype = "tcp"}
build_options(e, c) ==
    {o \in c : /\ o \in QueueOptions => e.subtype # "disc"
               /\ o \in LossOptions => e.trtype # "loop"
               /\ o \in DigestOptions => e.trtype = "tcp"}

Configured(c, u, disable) ==
    IF disable THEN merge_config(c, u) \cup {"disable_sqflow"}
    ELSE merge_config(c, u) \ {"disable_sqflow"}

(* nvmf_add_ctrl(h, c, cfg, disable), as far as the write to the kernel. *)
AddCtrl(e, c, u, disable) ==
    /\ entry' = e /\ user' = u
    /\ sqflow' = disable
    /\ cfg' = Configured(c, u, disable)
    /\ args' = build_options(e, cfg')
    /\ pc' = "write"

(* The caller is done with the controller object. *)
ConnectReturn(result) ==
    /\ Return(result)
    /\ entry' = DiscoveryCtrl /\ user' = {} /\ cfg' = {} /\ sqflow' = FALSE /\ args' = {}

Discover ==
    /\ pc = "idle" /\ ~ fd /\ out = "none"
    /\ \E u \in Choices : AddCtrl(DiscoveryCtrl, {}, u, FALSE)
    /\ before' = faults
    /\ UNCHANGED <<ctrlVars, kernel, fd, fetchVars, out, calls, faults, since, known, late>>

Supported(e) ==
    /\ e.subtype \in {"disc", "nvme"}
    /\ \/ e.trtype \in {"rdma", "tcp"} /\ e.adrfam = "ip"
       \/ e.trtype = "fc" /\ e.adrfam = "fc"
       \/ e.trtype = "loop"

(* nvmf_connect_disc_entry, on an entry of the log that was fetched; with  *)
(* it the caller is done with the log.                                     *)
ConnectEntry(e, u) ==
    /\ pc = "idle" /\ out = "ok" /\ numrec > 0
    /\ before' = faults
    /\ log' = Cleared /\ numrec' = 0 /\ genctr' = 0 /\ retries' = 0
    /\ IF Supported(e) THEN AddCtrl(e, {}, u, e.sqflow) /\ UNCHANGED out
       ELSE ConnectReturn("unsupported")
    /\ UNCHANGED <<ctrlVars, kernel, fd, off, calls, faults, since, known, late>>

(* The connecting of `entry' failed.  An entry of the log is tried again   *)
(* without disable_sqflow: an old kernel does not know the option.         *)
ConnectFailed(errno) ==
    IF errno = "EINVAL" /\ sqflow THEN AddCtrl(entry, cfg, user, FALSE) /\ UNCHANGED out
    ELSE ConnectReturn("failed")

Unchanged == UNCHANGED <<ctrlVars, fetchVars, calls, since, before>>

(* __nvmf_add_ctrl: the write. *)
Write ==
    /\ pc = "write"
    /\ ~ (kernel.old /\ "disable_sqflow" \in args)
    /\ kernel' = [kernel EXCEPT !.conns = @ + 1]
    /\ pc' = "read"
    /\ UNCHANGED <<fd, out, objectVars, faults, known, late>> /\ Unchanged

(* The kernel refuses an option it does not know, a target it is connected *)
(* to already, or fails.                                                   *)
WriteFails ==
    /\ pc = "write"
    /\ \/ kernel.old /\ "disable_sqflow" \in args /\ ConnectFailed("EINVAL") /\ UNCHANGED faults
       \/ late > 0 /\ "duplicate_connect" \notin args /\ ConnectFailed("EALREADY") /\ UNCHANGED faults
       \/ Fault /\ \E errno \in {"EINVAL", "ECONNREFUSED"} : ConnectFailed(errno)
    /\ UNCHANGED <<kernel, fd, known, late>> /\ Unchanged

(* The answer cannot be read, or has no instance in it. *)
AnswerFails ==
    /\ pc = "read"
    /\ Fault /\ late' = late + 1
    /\ \E errno \in {"EINVAL", "EIO"} : ConnectFailed(errno)
    /\ UNCHANGED <<kernel, fd, known>> /\ Unchanged

Connected ==
    /\ ConnectReturn("connected")
    /\ known' = known + 1
    /\ fd' = TRUE

(* The answer is read, and nvme_init_ctrl succeeds or does not find the    *)
(* new device.                                                             *)
Answer ==
    /\ pc = "read"
    /\ \/ Connected /\ UNCHANGED <<faults, late>>
       \/ Fault /\ late' = late + 1 /\ ConnectFailed("ENODEV") /\ UNCHANGED <<fd, known>>
    /\ UNCHANGED kernel /\ Unchanged

Next ==
    \/ Change
    \/ GetLog \/ NextUnit \/ HeaderRead \/ BodyRead \/ Reread \/ TransferFails
    \/ Discover \/ (\E e \in Entries, u \in Choices : ConnectEntry(e, u))
    \/ Write \/ WriteFails \/ AnswerFails \/ Answer

Spec == Init /\ [][Next]_vars

----------------------------------------------------------------------------
(* The buffer holds generations, at units the read has room for. *)
TypeOK ==
    /\ recs \in Seq(0 .. MaxNumrec) /\ gen \in 1 .. MaxChanges + 1 /\ event \in BOOLEAN
    /\ kernel \in [old : BOOLEAN, conns : Nat]
    /\ pc \in {"idle", "header", "body", "reread", "write", "read"} /\ fd \in BOOLEAN
    /\ log \in [Units -> 0 .. gen] /\ off \in Units
    /\ numrec \in 0 .. MaxNumrec /\ genctr \in 0 .. gen /\ retries \in Nat
    /\ user \subseteq Options /\ cfg \subseteq Options /\ args \subseteq Options
    /\ entry \in Entries /\ sqflow \in BOOLEAN
    /\ since \in 1 .. gen

Fetched == pc = "idle" /\ out = "ok"

(* However the log changes while it is fetched, what is handed to the      *)
(* caller is one generation of it, with all its records: header, records   *)
(* and the number of records belong together.  (The second half of the     *)
(* header is reserved.)                                                    *)
SnapshotOfOneGeneration ==
    Fetched =>
        /\ log[0] > 0 /\ numrec = recs[log[0]]
        /\ numrec > 0 => \A u \in (0 .. 2 * numrec + 1) \ {1} : log[u] = log[0]

(* A log that was fetched is the current one, or an event tells the host   *)
(* that it is not: no change slips between the read that clears the event  *)
(* and the return.                                                         *)
FreshOrNotified == Fetched => (log[0] = gen \/ event)

(* A supported entry is connected unless something failed: also on a       *)
(* kernel that does not know disable_sqflow, also if the user asked for    *)
(* that option himself.                                                    *)
QuietConnects == out = "failed" => (faults > before \/ late > 0)

(* A fetch gives up with EAGAIN only after max_retries rounds that each    *)
(* met a change, and with EBADSLT only if there was one; without a change  *)
(* and without a fault it succeeds, and so does a connect.                 *)
ErrorsExplained ==
    /\ out = "EAGAIN" => gen - since >= (IF MaxRetries = 0 THEN 1 ELSE MaxRetries)
    /\ out = "EBADSLT" => gen > since
    /\ out = "EIO" => (gen > since \/ faults > before)
    /\ QuietConnects

(* What the user asked for is what the kernel was told, for every option   *)
(* that applies to the target; but ctrl_loss_tmo never reaches it, and     *)
(* disable_sqflow is what the log entry says.                              *)
OptionsArrive ==
    pc = "read" =>
        \A o \in Options \ {"ctrl_loss_tmo", "disable_sqflow"} :
            o \in args <=> /\ o \in user
                           /\ o \in QueueOptions => entry.subtype # "disc"
                           /\ o \in LossOptions => entry.trtype # "loop"
                           /\ o \in DigestOptions => entry.trtype = "tcp"

(* A connection the kernel has made and no caller holds is one that failed *)
(* after the kernel had made it: the code never disconnects those, and     *)
(* makes no others.                                                        *)
NoLostConnection == pc = "idle" => kernel.conns <= known + late
=============================================================================
