-------------------------------- MODULE Ztl --------------------------------
(***************************************************************************)
(* The zone translation layer of src/m23-ftl/zns_device.cpp: a user block  *)
(* device kept on a zoned namespace.  The first LogZones zones are a       *)
(* page-mapped log to which every write is appended; the others are        *)
(* block-mapped data zones.  A garbage collection thread merges the log    *)
(* into the data zones when the writers find the log short of free zones,  *)
(* and then empties it.                                                    *)
(*                                                                         *)
(* Threads: each client runs zns_udevice_write and zns_udevice_read, the   *)
(* GC thread runs trigger_gc, and one more thread runs                     *)
(* deinit_ss_zns_device.  A step of a thread is what it does between two   *)
(* points where another thread can see or change what it uses.             *)
(*                                                                         *)
(* User addresses, sizes and LBAs are counted in blocks (the code counts   *)
(* addresses in bytes and rejects a size that is no multiple of a block).  *)
(***************************************************************************)
EXTENDS ZNS

CONSTANTS
    LogZones,       \* log_zone_num_config
    Watermark,      \* gc_watermark
    Clients,        \* threads that use the device
    GCThread,       \* the thread of trigger_gc
    Free,           \* the owner of an unlocked gc_mutex
    BufBlocks,      \* blocks in a caller's buffer
    WriteSizes,     \* sizes, in blocks, that clients write
    ReadSizes,      \* sizes, in blocks, that clients read
    U32,            \* one more than the largest uint32_t
    Bit63,          \* 1L << 63, the flag of a log entry
    MaxFaults       \* bound on the steps whose device commands fail on their own

(***************************************************************************)
(* Watermark = 0 is excluded: zone_merge uses the last log zone as its     *)
(* spare, which is empty only because the writers stop short of it.        *)
(***************************************************************************)
ASSUME FtlAssumption ==
    /\ LogZones \in Nat
    /\ Watermark \in Nat \ {0}
    /\ Watermark < LogZones
    /\ LogZones < NumZones
    /\ GCThread \notin Clients
    /\ Free \notin Clients \cup {GCThread}
    /\ BufBlocks \in Nat \ {0}
    /\ WriteSizes \subseteq 1 .. BufBlocks
    /\ ReadSizes \subseteq 1 .. BufBlocks
    /\ U32 \in Nat /\ U32 > 2 * NumZones * ZoneCap + BufBlocks
    /\ Bit63 \in Nat /\ Bit63 > NumZones * ZoneCap
    /\ MaxFaults \in Nat

VARIABLES
    log_zone_end,       \* the LBA the log grows at
    log_zone_mapping,   \* user block -> LBA in the log, or NoEntry
    data_zone_mapping,  \* virtual zone -> first LBA of its data zone, or NoEntry
    zone_states,        \* the FTL's own record of each data zone's state
    gc_mutex,           \* the thread that holds gc_mutex, or Free
    gc_thread_stop,
    trigger_my_gc,
    pc,                 \* where each client is
    req,                \* the arguments of its call
    buf,                \* the caller's buffer
    idx,                \* blocks of the call done so far
    lba,                \* prev_log_zone_end of a write, entry of a read
    ret,                \* the result of its call
    gpc,                \* where the GC thread is
    zone_sets,          \* the log entries being merged
    todo,               \* virtual zones of zone_sets still to merge
    cur,                \* the virtual zone being merged
    zone_number,        \* the zone it is merged into, by its first LBA
    prev_zone,          \* the data zone it was in, by its first LBA
    buffer,             \* the merge buffer, one zone long
    dpc,                \* where the thread of deinit_ss_zns_device is
    faults,             \* device commands that have failed so far
    last                \* history: the block last written to each address

flags == <<gc_thread_stop, trigger_my_gc>>
meta == <<log_zone_end, log_zone_mapping, data_zone_mapping, zone_states>>
call == <<req, buf, idx, lba, ret>>
merge == <<zone_sets, todo, cur, zone_number, prev_zone, buffer>>
vars == <<device, meta, flags, gc_mutex, pc, call, gpc, merge, dpc, faults, last>>

----------------------------------------------------------------------------
NoEntry == -1
NotWritten == "not written"

Addr == 0 .. (NumZones - LogZones) * ZoneCap - 1
LogZone == 0 .. LogZones - 1
VZones == LogZones .. NumZones - 1
BufIdx == 0 .. BufBlocks - 1

(* The virtual zone a user block belongs to, and its place in there. *)
VZone(a) == a \div ZoneCap + LogZones
VOffset(a) == a % ZoneCap

(* entry & (1L << 63), as a value and as a test, and entry & ~(1L << 63) *)
FlagOf(e) == IF e >= Bit63 THEN Bit63 ELSE 0
Flagged(e) == FlagOf(e) # 0
Unflagged(e) == e % Bit63

SUCCESS == 0
EINVAL == -1            \* the size is no multiple of the block size
EIO == 5                \* a device command failed

ClientPcs == {"idle", "lock", "check", "wait", "write", "map",
              "find", "entry", "data", "dev", "ret"}
GcPcs == {"lock", "check", "towait", "wait", "zone", "write", "reset old",
          "reset in place", "rewrite", "reset spare", "reset log", "clear", "exit"}
DeinitPcs == {"up", "signal", "join", "closed"}

NoReq == [op |-> "none", addr |-> 0, n |-> 1]
EmptyBuf == [k \in BufIdx |-> Zero]
EmptyZoneBuf == [k \in Offsets |-> Zero]

MetaTypeOK ==
    /\ log_zone_end \in 0 .. NumZones * ZoneCap
    /\ log_zone_mapping \in [Addr -> LBAs \cup {NoEntry}]
    /\ data_zone_mapping \in [VZones -> {Slba(z) : z \in VZones} \cup {NoEntry}]
    /\ zone_states \in [VZones -> {EMPTY_ZONE, IMPLICITLY_OPENED, FULL_ZONE}]
    /\ last \in [Addr -> Payload \cup {NotWritten}]

SyncTypeOK ==
    /\ gc_mutex \in Clients \cup {GCThread, Free}
    /\ gc_thread_stop \in BOOLEAN
    /\ trigger_my_gc \in BOOLEAN
    /\ dpc \in DeinitPcs
    /\ faults \in 0 .. MaxFaults

ClientTypeOK ==
    /\ pc \in [Clients -> ClientPcs]
    /\ req \in [Clients -> [op : {"none", "read", "write"}, addr : Addr, n : 1 .. BufBlocks]]
    /\ buf \in [Clients -> [BufIdx -> Payload]]
    /\ idx \in [Clients -> 0 .. BufBlocks]
    /\ lba \in [Clients -> LBAs]
    /\ ret \in [Clients -> {SUCCESS, EINVAL, EIO}]

GcTypeOK ==
    /\ gpc \in GcPcs
    /\ zone_sets \in [Addr -> LBAs \cup {NoEntry}]
    /\ todo \subseteq VZones
    /\ cur \in VZones
    /\ zone_number \in {Slba(z) : z \in Zones}
    /\ prev_zone \in {Slba(z) : z \in VZones} \cup {NoEntry}
    /\ buffer \in [Offsets -> Payload]

TypeOK == DeviceTypeOK /\ MetaTypeOK /\ SyncTypeOK /\ ClientTypeOK /\ GcTypeOK

----------------------------------------------------------------------------
(* The device has just been reset: init_ss_zns_device with force_reset. *)
Init ==
    /\ wp = [z \in Zones |-> 0]
    /\ blk = [l \in LBAs |-> Zero]
    /\ log_zone_end = 0
    /\ log_zone_mapping = [a \in Addr |-> NoEntry]
    /\ data_zone_mapping = [v \in VZones |-> NoEntry]
    /\ zone_states = [z \in VZones |-> ReportedState(z)]
    /\ gc_mutex = Free
    /\ gc_thread_stop = FALSE
    /\ trigger_my_gc = FALSE
    /\ pc = [c \in Clients |-> "idle"]
    /\ req = [c \in Clients |-> NoReq]
    /\ buf = [c \in Clients |-> EmptyBuf]
    /\ idx = [c \in Clients |-> 0]
    /\ lba = [c \in Clients |-> 0]
    /\ ret = [c \in Clients |-> SUCCESS]
    /\ gpc = "lock"
    /\ zone_sets = [a \in Addr |-> NoEntry]
    /\ todo = {}
    /\ cur = LogZones
    /\ zone_number = 0
    /\ prev_zone = NoEntry
    /\ buffer = EmptyZoneBuf
    /\ dpc = "up"
    /\ faults = 0
    /\ last = [a \in Addr |-> NotWritten]

(* A device command fails although the device could have carried it out. *)
Fault ==
    /\ faults < MaxFaults
    /\ faults' = faults + 1

(* pthread_cond_signal(&start_gc): a waiting GC thread goes for the mutex. *)
(* Mutant: the signal is left out.                                         *)
SignalStart_Dropped == UNCHANGED gpc
SignalStart == gpc' = IF gpc = "wait" THEN "lock" ELSE gpc

Goto(c, l) == pc' = [pc EXCEPT ![c] = l]
Leave(c, r) == Goto(c, "ret") /\ ret' = [ret EXCEPT ![c] = r]

(* The caller has its result and forgets the call. *)
Return(c) ==
    /\ pc[c] = "ret"
    /\ Goto(c, "idle")
    /\ req' = [req EXCEPT ![c] = NoReq]
    /\ buf' = [buf EXCEPT ![c] = EmptyBuf]
    /\ idx' = [idx EXCEPT ![c] = 0]
    /\ lba' = [lba EXCEPT ![c] = 0]
    /\ ret' = [ret EXCEPT ![c] = SUCCESS]
    /\ UNCHANGED <<device, meta, flags, gc_mutex, gpc, merge, dpc, faults, last>>

(* Either call with a size that is no multiple of the block size. *)
RejectedCall(c) ==
    /\ pc[c] = "idle" /\ dpc = "up"
    /\ Leave(c, EINVAL)
    /\ UNCHANGED <<device, meta, flags, gc_mutex, req, buf, idx, lba, gpc, merge, dpc, faults, last>>

----------------------------------------------------------------------------
(* zns_udevice_write *)

(* Callers stay inside capacity_bytes: the code does not check. *)
WriteCall(c, a, n, b) ==
    /\ pc[c] = "idle" /\ dpc = "up"
    /\ a + n - 1 \in Addr
    /\ Goto(c, "lock")
    /\ req' = [req EXCEPT ![c] = [op |-> "write", addr |-> a, n |-> n]]
    /\ buf' = [buf EXCEPT ![c] = b]
    /\ UNCHANGED <<device, meta, flags, gc_mutex, idx, lba, ret, gpc, merge, dpc, faults, last>>

(* pthread_mutex_lock, on entry and on the way out of pthread_cond_wait. *)
WriteLock(c) ==
    /\ pc[c] = "lock"
    /\ gc_mutex = Free
    /\ gc_mutex' = c
    /\ Goto(c, "check")
    /\ UNCHANGED <<device, meta, flags, call, gpc, merge, dpc, faults, last>>

(* The difference is one of uint32_t: it wraps instead of going negative. *)
free_zone_number(n) ==
    (LogZones - ((log_zone_end + n) % U32) \div ZoneCap) % U32

(* Mutants: the writers ask for a collection one zone too late, or never. *)
LogIsLow_OffByOne(n) == free_zone_number(n) < Watermark
LogIsLow_Never(n) == FALSE
LogIsLow(n) == free_zone_number(n) <= Watermark

WriteWait(c) ==
    /\ pc[c] = "check"
    /\ LogIsLow(req[c].n)
    /\ trigger_my_gc' = TRUE
    /\ SignalStart
    /\ gc_mutex' = Free
    /\ Goto(c, "wait")
    /\ UNCHANGED <<device, meta, gc_thread_stop, call, merge, dpc, faults, last>>

WriteGo(c) ==
    /\ pc[c] = "check"
    /\ ~ LogIsLow(req[c].n)
    /\ lba' = [lba EXCEPT ![c] = log_zone_end]
    /\ Goto(c, "write")
    /\ UNCHANGED <<device, meta, flags, gc_mutex, req, buf, idx, ret, gpc, merge, dpc, faults, last>>

(* A wakeup of stop_gc that no signal caused. *)
SpuriousWake(c) ==
    /\ pc[c] = "wait"
    /\ Goto(c, "lock")
    /\ UNCHANGED <<device, meta, flags, gc_mutex, call, gpc, merge, dpc, faults, last>>

(* lba_result + 1.  Mutant: one block too far. *)
TailAfter_OffByOne(z) == AppendLba(z) + 2
TailAfter(z) == AppendLba(z) + 1

(* size < mdts: one append to the zone of the tail, and the tail follows   *)
(* the LBA the device reports.                                             *)
WriteAppend(c) ==
    /\ pc[c] = "write"
    /\ req[c].n < MDTS
    /\ nvme_zns_append(ZoneOf(lba[c]), req[c].n, buf[c])
    /\ log_zone_end' = TailAfter(ZoneOf(lba[c]))
    /\ Goto(c, "map")
    /\ UNCHANGED <<log_zone_mapping, data_zone_mapping, zone_states, flags, gc_mutex,
                   call, gpc, merge, dpc, faults, last>>

(* A failed append returns with gc_mutex still locked. *)
WriteAppendFail(c) ==
    /\ pc[c] = "write"
    /\ req[c].n < MDTS
    /\ IF CanAppend(ZoneOf(lba[c]), req[c].n) THEN Fault ELSE UNCHANGED faults
    /\ Leave(c, EIO)
    /\ UNCHANGED <<device, meta, flags, gc_mutex, req, buf, idx, lba, gpc, merge, dpc, last>>

(* size >= mdts: written from the start of that zone; the tail stays.      *)
WriteLarge(c) ==
    LET slba == Slba(ZoneOf(lba[c])) IN
    /\ pc[c] = "write"
    /\ req[c].n >= MDTS
    /\ CanWrite(slba, req[c].n)
    /\ nvme_write(slba, req[c].n, buf[c])
    /\ Goto(c, "map")
    /\ UNCHANGED <<meta, flags, gc_mutex, call, gpc, merge, dpc, faults, last>>

(* A failed one also leaves the mutex locked, and what landed in place. *)
WriteLargeFail(c) ==
    LET slba == Slba(ZoneOf(lba[c])) IN
    /\ pc[c] = "write"
    /\ req[c].n >= MDTS
    /\ \/ /\ \E m \in LandedBlocks(slba, req[c].n) : nvme_write(slba, m, buf[c])
          /\ UNCHANGED faults
       \/ /\ \E m \in CutBlocks(slba, req[c].n) : nvme_write(slba, m, buf[c])
          /\ Fault
    /\ Leave(c, EIO)
    /\ UNCHANGED <<meta, flags, gc_mutex, req, buf, idx, lba, gpc, merge, dpc, last>>

LastRound(c) == idx[c] + 1 = req[c].n

(* The unlock after the loop.  Mutant: inside the loop. *)
UnlockAfter_InLoop(c) == gc_mutex' = Free
UnlockAfter(c) == gc_mutex' = IF LastRound(c) THEN Free ELSE gc_mutex

(* One round of the mapping loop; the last one unlocks and returns. *)
WriteMap(c) ==
    LET a == req[c].addr + idx[c] IN
    /\ pc[c] = "map"
    /\ log_zone_mapping' = [log_zone_mapping EXCEPT ![a] = lba[c] + idx[c]]
    /\ last' = [last EXCEPT ![a] = buf[c][idx[c]]]
    /\ idx' = [idx EXCEPT ![c] = @ + 1]
    /\ IF LastRound(c) THEN Goto(c, "ret") ELSE UNCHANGED pc
    /\ UnlockAfter(c)
    /\ UNCHANGED <<device, log_zone_end, data_zone_mapping, zone_states, flags,
                   req, buf, lba, ret, gpc, merge, dpc, faults>>

----------------------------------------------------------------------------
(* zns_udevice_read, which takes no lock *)

ReadCall(c, a, n) ==
    /\ pc[c] = "idle" /\ dpc = "up"
    /\ a + n - 1 \in Addr
    /\ Goto(c, "find")
    /\ req' = [req EXCEPT ![c] = [op |-> "read", addr |-> a, n |-> n]]
    /\ UNCHANGED <<device, meta, flags, gc_mutex, buf, idx, lba, ret, gpc, merge, dpc, faults, last>>

(* Another thread is inside an insert into, or the clear of, the log map:  *)
(* a racing find may miss an entry.                                        *)
LogMapBusy == gpc = "clear" \/ \E c \in Clients : pc[c] = "map"

(* log_zone_mapping.find(i) *)
ReadFind(c) ==
    LET a == req[c].addr + idx[c] IN
    /\ pc[c] = "find"
    /\ \/ log_zone_mapping[a] # NoEntry /\ Goto(c, "entry")
       \/ (log_zone_mapping[a] = NoEntry \/ LogMapBusy) /\ Goto(c, "data")
    /\ UNCHANGED <<device, meta, flags, gc_mutex, call, gpc, merge, dpc, faults, last>>

(* log_zone_mapping[i]: inserts 0 if the entry has gone since the find. *)
ReadEntry(c) ==
    LET a == req[c].addr + idx[c]
        e == IF log_zone_mapping[a] = NoEntry THEN 0 ELSE log_zone_mapping[a] IN
    /\ pc[c] = "entry"
    /\ log_zone_mapping' = [log_zone_mapping EXCEPT ![a] = e]
    /\ lba' = [lba EXCEPT ![c] = Unflagged(e)]
    /\ Goto(c, IF Flagged(e) THEN "data" ELSE "dev")
    /\ UNCHANGED <<device, log_zone_end, data_zone_mapping, zone_states, flags, gc_mutex,
                   req, buf, idx, ret, gpc, merge, dpc, faults, last>>

(* The LBA of a in a data zone.  Mutant: the start of the zone. *)
DataLba_ZoneStart(slba, a) == slba
DataLba(slba, a) == slba + VOffset(a)

(* Through the data zone; a virtual zone without one clears the buffer. *)
ReadData(c) ==
    LET a == req[c].addr + idx[c]
        slba == data_zone_mapping[VZone(a)] IN
    /\ pc[c] = "data"
    /\ IF slba = NoEntry
       THEN /\ buf' = [buf EXCEPT ![c] = EmptyBuf]
            /\ Leave(c, SUCCESS)
            /\ UNCHANGED lba
       ELSE /\ lba' = [lba EXCEPT ![c] = DataLba(slba, a)]
            /\ Goto(c, "dev")
            /\ UNCHANGED <<buf, ret>>
    /\ UNCHANGED <<device, meta, flags, gc_mutex, req, idx, gpc, merge, dpc, faults, last>>

(* The blocks one round asks of the device: one, or all of size. *)
ReadLen(c) == IF req[c].n < MDTS THEN 1 ELSE req[c].n

(* They arrive in the buffer from block idx on; what a large read brings   *)
(* beyond the end of the buffer lands in memory the model does not have.   *)
ReadDev(c) ==
    LET m == ReadLen(c) IN
    /\ pc[c] = "dev"
    /\ CanRead(lba[c], m)
    /\ buf' = [buf EXCEPT ![c] = [k \in BufIdx |->
                 IF k >= idx[c] /\ k < idx[c] + m /\ k < req[c].n
                 THEN blk[lba[c] + k - idx[c]] ELSE buf[c][k]]]
    /\ idx' = [idx EXCEPT ![c] = @ + 1]
    /\ IF LastRound(c) THEN Leave(c, SUCCESS) ELSE Goto(c, "find") /\ UNCHANGED ret
    /\ UNCHANGED <<device, meta, flags, gc_mutex, req, lba, gpc, merge, dpc, faults, last>>

ReadDevFail(c) ==
    /\ pc[c] = "dev"
    /\ IF CanRead(lba[c], ReadLen(c)) THEN Fault ELSE UNCHANGED faults
    /\ Leave(c, EIO)
    /\ UNCHANGED <<device, meta, flags, gc_mutex, req, buf, idx, lba, gpc, merge, dpc, last>>

----------------------------------------------------------------------------
(* trigger_gc: the loop around the merge *)

GcGoto(l) == gpc' = l

GcLock ==
    /\ gpc = "lock"
    /\ gc_mutex = Free
    /\ gc_mutex' = GCThread
    /\ GcGoto("check")
    /\ UNCHANGED <<device, meta, flags, pc, call, merge, dpc, faults, last>>

(* while (!gc_thread_stop && !trigger_my_gc): the test, and then the wait. *)
(* They are two steps: deinit sets the flag and signals without the mutex. *)
GcIdle ==
    /\ gpc = "check"
    /\ ~ gc_thread_stop /\ ~ trigger_my_gc
    /\ GcGoto("towait")
    /\ UNCHANGED <<device, meta, flags, gc_mutex, pc, call, merge, dpc, faults, last>>

GcWait ==
    /\ gpc = "towait"
    /\ gc_mutex' = Free
    /\ GcGoto("wait")
    /\ UNCHANGED <<device, meta, flags, pc, call, merge, dpc, faults, last>>

GcSpuriousWake ==
    /\ gpc = "wait"
    /\ GcGoto("lock")
    /\ UNCHANGED <<device, meta, flags, gc_mutex, pc, call, merge, dpc, faults, last>>

GcExit ==
    /\ gpc = "check"
    /\ gc_thread_stop
    /\ gc_mutex' = Free
    /\ GcGoto("exit")
    /\ UNCHANGED <<device, meta, flags, pc, call, merge, dpc, faults, last>>

(* The log entries are sorted by virtual zone into zone_sets, and what     *)
(* stays of each in the log map is its flag bit.                           *)
GcCollect ==
    /\ gpc = "check"
    /\ ~ gc_thread_stop /\ trigger_my_gc
    /\ zone_sets' = log_zone_mapping
    /\ log_zone_mapping' = [a \in Addr |-> IF log_zone_mapping[a] = NoEntry THEN NoEntry
                                           ELSE FlagOf(log_zone_mapping[a])]
    /\ todo' = {v \in VZones : \E a \in Addr : VZone(a) = v /\ log_zone_mapping[a] # NoEntry}
    /\ buffer' = EmptyZoneBuf
    /\ GcGoto("zone")
    /\ UNCHANGED <<device, log_zone_end, data_zone_mapping, zone_states, flags, gc_mutex,
                   pc, call, cur, zone_number, prev_zone, dpc, faults, last>>

----------------------------------------------------------------------------
(* zone_merge *)

Empties == {z \in VZones : zone_states[z] = EMPTY_ZONE}

(* The first empty data zone, or else the last log zone (used_log).        *)
next_empty_zone ==
    IF Empties = {} THEN Slba(LogZones - 1)
    ELSE Slba(CHOOSE z \in Empties : \A y \in Empties : z <= y)

UsedLog == zone_number < Slba(LogZones)

(* The user block at offset k of virtual zone v. *)
UserBlock(v, k) == Slba(v - LogZones) + k

(* The buffer after the reads: the old data zone if there is one, else     *)
(* what the buffer held before, and over it the blocks from the log.       *)
(* Mutant: the old data zone is read over the blocks from the log.         *)
Merged_Order(v) ==
    [k \in Offsets |->
        LET e == zone_sets[UserBlock(v, k)] IN
        IF data_zone_mapping[v] # NoEntry THEN blk[data_zone_mapping[v] + k]
        ELSE IF e # NoEntry THEN blk[e] ELSE buffer[k]]
Merged(v) ==
    [k \in Offsets |->
        LET e == zone_sets[UserBlock(v, k)] IN
        IF e # NoEntry THEN blk[e]
        ELSE IF data_zone_mapping[v] # NoEntry THEN blk[data_zone_mapping[v] + k]
        ELSE buffer[k]]

(* Mutant: the old data zone is never given back. *)
MarkOldEmpty_Forgotten(v) == UNCHANGED zone_states
MarkOldEmpty(v) ==
    zone_states' = IF data_zone_mapping[v] = NoEntry THEN zone_states
                   ELSE [zone_states EXCEPT ![ZoneOf(data_zone_mapping[v])] = EMPTY_ZONE]

(* One round up to its write.  unordered_map fixes no order of the rounds. *)
GcZone(v) ==
    /\ gpc = "zone"
    /\ v \in todo
    /\ cur' = v
    /\ zone_number' = next_empty_zone
    /\ prev_zone' = data_zone_mapping[v]
    /\ MarkOldEmpty(v)
    /\ buffer' = Merged(v)
    /\ GcGoto(IF zone_number' < Slba(LogZones) THEN "reset in place" ELSE "write")
    /\ UNCHANGED <<device, log_zone_end, log_zone_mapping, data_zone_mapping, flags, gc_mutex,
                   pc, call, zone_sets, todo, dpc, faults, last>>

(* A read fails: of the old data zone, before it is marked, or of a log    *)
(* block, after that.  The merge is given up; trigger_gc only prints.      *)
GcZoneFail(v) ==
    /\ gpc = "zone"
    /\ v \in todo
    /\ Fault
    /\ MarkOldEmpty(v) \/ (data_zone_mapping[v] # NoEntry /\ UNCHANGED zone_states)
    /\ GcGoto("reset log")
    /\ UNCHANGED <<device, log_zone_end, log_zone_mapping, data_zone_mapping, flags, gc_mutex,
                   pc, call, merge, dpc, last>>

GcZonesDone ==
    /\ gpc = "zone"
    /\ todo = {}
    /\ GcGoto("reset log")
    /\ UNCHANGED <<device, meta, flags, gc_mutex, pc, call, merge, dpc, faults, last>>

(* A whole-zone write that does not go through: the merge is given up. *)
ZoneWriteFails(slba) ==
    \/ /\ \E m \in LandedBlocks(slba, ZoneCap) : nvme_write(slba, m, buffer)
       /\ UNCHANGED faults
    \/ /\ \E m \in CutBlocks(slba, ZoneCap) : nvme_write(slba, m, buffer)
       /\ Fault

GcWrite ==
    /\ gpc = "write"
    /\ CanWrite(zone_number, ZoneCap)
    /\ nvme_write(zone_number, ZoneCap, buffer)
    /\ data_zone_mapping' = [data_zone_mapping EXCEPT ![cur] = zone_number]
    /\ zone_states' = [zone_states EXCEPT ![ZoneOf(zone_number)] = FULL_ZONE]
    /\ todo' = todo \ {cur}
    /\ GcGoto(IF prev_zone = NoEntry THEN "zone" ELSE "reset old")
    /\ UNCHANGED <<log_zone_end, log_zone_mapping, flags, gc_mutex, pc, call,
                   zone_sets, cur, zone_number, prev_zone, buffer, dpc, faults, last>>

GcWriteFail ==
    /\ gpc = "write"
    /\ ZoneWriteFails(zone_number)
    /\ GcGoto("reset log")
    /\ UNCHANGED <<meta, flags, gc_mutex, pc, call, merge, dpc, last>>

(* Resets whose results nobody looks at: any of them may have failed. *)
ResetIgnored(zs) ==
    \/ nvme_zns_reset(zs) /\ UNCHANGED faults
    \/ \E failed \in SUBSET zs : nvme_zns_reset(zs \ failed) /\ Fault

(* The zone to reset.  Mutant: none. *)
OldZone_None == {}
OldZone == {ZoneOf(prev_zone)}

GcResetOld ==
    /\ gpc = "reset old"
    /\ ResetIgnored(OldZone)
    /\ GcGoto("zone")
    /\ UNCHANGED <<meta, flags, gc_mutex, pc, call, merge, dpc, last>>

(* used_log: the zone is rewritten where it is.  Without a previous zone   *)
(* the address is -1, which no command accepts.                            *)
GcResetInPlace ==
    /\ gpc = "reset in place"
    /\ ResetIgnored(IF prev_zone = NoEntry THEN {} ELSE {ZoneOf(prev_zone)})
    /\ GcGoto("rewrite")
    /\ UNCHANGED <<meta, flags, gc_mutex, pc, call, merge, dpc, last>>

GcRewrite ==
    /\ gpc = "rewrite"
    /\ prev_zone # NoEntry
    /\ CanWrite(prev_zone, ZoneCap)
    /\ nvme_write(prev_zone, ZoneCap, buffer)
    /\ zone_states' = [zone_states EXCEPT ![ZoneOf(prev_zone)] = FULL_ZONE]
    /\ GcGoto("reset spare")
    /\ UNCHANGED <<log_zone_end, log_zone_mapping, data_zone_mapping, flags, gc_mutex,
                   pc, call, merge, dpc, faults, last>>

GcRewriteFail ==
    /\ gpc = "rewrite"
    /\ ZoneWriteFails(prev_zone)
    /\ GcGoto("reset log")
    /\ UNCHANGED <<meta, flags, gc_mutex, pc, call, merge, dpc, last>>

GcResetSpare ==
    /\ gpc = "reset spare"
    /\ ResetIgnored({ZoneOf(zone_number)})
    /\ todo' = todo \ {cur}
    /\ GcGoto("zone")
    /\ UNCHANGED <<meta, flags, gc_mutex, pc, call, zone_sets, cur, zone_number,
                   prev_zone, buffer, dpc, last>>

----------------------------------------------------------------------------
(* trigger_gc: the log is emptied, whatever the merge returned. *)

GcResetLog ==
    /\ gpc = "reset log"
    /\ ResetIgnored(LogZone)
    /\ GcGoto("clear")
    /\ UNCHANGED <<meta, flags, gc_mutex, pc, call, merge, dpc, last>>

(* pthread_cond_signal(&stop_gc) wakes one waiting writer, if there is one. *)
(* Mutants: it wakes nobody, and the one it wakes has no lock to take.     *)
SignalStop_Dropped == UNCHANGED pc
SignalStop_NoRelock ==
    LET waiting == {c \in Clients : pc[c] = "wait"} IN
    \/ waiting = {} /\ UNCHANGED pc
    \/ \E c \in waiting : Goto(c, "check")
SignalStop ==
    LET waiting == {c \in Clients : pc[c] = "wait"} IN
    \/ waiting = {} /\ UNCHANGED pc
    \/ \E c \in waiting : Goto(c, "lock")

(* Mutants: the map or the trigger is not put back. *)
EmptyLog_KeepMap ==
    log_zone_end' = 0 /\ trigger_my_gc' = FALSE /\ UNCHANGED log_zone_mapping
EmptyLog_KeepTrigger ==
    /\ log_zone_end' = 0
    /\ log_zone_mapping' = [a \in Addr |-> NoEntry]
    /\ UNCHANGED trigger_my_gc
EmptyLog ==
    /\ log_zone_end' = 0
    /\ log_zone_mapping' = [a \in Addr |-> NoEntry]
    /\ trigger_my_gc' = FALSE

GcClear ==
    /\ gpc = "clear"
    /\ EmptyLog
    /\ SignalStop
    /\ gc_mutex' = Free
    /\ zone_sets' = [a \in Addr |-> NoEntry]
    /\ todo' = {}
    /\ cur' = LogZones
    /\ zone_number' = 0
    /\ prev_zone' = NoEntry
    /\ buffer' = EmptyZoneBuf
    /\ GcGoto("lock")
    /\ UNCHANGED <<device, data_zone_mapping, zone_states, gc_thread_stop, call, dpc, faults, last>>

----------------------------------------------------------------------------
(* deinit_ss_zns_device, once the callers have finished *)

DeinitStop ==
    /\ dpc = "up"
    /\ \A c \in Clients : pc[c] = "idle"
    /\ gc_thread_stop' = TRUE
    /\ dpc' = "signal"
    /\ UNCHANGED <<device, meta, trigger_my_gc, gc_mutex, pc, call, gpc, merge, faults, last>>

DeinitSignal ==
    /\ dpc = "signal"
    /\ SignalStart
    /\ dpc' = "join"
    /\ UNCHANGED <<device, meta, flags, gc_mutex, pc, call, merge, faults, last>>

DeinitJoin ==
    /\ dpc = "join"
    /\ gpc = "exit"
    /\ dpc' = "closed"
    /\ UNCHANGED <<device, meta, flags, gc_mutex, pc, call, gpc, merge, faults, last>>

Terminated == dpc = "closed" /\ UNCHANGED vars

----------------------------------------------------------------------------
(* What a write of n blocks can bring: user data in the first n blocks. *)
WriteBuffers(n) ==
    {b \in [BufIdx -> Payload] : \A k \in BufIdx : b[k] = Zero <=> k >= n}

Call(c) ==
    \/ \E a \in Addr, n \in WriteSizes : \E b \in WriteBuffers(n) : WriteCall(c, a, n, b)
    \/ \E a \in Addr, n \in ReadSizes : ReadCall(c, a, n)
    \/ RejectedCall(c)

WriteStep(c) ==
    \/ WriteLock(c) \/ WriteWait(c) \/ WriteGo(c)
    \/ WriteAppend(c) \/ WriteAppendFail(c) \/ WriteLarge(c) \/ WriteLargeFail(c)
    \/ WriteMap(c)

ReadStep(c) ==
    \/ ReadFind(c) \/ ReadEntry(c) \/ ReadData(c) \/ ReadDev(c) \/ ReadDevFail(c)

MergeStep ==
    \/ \E v \in VZones : GcZone(v) \/ GcZoneFail(v)
    \/ GcZonesDone
    \/ GcWrite \/ GcWriteFail \/ GcResetOld
    \/ GcResetInPlace \/ GcRewrite \/ GcRewriteFail \/ GcResetSpare

GcStep ==
    \/ GcLock \/ GcIdle \/ GcWait \/ GcExit \/ GcCollect
    \/ MergeStep
    \/ GcResetLog \/ GcClear

DeinitStep == DeinitSignal \/ DeinitJoin

Next ==
    \/ \E c \in Clients : Call(c) \/ WriteStep(c) \/ ReadStep(c) \/ Return(c) \/ SpuriousWake(c)
    \/ GcStep \/ GcSpuriousWake
    \/ DeinitStop \/ DeinitStep
    \/ Terminated

Spec == Init /\ [][Next]_vars

(***************************************************************************)
(* Every thread that can run does run, and gc_mutex passes nobody over for *)
(* ever (strong fairness of the two lock steps: a waiter that wakes up     *)
(* without a signal, again and again, may take it in between).  Nobody has *)
(* to call, and nothing has to wake up without a signal or to be shut down.*)
(***************************************************************************)
Fairness ==
    /\ \A c \in Clients :
          /\ WF_vars(WriteStep(c)) /\ SF_vars(WriteLock(c))
          /\ WF_vars(ReadStep(c)) /\ WF_vars(Return(c))
    /\ WF_vars(GcStep) /\ SF_vars(GcLock)
    /\ WF_vars(DeinitStep)

FairSpec == Spec /\ Fairness

----------------------------------------------------------------------------
(* Properties *)

(* The GC thread is past its lock and before its unlock. *)
GcHolds == gpc \notin {"lock", "wait", "exit"}

(* The GC thread is between GcCollect and the end of GcClear. *)
GcRuns == GcHolds /\ gpc \notin {"check", "towait"}

(***************************************************************************)
(* gc_mutex guards what it has to guard: a writer between lock and unlock  *)
(* holds it, and the GC thread holds it exactly while it is between lock   *)
(* and unlock.  So a writer never touches the log during a merge.  A       *)
(* failed write may keep the mutex for good; this holds all the same.      *)
(***************************************************************************)
MutexInv ==
    /\ \A c \in Clients : pc[c] \in {"check", "write", "map"} => gc_mutex = c
    /\ GcHolds <=> gc_mutex = GCThread

(***************************************************************************)
(* log_zone_end never runs ahead of the device: the tail's zone has at     *)
(* least the blocks written that the tail counts.  An append would         *)
(* otherwise go to blocks below the ones the writer maps.  It holds for    *)
(* every request size and with failing commands.                           *)
(***************************************************************************)
TailNotAhead ==
    gpc # "clear" => \A z \in LogZone : ZoneOf(log_zone_end) = z => OffsetOf(log_zone_end) <= wp[z]

(***************************************************************************)
(* The promise of gc_wmark (zns_device.h): at least Watermark log zones    *)
(* are always empty.  zone_merge depends on it: the last log zone is its   *)
(* spare, which it resets while log blocks are still to be merged.         *)
(***************************************************************************)
WatermarkKept ==
    \A z \in LogZones - Watermark .. LogZones - 1 : wp[z] = 0

(* The data zone whose content the current round of the merge replaces. *)
Replacing(z) ==
    /\ gpc \in {"write", "reset old", "reset in place", "rewrite"}
    /\ prev_zone = Slba(z)

(***************************************************************************)
(* The FTL's picture of the data zones is the device's: no data zone       *)
(* serves two virtual zones, a zone recorded as empty is empty (so         *)
(* next_empty_zone returns one that can be written from its start), a      *)
(* zone recorded as full is full, and a mapped zone is recorded as full,   *)
(* except for the zone the merge is replacing at that moment.              *)
(***************************************************************************)
ZoneTable ==
    /\ \A v, w \in VZones :
          data_zone_mapping[v] # NoEntry /\ data_zone_mapping[v] = data_zone_mapping[w] => v = w
    /\ \A z \in VZones : ~ Replacing(z) =>
          /\ zone_states[z] = EMPTY_ZONE => wp[z] = 0
          /\ zone_states[z] = FULL_ZONE => wp[z] = ZoneCap
          /\ zone_states[z] = FULL_ZONE <=> \E v \in VZones : data_zone_mapping[v] = Slba(z)

(***************************************************************************)
(* The block the FTL would bring back for user block a: from the merge     *)
(* buffer while its data zone is being rewritten in place, from the log,   *)
(* or from its data zone.                                                  *)
(***************************************************************************)
LogEntry(a) ==
    IF ~ GcRuns THEN log_zone_mapping[a]
    ELSE IF VZone(a) \in todo /\ gpc \notin {"reset log", "clear"} THEN zone_sets[a]
    ELSE NoEntry

View(a) ==
    LET slba == data_zone_mapping[VZone(a)] IN
    IF gpc = "rewrite" /\ cur = VZone(a) THEN buffer[VOffset(a)]
    ELSE IF LogEntry(a) # NoEntry THEN blk[LogEntry(a)]
    ELSE IF slba # NoEntry THEN blk[slba + VOffset(a)]
    ELSE Zero

(***************************************************************************)
(* No acknowledged block is lost or replaced by another one, at any point  *)
(* of any merge: the FTL always holds the block last written to a.         *)
(***************************************************************************)
NoAckedDataLost ==
    \A a \in Addr : last[a] # NotWritten => View(a) = last[a]

(***************************************************************************)
(* With one client no call fails and no merge is given up while the        *)
(* device does not fail by itself: every append is at a write pointer that *)
(* leaves room, every zone a merge writes is empty.                        *)
(***************************************************************************)
NoFailure ==
    /\ \A c \in Clients : ret[c] # EIO
    /\ gpc = "reset log" => todo = {}

(***************************************************************************)
(* A read that returns success returns, for every block that was ever      *)
(* written, the last block written there.                                  *)
(***************************************************************************)
ReadCorrect ==
    \A c \in Clients :
        pc[c] = "ret" /\ req[c].op = "read" /\ ret[c] = SUCCESS =>
            \A k \in 0 .. req[c].n - 1 :
                last[req[c].addr + k] # NotWritten => buf[c][k] = last[req[c].addr + k]

(***************************************************************************)
(* zns_udevice_read takes no lock.  With one client it needs none: the GC  *)
(* thread works only while that client waits in a write.                   *)
(***************************************************************************)
QuietReads ==
    (\E c \in Clients : pc[c] \in {"find", "entry", "data", "dev"}) =>
        ~ GcRuns /\ ~ trigger_my_gc

(***************************************************************************)
(* Liveness: a write that has been called returns, the merges it had to    *)
(* wait for included.                                                      *)
(***************************************************************************)
WriteReturns == \A c \in Clients : pc[c] = "lock" ~> pc[c] = "ret"

(* Liveness: a requested collection is carried out. *)
TriggerServed == trigger_my_gc ~> ~ trigger_my_gc

(***************************************************************************)
(* The layout of zns_device.h: data zones hold data copied from the log,   *)
(* new writes go to the log zones.  No write of a client changes a data    *)
(* zone.                                                                   *)
(***************************************************************************)
NewWritesGoToLog ==
    [][\A c \in Clients : pc[c] = "write" /\ pc'[c] # "write" =>
         \A z \in VZones : wp'[z] = wp[z]]_vars

============================================================================
