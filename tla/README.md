# Verification of the storage-systems stack

The repository is a storage-systems course project: programs that drive a zoned
NVMe namespace directly (milestone 1), a userspace flash translation layer (FTL)
that presents it as an ordinary block device (milestones 2 and 3), and a program
that tests a file system under RocksDB (milestones 4 and 5).  The code that is
its own is in `src/src/`.  Everything it asks of a device goes through
`src/libnvme`, which is in the repository too and of which the parts with logic
of their own are modelled; the other top-level directories are vendored.  This
directory holds TLA+ models, TLC configurations and TLAPS proofs.  Paths below
are relative to `src/src/` for the project's own code (`m23-ftl/zns_device.cpp`)
and to `src/libnvme/src/nvme/` for `ioctl.c`, `util.c`, `tree.c`, `fabrics.c`,
`types.h`; `PROJECT.json` has them in full.

## 1. Inventory

### 1.1 The FTL (`src/m23-ftl/zns_device.{h,cpp}`)

**State.**  `zns_metadata`: `log_zone_end` (the tail of the log), `zone_states`
(the FTL's own table of data zone states), `gc_mutex`, the condition variables
`start_gc` and `stop_gc`, the flags `gc_thread_stop` and `trigger_my_gc`.  Two
global `unordered_map`s: `log_zone_mapping` (byte address -> LBA in the log, one
entry per block) and `data_zone_mapping` (virtual zone -> first LBA of a data
zone).  Nothing is persisted but the zones themselves.

**Operations.**

| operation | what it does |
|---|---|
| `init_ss_zns_device` | opens the namespace, reads the zone report, optionally resets all zones, starts the GC thread |
| `zns_udevice_write` | locks `gc_mutex`; while the log is short of free zones asks for a collection and waits; appends (size < MDTS) or writes in pieces; enters each block in the log map; unlocks |
| `zns_udevice_read` | without a lock: looks each block up in the log map, then in the data map, reads it from the device |
| `trigger_gc` (GC thread) | waits for a request; sorts the log entries by virtual zone; merges each (`zone_merge`); resets the log zones; clears the log map; signals a waiting writer |
| `zone_merge` | per virtual zone: reads the old data zone, lays the log blocks over it, writes the result to an empty data zone and resets the old one; with no empty data zone it rewrites the old one in place |
| `deinit_ss_zns_device` | sets the stop flag, signals the GC thread, joins it, frees |

**Interaction.**  Caller threads and the GC thread share all of the above state.
Writers and the GC thread exclude each other by `gc_mutex`; readers and
`deinit` do not take it.

**What is hard.**  The hand-shake over two condition variables (lost signals,
spurious wakeups, the re-check after a wait, a stop flag set outside the mutex);
the order of read, write, mark and reset in a merge; the spare zone a full
device needs; the device's write pointer against the FTL's tail; commands that
fail half-way; readers without a lock; unsigned arithmetic in the watermark
test.

**What makes it correct.**  A read returns the block last written
(`ReadCorrect`, and as refinement `ImplementsBlockStore`); no acknowledged block
is lost at any point of a merge (`NoAckedDataLost`); the tail is never ahead of the
device (`TailNotAhead`); the spare zones stay empty (`WatermarkKept`); zone table,
mapping and device agree (`ZoneTable`); writers stay in the log
(`NewWritesGoToLog`); the mutex protects what it must (`MutexInv`, `QuietReads`); every write returns and every
requested collection happens (`WriteReturns`, `TriggerServed`); after a restart
the FTL's picture of the device is right and nothing disturbs the
initialisation (`ZoneTableWhenOpen`, `InitAlone`).

### 1.2 The other components of the project

| component | state and operations | hard behaviour | what makes it correct |
|---|---|---|---|
| zoned namespace (external: NVMe ZNS through libnvme) | write pointers and blocks; append, write, read, reset | commands are refused off the write pointer | a zone is written in order |
| milestone 1 device I/O (`m1/m1_assignment.cpp`) | stateless: I/O in pieces of MDTS, write, read, append, zone reset, MDTS lookup | transfers at, below and above a multiple of MDTS; a count that is stored less one in 16 bits; a limit that could not be read; errors in the middle | each block moved once and in order, in commands the controller takes (`TransferCut`) |
| milestone 1 tests (`m1/m1.cpp`) | test 1: a script of commands; test 2: a zone at once; test 3 (its call is commented out in `main`): a thread per zone, a stop flag that is polled, a shared error counter | stop against a last round; an append's result that is read before its status; patterns that cover nothing | no false alarm, every failure in the verdict, rounds are complete, all threads end (`NoFalseAlarm`, `VerdictCountsAll`, `RoundsComplete`, `ThreadsQuit`) |
| milestone 1 scan (`m1/device.cpp`) | walks libnvme's tree twice: counts, then fills a list | what is counted is not what is listed; devices come and go between the walks | the list is long enough (`ListFits`) |
| milestone 2 tests (`m23-ftl/m2.cpp`) | write, read back and assert a few addresses | the pattern test compares nothing for start values past the block length (`common/utils.cpp:46`) | a wrong block is noticed |
| milestone 3 tests (`m23-ftl/m3.cpp`, `m3_persistency_check.cpp`) | write the device and a side file, hammer random blocks, compare; the persistency check closes and re-opens the FTL in between | a call that fails leaves file and device different for the next | the file is what the device was given (`SideFileIsTruth`), every block is compared (`EveryBlockCompared`), no false alarm (`NoFalseAlarm`) |
| file-backed device (`m23-ftl/backup_zns_device_file.cpp`, only under `M3_BACKUP_FILE_IMPL`) | one `FILE*` and its position | two callers between seek and transfer | a block device |
| RocksDB program (`m45-rocksdb/m45_main.cc`) | writes the same entries to a test and a shadow database and compares; options `-D`, `-r`, `-S`, `-v`; run again and again on the same two | kills between the two puts or the two deletes; a file system that lies; what earlier runs left | the verdict is true, no false alarm, a kill tears one entry (`PassMeansStored`, `NoFalseAlarm`, `KillTearsOne`) |
| `S2FileSystem` | opens the FTL in its constructor; every operation is a stub returning `IOError` | none | none stated; `M45` has it as the file system that fails at opening |
| `DummyFSForward`, registration, `m-atr-code/main-threaded.cpp` | forwards calls printing a number; a factory; a few comment lines | none | none |
| helpers (`common/`) | test patterns; the decoder of command statuses; clocks, hex dumps, printing | the decoder's tables of codes | a status has one text and every status one (`ErrorsTold`) |

### 1.3 libnvme

| component | state and operations | hard behaviour | what makes it correct |
|---|---|---|---|
| commands (`ioctl.c`, `ioctl.h`, `types.h`) | stateless: some 90 functions build the six command dwords of a pass-through | shifts, masks and widths; opcodes that tell the kernel which way the data goes; structures the answer is put in | arguments arrive whole and where they belong, the answer fits (`ArgumentsArrive`, with `AnswerFits`) |
| calls of several commands (`util.c`) | fetching a log whose header tells its length, in pieces; firmware in pieces; statuses to error numbers and texts | the log changes, or another host reads it, between pieces; lengths off a multiple; flags in a status | logs and firmware arrive whole, events are retained or acknowledged as asked, every error is told (`WholeLog`, `EventAsAsked`, `BytesExact`, `ErrorsTold`) |
| fabrics (`fabrics.c`) | fetch of the discovery log with retries; the options of a controller; connecting an entry of the log | the log changes between header, records and second header; a connect that is repeated for old kernels; failures after the kernel has connected | one generation is handed out, no change is missed, errors have a cause, options arrive (`SnapshotOfOneGeneration`, `FreshOrNotified`, `ErrorsExplained`, `OptionsArrive`) |
| tree and scan (`tree.c`) | hosts, subsystems, controllers, namespaces, paths, with descriptors; scan, rescan, connect, disconnect, unlink, free | hotplug between two looks at the kernel; lookups that decide whether an object is new; ownership of descriptors on error paths | the tree mirrors the kernel, an object is made once, descriptors have one owner (`ScanMirrors`, `OneObjectEach`, `WellFormed`, `CrashExplained`) |
| the rest | `json.c` (optional build), logging, accessors, ccan | none | none |

**How the parts interact.**  `m45` (through RocksDB and the file system under
test), `m2` and `m3` call the FTL; the FTL and `m1` call the command functions;
`m1`'s scan walks libnvme's tree, which calls the command functions.  `Ztl` and
`M1` share the device model `ZNS`; `M3Verify` stands on any block device, as
`BlockStore` states it; `M45` on any two databases.  `PROJECT.json` lists each
component with its status, and under `hazards` what is hard to test, each at
its line.

## 2. Modules

| module | content |
|---|---|
| `ZNS` | the zoned namespace (external), and the cutting of requests at MDTS as the FTL does it |
| `Ztl` (extends `ZNS`) | the FTL: writers, readers, GC thread, deinit; its properties |
| `ZtlLifecycle` (extends `Ztl`) | `init_ss_zns_device` step by step, the end of the process at any point, opening again |
| `BlockStore` | abstract specification: what a user of `zns_device.h` is promised |
| `ZtlBlockStore` (extends `ZtlLifecycle`) | the refinement mapping; `ImplementsBlockStore` |
| `MCZtl` (extends `Ztl`), `MCLifecycle` (extends `ZtlBlockStore`) | symmetry sets for TLC |
| `M1` (extends `ZNS`) | milestone 1: cut transfers, tests 1 to 3 |
| `M3Verify` | the verification programs of milestone 3, over any block device |
| `M45` | the RocksDB program, over any two databases |
| `NvmeTypes` | the structures of `types.h`: where each field lies, how long each is |
| `NvmeCmd` | the table of command functions: which bit of which dword carries which bit of which argument |
| `NvmeArgs` (extends both) | the declared widths, opcodes, log pages; what is lost on the way |
| `NvmeStatus` | statuses to error numbers and texts, in libnvme and in this repository's decoder |
| `NvmeUtil` (extends `NvmeArgs`, `NvmeStatus`) | single commands, log fetches, firmware downloads, byte-addressed I/O, under a changing controller and other hosts |
| `NvmeDiscovery` | the discovery log and the connecting of its entries |
| `NvmeTree`, `MCTree` | libnvme's tree and the two programs of `device.cpp` that walk it; the instance TLC checks |
| `ZNSProofs`, `ZtlProofs`, `M1Proofs`, `M3Proofs`, `M45Proofs`, `DiscoveryProofs`, `UtilProofs`, `TreeProofs` | lemmas, inductive invariants and theorems |

### 2.1 How `Ztl` corresponds to the code

*Units.*  Addresses, sizes and LBAs are numbers of blocks.  The code counts
addresses in bytes and rejects sizes that are not a multiple of the block size
(`RejectedCall`).  Every zone address in the code is `zone * n_blocks_per_zone`
with `n_blocks_per_zone = zcap`, so zone size and capacity are one number.

*Steps.*  A thread has a program counter (`pc[c]`, `gpc`, `dpc`); one step is
what the thread does between two points at which another thread can see or
change what it uses.

| code | actions |
|---|---|
| `zns_udevice_write` | `WriteCall`, `WriteLock`, `WriteWait` (the flag, the signal, and the unlock of `pthread_cond_wait`), `WriteGo`, `WriteAppend` / `WriteAppendFail`, `WriteLarge` / `WriteLargeFail`, `WriteMap` once per block, `Return` |
| `zns_udevice_read` | `ReadCall`, then per block `ReadFind` (`find`), `ReadEntry` (`operator[]`, which inserts 0 when the entry has gone), `ReadData`, `ReadDev` / `ReadDevFail` |
| `trigger_gc` | `GcLock`, `GcIdle` (the test) and `GcWait` (the wait) as two steps, `GcExit`, `GcCollect`, `GcResetLog`, `GcClear` |
| `zone_merge` | `GcZone` (one round up to its write; rounds come in any order, as `unordered_map` gives them), `GcWrite`, `GcResetOld`, `GcResetInPlace`, `GcRewrite`, `GcResetSpare`, their `...Fail` actions, `GcZonesDone` |
| `deinit_ss_zns_device` | `DeinitStop`, `DeinitSignal`, `DeinitJoin` |
| `init_ss_zns_device` | `InitOpen`, `InitReset`, `InitReport`, `InitThread`, `InitResetAgain`, `InitFail` (`ZtlLifecycle`); `Ztl` itself starts where it has returned for the first time |
| the process ends or is killed | `ProcessEnds` (`ZtlLifecycle`): all memory is lost, the zones stay |
| `pthread_cond_wait` returning without a signal | `SpuriousWake`, `GcSpuriousWake` |
| device commands that fail by themselves | `Fault`, in at most `MaxFaults` steps, in every command; of the resets of one step whose results are ignored, any may silently not happen (`ResetIgnored`) |

*History.*  `last[a]` is the block last written to `a`; no action's guard looks
at it.

*Widths.*  `free_zone_number` subtracts in `uint32_t`: the model wraps at `U32`.
The top bit that `trigger_gc` leaves in a log entry is `Bit63`.  Both are scaled
down but larger than any number that does not wrap (`FtlAssumption`).

*Data races.*  `unordered_map::find` racing with an insert or `clear()` may miss
an entry (`LogMapBusy`), and `operator[]` after a `clear()` inserts 0.  What
else the race could do (a crash inside the map) is not modelled.

*Memory.*  A read of MDTS or more asks for the full size for every block and
runs past the end of the caller's buffer; the model keeps the part inside.

### 2.2 The abstract specification

`BlockStore` has a store, and calls that start, take effect at one moment, and
return; `Format`, a forced start, empties the store and forgets the calls.  No zones, log, merges or threads.  A block never written reads as
anything (`m3.cpp:126`: "random garbage").  `ZtlBlockStore` maps the store to
`View`: what the FTL would bring back now, from the merge buffer while a data
zone is being rewritten in place, from the log, or from the data zone.  So every
step of a merge, each reset and each table update has to leave every view as it
was, and a forced start maps to `Format`.

### 2.3 How `M3Verify` corresponds to the code

`program` is the list of calls `main` makes; `m3.cpp`'s version of
`wr_full_device_verify` is the one of `m3_persistency_check.cpp` with both flags
set.  One step is one round of a loop (`WriteOnce`, `Hammer`, `Compare`), or
what is before and after the loops (`Begin`, `HammerDone`, `Done`).  `addr_list`
is any order of the blocks.  A fault is a call of the device or of the file
system that fails, with or without an effect, or a read that returns another
block than it should; a failed read ends the program (`assert`).  The device is
not the FTL of `Ztl` but any block device: what is checked is the judge.

### 2.4 How `M1` corresponds to the code

`mode` is which of `main`'s two uses is looked at: tests 1 and 2 one after the
other, or test 3.

| code | actions |
|---|---|
| `main`: open, identify, report, draw a zone | `Setup` |
| test 1, a list of commands with and without `assert` | `Script` is the list; `Test1Step`, `Test1Fails` |
| test 2 | `Test2Begin`, `Test2Reset`, then two requests |
| `ss_nvme_device_io_with_mdts` | one command per step: `IoCommand`, `IoFails`, `IoDone` |
| `test3_threaded_parallel` | `Spawn`, `Sleep`, `StopThreads`, `Join` |
| `test3_zoneX_full_io_test` | `ThreadCalloc`, `ThreadLoop` (flag and reset), `ThreadWrite`, `ThreadCheckAppend`, `ThreadCheckStatus`, `ThreadRead` |

The size of a block and MDTS are variables of the run, so that the cutting is
checked for every pair of them.  What the code leaves to chance is a choice:
`_xappend` after a failed append is what the stack held.  `Descriptor(0)` is the
header of the zone report, which test 2 takes for a zone.  `identified` is
`ctrl.mdts` as `get_mdts_size` has it: the controller's, or 0 where the identify
command failed, which the function prints and then forgets.  Where the registers
cannot be mapped, because descriptor 0 is not the device or a call fails, the
program ends in `abort`: it reads through the null pointer.

### 2.5 How `M45` corresponds to the code

A step is one call of RocksDB: `DeleteTest`, `DeleteShadow`, `OpenShadow`,
`OpenTest`, `PutTest`, `PutShadow`, `Compare`, `Close`; `Start` is the reading of
the options, `Fill` the drawing of entries (any map), `PutDone` the end of the
loop.  `Kill` ends the program anywhere, `Start` runs it again with any options on
what is left.  A failing put of the test database may also report success and
store nothing or another value: that is what the program is there to find.

### 2.6 How the `Nvme` modules correspond to libnvme

*Commands* (`NvmeCmd`, `NvmeArgs`, `NvmeTypes`).  A command is the set of tuples
`<<dword, bit, argument, bit of the argument, less>>`, so one table speaks of all
values; `less` tells a bit of the argument from a bit of the argument less one, as
counts are stored (`ZeroBased`).  `Calls` has an entry for each function, written as the function is:
`NVME_SET`, `Numd`, masks and shifts are operators with the code's names.
`Lost` is computed from the table and the declared widths.  A structure is the
sequence of its runs of equal fields; `Tight` says that a compiler adds nothing.

*Several commands* (`NvmeUtil`).  The controller keeps all generations of a log
(`lens`), an event that latches it, and firmware dwords; `Change`,
`OtherCreates`, `OtherReads` are the controller's and other hosts' steps, possible
at every moment.  `Fetch`, `ReadHeader` / `CreateHeader`, `Transfer` and
`FetchFails` are `nvme_get_telemetry_log`, `nvme_get_lba_status_log` and
`__nvme_get_log_page`; `Download`, `SendPart`, `Downloaded`, `PartFails` are
`nvme_fw_download_seq` over `nvme_fw_download`; `SpaceIo` is `nvme_bytes_to_lba`
and what calls it; `Invoke` and `Complete` any single command; `Explain` a status
and its decoders.  `page` is which log a caller works with; it stays.

*Fabrics* (`NvmeDiscovery`).  `GetLog`, `HeaderRead`, `BodyRead`, `Reread` (with
`NextUnit` for the transfers between) are `nvmf_get_discovery_log`: a step is one
transfer, and the log may `Change` before each.  `Discover` and `ConnectEntry` are
`nvmf_add_ctrl` up to the write to `/dev/nvme-fabrics`, `Write`, `WriteFails`,
`AnswerFails` and `Answer` the rest of it; `merge_config` and `build_options` have
the code's names, and a set of options stands for the ones with a value of their
own.

*Tree* (`NvmeTree`).  A step is what the library does between two looks at the
kernel (`readdir`, an attribute, `open`); `Hotplug` may come between any two.
Functions of `tree.c` give the actions their names (`nvme_scan_subsystem`,
`nvme_ctrl_alloc`, `nvme_configure_ctrl`, ...); `ScanSpaces`, `ScanCtrls`,
`ScanPaths` and the like are the `scandir` calls in between.  `Connect` is what a
program does that connects: `nvme_default_host`, `nvme_create_ctrl`, and the
`nvmf_add_ctrl` that the kernel accepts (`ConnectClash` where the lookup of that host crashes);
then `InitConfigure` and what follows are `nvme_init_ctrl`.  Lists are sets of
records with an id that tells the order.  `open` counts descriptors;
`overwritten` those that were lost.  `CountCtrls` and `ListSpaces` are the two
functions of `device.cpp`.

## 3. Runs

| run | instance | what it shows |
|---|---|---|
| `reads` | 1 client, 2 log + 2 data zones of 2 blocks, 2 payloads; the process is killed and started again with `force_reset` at any point | the FTL is the block store, reads included, whatever the collector does; readers get by without the mutex because the collector only works while the only client waits in a write; a new life starts with a right zone table and undisturbed by the GC thread it has already created |
| `merge` | 1 client, 3 log + 2 data zones of 2 blocks | relocation and rewriting in place lose nothing; spare zone and zone table stay right; no call or merge ever fails by itself |
| `two_writers` | 2 clients, 4 log + 2 data zones of 1 block, 2 payloads | two writers out of log at once: the re-check after a wait; no acknowledged block is lost |
| `faults` | 1 client, requests of 1 and 2 blocks (MDTS = 2, so both paths), any 2 commands fail | who holds the mutex, the tail never ahead of the device, writers stay in the log |
| `live` | 1 client, fair | every write returns, every requested collection is carried out |
| `tail` | requests of 1 and 2 blocks, MDTS = 3; violated | after an append of 2 blocks the tail is one behind and the next block is mapped to the wrong LBA |
| `m3` | 3 blocks, 2 payloads, 2 hammer rounds, 2 faults, both programs | whatever failed before, a call that wrote compares with what the device was given; it compares all; no false alarm |
| `m1` | 2 zones of 5 blocks, blocks of half and one page, MDTS exponents 0 to 4, 2 threads, 2 faults; fair | every cut moves each block once in commands the controller takes, but where the limit is not stated or was not read and blocks are larger than half a page; tests fail only for the reasons named in `NoFalseAlarm`; test 3 counts every thread that fails and all threads end |
| `m45` | 2 keys, 2 values, 3 runs with any options, 1 kill, 1 fault | a run that passes has stored its entries; no false alarm; a kill tears one entry |
| `discovery` | logs of up to 2 records, 2 changes, 1 fault, 2 fetches, 2 retries, all kinds of entries | what is handed out is one generation and current or announced; why a fetch or connect fails; the kernel is told what the user asked |
| `commands` | all command functions, 510 statuses, logs of up to 5 units in transfers of 2, 2 changes, 1 fault, 2 calls | arguments, logs, firmware and bytes arrive whole but where the properties say they do not; events; every error told |
| `tree` | a PCIe controller, and TCP and loop controllers sharing a subsystem; 3 namespaces, 1 hotplug, 3 calls of any kind | a scan mirrors the kernel; descriptors and paths have owners; where it crashes; when an object appears twice; when the list of `device.cpp` is too short |

*Bounds of the FTL runs.*  Two data zones make every case of a merge happen: an
empty one to relocate to, none left (the rewrite in place over the spare log
zone), and two virtual zones in one collection.  Zones of two blocks tell "start
of zone" from "offset in zone" and let a merge mix an old data zone with log
blocks.  A log of three zones with `Watermark = 1` leaves two in use, so the log
crosses a zone boundary before a collection.  Payloads are two where a property
could confuse blocks of one address, one where the positions already tell them
apart (a block that was never stored is `Zero`).  Sizes in the `merge` and `reads`
runs are one block because the multi-block append breaks the tail (run `tail`);
what holds in spite of that is checked in `faults`.  Requests of size 0 are not
issued.

*Bounds of the others.*  `M3Verify`: three blocks and two faults let a call fail
half-way, its side file survive, and the next call meet it; no call depends on
more.  `M1`: five blocks are what test 1 reads at once, and with the block sizes
and MDTS values a zone is below, at and above a multiple of the transfer; `U16` is
scaled to 16, above all counts that do not wrap.  `M45`: the third run meets what
the second made of what the first left; two keys let a kill fall between entries.
Discovery: two changes meet both reads that must agree and one round more; the
second fetch meets the first one's event.  Commands: five units in transfers of
two make a first, a middle and a short last one; the sizes of firmware, pieces and
offsets are whole dwords and not, below, at and above one piece; the counts are
below, at and between blocks of four bytes.  Tree: two controllers of a subsystem
are needed for everything about lookups and paths; three calls are scan, something,
scan again.  One of the two names a host with an id and the other the same host
without, and the default host has a third id, so that a lookup fails, crashes and
finds.

*Fairness.*  `Ztl`: each thread that can take a step takes one (weak fairness of
the steps of a call and of the GC thread, which the scheduler gives).  The two
lock steps are strongly fair: a waiter woken spuriously over and over may hold the
mutex at each look, and a mutex that passes the same thread over for ever would
be required otherwise.  Nobody must call, and neither spurious wakeups nor
`DeinitStop` are fair.  `live` has one client: with two waiting writers one
`pthread_cond_signal` wakes only one, and the other may sleep until somebody
else collects again.  `M1`: `main` and each thread take their steps (weak
fairness); nothing forces a fault.

*Deadlock* is checked wherever the system can always go on (`Terminated` in `Ztl`
and `Ended` in `M1` let it stop where it really ends).  It is not in `faults`,
where a failed write keeps the mutex and everything really stops; in `discovery`,
`commands`, `tree` and `m45`, whose calls and runs are bounded and whose programs
then have nothing to do (or have crashed); and in `tail`, which is about its one
property.

### 3.1 What the models show to go wrong, besides `tail`

Each of these is in a model, and named there by the property that excludes it or
by a comment; they have no run of their own.

* *A failed append keeps `gc_mutex`* (`zns_device.cpp:548`): every later write,
  the GC thread and `deinit` block, and nothing is written any more
  (`FailureFreezes`).  `MutexInv` allows it to a failed writer.
* A write of MDTS or more does not move `log_zone_end`; the next write maps to
  the same blocks, and a large write into a zone already begun is refused.
* One unmapped block of a read clears the blocks read before it
  (`memset(buffer, 0, size)`, `return 0`).
* A write that needs more zones than the log has wraps `free_zone_number` and
  is let through; one of between `log_zones - gc_wmark` and `log_zones` zones
  collects for ever (`RoomAfterCollection`).
* *Milestone 3*: `remove()`'s result overwrites the verdict at `done:`
  (`m3.cpp:192`), a failure is returned as 0.  The persistency check compares, after
  re-opening, with a side file that the call before removed: it finds zeros on both
  sides and never compares anything that was written; its fourth result is not part
  of the verdict (`m3_persistency_check.cpp:301-327`).
* *Milestone 1*: test 2 may draw index 0, the header of the report, and then
  fails with `-ENOSYS`; the last zone is never tested (`m1.cpp:408`).
  `get_mdts_size(0)` looks at descriptor 0, not at the device, and crashes unless
  they are the same.  It returns half a page where the controller
  states no limit, and also where the identify command failed, which is only
  printed (`m1_assignment.cpp:213`); with larger blocks the number of blocks is then
  0, `nlb` wraps to 65536 blocks and the request is refused (`CommandsFit` is an
  equivalence that says so).  Test 1's read of five blocks is not cut, and all its blocks hold
  the same pattern, so that it would not see them swapped.
* *RocksDB program*: `-r` creates a test database that is not there
  (`m45_main.cc:221`); `-S` prints differences and returns 0; `-v 0` gives a value a
  negative length and throws; a kill between the two deletes of `-D`, or a run with
  `-S`, makes a later comparison fail.
* *Command arguments*: those in `Misplaced` (`NvmeUtil`) do not reach the
  device: they are put into the wrong bits, cut, swapped or left out.  Those in
  `Narrowed` are cut silently where they are too large (more than 256 ranges of a
  copy, odd bits of its flags declared `int`, UUID indices above 127).
  `nvme_identify_iocs` and `nvme_nvm_identify_ctrl` ask for the same and expect
  different structures; `nvme_identify_ns_descs` is declared to take one descriptor
  and transfers 4096 bytes; lengths below 4 wrap the number of dwords.
* *Log fetches*: without a telemetry log, or with an empty LBA status log, the
  event stays although the caller did not ask for that.
* *Firmware*: offsets and sizes off a dword lose bytes, a piece of 0 bytes never
  ends.
* *Byte-addressed I/O*: `nvme_bytes_to_lba` tests one bit where it means a
  remainder: odd block numbers and counts are refused, some unaligned ones let
  through, and a count below a block becomes 65536 blocks (`tree.c:1242`).
* *Statuses*: `FW_NEEDS_RESET` gives `EIO` where its three siblings give
  `ERESTART`; for a fabrics command ordinary command-specific errors become `EIO`.
  This repository's decoder lacks the codes in `Unexplained` and gives fabrics codes
  their NVM meaning.
* *Discovery*: one change between the two headers that also changes the number
  of records gives `EBADSLT` though retries are left.  After a failed fetch
  the event may be gone already.  `ctrl_loss_tmo` of the user never reaches the
  kernel (a fresh object has 0, and only 600 is replaced), and `disable_sqflow` is
  what the log entry says.  A failure after the kernel has connected leaves the
  connection without an owner, and with `EINVAL` it is connected a second time.
  The case for FC falls through into the one for loop.
* *Tree*: an attribute that is gone is duplicated as `NULL` (`:1125`); a return
  value below zero is used as a count (`:983`); `strcmp` of a host without an id
  (`:333`); a rescan overwrites the descriptor it has and makes every namespace
  again (`:1028`, `:1227`); the name of an interface loses its first letter
  (`:1139`), so that a controller is not found again.  The list of `device.cpp:108`
  has as many elements as there are controllers and is filled by namespaces.

### 3.2 Hazards that need another instance

These can be seen with the modules as they are, in instances no run repeats.

* *`deinit` hangs*: it sets the stop flag and signals outside `gc_mutex`
  (`zns_device.cpp:328`).  Between the GC thread's test and its wait the signal is
  lost and `pthread_join` waits for ever: with `DeinitStop`, `DeinitSignal`,
  `DeinitJoin` under `FairSpec`, `dpc = "join"` need not be left.
* *Closing and opening in one process*: `ZtlLifecycle` with `SameProcess = TRUE`.
  The maps are globals and outlive `deinit`; after a forced start a merge
  resets the zone it has just written (`:343`), and `ZoneTableWhenOpen` is broken in
  the instance of `reads`, which has `FALSE`.
* *A merge that fails*: with one fault (`MaxFaults = 1` in the instance of
  `merge`, deadlock unchecked because of the mutex) the log is emptied all the same
  (`:306`), and `NoAckedDataLost` is broken.
* *A start without `force_reset`* (`-r : resume if the FTL can`) puts the tail
  at 0 with empty maps while the zones hold data: nothing is resumed, and appends
  land elsewhere than the map says (`ForceReset = FALSE`).

## 4. Proofs

`ASSUME`d are only the constants' assumptions: `GeometryAssumption` (`ZNS`) and
`FtlAssumption` (`Ztl`): positive zone count, capacity and MDTS,
`1 <= Watermark < LogZones < NumZones` (the tests refuse `-w 0`, `m3.cpp:265`),
distinct threads, request sizes within a buffer, and `U32`, `Bit63` above every
number that does not wrap; `M1Assumption` (sizes, sets of limits and patterns of
milestone 1); `M3Assumption` (at least one block); `M45Assumption`
(finitely many keys, at least one); `DiscoveryAssumption` and `UtilAssumption`
(natural numbers, positive lengths, transfers and blocks); `TreeAssumption` (finitely
many controllers, numbered, as subsystems are, in the order in which `scandir` gives
them; `Absent` is not one of them; an address has its three components; the default
host is a host).  Everything else (clients,
sizes, failing commands, zones, payloads, runs, kills, changes, retries) is
arbitrary, but for the hypotheses that a theorem names; each of those is satisfied
by a run of §3 and is there because the statement is false without it (below).

| module | theorem | statement |
|---|---|---|
| `ZtlProofs` | `Inductive` | `Spec => []IInv` |
| | `TypeCorrect` | `Spec => []TypeOK` |
| | `MutualExclusion` | `Spec => []MutexInv` |
| | `TailBehindDevice` | `Spec => []TailNotAhead` |
| | `SpareZonesEmpty` | `Spec => []WatermarkKept`, for requests of at most a zone |
| | `ClientsWriteLog` | `Spec => NewWritesGoToLog`, for requests of at most a zone |
| | `ZoneTableKept` | `Spec => []ZoneTable`, for requests of at most a zone, no command failing |
| | `MergeComplete` | `Spec => [](gpc = "reset log" => todo = {})`, under the same |
| | `ReadsUndisturbed` | `Spec => []QuietReads`, for one client |
| | `NothingFails` | `Spec => []NoFailure`, for writes of one block, reads below MDTS, no command failing |
| | `DataKept` | `Spec => []NoAckedDataLost`, for writes of one block, no reads or one client, no command failing |
| | `ReadsReturnLast` | `Spec => []ReadCorrect`, for one client with single blocks, no command failing |
| | `InitUndisturbed` | `LifeSpec => []InitAlone` |
| | `ZoneTableInEveryLife` | `LifeSpec => []ZoneTableWhenOpen`, for requests of at most a zone, no command failing, `force_reset`, a new process |
| | `StoreImplemented` | `LifeSpec => ImplementsBlockStore`, for one client with single blocks or any number of writers of them, under the same |
| | `NoTriggerMissed` | `Spec => []TriggerSeen` |
| | `NoWaitInVain` | `Spec => []WaiterServed`, for one client |
| | `MergesEnd` | `Spec => [][WorkShrinks]_vars /\ []MergeGoesOn` |
| | `RoomAfterCollection` | `Spec => [][EmptyLogServes]_vars` |
| | `FailureFreezes` | `Spec => [][Frozen]_vars` |
| `M1Proofs` | `ThreadsInductive` | `Spec => []ParallelInv` (`TypeOK` among it) |
| | `ErrorsAllCounted`, `RoundsEndFull` | `Spec => []VerdictCountsAll`, `[]RoundsComplete` |
| | `ThreadsEnd` | `Spec => []StopInv /\ [][RoundShrinks]_vars` |
| | `TransferInPieces` | `Spec => []TransferCut`, for limits that `SizesFit` |
| | `NoAlarm` | `Spec => []NoFalseAlarm`, for limits that `SizesFit` and zones of at least five blocks |
| `M3Proofs` | `VerifyInductive`, `VerifyTypes` | `Spec => []IInv`, `[]TypeOK` |
| | `FileIsTruth`, `AllCompared`, `NoAlarm` | `[]SideFileIsTruth`, `[]EveryBlockCompared`, `[]NoFalseAlarm` |
| `M45Proofs` | `DriverInductive`, `DriverTypes` | `Spec => []IInv`, `[]TypeOK` |
| | `VerdictTrue`, `NoAlarm`, `KillsTearOneEach` | `[]PassMeansStored`, `[]NoFalseAlarm`, `[]KillTearsOne` |
| `DiscoveryProofs` | `DiscoveryInductive`, `DiscoveryTypes` | `Spec => []IInv`, `[]TypeOK` |
| | `OneGeneration`, `NoChangeMissed`, `OnlyForCause`, `KernelIsTold` | `[]SnapshotOfOneGeneration`, `[]FreshOrNotified`, `[]ErrorsExplained`, `[]OptionsArrive` |
| | `LostConnections` | `[]NoLostConnection` |
| `UtilProofs` | `UtilInductive` | `Spec => []IInv` |
| | `TransfersFit`, `LogsAreWhole`, `EventsAsAsked` | `[]BufferSafe`, `[]WholeLog`, `EventAsAsked` |
| | `CallsInductive`, `UtilTypes`, `UtilWellFormed` | `Spec => []CallsInv`, `[]TypeOK`, `[]WellFormed` |
| | `FirmwareInPlace` | `Spec => []FirmwareWhole` |
| | `BytesMoved` | `Spec => []BytesExact`, for requests of at most 65536 blocks |
| | `EveryErrorTold` | `Spec => []ErrorsTold` |
| `TreeProofs` | `TreeInductive` | `Spec => []IInv` |
| | `TreeWellFormed`, `CrashesExplained` | `[]WellFormed`, `[]CrashExplained` |
| | `MirrorInductive` | `Spec => []MirrorInv` |
| | `ScanIsMirror`, `ListLengths` | `[]ScanMirrors`, `[]ListFits` |
| | `OriginsInductive`, `OneEach` | `Spec => [](CallAt /\ OriginInv /\ SpacesInv)`, `[]OneObjectEach`, for a machine with a hostid and addresses that do not fit each other |

*The FTL: why a strengthening.*  `TypeOK` is not inductive: that `log_zone_end`
and the LBA a writer maps stay inside the device follows from where appends go,
that `idx` stays in range from the size of the call, that `prev_zone` is a data
zone where a rewrite needs it from the merge's own state.  `TailNotAhead` needs to
know that nobody else appends while a writer is between its append and its
unlock, which is `MutexInv`, and that the log is cleared only after its zones
were told to reset (the reset may fail, which leaves the pointer ahead of the
tail, never behind).  `IInv` is the conjunction of `TypeOK`, `MutexInv`,
`TailNotAhead` and the parts named in `ZtlProofs` (`CallInv`: a call's progress
against its size; `MergeInv`: the merge's local variables against `gpc`;
`TailInLog`: where the tail may be).  `ZNSProofs` gives the arithmetic of zones and
LBAs and the effect of an append, write and reset on one zone; each part of `IInv`
has lemmas per group of actions.  `SpareInv` adds to `IInv` that a writer past its
check fits above the watermark (`WriterSize`), from which `WatermarkKept` follows:
the append is in a zone below the spare ones, and the merge leaves the spare empty
once it has reset it.

*The merge.*  `ZoneTable` speaks of the points between two zones of a merge; inside
one it is false by design.  `TableInv` says what holds there instead: which of the
chosen zone, the spare and the rewritten one the device holds at each value of
`gpc`, with the tables as they are updated one after the other.  It also keeps that
the zones still to be merged are exactly the virtual zones with blocks in the log,
so that none is left when the log is emptied (`MergeComplete`).  `QuietInv` is the
argument why a single reader needs no lock: the collector works only between the
signal of a write that waits and the end of that wait, and the one client cannot be
in both.  `CalmInv` adds that nobody is at, or has met, a failure: each append is at
a pointer that leaves room for it, each write of a merge is to an empty zone.
The hypotheses are needed, and TLC shows it on the instances of §3: writes of two
blocks break `NoFailure` with zones of two blocks and `NoAckedDataLost` with
zones of three; one failing command breaks `ZoneTable` and `NoAckedDataLost`.

*No block is lost.*  Every acknowledged block is held in one place that the maps
lead to: the log while its mapping is there, else the data zone of its virtual
zone, else (while that zone is merged) the merge buffer and the spare.  `DataInv`
says which, for every logical block and every `gpc`; `HeldView` derives
`NoAckedDataLost` from it.  A block that a writer has appended and not
mapped belongs to the call that is under way.  Two clients that read as well as
write break it (five zones, three of them log, of one block each): the `operator[]` of a
read whose entry has gone inserts an address of 0, which the next merge takes for
a block.  Hence the hypothesis `ReadSizes = {} \/ OneClient`.

*Lives and refinement.*  Between the end of one life and the end of the next
`init_ss_zns_device` there is one thread, and `ClosedInv` says what it and the sleeping
GC thread may touch: that gives `InitAlone` with no hypothesis.  After
`force_reset` in a new process the state is one that satisfies each part of the
FTL's invariant anew (`AwakeFresh`), whichever step the process before was killed at;
in the same process the old maps survive, and without the reset the old zones,
and TLC refutes `ZoneTableWhenOpen` in both cases.  The refinement maps the store's
contents to what was acknowledged last.  `LifeInv` joins the parts above; under
it each step of the FTL is the store's `Start`, `Write`, `Read`, `Reject` or
`Return` or, as all steps of a merge are, a stutter, and the death of a process is
its `Format`: it forgets what the reset will erase.
Several writers are no different from one: a write takes effect at one moment, its
`WriteMap`, when it has the mutex, and `WriterOKStep` keeps what it knows until then
against the steps of the others.  Reads beside another client are left out for a
reason: they look at both maps and the device at three moments, without the
mutex, and a collection may come between.

*What liveness rests on.*  Besides fairness the liveness properties need only
safety, and that is proved.  No request for a collection is slept through: the flag is
set under the mutex that the GC thread keeps from its test to its wait
(`TriggerSeen`).  A waiting client's request stands until the collection is over, and
nobody but the two wants the mutex (`WaiterServed`; false with a second writer).
A collection lowers `MergeWork`, at most `8 * (NumZones - LogZones) + 7`, at each
of its steps, nobody else adds to it, and each of its writes goes through or is
refused, so that it never waits (`WorkShrinks`, `MergeGoesOn`).  The client then
finds the log empty and goes on unless its request is `TooLong`
(`EmptyLogServes`), which those of `live` are not.  `Frozen` is why `live` has no
faults: after a failed write the mutex is never free again.  In milestone 1,
`RoundWork` is at most `4 * ZoneCap + 1` once the flag is up, and falls with each step
of its thread.  What TLC adds is the rule of fairness: a thread that can take a
step until it does, takes it.

*Milestone 1.*  The threads of test 3 share the device and the count of errors.
`RoundInv` ties the write pointer and the blocks of a thread's zone to where the
thread stands in its round; a step of one thread leaves the zones of the others
alone because each has one of its own (`ThreadZone`).  `VerdictInv` counts the joined
threads that failed.  For the chunk loop, `Cut` says how far the
commands issued so far have moved the request.  Where the limit is not stated, or was not read
because the identify command failed, half a page is taken for it: that cuts as any
limit does as long as a block fits, and `Unlimited` is the case where none does.
`nlb` is then that of 65536 blocks, which the device refuses.  `Overrun` is the way
the request can still go on: a controller that takes so large a command, and a zone
with room for it.  At most one such command is taken and the next one refused, so
that test 2 never passes on it (`ZoneMoved`).  `SizesFit` (each limit is a multiple of the block size, and either `nlb`
can count it or no zone is longer than `nlb` can count) is needed: TLC refutes
`TransferCut` with a limit of 2 and blocks of 3, and with a limit that `nlb` cannot
count.  `ScriptInv` follows tests 1 and 2 line by line; they use five blocks of a
zone, and a zone of four makes `NoFalseAlarm` false.

*The verification programs.*  `SideFileIsTruth` speaks of the last loop only;
`SideInv` says what holds while the writing loops run (file and history agree on
the blocks already visited).  `NoFalseAlarm` needs `QuietInv`: as long as nothing
has failed the side file does not outlive its call, and before a call that reads
without writing the device has just been re-opened, which is a fact about the two
programs (lemma `Calls`), so both sides hold zeros.

*The RocksDB program.*  `PassMeansStored` speaks of the end of a run.  `PassInv`
follows the loops: what is written so far is in the shadow database, and what is
compared so far is the same in the test database.  `TornInv` counts: a step that
kills adds at most the key between the two puts, and a put that completes removes
it, for which the lemmas on cardinalities of `TornOf` are there.  `PutInv` ties the
key of the second put to the entry of the first.

*Discovery.*  While the records are read, the generation of the header is the
oldest in the buffer, and every round has met one more change (`BodyInv`); when the
header is read again its generation is the newest (`RereadInv`).  That the two are
equal then makes all of them equal.  That no change is missed is the other half of
it: the newest is the current one or the event is pending.  `ConnectInv` says how
the options of the object follow from the user's, also the second time.

*Log fetches.*  While nobody interferes the log that the header told of is the
current one, kept by the event that only the last transfer lets go, and each unit
read so far is of it (`BodyInv`).  `Xfer` moves at least one unit and none beyond the
end (`XferBounds`), so that the last transfer is the one that ends at the size.

*Firmware and byte-addressed I/O.*  `FirmwareWhole` is an equivalence, so both halves
need a reason.  `ImageInv` says what each dword holds after the parts
sent so far (`PartsInv`): if offset, size and parts are whole dwords, each byte is at its place; if
not, either the second part starts at a dword that is not its own, or the
last bytes are in no part.  A later part never mends an
earlier one.  In `BytesMoved` the hypothesis is the width of the 16 bits that
`nlb` has: a request of 65537 blocks is sent as one of 1, so that the statement is false
for it; the constants of the run `commands` satisfy it.

*Statuses.*  A status is a type and a code (`Decoded`), and the flags above bit 10
change neither (`FlagsDoNotMatter`).  Each text is determined by the table it is
in and the code (`TextOf`), so two statuses with one text are one (`TextsApart`).
`DecodersAgree` compares the list of `nvmeprint.cpp` with the tables of
`util.c` type by type; `Unexplained` is what remains.  The lemmas are about all
2048 statuses, the run about those it explains.

*The tree.*  Objects are told apart by ids that only grow (`HostsOK`, `SubsOK`, `CtrlsOK`, `NssOK`, `PathsOK`),
so that what an operation adds refers to something and what it frees takes with it
all that refers to it (`Joined`).  `Owned` counts the open descriptors: one per
controller that has one, one per namespace, and those a rescan has
overwritten.  Between two looks at the kernel the library keeps pointers; `Found` says
that they lead to objects that are still there, at each place of the scan, and `Steady` what the last
look still guarantees if nothing has changed.  `CrashExplained` is
part of it, since a crash is a step whose cause is the state before: a lookup crashes for the id
of a host that the tree has, whichever call put it there (`HostKeys`).

*The mirror.*  `ScanMirrors` is about the end of a scan.  `Mirror` says for
each place within one what is already in the tree: everything that the kernel has but for what
is pending, where `CtrlPending`, `SharedPending`, `OwnPending` and `PathPending` say
in terms of the lists still to be walked what that is; and nothing that the kernel does not have,
and nothing twice.  It holds from the first look of a
scan in a kernel that does not change, because the tree was freed before
(`FreedInv`), whatever happened until then.  Controllers, namespaces and names then
correspond one to one, which gives the cardinalities.  `CountInv` carries the count
of the first walk of `device.cpp` to the second, and `ListLengths` compares them.

*Once.*  `OneObjectEach` is about a lookup that finds what an earlier call made.
`Origins` says for which controller of the kernel each object was made: with its
address, as the caller gave it or as it is read, in the subsystem of its name, under
this machine's host unless the kernel tells of another.  `HostsApart` and `SubsApart` make
that host and that subsystem one, and `NewOnes` says that no object was added
which a lookup for its address would have found; so two objects for one controller
would be in one subsystem with addresses that fit.  `Position` keeps the same for the controller
that a call has read but not linked yet.  For the namespaces, `ToCome` says at each place
of a scan that those still to be opened are not in the tree: a scan begins with
an empty one and a later subsystem or controller is a new one.  Two hypotheses are named:
`AddressesApart` (no two controllers of a subsystem have addresses that fit each
other; a component that is not there fits every value) and a default host with a hostid.
Without either the statement is false, after five calls on three controllers: without a
hostid every host of the same name is this machine's, and the newest is taken; with
addresses `(a, -)`, `(-, e)` and `(b, e)` the middle one is found once as the first and then as
the third, and both objects have its name.  The constants of the run `tree` satisfy
both.

*Left to TLC.*  Liveness itself (`WriteReturns`, `TriggerServed`, `ThreadsQuit`:
fairness and `ENABLED` are outside the prover's reach), and `ArgumentsArrive` with
its part `AnswerFits`: they are evaluated from tables, folds over structures and
names put together from strings, which the provers cannot do.  They are about a
finite table, so that TLC evaluates all there is of them.

## 5. Not modelled

* The file-backed device (`backup_zns_device_file.cpp`): another implementation
  behind the same header, compiled only on demand; for one caller it is the file it
  seeks in.
* `S2FileSystem`, `DummyFSForward`, registration, the threading sample: stubs,
  forwarding, a factory, comments.  `M45` has the stubs' only effect (opening fails).
* `m2.cpp` as a program: it writes, reads and asserts; what its pattern
  comparison covers is in `M1` (`Covered`).
* libnvme: the optional JSON configuration and the filters a user may pass to a scan,
  accessors, logging, reading host NQN and identifiers from files and DMI, printing;
  the inline functions of `ioctl.h` that only fill in one argument of a modelled one;
  freeing on error paths beyond descriptors.  `nvme_init_ctrl_list` with more than
  2047 controllers writes past its structure; it is not a state machine and no program
  here calls it.
* What a data race inside `std::unordered_map` could do beyond a missed entry.
* Memory behind a caller's buffer: an overrun is either excluded by a property
  (`BufferSafe`, `ListFits`, `AnswerFits`) or cut off (`ReadDev`).

## 6. Plan

The order so far: the FTL under concurrency, because everything else rests on it;
its lives, and the programs that judge it; then the layers below and above it
(libnvme's commands, logs, discovery and tree; milestone 1; the RocksDB program).
What is left, in this order:

1. A composition of `M3Verify` with `BlockStore`'s actions, so that the judge and
   the judged share one state.
2. The host identity of libnvme (`nvmf_hostnqn_*`), and the file-backed device as
   a second implementation of `BlockStore`.

`NoFailure` for writes of several blocks is not on the list: no size of zones makes
it true.  The tail moves by one for an append of several blocks (run `tail`), so
that it still names a zone when that zone has no room left for the next one.
