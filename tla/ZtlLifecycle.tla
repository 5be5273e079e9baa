----------------------------- MODULE ZtlLifecycle -----------------------------
(***************************************************************************)
(* Several lives of the FTL: init_ss_zns_device step by step, after a      *)
(* deinit or after the process was killed at whatever point.  Ztl starts   *)
(* where init_ss_zns_device has returned for the first time.               *)
(*                                                                         *)
(* The two maps are globals of the process.  A new process starts with     *)
(* empty ones; one that closes the device and opens it again, as           *)
(* m3_persistency_check.cpp does, starts with what the last life left.     *)
(***************************************************************************)
EXTENDS Ztl

CONSTANTS
    ForceReset,     \* params.force_reset
    SameProcess     \* the process opens the device again after deinit

ASSUME LifecycleAssumption ==
    /\ ForceReset \in BOOLEAN
    /\ SameProcess \in BOOLEAN

VARIABLE
    ipc             \* where init_ss_zns_device is; "none" when it is not called

lifeVars == <<vars, ipc>>

InitPcs == {"none", "start", "reset", "report", "thread", "reset again", "failed"}

LifeInit == Init /\ ipc = "none"

NoMap == [a \in Addr |-> NoEntry]
NoZoneMap == [v \in VZones |-> NoEntry]
NothingWritten == [a \in Addr |-> NotWritten]

(* The memory of calls and merges that are no more. *)
ForgetCalls ==
    /\ pc' = [c \in Clients |-> "idle"]
    /\ req' = [c \in Clients |-> NoReq]
    /\ buf' = [c \in Clients |-> EmptyBuf]
    /\ idx' = [c \in Clients |-> 0]
    /\ lba' = [c \in Clients |-> 0]
    /\ ret' = [c \in Clients |-> SUCCESS]

ForgetMerge ==
    /\ zone_sets' = NoMap
    /\ todo' = {}
    /\ cur' = LogZones
    /\ zone_number' = 0
    /\ prev_zone' = NoEntry
    /\ buffer' = EmptyZoneBuf

(* calloc of the metadata: flags clear, mutex free, the log at its start. *)
FreshMetadata ==
    /\ log_zone_end' = 0
    /\ gc_thread_stop' = FALSE
    /\ trigger_my_gc' = FALSE
    /\ gc_mutex' = Free

(***************************************************************************)
(* The process ends, at any point: of its own accord after deinit or after *)
(* a failed init, or because it is killed.  Only the device survives.  A   *)
(* forced start gives up what was written, so it is forgotten here.        *)
(***************************************************************************)
ProcessEnds ==
    /\ ipc' = "start"
    /\ dpc' = "closed"
    /\ gpc' = "exit"
    /\ FreshMetadata
    /\ log_zone_mapping' = NoMap
    /\ data_zone_mapping' = NoZoneMap
    /\ zone_states' = [z \in VZones |-> EMPTY_ZONE]
    /\ ForgetCalls
    /\ ForgetMerge
    /\ last' = IF ForceReset THEN NothingWritten ELSE last
    /\ UNCHANGED <<device, faults>>

----------------------------------------------------------------------------
(* init_ss_zns_device *)

(* A new process calls it, or one that has closed the device before. *)
MayOpen ==
    \/ ipc = "start"
    \/ SameProcess /\ ipc = "none" /\ dpc = "closed"

(* The device is opened and identified, the metadata allocated. *)
InitOpen ==
    /\ MayOpen
    /\ FreshMetadata
    /\ ipc' = IF ForceReset THEN "reset" ELSE "report"
    /\ UNCHANGED <<device, log_zone_mapping, data_zone_mapping, zone_states, pc, call,
                   gpc, merge, dpc, faults, last>>

(* Mutant: only the second reset, after the report, is done. *)
ResetFirst_None == UNCHANGED device
ResetFirst == nvme_zns_reset(Zones)

(* force_reset: all zones are reset, before their states are read. *)
InitReset ==
    /\ ipc = "reset"
    /\ ResetFirst
    /\ ipc' = "report"
    /\ last' = NothingWritten
    /\ UNCHANGED <<meta, flags, gc_mutex, pc, call, gpc, merge, dpc, faults>>

(* The zone report: the state of each data zone is taken from the device. *)
InitReport ==
    /\ ipc = "report"
    /\ zone_states' = [z \in VZones |-> ReportedState(z)]
    /\ ipc' = "thread"
    /\ UNCHANGED <<device, log_zone_end, log_zone_mapping, data_zone_mapping, flags,
                   gc_mutex, pc, call, gpc, merge, dpc, faults, last>>

(* Without force_reset that was all, and the caller may go on.             *)
(* Mutant: the device may be used while it is still to be reset again.     *)
AfterThread_InUse == ipc' = "reset again" /\ dpc' = "up"
AfterThread ==
    IF ForceReset THEN ipc' = "reset again" /\ UNCHANGED dpc
                  ELSE ipc' = "none" /\ dpc' = "up"

InitThread ==
    /\ ipc = "thread"
    /\ gpc' = "lock"
    /\ AfterThread
    /\ UNCHANGED <<device, meta, flags, gc_mutex, pc, call, merge, faults, last>>

(* force_reset again, while the GC thread is running. *)
InitResetAgain ==
    /\ ipc = "reset again"
    /\ nvme_zns_reset(Zones)
    /\ ipc' = "none"
    /\ dpc' = "up"
    /\ UNCHANGED <<meta, flags, gc_mutex, pc, call, gpc, merge, faults, last>>

(* A command fails and init returns, with the GC thread if it was started; *)
(* the test programs end then.                                             *)
InitFail ==
    /\ ipc \in {"reset", "report", "thread", "reset again"}
    /\ ipc' = "failed"
    /\ UNCHANGED vars

----------------------------------------------------------------------------
InitStep ==
    InitOpen \/ InitReset \/ InitReport \/ InitThread \/ InitResetAgain \/ InitFail

LifeNext ==
    \/ Next /\ UNCHANGED ipc
    \/ ProcessEnds
    \/ InitStep

LifeSpec == LifeInit /\ [][LifeNext]_lifeVars

----------------------------------------------------------------------------
(***************************************************************************)
(* init_ss_zns_device creates the GC thread before it sets zns_metadata,   *)
(* which that thread uses, and before the second reset.  Until it returns  *)
(* the thread collects nothing and nobody is inside a call, so the thread  *)
(* does not need the pointer and the reset wipes out no new write.         *)
(***************************************************************************)
InitAlone ==
    ipc # "none" => ~ GcRuns /\ \A c \in Clients : pc[c] = "idle"

(***************************************************************************)
(* In every life the FTL's picture of the data zones is the device's from  *)
(* the moment init_ss_zns_device returns: the states it read are not made  *)
(* stale by the reset that follows.                                        *)
(***************************************************************************)
ZoneTableWhenOpen == dpc # "closed" => ZoneTable

=============================================================================
