-------------------------------- MODULE ZNS --------------------------------
(***************************************************************************)
(* The zoned namespace, as the FTL drives it through libnvme.  The device  *)
(* is not part of this repository: its rules are taken from how            *)
(* src/m23-ftl/zns_device.cpp and the milestone 1 tests use it.            *)
(*                                                                         *)
(* An LBA is a number, zone z owns LBAs Slba(z) .. Slba(z) + ZoneCap - 1.  *)
(* (The FTL computes every zone address as zone * n_blocks_per_zone, with  *)
(* n_blocks_per_zone = zcap, so zone size and zone capacity are one        *)
(* number here.)  A zone is written strictly in order: each write must     *)
(* start at the zone's write pointer, must not leave the zone, and only a  *)
(* reset moves the pointer back.  A block is one logical block's payload.  *)
(***************************************************************************)
EXTENDS Integers

CONSTANTS
    NumZones,   \* nr_zones of the zone report
    ZoneCap,    \* n_blocks_per_zone: blocks in one zone
    MDTS,       \* blocks the largest single command may carry
    Data,       \* payloads a user writes
    Zero        \* what a block holds that was never written since its reset

ASSUME GeometryAssumption ==
    /\ NumZones \in Nat \ {0}
    /\ ZoneCap \in Nat \ {0}
    /\ MDTS \in Nat \ {0}
    /\ Zero \notin Data

VARIABLES
    wp,         \* wp[z]: blocks of zone z written since its last reset
    blk         \* blk[l]: payload at LBA l

device == <<wp, blk>>

Zones == 0 .. NumZones - 1
Offsets == 0 .. ZoneCap - 1
LBAs == 0 .. NumZones * ZoneCap - 1
Payload == Data \cup {Zero}

Slba(z) == z * ZoneCap
ZoneOf(lba) == lba \div ZoneCap
OffsetOf(lba) == lba % ZoneCap

DeviceTypeOK ==
    /\ wp \in [Zones -> 0 .. ZoneCap]
    /\ blk \in [LBAs -> Payload]

(***************************************************************************)
(* The states of Figure 39 of TP 4053 that the FTL tells apart: zs >> 4.   *)
(***************************************************************************)
EMPTY_ZONE == 1
IMPLICITLY_OPENED == 2
FULL_ZONE == 14

ReportedState(z) ==
    IF wp[z] = 0 THEN EMPTY_ZONE
    ELSE IF wp[z] = ZoneCap THEN FULL_ZONE ELSE IMPLICITLY_OPENED

----------------------------------------------------------------------------
(* Storing n blocks, given as a function on 0 .. n-1, from LBA lba on. *)
Stored(lba, n, buf) ==
    [l \in LBAs |-> IF l >= lba /\ l < lba + n THEN buf[l - lba] ELSE blk[l]]

(* nvme_zns_append accepts n blocks for zone z ... *)
CanAppend(z, n) == z \in Zones /\ wp[z] + n <= ZoneCap

(* ... and places them at the write pointer, which it reports back. *)
AppendLba(z) == Slba(z) + wp[z]

nvme_zns_append(z, n, buf) ==
    /\ CanAppend(z, n)
    /\ wp' = [wp EXCEPT ![z] = @ + n]
    /\ blk' = Stored(AppendLba(z), n, buf)

(* nvme_zns_mgmt_send(RESET), for each zone of the set zs. *)
nvme_zns_reset(zs) ==
    /\ wp' = [z \in Zones |-> IF z \in zs THEN 0 ELSE wp[z]]
    /\ blk' = [l \in LBAs |-> IF ZoneOf(l) \in zs THEN Zero ELSE blk[l]]

----------------------------------------------------------------------------
(***************************************************************************)
(* io_with_mdts cuts an I/O of n blocks from LBA lba on into commands of   *)
(* at most MDTS blocks and stops at the first one the device refuses.      *)
(***************************************************************************)
Chunks(n) == 0 .. ((n + MDTS - 1) \div MDTS) - 1
ChunkLba(lba, k) == lba + k * MDTS
ChunkLen(n, k) == IF n - k * MDTS < MDTS THEN n - k * MDTS ELSE MDTS

(* A command stays inside one zone of the device. *)
InOneZone(lba, n) ==
    /\ lba >= 0
    /\ ZoneOf(lba) \in Zones
    /\ OffsetOf(lba) + n <= ZoneCap

(* nvme_read takes chunk k of a read ... *)
CanRead(lba, n) ==
    \A k \in Chunks(n) : InOneZone(ChunkLba(lba, k), ChunkLen(n, k))

(***************************************************************************)
(* ... and nvme_write chunk k of a write if it also starts at the write    *)
(* pointer.  Past the first chunk the pointer only has to be looked at     *)
(* when the chunk opens another zone: the chunks before it moved it here.  *)
(***************************************************************************)
ChunkAccepted(lba, n, k) ==
    LET c == ChunkLba(lba, k) IN
    /\ InOneZone(c, ChunkLen(n, k))
    /\ (k = 0 \/ OffsetOf(c) = 0) => wp[ZoneOf(c)] = OffsetOf(c)

CanWrite(lba, n) == \A k \in Chunks(n) : ChunkAccepted(lba, n, k)

(* The prefixes of a refused write that reach the device, in blocks: all   *)
(* chunks before the first refused one.                                    *)
LandedBlocks(lba, n) ==
    { k * MDTS : k \in { j \in Chunks(n) :
        /\ \A i \in 0 .. j - 1 : ChunkAccepted(lba, n, i)
        /\ ~ ChunkAccepted(lba, n, j) } }

(* The prefixes that may land before a command of the write fails. *)
CutBlocks(lba, n) ==
    { k * MDTS : k \in { j \in Chunks(n) :
        \A i \in 0 .. j - 1 : ChunkAccepted(lba, n, i) } }

(* The first m blocks of a write from lba on are on the device. *)
nvme_write(lba, m, buf) ==
    /\ wp' = [z \in Zones |->
                 IF m > 0 /\ Slba(z) < lba + m /\ lba < Slba(z + 1)
                 THEN IF lba + m < Slba(z + 1) THEN lba + m - Slba(z) ELSE ZoneCap
                 ELSE wp[z]]
    /\ blk' = Stored(lba, m, buf)

============================================================================
