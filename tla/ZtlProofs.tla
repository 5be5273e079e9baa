----------------------------- MODULE ZtlProofs -----------------------------
(***************************************************************************)
(* What holds of the FTL for every number and size of zones, every number  *)
(* of clients, every request size and any number of failing commands; in   *)
(* the second half, while commands do not fail by themselves.              *)
(*                                                                         *)
(* TypeOK, MutexInv and TailNotAhead are not inductive one by one: a       *)
(* write's LBAs are on the device because the tail is not ahead of it, the *)
(* tail stays where it is while a writer is at work because of the mutex,  *)
(* and the merge resets no zone under the tail because the tail keeps      *)
(* below the spare zones.  IInv joins them with what each thread knows at  *)
(* the point where it stands.                                              *)
(*                                                                         *)
(* The zone table is right only while no command of a merge fails, and     *)
(* only together with what a round of the merge knows of the zone it       *)
(* replaces and the zone it writes (TableInv).                             *)
(*                                                                         *)
(* Then what the FTL keeps of the user's data, in one life and from one to *)
(* the next: no block is lost, reads return what was written, and the FTL  *)
(* implements the block store.  No block is lost only because log entries  *)
(* lie below the tail, the tail is where the device will append, and a     *)
(* writer has its block on the device before it maps it (DataInv).  A new  *)
(* life is as good as the first one because no step of init, of the GC     *)
(* thread it starts or of the death of a process gets in the way (Asleep), *)
(* so that the state init leaves is one the other invariants may start     *)
(* from (AwakeFresh).                                                      *)
(*                                                                         *)
(* At the end, what the liveness properties rest on: no request for a      *)
(* collection is slept through, a collection ends and never has to wait,   *)
(* who waits for one is served; and why nothing goes on once a write has   *)
(* failed.                                                                 *)
(***************************************************************************)
EXTENDS ZtlBlockStore, ZNSProofs, FiniteSetTheorems, WellFoundedInduction

(* The tail keeps clear of the zones that are to stay empty. *)
TailInLog == log_zone_end <= Slba(LogZones - Watermark)

Active == {"lock", "check", "wait", "write", "map", "find", "entry", "data", "dev"}
Looping == {"map", "find", "entry", "data", "dev"}

(* What a call knows of its arguments, its progress and the tail. *)
CallOK(c) ==
    /\ pc[c] \in Active => req[c].addr + req[c].n - 1 \in Addr
    /\ pc[c] \in Looping => idx[c] < req[c].n
    /\ pc[c] \in {"idle", "lock", "check", "wait", "write"} => idx[c] = 0
    /\ pc[c] = "write" =>
          /\ lba[c] = log_zone_end
          /\ req[c].n <= ZoneCap =>
                log_zone_end + req[c].n < Slba(LogZones - Watermark)
    /\ pc[c] = "map" => lba[c] + req[c].n <= NumZones * ZoneCap

CallInv == \A c \in Clients : CallOK(c)

(* What the merge knows of the zones it is about to write or reset. *)
MergeInv ==
    /\ gpc = "write" => zone_number \in {Slba(z) : z \in VZones}
    /\ gpc = "reset old" => prev_zone # NoEntry
    /\ gpc \in {"reset in place", "rewrite", "reset spare"} =>
          zone_number = Slba(LogZones - 1)

IInv == TypeOK /\ MutexInv /\ TailNotAhead /\ TailInLog /\ CallInv /\ MergeInv

----------------------------------------------------------------------------
(* Numbers and addresses *)

LEMMA NatMin ==
    ASSUME NEW T \in SUBSET Nat, T # {}
    PROVE  \E x \in T : \A y \in T : x <= y
<1> DEFINE R == {p \in Nat \X Nat : p[1] < p[2]}
<1>1. IsWellFoundedOn(R, Nat)
    BY NatLessThanWellFounded DEF OpToRel
<1>2. PICK x \in T : \A y \in T : ~ (<<y, x>> \in R)
    <2> HIDE DEF R
    <2>1. QED
        BY <1>1, WFMin
<1>3. ASSUME NEW y \in T PROVE x <= y
    <2>1. ~ (<<y, x>> \in R) /\ x \in Nat /\ y \in Nat
        BY <1>2
    <2>2. ASSUME y < x PROVE FALSE
        <3>1. <<y, x>> \in Nat \X Nat
            BY <2>1
        <3>2. <<y, x>>[1] < <<y, x>>[2]
            BY <2>1, <2>2
        <3>3. QED
            BY <2>1, <3>1, <3>2
    <2>3. QED
        BY <2>1, <2>2
<1>4. QED
    BY <1>3

(* The zones in order: the log in front, its spare zones last, then data. *)
LEMMA Layout ==
    /\ Slba(0) = 0
    /\ Slba(LogZones - Watermark) \in Nat
    /\ Slba(LogZones - Watermark) <= Slba(LogZones - 1)
    /\ Slba(LogZones - 1) + ZoneCap = Slba(LogZones)
    /\ Slba(LogZones) + ZoneCap <= NumZones * ZoneCap
    /\ \A z \in VZones : Slba(z) >= Slba(LogZones) /\ Slba(z) \in LBAs
    /\ LogZone \subseteq Zones /\ VZones \subseteq Zones
    /\ LogZones - 1 \in LogZone
<1> USE GeometryAssumption, FtlAssumption
<1>1. /\ LogZone \subseteq Zones /\ VZones \subseteq Zones
      /\ LogZones - 1 \in LogZone /\ VZones \subseteq Int
    BY DEF LogZone, VZones, Zones
<1>2. /\ Slba(LogZones - Watermark) \in Nat /\ Slba(0) = 0
      /\ Slba(LogZones - 1) \in Int
    BY DEF Slba
<1>3. Slba(LogZones - Watermark) <= Slba(LogZones - 1)
    <2>1. CASE Watermark = 1
        BY <2>1 DEF Slba
    <2>2. CASE Watermark > 1
        <3>1. LogZones - Watermark \in Int /\ LogZones - 1 \in Int
              /\ LogZones - Watermark < LogZones - 1
            BY <2>2
        <3>2. Slba(LogZones - Watermark) + ZoneCap <= Slba(LogZones - 1)
            BY <3>1, SlbaMono
        <3>3. QED
            BY <3>2, <1>2
    <2>3. Watermark = 1 \/ Watermark > 1
        OBVIOUS
    <2>4. QED  BY <2>1, <2>2, <2>3
<1>4. Slba(LogZones - 1) + ZoneCap = Slba(LogZones)
    BY DEF Slba
<1>5. Slba(LogZones) + ZoneCap <= NumZones * ZoneCap
    BY SlbaMono DEF Slba
<1>6. ASSUME NEW z \in VZones PROVE Slba(z) >= Slba(LogZones) /\ Slba(z) \in LBAs
    <2>1. z \in Int /\ z >= LogZones /\ Slba(z) \in Int /\ Slba(LogZones) \in Int
        BY DEF VZones, Slba
    <2>2. ASSUME z > LogZones PROVE Slba(z) >= Slba(LogZones)
        <3>1. Slba(LogZones) + ZoneCap <= Slba(z)
            BY <2>1, <2>2, SlbaMono
        <3>2. QED
            BY <2>1, <3>1
    <2>3. Slba(z) + 0 \in LBAs
        BY <1>1, BlockLba DEF Offsets
    <2>4. QED
        BY <2>1, <2>2, <2>3
<1>7. QED
    BY <1>1, <1>2, <1>3, <1>4, <1>5, <1>6

(* A user block has a virtual zone and an offset there, and back. *)
LEMMA AddrParts ==
    ASSUME NEW a \in Addr
    PROVE  VZone(a) \in VZones /\ VOffset(a) \in Offsets
<1> USE GeometryAssumption, FtlAssumption
<1> DEFINE D == NumZones - LogZones
<1>1. a \in Nat /\ a < D * ZoneCap /\ D \in Nat
    BY DEF Addr
<1>2. ZoneOf(a) \in Int /\ OffsetOf(a) \in Offsets /\ a = Slba(ZoneOf(a)) + OffsetOf(a)
    BY <1>1, SplitLba
<1>3. ASSUME ZoneOf(a) < 0 PROVE FALSE
    <2>1. Slba(ZoneOf(a)) + ZoneCap <= Slba(0)
        BY <1>2, <1>3, SlbaMono
    <2>2. QED
        BY <2>1, <1>1, <1>2 DEF Slba, Offsets
<1>4. ASSUME ZoneOf(a) >= D PROVE FALSE
    <2>1. Slba(ZoneOf(a)) >= Slba(D)
        <3>1. CASE ZoneOf(a) = D  BY <3>1, <1>1 DEF Slba
        <3>2. CASE ZoneOf(a) > D
            <4>1. Slba(D) + ZoneCap <= Slba(ZoneOf(a))
                BY <3>2, <1>1, <1>2, SlbaMono
            <4>2. QED  BY <4>1, <1>1, <1>2 DEF Slba
        <3>3. QED  BY <1>1, <1>2, <1>4, <3>1, <3>2
    <2>2. QED
        BY <2>1, <1>1, <1>2 DEF Slba, Offsets
<1>5. QED
    BY <1>1, <1>2, <1>3, <1>4 DEF VZone, VOffset, VZones, ZoneOf, OffsetOf

LEMMA UserBlockAddr ==
    ASSUME NEW v \in VZones, NEW k \in Offsets
    PROVE  UserBlock(v, k) \in Addr
<1> USE GeometryAssumption, FtlAssumption
<1>1. v - LogZones \in Nat /\ v - LogZones < NumZones - LogZones
    BY DEF VZones
<1>2. Slba(v - LogZones) + ZoneCap <= Slba(NumZones - LogZones)
    BY <1>1, SlbaMono
<1>3. Slba(v - LogZones) \in Nat
    BY <1>1 DEF Slba
<1>4. QED
    BY <1>2, <1>3 DEF UserBlock, Addr, Offsets, Slba

----------------------------------------------------------------------------
(* gc_mutex *)

LEMMA MutexInit == Init => MutexInv
BY FtlAssumption DEF Init, MutexInv, GcHolds

(* Nobody takes gc_mutex from its owner, and nobody enters its section     *)
(* without it.                                                             *)
LEMMA MutexStep ==
    ASSUME TypeOK, MutexInv, [Next]_vars
    PROVE  MutexInv'
<1> USE FtlAssumption DEF TypeOK, SyncTypeOK, ClientTypeOK, GcTypeOK, MutexInv, GcHolds, Goto, Leave
<1>1. ASSUME NEW c \in Clients, Call(c) \/ Return(c) \/ ReadStep(c) \/ SpuriousWake(c)
      PROVE  MutexInv'
    BY <1>1 DEF Call, WriteCall, ReadCall, RejectedCall, Return, SpuriousWake,
                ReadStep, ReadFind, ReadEntry, ReadData, ReadDev, ReadDevFail
<1>2. ASSUME NEW c \in Clients, WriteStep(c) PROVE MutexInv'
    <2>1. CASE WriteLock(c)  BY <2>1 DEF WriteLock
    <2>2. CASE WriteWait(c)  BY <2>2 DEF WriteWait, SignalStart
    <2>3. CASE WriteGo(c)  BY <2>3 DEF WriteGo
    <2>4. CASE WriteAppend(c)  BY <2>4 DEF WriteAppend
    <2>5. CASE WriteAppendFail(c)  BY <2>5 DEF WriteAppendFail
    <2>6. CASE WriteLarge(c)  BY <2>6 DEF WriteLarge
    <2>7. CASE WriteLargeFail(c)  BY <2>7 DEF WriteLargeFail
    <2>8. CASE WriteMap(c)  BY <2>8 DEF WriteMap, UnlockAfter
    <2>9. QED
        BY <1>2, <2>1, <2>2, <2>3, <2>4, <2>5, <2>6, <2>7, <2>8 DEF WriteStep
<1>3. ASSUME MergeStep PROVE MutexInv'
    <2>1. /\ gpc \notin {"lock", "wait", "exit"} /\ gpc' \notin {"lock", "wait", "exit"}
          /\ UNCHANGED <<pc, gc_mutex>>
        BY <1>3 DEF MergeStep, GcZone, GcZoneFail, GcZonesDone, GcWrite, GcWriteFail,
                    GcResetOld, GcResetInPlace, GcRewrite, GcRewriteFail, GcResetSpare, GcGoto
    <2>2. QED
        BY <2>1
<1>4. ASSUME GcStep \/ GcSpuriousWake PROVE MutexInv'
    <2>1. CASE GcLock \/ GcWait \/ GcExit
        BY <2>1 DEF GcLock, GcWait, GcExit, GcGoto
    <2>2. CASE GcIdle \/ GcCollect \/ GcResetLog \/ GcSpuriousWake
        BY <2>2 DEF GcIdle, GcCollect, GcResetLog, GcSpuriousWake, GcGoto
    <2>3. CASE GcClear
        BY <2>3 DEF GcClear, SignalStop, GcGoto
    <2>4. QED
        BY <1>3, <1>4, <2>1, <2>2, <2>3 DEF GcStep
<1>5. ASSUME DeinitStop \/ DeinitStep PROVE MutexInv'
    BY <1>5 DEF DeinitStop, DeinitStep, DeinitSignal, DeinitJoin, SignalStart
<1>6. CASE UNCHANGED vars
    BY <1>6 DEF vars
<1>7. QED
    BY <1>1, <1>2, <1>4, <1>5, <1>6 DEF Next, Terminated

----------------------------------------------------------------------------
(* The tail *)

(* Passing the watermark test leaves room below the spare zones.  The      *)
(* subtraction of free_zone_number wraps only for a write longer than a    *)
(* zone, which no append accepts.                                          *)
LEMMA RoomBelowSpare ==
    ASSUME TypeOK, TailInLog, NEW n \in 1 .. BufBlocks, n <= ZoneCap, ~ LogIsLow(n)
    PROVE  log_zone_end + n < Slba(LogZones - Watermark)
<1> USE GeometryAssumption, FtlAssumption
<1> DEFINE x == log_zone_end + n
           q == x \div ZoneCap
           s == Slba(LogZones - Watermark)
<1>1. /\ x \in Nat /\ s \in Nat /\ x <= s + ZoneCap
      /\ s <= Slba(LogZones - 1) /\ Slba(LogZones - 1) + ZoneCap = Slba(LogZones)
      /\ Slba(LogZones) + ZoneCap <= NumZones * ZoneCap
      /\ Slba(LogZones) \in Nat /\ NumZones * ZoneCap \in Nat
      /\ Slba(LogZones - 1) \in Int
    BY Layout DEF TypeOK, MetaTypeOK, TailInLog, Slba
<1>2. x <= Slba(LogZones) /\ x < U32
    <2>1. 2 * NumZones * ZoneCap = NumZones * ZoneCap + NumZones * ZoneCap
        OBVIOUS
    <2>2. QED
        BY <1>1, <2>1
<1>3. x % U32 = x
    BY <1>1, <1>2
<1>4. q \in Nat /\ q * ZoneCap <= x /\ x < q * ZoneCap + ZoneCap
    BY <1>1
<1>5. q <= LogZones
    <2>1. ASSUME q > LogZones PROVE FALSE
        <3>1. Slba(LogZones) + ZoneCap <= Slba(q)
            BY <1>4, <2>1, SlbaMono
        <3>2. QED
            BY <1>1, <1>2, <1>4, <3>1 DEF Slba
    <2>2. QED
        BY <1>4, <2>1
<1>6. LogZones < U32
    <2>1. LogZones <= Slba(LogZones)
        BY DEF Slba
    <2>2. 2 * NumZones * ZoneCap = NumZones * ZoneCap + NumZones * ZoneCap
        OBVIOUS
    <2>3. QED
        BY <1>1, <2>1, <2>2
<1>7. (LogZones - q) % U32 = LogZones - q
    <2>1. LogZones - q \in Nat /\ LogZones - q < U32
        BY <1>4, <1>5, <1>6
    <2> HIDE DEF q
    <2>2. QED
        BY <2>1
<1>8. free_zone_number(n) = LogZones - q
    BY <1>3, <1>7 DEF free_zone_number
<1>9. q < LogZones - Watermark
    <2> HIDE DEF q
    <2>1. QED
        BY <1>4, <1>8 DEF LogIsLow
<1>10. Slba(q) + ZoneCap <= s
    BY <1>4, <1>9, SlbaMono
<1>11. QED
    BY <1>1, <1>4, <1>10 DEF Slba

(* The tail is in a log zone. *)
LEMMA TailZone ==
    ASSUME TypeOK, TailInLog
    PROVE  /\ ZoneOf(log_zone_end) \in LogZone
           /\ ZoneOf(log_zone_end) \in Zones
           /\ ZoneOf(log_zone_end) \in Int
           /\ OffsetOf(log_zone_end) \in Offsets
           /\ log_zone_end = Slba(ZoneOf(log_zone_end)) + OffsetOf(log_zone_end)
           /\ log_zone_end \in LBAs
<1> USE GeometryAssumption, FtlAssumption
<1> DEFINE z == ZoneOf(log_zone_end)
<1>1. log_zone_end \in Nat /\ log_zone_end <= Slba(LogZones - 1)
    <2>1. log_zone_end \in Nat /\ Slba(LogZones - 1) \in Int
        BY DEF TypeOK, MetaTypeOK, Slba
    <2>2. QED
        BY <2>1, Layout DEF TailInLog
<1>2. z \in Int /\ OffsetOf(log_zone_end) \in Offsets /\ log_zone_end = Slba(z) + OffsetOf(log_zone_end)
    BY <1>1, SplitLba
<1>3. /\ Slba(z) \in Int /\ Slba(LogZones - 1) \in Int
      /\ Slba(LogZones) \in Int /\ NumZones * ZoneCap \in Int
    BY <1>2 DEF Slba
<1>4. log_zone_end \in LBAs
    <2>1. Slba(LogZones - 1) + ZoneCap <= NumZones * ZoneCap - ZoneCap
        BY <1>3, Layout
    <2>2. log_zone_end < NumZones * ZoneCap
        BY <1>1, <1>3, <2>1
    <2>3. QED
        BY <1>1, <1>3, <2>2 DEF LBAs
<1>5. z >= 0
    BY <1>1, <1>2, <1>4, LbaInZone DEF Zones
<1>6. z <= LogZones - 1
    <2>1. ASSUME LogZones - 1 < z PROVE FALSE
        <3>1. Slba(LogZones - 1) + ZoneCap <= Slba(z)
            BY <1>2, <2>1, SlbaMono
        <3>2. QED
            BY <1>1, <1>2, <1>3, <3>1 DEF Offsets
    <2>2. QED
        BY <1>2, <2>1
<1>7. QED
    BY <1>2, <1>4, <1>5, <1>6 DEF LogZone, Zones

(* A writer that is about to write knows where the tail is. *)
LEMMA WriterAtTail ==
    ASSUME TypeOK, MutexInv, TailNotAhead, TailInLog, CallInv,
           NEW c \in Clients, pc[c] = "write"
    PROVE  /\ lba[c] = log_zone_end
           /\ gc_mutex = c
           /\ gpc # "clear"
           /\ OffsetOf(log_zone_end) <= wp[ZoneOf(log_zone_end)]
           /\ \A d \in Clients : pc[d] = "write" => d = c
<1>1. gc_mutex = c /\ gpc # "clear" /\ lba[c] = log_zone_end
    BY FtlAssumption DEF MutexInv, CallInv, CallOK, GcHolds
<1>2. QED
    BY <1>1, TailZone DEF TailNotAhead, MutexInv

LEMMA AppendTail ==
    ASSUME TypeOK, TailInLog, NEW n \in 1 .. BufBlocks,
           log_zone_end + n < Slba(LogZones - Watermark),
           NEW t, t = TailAfter(ZoneOf(log_zone_end)),
           CanAppend(ZoneOf(log_zone_end), n)
    PROVE  /\ t \in 0 .. NumZones * ZoneCap
           /\ t <= Slba(LogZones - Watermark)
           /\ \/ /\ ZoneOf(t) = ZoneOf(log_zone_end)
                 /\ OffsetOf(t) = wp[ZoneOf(log_zone_end)] + 1
              \/ OffsetOf(t) = 0
<1> USE GeometryAssumption, FtlAssumption
<1> DEFINE z == ZoneOf(log_zone_end)
           s == Slba(LogZones - Watermark)
<1>1. /\ z \in Zones /\ z \in Int /\ OffsetOf(log_zone_end) \in Offsets
      /\ log_zone_end = Slba(z) + OffsetOf(log_zone_end)
    BY TailZone
<1>2. wp[z] \in Nat /\ wp[z] + n <= ZoneCap /\ t = Slba(z) + wp[z] + 1 /\ z >= 0
    BY <1>1 DEF TypeOK, DeviceTypeOK, CanAppend, TailAfter, AppendLba, Zones
<1>3. /\ Slba(z) \in Nat /\ s \in Nat /\ Slba(z + 1) = Slba(z) + ZoneCap
      /\ s <= NumZones * ZoneCap /\ NumZones * ZoneCap \in Nat
    <2>1. Slba(z) \in Nat /\ Slba(z + 1) = Slba(z) + ZoneCap /\ NumZones * ZoneCap \in Nat
        BY <1>1, <1>2 DEF Slba
    <2>2. Slba(LogZones - 1) \in Int /\ Slba(LogZones) \in Int
        BY DEF Slba
    <2>3. QED
        BY <2>1, <2>2, Layout
<1>4. z < LogZones - Watermark
    <2>1. ASSUME z > LogZones - Watermark PROVE FALSE
        <3>1. s + ZoneCap <= Slba(z)
            BY <1>1, <2>1, SlbaMono
        <3>2. QED
            BY <1>1, <1>3, <3>1 DEF Offsets
    <2>2. ASSUME z = LogZones - Watermark PROVE FALSE
        BY <1>1, <1>3, <2>2 DEF Offsets
    <2>3. QED
        BY <1>1, <2>1, <2>2
<1>5. Slba(z) + ZoneCap <= s
    BY <1>1, <1>4, SlbaMono
<1>6. t \in Nat /\ t <= Slba(z) + ZoneCap
    BY <1>2, <1>3
<1>7. CASE wp[z] + 1 < ZoneCap
    <2>1. wp[z] + 1 \in Offsets
        BY <1>2, <1>7 DEF Offsets
    <2>2. t = Slba(z) + (wp[z] + 1)
        BY <1>2, <1>3
    <2>3. ZoneOf(t) = z /\ OffsetOf(t) = wp[z] + 1
        BY <1>1, <2>1, <2>2, ZoneOfSlba
    <2>4. QED
        BY <1>3, <1>5, <1>6, <2>3
<1>8. CASE wp[z] + 1 = ZoneCap
    <2>1. t = Slba(z + 1) + 0 /\ 0 \in Offsets /\ z + 1 \in Int
        BY <1>1, <1>2, <1>3, <1>8 DEF Offsets
    <2>2. OffsetOf(t) = 0
        BY <2>1, ZoneOfSlba
    <2>3. QED
        BY <1>3, <1>5, <1>6, <2>2
<1>9. QED
    BY <1>2, <1>7, <1>8

(* A write from the start of the tail's zone finds that zone, and so the   *)
(* tail, at its start, or nothing of it lands.                             *)
LEMMA LargeAtStart ==
    ASSUME TypeOK, TailInLog, NEW n \in Nat \ {0},
           OffsetOf(log_zone_end) <= wp[ZoneOf(log_zone_end)],
           ChunkAccepted(Slba(ZoneOf(log_zone_end)), n, 0)
    PROVE  OffsetOf(log_zone_end) = 0 /\ log_zone_end = Slba(ZoneOf(log_zone_end))
<1> USE GeometryAssumption
<1> DEFINE z == ZoneOf(log_zone_end)
<1>1. z \in Int /\ OffsetOf(log_zone_end) \in Offsets /\ log_zone_end = Slba(z) + OffsetOf(log_zone_end)
    BY TailZone
<1>2. Slba(z) \in Int /\ Slba(z) + 0 = Slba(z) /\ 0 \in Offsets
    BY <1>1 DEF Slba, Offsets
<1>3. ZoneOf(Slba(z)) = z /\ OffsetOf(Slba(z)) = 0
    BY <1>1, <1>2, ZoneOfSlba
<1>4. wp[z] = 0
    BY <1>2, <1>3, FirstChunk
<1>5. QED
    BY <1>1, <1>2, <1>4 DEF Offsets

(* A write beyond the log zones leaves their write pointers alone. *)
LEMMA WriteBeyondLog ==
    ASSUME NEW l \in Int, NEW m \in Nat, NEW b, NEW z \in LogZone,
           TypeOK, nvme_write(l, m, b), m = 0 \/ l >= Slba(LogZones)
    PROVE  wp'[z] = wp[z]
<1> USE GeometryAssumption, FtlAssumption
<1>1. z \in Zones /\ z \in Int /\ z + 1 <= LogZones
    BY Layout DEF LogZone
<1>2. Slba(z + 1) <= Slba(LogZones)
    <2>1. ASSUME z + 1 < LogZones PROVE Slba(z + 1) <= Slba(LogZones)
        <3>1. Slba(z + 1) + ZoneCap <= Slba(LogZones)
            BY <1>1, <2>1, SlbaMono
        <3>2. Slba(z + 1) \in Int /\ Slba(LogZones) \in Int
            BY <1>1 DEF Slba
        <3>3. QED
            BY <3>1, <3>2
    <2>2. CASE z + 1 = LogZones
        BY <2>2 DEF Slba
    <2>3. QED
        BY <1>1, <2>1, <2>2
<1>3. Slba(z + 1) \in Int /\ Slba(LogZones) \in Int
    BY <1>1 DEF Slba
<1>4. ~ (m > 0 /\ l < Slba(z + 1))
    BY <1>2, <1>3
<1>5. QED
    BY <1>1, <1>4 DEF nvme_write

----------------------------------------------------------------------------
(* The calls *)

(* What a call knows stays true while other threads work. *)
LEMMA CallOther ==
    ASSUME NEW d \in Clients, CallOK(d),
           \/ UNCHANGED <<pc[d], idx[d]>>
           \/ pc[d] = "wait" /\ pc'[d] = "lock" /\ UNCHANGED idx[d],
           UNCHANGED <<req[d], lba[d]>>,
           pc[d] = "write" => UNCHANGED log_zone_end
    PROVE  CallOK(d)'
BY DEF CallOK, Active, Looping, Addr, Slba

(* A round of a loop that is not the last one leaves rounds to do. *)
LEMMA NextRound ==
    ASSUME TypeOK, CallInv, NEW c \in Clients, pc[c] \in Looping
    PROVE  /\ idx[c] \in 0 .. req[c].n - 1
           /\ req[c].n \in 1 .. BufBlocks
           /\ ~ LastRound(c) => idx[c] + 1 < req[c].n
           /\ idx[c] + 1 \in 0 .. BufBlocks
           /\ req[c].addr + idx[c] \in Addr
<1> USE GeometryAssumption, FtlAssumption
<1>1. req[c].n \in 1 .. BufBlocks /\ req[c].addr \in Addr /\ idx[c] \in 0 .. BufBlocks
    BY DEF TypeOK, ClientTypeOK
<1>2. idx[c] < req[c].n /\ req[c].addr + req[c].n - 1 \in Addr
    BY DEF CallInv, CallOK, Active, Looping
<1>3. (NumZones - LogZones) * ZoneCap \in Int
    OBVIOUS
<1>4. QED
    BY <1>1, <1>2, <1>3 DEF LastRound, Addr

(* A call's own steps: one write at a time, from the tail it has seen. *)
LEMMA WriteCalls ==
    ASSUME TypeOK, MutexInv, TailNotAhead, TailInLog, CallInv,
           NEW c \in Clients, WriteStep(c)
    PROVE  CallInv'
<1> USE GeometryAssumption, FtlAssumption
<1>1. /\ req[c].n \in 1 .. BufBlocks /\ CallOK(c) /\ pc[c] \in ClientPcs
      /\ req[c].n \in Nat \ {0} /\ pc \in [Clients -> ClientPcs]
      /\ lba \in [Clients -> LBAs] /\ idx \in [Clients -> 0 .. BufBlocks]
    BY DEF TypeOK, ClientTypeOK, CallInv
<1>2. /\ UNCHANGED <<req>>
      /\ \A d \in Clients \ {c} : UNCHANGED <<pc[d], idx[d], lba[d]>>
      /\ pc[c] # "write" => UNCHANGED log_zone_end
    BY <1>1 DEF WriteStep, WriteLock, WriteWait, WriteGo, WriteAppend, WriteAppendFail,
                WriteLarge, WriteLargeFail, WriteMap, Goto, Leave, call, meta
<1>3. ASSUME NEW d \in Clients, d # c PROVE CallOK(d)'
    <2>1. pc[d] = "write" => pc[c] # "write"
        BY <1>3 DEF MutexInv
    <2>2. CallOK(d)
        BY DEF CallInv
    <2>3. QED
        BY <1>2, <1>3, <2>1, <2>2, CallOther
<1>4. CallOK(c)'
    <2>1. CASE WriteLock(c) \/ WriteWait(c)
        BY <1>1, <2>1 DEF WriteLock, WriteWait, Goto, call, CallOK, Active, Looping
    <2>2. CASE WriteGo(c)
        <3>1. /\ log_zone_end' = log_zone_end /\ lba'[c] = log_zone_end /\ pc'[c] = "write"
              /\ req' = req /\ idx' = idx /\ ~ LogIsLow(req[c].n) /\ pc[c] = "check"
            BY <1>1, <2>2 DEF WriteGo, Goto, meta
        <3>2. req[c].n <= ZoneCap => log_zone_end + req[c].n < Slba(LogZones - Watermark)
            BY <1>1, <3>1, RoomBelowSpare
        <3>3. QED
            BY <1>1, <3>1, <3>2 DEF CallOK, Active, Looping, Slba, Addr
    <2>3. CASE WriteAppend(c)
        <3>1. /\ pc[c] = "write" /\ pc'[c] = "map" /\ UNCHANGED <<req, idx, lba>>
              /\ CanAppend(ZoneOf(lba[c]), req[c].n)
            BY <1>1, <2>3 DEF WriteAppend, Goto, call, nvme_zns_append
        <3>2. req[c].n <= ZoneCap
            BY <1>1, <3>1 DEF CanAppend, TypeOK, DeviceTypeOK
        <3>3. lba[c] = log_zone_end /\ log_zone_end + req[c].n < Slba(LogZones - Watermark)
            BY <1>1, <3>1, <3>2 DEF CallOK
        <3>4. lba[c] + req[c].n <= NumZones * ZoneCap
            <4>1. log_zone_end \in Nat /\ Slba(LogZones - 1) \in Int /\ Slba(LogZones) \in Int
                  /\ NumZones * ZoneCap \in Int
                BY DEF TypeOK, MetaTypeOK, Slba
            <4>2. QED
                BY <1>1, <3>3, <4>1, Layout
        <3>5. QED
            BY <1>1, <3>1, <3>4 DEF CallOK, Active, Looping
    <2>4. CASE WriteLarge(c)
        <3> DEFINE z == ZoneOf(lba[c])
        <3>1. /\ pc[c] = "write" /\ pc'[c] = "map" /\ UNCHANGED <<req, idx, lba>>
              /\ CanWrite(Slba(z), req[c].n)
            BY <1>1, <2>4 DEF WriteLarge, Goto, call
        <3>2. lba[c] = log_zone_end /\ OffsetOf(log_zone_end) <= wp[z]
            BY <3>1, WriterAtTail
        <3>3. Slba(z) \in Int
            BY <3>2, TailZone DEF Slba
        <3>4. ChunkAccepted(Slba(z), req[c].n, 0)
            BY <1>1, <3>1, <3>3, FirstChunk DEF CanWrite
        <3>5. lba[c] = Slba(z)
            BY <1>1, <3>2, <3>4, LargeAtStart
        <3>6. lba[c] + (req[c].n - 1) \in LBAs
            <4>1. req[c].n - 1 \in 0 .. req[c].n - 1
                BY <1>1
            <4>2. QED
                BY <1>1, <3>1, <3>3, <3>5, <4>1, WriteRange
        <3>7. lba[c] + req[c].n <= NumZones * ZoneCap
            BY <1>1, <3>6 DEF LBAs
        <3>8. QED
            BY <1>1, <3>1, <3>7 DEF CallOK, Active, Looping
    <2>5. CASE WriteAppendFail(c) \/ WriteLargeFail(c)
        <3>1. pc'[c] = "ret"
            BY <1>1, <2>5 DEF WriteAppendFail, WriteLargeFail, Leave, Goto
        <3>2. QED
            BY <3>1 DEF CallOK, Active, Looping
    <2>6. CASE WriteMap(c)
        <3>1. /\ pc[c] = "map" /\ idx'[c] = idx[c] + 1 /\ UNCHANGED <<req, lba>>
              /\ IF LastRound(c) THEN pc'[c] = "ret" ELSE pc' = pc
            BY <1>1, <2>6 DEF WriteMap, Goto
        <3>2. ~ LastRound(c) => idx[c] + 1 < req[c].n
            BY <3>1, NextRound DEF Looping
        <3>3. QED
            BY <1>1, <3>1, <3>2 DEF CallOK, Active, Looping
    <2>7. QED
        BY <2>1, <2>2, <2>3, <2>4, <2>5, <2>6 DEF WriteStep
<1>5. QED
    BY <1>3, <1>4 DEF CallInv

LEMMA ReadCalls ==
    ASSUME TypeOK, CallInv, NEW c \in Clients,
           ReadStep(c) \/ Call(c) \/ Return(c) \/ SpuriousWake(c)
    PROVE  CallInv'
<1> USE GeometryAssumption, FtlAssumption
<1>1. /\ req[c].n \in 1 .. BufBlocks /\ CallOK(c)
      /\ pc \in [Clients -> ClientPcs] /\ DOMAIN req = Clients
      /\ lba \in [Clients -> LBAs] /\ idx \in [Clients -> 0 .. BufBlocks]
    BY DEF TypeOK, ClientTypeOK, CallInv
<1>2. /\ \A d \in Clients \ {c} : UNCHANGED <<pc[d], idx[d], lba[d], req[d]>>
      /\ UNCHANGED log_zone_end
    <2>1. CASE ReadStep(c)
        BY <1>1, <2>1 DEF ReadStep, ReadFind, ReadEntry, ReadData, ReadDev, ReadDevFail,
                          Goto, Leave, call, meta
    <2>2. CASE Call(c)
        BY <1>1, <2>2 DEF Call, WriteCall, ReadCall, RejectedCall, Goto, Leave, meta
    <2>3. CASE Return(c) \/ SpuriousWake(c)
        BY <1>1, <2>3 DEF Return, SpuriousWake, Goto, call, meta
    <2>4. QED
        BY <2>1, <2>2, <2>3
<1>3. ASSUME NEW d \in Clients, d # c PROVE CallOK(d)'
    <2>1. CallOK(d)
        BY DEF CallInv
    <2>2. QED
        BY <1>2, <1>3, <2>1, CallOther
<1>4. CallOK(c)'
    <2>1. CASE ReadFind(c) \/ ReadEntry(c)
        <3>1. pc[c] \in Looping /\ pc'[c] \in {"entry", "data", "dev"} /\ UNCHANGED <<req, idx>>
            BY <1>1, <2>1 DEF ReadFind, ReadEntry, Goto, call, Looping
        <3>2. QED
            BY <1>1, <3>1 DEF CallOK, Active, Looping
    <2>2. CASE ReadData(c)
        <3>1. pc[c] \in Looping /\ pc'[c] \in {"ret", "dev"} /\ UNCHANGED <<req, idx>>
            BY <1>1, <2>2 DEF ReadData, Goto, Leave, Looping
        <3>2. QED
            BY <1>1, <3>1 DEF CallOK, Active, Looping
    <2>3. CASE ReadDev(c)
        <3>1. /\ pc[c] \in Looping /\ idx'[c] = idx[c] + 1 /\ UNCHANGED req
              /\ pc'[c] = IF LastRound(c) THEN "ret" ELSE "find"
            BY <1>1, <2>3 DEF ReadDev, Goto, Leave, Looping
        <3>2. ~ LastRound(c) => idx[c] + 1 < req[c].n
            BY <3>1, NextRound
        <3>3. QED
            BY <1>1, <3>1, <3>2 DEF CallOK, Active, Looping
    <2>4. CASE ReadDevFail(c) \/ RejectedCall(c)
        <3>1. pc'[c] = "ret"
            BY <1>1, <2>4 DEF ReadDevFail, RejectedCall, Leave, Goto
        <3>2. QED
            BY <3>1 DEF CallOK, Active, Looping
    <2>5. ASSUME NEW a \in Addr, NEW n \in ReadSizes \cup WriteSizes,
                 ReadCall(c, a, n) \/ \E b \in WriteBuffers(n) : WriteCall(c, a, n, b)
          PROVE  CallOK(c)'
        <3>1. /\ pc[c] = "idle" /\ pc'[c] \in {"find", "lock"} /\ UNCHANGED idx
              /\ req'[c].addr = a /\ req'[c].n = n /\ a + n - 1 \in Addr
            BY <1>1, <2>5 DEF ReadCall, WriteCall, Goto
        <3>2. QED
            BY <1>1, <3>1 DEF CallOK, Active, Looping, Addr
    <2>6. CASE Return(c)
        <3>1. pc'[c] = "idle" /\ idx'[c] = 0
            BY <1>1, <2>6 DEF Return, Goto
        <3>2. QED
            BY <3>1 DEF CallOK, Active, Looping
    <2>7. CASE SpuriousWake(c)
        BY <1>1, <2>7 DEF SpuriousWake, Goto, call, CallOK, Active, Looping
    <2>8. QED
        BY <2>1, <2>2, <2>3, <2>4, <2>5, <2>6, <2>7 DEF ReadStep, Call
<1>5. QED
    BY <1>3, <1>4 DEF CallInv

LEMMA CallStep ==
    ASSUME TypeOK, MutexInv, TailNotAhead, TailInLog, CallInv, [Next]_vars
    PROVE  CallInv'
<1>1. ASSUME NEW c \in Clients,
             Call(c) \/ WriteStep(c) \/ ReadStep(c) \/ Return(c) \/ SpuriousWake(c)
      PROVE  CallInv'
    BY <1>1, WriteCalls, ReadCalls
<1>2. ASSUME UNCHANGED <<req, idx, lba, log_zone_end>>,
             \A d \in Clients : \/ UNCHANGED pc[d]
                                \/ pc[d] = "wait" /\ pc'[d] = "lock"
      PROVE  CallInv'
    BY <1>2, CallOther DEF CallInv
<1>3. CASE GcClear
    <2>1. UNCHANGED <<req, idx, lba>>
        BY <1>3 DEF GcClear, call
    <2>2. ASSUME NEW d \in Clients PROVE pc[d] # "write"
        BY <1>3, FtlAssumption DEF GcClear, MutexInv, GcHolds
    <2>3. ASSUME NEW d \in Clients
          PROVE  UNCHANGED pc[d] \/ (pc[d] = "wait" /\ pc'[d] = "lock")
        <3>1. pc \in [Clients -> ClientPcs]
            BY DEF TypeOK, ClientTypeOK
        <3>2. QED
            BY <1>3, <3>1 DEF GcClear, SignalStop, Goto
    <2>4. QED
        BY <2>1, <2>2, <2>3, CallOther DEF CallInv
<1>4. CASE MergeStep
    BY <1>2, <1>4 DEF MergeStep, GcZone, GcZoneFail, GcZonesDone, GcWrite, GcWriteFail,
            GcResetOld, GcResetInPlace, GcRewrite, GcRewriteFail, GcResetSpare, call, meta
<1>5. CASE GcLock \/ GcIdle \/ GcWait \/ GcExit \/ GcCollect \/ GcResetLog \/ GcSpuriousWake
    BY <1>2, <1>5 DEF GcLock, GcIdle, GcWait, GcExit, GcCollect, GcResetLog, GcSpuriousWake,
            call, meta
<1>6. CASE DeinitStop \/ DeinitStep \/ UNCHANGED vars
    BY <1>2, <1>6 DEF DeinitStop, DeinitStep, DeinitSignal, DeinitJoin, vars, call, meta
<1>7. QED
    BY <1>1, <1>3, <1>4, <1>5, <1>6 DEF Next, GcStep, Terminated

----------------------------------------------------------------------------
(* The merge *)

(* A merge writes to an empty data zone or, if none is left, to the last   *)
(* log zone.                                                               *)
LEMMA NextZone ==
    \/ next_empty_zone \in {Slba(z) : z \in VZones} /\ next_empty_zone >= Slba(LogZones)
    \/ next_empty_zone = Slba(LogZones - 1)
<1> USE FtlAssumption
<1>1. CASE Empties = {}
    BY <1>1 DEF next_empty_zone
<1>2. CASE Empties # {}
    <2> DEFINE z == CHOOSE x \in Empties : \A y \in Empties : x <= y
    <2>1. Empties \in SUBSET Nat /\ Empties \subseteq VZones
        <3>1. NumZones \in Nat
            BY GeometryAssumption
        <3>2. QED
            BY <3>1 DEF Empties, VZones
    <2>2. \E x \in Empties : \A y \in Empties : x <= y
        BY <1>2, <2>1, NatMin
    <2>3. z \in VZones
        BY <2>1, <2>2
    <2>4. next_empty_zone = Slba(z)
        BY <1>2 DEF next_empty_zone
    <2> HIDE DEF z
    <2>5. QED
        BY <2>3, <2>4, Layout
<1>3. QED
    BY <1>1, <1>2

LEMMA MergeInvStep ==
    ASSUME TypeOK, MergeInv, [Next]_vars
    PROVE  MergeInv'
<1>1. ASSUME NEW v \in VZones, GcZone(v) PROVE MergeInv'
    <2>1. /\ zone_number' = next_empty_zone
          /\ gpc' = IF zone_number' < Slba(LogZones) THEN "reset in place" ELSE "write"
        BY <1>1 DEF GcZone, GcGoto
    <2>2. /\ Slba(LogZones - 1) < Slba(LogZones)
          /\ \A z \in VZones : ~ Slba(z) < Slba(LogZones)
        <3>1. /\ Slba(LogZones) \in Int /\ Slba(LogZones - 1) \in Int
              /\ \A z \in VZones : Slba(z) \in Int
            BY GeometryAssumption, FtlAssumption DEF VZones, Slba
        <3>2. QED
            BY <3>1, Layout, GeometryAssumption
    <2>3. QED
        BY <2>1, <2>2, NextZone DEF MergeInv, Slba, VZones
<1>2. CASE GcWrite
    BY <1>2 DEF GcWrite, GcGoto, MergeInv, Slba, VZones
<1>3. CASE GcResetInPlace \/ GcRewrite
    BY <1>3 DEF GcResetInPlace, GcRewrite, GcGoto, MergeInv, merge, Slba
<1>4. ASSUME gpc' \notin {"write", "reset old", "reset in place", "rewrite", "reset spare"}
      PROVE  MergeInv'
    BY <1>4 DEF MergeInv
<1>5. ASSUME UNCHANGED <<zone_number, prev_zone, gpc>> PROVE MergeInv'
    BY <1>5 DEF MergeInv, Slba, VZones
<1>6. ASSUME NEW v \in VZones, GcZoneFail(v) PROVE MergeInv'
    BY <1>4, <1>6 DEF GcZoneFail, GcGoto
<1>7. CASE GcZonesDone \/ GcWriteFail \/ GcResetOld \/ GcRewriteFail \/ GcResetSpare
    BY <1>4, <1>7 DEF GcZonesDone, GcWriteFail, GcResetOld, GcRewriteFail, GcResetSpare, GcGoto
<1>8. CASE GcLock \/ GcIdle \/ GcWait \/ GcExit \/ GcSpuriousWake
    BY <1>4, <1>8 DEF GcLock, GcIdle, GcWait, GcExit, GcSpuriousWake, GcGoto
<1>9. CASE GcCollect \/ GcResetLog \/ GcClear
    BY <1>4, <1>9 DEF GcCollect, GcResetLog, GcClear, GcGoto
<1>10. ASSUME UNCHANGED <<zone_number, prev_zone>>, SignalStart PROVE MergeInv'
    BY <1>4, <1>5, <1>10 DEF SignalStart
<1>11. ASSUME NEW c \in Clients, WriteStep(c) PROVE MergeInv'
    BY <1>5, <1>10, <1>11 DEF WriteStep, WriteLock, WriteWait, WriteGo, WriteAppend,
            WriteAppendFail, WriteLarge, WriteLargeFail, WriteMap, merge
<1>12. ASSUME NEW c \in Clients, Call(c) \/ ReadStep(c) \/ Return(c) \/ SpuriousWake(c)
       PROVE  MergeInv'
    BY <1>5, <1>12 DEF Call, WriteCall, ReadCall, RejectedCall, Return, SpuriousWake,
            ReadStep, ReadFind, ReadEntry, ReadData, ReadDev, ReadDevFail, merge
<1>13. CASE DeinitStop \/ DeinitStep \/ UNCHANGED vars
    BY <1>5, <1>10, <1>13 DEF DeinitStop, DeinitStep, DeinitSignal, DeinitJoin, vars, merge
<1>14. QED
    BY <1>1, <1>2, <1>3, <1>6, <1>7, <1>8, <1>9, <1>11, <1>12, <1>13
       DEF Next, GcStep, MergeStep, Terminated

----------------------------------------------------------------------------
(* The tail and the device *)

(* The log zones keep their blocks, the tail stays. *)
LEMMA TailKept ==
    ASSUME TailNotAhead, TailInLog, gpc # "clear", UNCHANGED log_zone_end,
           \A z \in LogZone : UNCHANGED wp[z]
    PROVE  TailNotAhead' /\ TailInLog'
BY DEF TailNotAhead, TailInLog, LogZone, ZoneOf, OffsetOf, Slba

(* The tail is at the start of a zone: nothing has to be there. *)
LEMMA TailAtStart ==
    ASSUME TypeOK', OffsetOf(log_zone_end') = 0
    PROVE  TailNotAhead'
<1>1. \A z \in LogZone : wp'[z] >= 0
    <2>1. wp' \in [Zones -> 0 .. ZoneCap] /\ LogZone \subseteq Zones
        BY Layout DEF TypeOK, DeviceTypeOK, Zones
    <2>2. QED
        BY <2>1, GeometryAssumption
<1>2. QED
    BY <1>1 DEF TailNotAhead, LogZone, ZoneOf, OffsetOf

LEMMA WriterTail ==
    ASSUME TypeOK, TypeOK', MutexInv, TailNotAhead, TailInLog, CallInv,
           NEW c \in Clients, WriteStep(c)
    PROVE  TailNotAhead' /\ TailInLog'
<1> USE GeometryAssumption, FtlAssumption
<1> DEFINE n == req[c].n
           z == ZoneOf(log_zone_end)
<1>0. n \in 1 .. BufBlocks /\ n \in Nat \ {0}
    BY DEF TypeOK, ClientTypeOK
<1>1. ASSUME pc[c] = "write"
      PROVE  lba[c] = log_zone_end /\ gpc # "clear" /\ OffsetOf(log_zone_end) <= wp[z]
    BY <1>1, WriterAtTail
<1>2. CASE WriteAppend(c)
    <2>1. /\ pc[c] = "write" /\ CanAppend(z, n) /\ log_zone_end' = TailAfter(z)
          /\ wp' = [wp EXCEPT ![z] = @ + n]
        BY <1>1, <1>2 DEF WriteAppend, nvme_zns_append
    <2>2. n <= ZoneCap
        BY <1>0, <2>1 DEF CanAppend, TypeOK, DeviceTypeOK
    <2>3. log_zone_end + n < Slba(LogZones - Watermark)
        BY <2>1, <2>2 DEF CallInv, CallOK
    <2>4. /\ log_zone_end' <= Slba(LogZones - Watermark)
          /\ \/ ZoneOf(log_zone_end') = z /\ OffsetOf(log_zone_end') = wp[z] + 1
             \/ OffsetOf(log_zone_end') = 0
        BY <1>0, <2>1, <2>3, AppendTail
    <2>5. ASSUME ZoneOf(log_zone_end') = z, OffsetOf(log_zone_end') = wp[z] + 1
          PROVE  TailNotAhead'
        <3>1. wp'[z] = wp[z] + n /\ wp[z] \in Int
            BY <2>1, TailZone DEF TypeOK, DeviceTypeOK
        <3>2. OffsetOf(log_zone_end') <= wp'[z]
            BY <1>0, <2>5, <3>1
        <3>3. QED
            BY <2>5, <3>2 DEF TailNotAhead, ZoneOf, OffsetOf
    <2>6. QED
        BY <2>4, <2>5, TailAtStart DEF TailInLog, Slba
<1>3. CASE WriteLarge(c) \/ WriteLargeFail(c)
    <2>1. pc[c] = "write" /\ UNCHANGED log_zone_end
        BY <1>3 DEF WriteLarge, WriteLargeFail, meta
    <2>2. TailInLog'
        BY <2>1 DEF TailInLog, Slba
    <2>3. Slba(z) \in Int
        BY TailZone DEF Slba
    <2>4. ASSUME ChunkAccepted(Slba(z), n, 0) PROVE TailNotAhead'
        <3>1. OffsetOf(log_zone_end) = 0
            BY <1>0, <1>1, <2>1, <2>4, LargeAtStart
        <3>2. QED
            BY <2>1, <3>1, TailAtStart
    <2>5. CASE WriteLarge(c)
        <3>1. CanWrite(Slba(z), n)
            BY <1>1, <2>1, <2>5 DEF WriteLarge
        <3>2. QED
            BY <1>0, <2>2, <2>3, <2>4, <3>1, FirstChunk DEF CanWrite
    <2>6. CASE WriteLargeFail(c)
        <3>1. PICK m \in LandedBlocks(Slba(z), n) \cup CutBlocks(Slba(z), n) :
                nvme_write(Slba(z), m, buf[c])
            BY <1>1, <2>1, <2>6 DEF WriteLargeFail
        <3>2. m \in Nat /\ (m > 0 => ChunkAccepted(Slba(z), n, 0))
            BY <1>0, <2>3, <3>1, Prefixes
        <3>3. CASE m = 0
            <4>1. \A y \in LogZone : UNCHANGED wp[y]
                BY <2>3, <3>1, <3>3, WriteBeyondLog
            <4>2. QED
                BY <1>1, <2>1, <4>1, TailKept
        <3>4. QED
            BY <2>2, <2>4, <3>2, <3>3
    <2>7. QED
        BY <1>3, <2>5, <2>6
<1>4. CASE WriteLock(c) \/ WriteWait(c) \/ WriteGo(c) \/ WriteAppendFail(c) \/ WriteMap(c)
    <2>1. UNCHANGED <<wp, log_zone_end>> /\ (gpc' # "clear" => gpc # "clear")
        BY <1>4 DEF WriteLock, WriteWait, WriteGo, WriteAppendFail, WriteMap,
                    SignalStart, device, meta
    <2>2. QED
        BY <2>1 DEF TailNotAhead, TailInLog, LogZone, ZoneOf, OffsetOf, Slba
<1>5. QED
    BY <1>2, <1>3, <1>4 DEF WriteStep

(* The merge writes and resets data zones, and of the log only its last    *)
(* zone.                                                                   *)
LEMMA MergeLogZones ==
    ASSUME TypeOK, MergeInv, MergeStep,
           NEW z \in LogZone
    PROVE  \/ UNCHANGED wp[z]
           \/ gpc = "reset spare" /\ z = LogZones - 1
<1> USE GeometryAssumption, FtlAssumption
<1>3. z \in Zones
    BY Layout
<1>4. ASSUME NEW l \in {Slba(v) : v \in VZones} PROVE l \in Int /\ l >= Slba(LogZones) /\ z # ZoneOf(l)
    <2>1. PICK v \in VZones : l = Slba(v)
        OBVIOUS
    <2>2. v \in Int /\ l \in Int /\ l = Slba(v) + 0 /\ 0 \in Offsets /\ v >= LogZones
        BY <2>1 DEF VZones, Slba, Offsets
    <2>3. ZoneOf(l) = v
        BY <2>2, ZoneOfSlba
    <2>4. QED
        BY <2>1, <2>2, <2>3, Layout DEF LogZone
<1>5. ASSUME NEW l \in Int, NEW m \in Nat, nvme_write(l, m, buffer), m = 0 \/ l >= Slba(LogZones)
      PROVE  UNCHANGED wp[z]
    BY <1>5, WriteBeyondLog
<1>6. ASSUME NEW zs, ResetIgnored(zs), z \notin zs PROVE UNCHANGED wp[z]
    BY <1>3, <1>6 DEF ResetIgnored, nvme_zns_reset
<1>7. ASSUME NEW l \in Int, ZoneWriteFails(l), l = NoEntry \/ l >= Slba(LogZones)
      PROVE  UNCHANGED wp[z]
    <2>1. PICK m \in LandedBlocks(l, ZoneCap) \cup CutBlocks(l, ZoneCap) : nvme_write(l, m, buffer)
        BY <1>7 DEF ZoneWriteFails
    <2>2. m \in Nat /\ (m > 0 => ChunkAccepted(l, ZoneCap, 0))
        BY <2>1, Prefixes
    <2>3. ASSUME l = NoEntry PROVE m = 0
        <3>1. l \notin LBAs
            BY <2>3 DEF NoEntry, LBAs
        <3>2. QED
            BY <2>2, <3>1, FirstChunk
    <2>4. QED
        BY <1>5, <1>7, <2>1, <2>2, <2>3
<1>8. CASE GcWrite \/ GcWriteFail
    <2>1. zone_number \in {Slba(v) : v \in VZones}
        BY <1>8 DEF MergeInv, GcWrite, GcWriteFail
    <2>2. QED
        BY <1>4, <1>5, <1>7, <1>8, <2>1 DEF GcWrite, GcWriteFail
<1>9. CASE GcRewrite \/ GcRewriteFail
    <2>1. prev_zone \in {Slba(v) : v \in VZones} \cup {NoEntry} /\ NoEntry \in Int
        BY DEF TypeOK, GcTypeOK, NoEntry
    <2>2. QED
        BY <1>4, <1>5, <1>7, <1>9, <2>1 DEF GcRewrite, GcRewriteFail
<1>10. CASE GcResetOld \/ GcResetInPlace
    <2>1. prev_zone \in {Slba(v) : v \in VZones} \cup {NoEntry}
        BY DEF TypeOK, GcTypeOK
    <2>2. GcResetOld => prev_zone # NoEntry
        BY DEF MergeInv, GcResetOld
    <2>3. QED
        BY <1>4, <1>6, <1>10, <2>1, <2>2 DEF GcResetOld, GcResetInPlace, OldZone
<1>11. CASE GcResetSpare
    <2>1. gpc = "reset spare" /\ zone_number = Slba(LogZones - 1)
        BY <1>11 DEF MergeInv, GcResetSpare
    <2>2. Slba(LogZones - 1) + 0 = Slba(LogZones - 1) /\ 0 \in Offsets
          /\ LogZones - 1 \in Int
        BY DEF Slba, Offsets
    <2>3. ZoneOf(Slba(LogZones - 1) + 0) = LogZones - 1
        BY <2>2, ZoneOfSlba
    <2>4. CASE z \in {LogZones - 1}
        BY <2>1, <2>4
    <2>5. CASE z \notin {LogZones - 1}
        BY <1>6, <1>11, <2>1, <2>2, <2>3, <2>5 DEF GcResetSpare
    <2>6. QED
        BY <2>4, <2>5
<1>12. CASE UNCHANGED device
    BY <1>12 DEF device
<1>13. QED
    BY <1>8, <1>9, <1>10, <1>11, <1>12 DEF MergeStep, GcZone, GcZoneFail, GcZonesDone

(* Where there is nothing, if the tail has come as far as that zone. *)
LEMMA MergeTail ==
    ASSUME TypeOK, TypeOK', TailNotAhead, TailInLog, MergeInv, MergeStep
    PROVE  TailNotAhead' /\ TailInLog'
<1> USE GeometryAssumption, FtlAssumption
<1> DEFINE t == ZoneOf(log_zone_end)
<1>1. UNCHANGED log_zone_end /\ gpc # "clear"
    BY DEF MergeStep, GcZone, GcZoneFail, GcZonesDone, GcWrite, GcWriteFail, GcResetOld,
           GcResetInPlace, GcRewrite, GcRewriteFail, GcResetSpare, meta
<1>2. /\ t \in LogZone /\ log_zone_end = Slba(t) + OffsetOf(log_zone_end)
      /\ OffsetOf(log_zone_end) \in Offsets /\ log_zone_end \in LBAs
    BY TailZone
<1>3. CASE t = LogZones - 1
    <2>1. Slba(LogZones - 1) \in Int /\ log_zone_end \in Int
        BY <1>2 DEF Slba, LBAs
    <2>2. log_zone_end <= Slba(LogZones - 1)
        BY <2>1, Layout DEF TailInLog
    <2>3. OffsetOf(log_zone_end) \in Nat
        BY <1>2 DEF Offsets
    <2>4. log_zone_end = Slba(LogZones - 1) + OffsetOf(log_zone_end)
        BY <1>2, <1>3
    <2>5. OffsetOf(log_zone_end) = 0
        BY <2>1, <2>2, <2>3, <2>4
    <2>6. QED
        BY <1>1, <2>5, TailAtStart DEF TailInLog, Slba
<1>4. CASE wp'[t] = wp[t]
    BY <1>1, <1>4 DEF TailNotAhead, TailInLog, LogZone, ZoneOf, OffsetOf, Slba
<1>5. QED
    BY <1>2, <1>3, <1>4, MergeLogZones

LEMMA TailStep ==
    ASSUME TypeOK, TypeOK', MutexInv, TailNotAhead, TailInLog, CallInv, MergeInv, [Next]_vars
    PROVE  TailNotAhead' /\ TailInLog'
<1>1. ASSUME UNCHANGED <<wp, log_zone_end>>, gpc' # "clear" => gpc # "clear"
      PROVE  TailNotAhead' /\ TailInLog'
    BY <1>1 DEF TailNotAhead, TailInLog, LogZone, ZoneOf, OffsetOf, Slba
<1>2. ASSUME NEW c \in Clients, WriteStep(c) PROVE TailNotAhead' /\ TailInLog'
    BY <1>2, WriterTail
<1>3. ASSUME NEW c \in Clients, Call(c) \/ ReadStep(c) \/ Return(c) \/ SpuriousWake(c)
      PROVE  TailNotAhead' /\ TailInLog'
    BY <1>1, <1>3 DEF Call, WriteCall, ReadCall, RejectedCall, Return, SpuriousWake,
            ReadStep, ReadFind, ReadEntry, ReadData, ReadDev, ReadDevFail, device, meta
<1>4. CASE MergeStep
    BY <1>4, MergeTail
<1>5. CASE GcResetLog
    <2>1. gpc' = "clear" /\ UNCHANGED log_zone_end
        BY <1>5 DEF GcResetLog, GcGoto, meta
    <2>2. QED
        BY <2>1 DEF TailNotAhead, TailInLog, Slba
<1>6. CASE GcClear
    <2>1. log_zone_end' = 0
        BY <1>6 DEF GcClear, EmptyLog
    <2>2. OffsetOf(0) = 0 /\ Slba(LogZones - Watermark) \in Nat
        <3>1. 0 = Slba(0) + 0 /\ 0 \in Offsets
            BY GeometryAssumption DEF Slba, Offsets
        <3>2. QED
            BY <3>1, ZoneOfSlba, Layout
    <2>3. QED
        BY <2>1, <2>2, TailAtStart DEF TailInLog, Slba
<1>7. CASE GcLock \/ GcIdle \/ GcWait \/ GcExit \/ GcCollect \/ GcSpuriousWake
    BY <1>1, <1>7 DEF GcLock, GcIdle, GcWait, GcExit, GcCollect, GcSpuriousWake, GcGoto,
            device, meta
<1>8. CASE DeinitStop \/ DeinitStep \/ UNCHANGED vars
    BY <1>1, <1>8 DEF DeinitStop, DeinitStep, DeinitSignal, DeinitJoin, SignalStart, vars,
            device, meta
<1>9. QED
    BY <1>2, <1>3, <1>4, <1>5, <1>6, <1>7, <1>8 DEF Next, GcStep, Terminated

----------------------------------------------------------------------------
(* Types *)

LEMMA DeviceKept ==
    ASSUME DeviceTypeOK, UNCHANGED device
    PROVE  DeviceTypeOK'
BY DEF DeviceTypeOK, device, Zones, LBAs, Payload

LEMMA MetaKept ==
    ASSUME MetaTypeOK, UNCHANGED <<meta, last>>
    PROVE  MetaTypeOK'
BY DEF MetaTypeOK, meta, LBAs, Payload, Addr, VZones, Slba

LEMMA SyncKept ==
    ASSUME SyncTypeOK, UNCHANGED <<flags, gc_mutex, dpc, faults>>
    PROVE  SyncTypeOK'
BY DEF SyncTypeOK, flags, DeinitPcs

LEMMA ClientKept ==
    ASSUME ClientTypeOK, UNCHANGED <<pc, call>>
    PROVE  ClientTypeOK'
BY DEF ClientTypeOK, call, ClientPcs, Addr, BufIdx, Payload, LBAs

LEMMA GcKept ==
    ASSUME GcTypeOK, gpc' \in GcPcs, UNCHANGED merge
    PROVE  GcTypeOK'
BY DEF GcTypeOK, merge, GcPcs, LBAs, Addr, VZones, Zones, Offsets, Payload, Slba

LEMMA FaultType ==
    ASSUME SyncTypeOK, UNCHANGED <<flags, gc_mutex, dpc>>, Fault \/ UNCHANGED faults
    PROVE  SyncTypeOK'
<1>1. faults' \in 0 .. MaxFaults
    BY FtlAssumption DEF SyncTypeOK, Fault
<1>2. QED
    BY <1>1 DEF SyncTypeOK, flags, DeinitPcs

LEMMA TypeZero == 0 \in LBAs /\ 0 \in Addr /\ NumZones * ZoneCap \in Nat
<1>1. (NumZones - LogZones) * ZoneCap \in Nat \ {0} /\ NumZones * ZoneCap \in Nat \ {0}
    BY SMT, GeometryAssumption, FtlAssumption
<1>2. QED
    BY <1>1 DEF LBAs, Addr

LEMMA TypeInit == Init => TypeOK
<1> USE GeometryAssumption, FtlAssumption
<1> SUFFICES ASSUME Init PROVE TypeOK
    OBVIOUS
<1>1. DeviceTypeOK
    BY DEF Init, DeviceTypeOK, Payload
<1>2. 0 \in LBAs /\ 0 \in Addr /\ NumZones * ZoneCap \in Nat
    BY TypeZero
<1>3. LogZones \in VZones /\ 0 \in {Slba(z) : z \in Zones} /\ Zero \in Payload
    BY DEF VZones, Zones, Slba, Payload
<1>4. NoReq \in [op : {"none", "read", "write"}, addr : Addr, n : 1 .. BufBlocks]
    BY <1>2 DEF NoReq
<1>5. zone_states \in [VZones -> {EMPTY_ZONE, IMPLICITLY_OPENED, FULL_ZONE}]
    BY DEF Init, ReportedState
<1>6. EmptyBuf \in [BufIdx -> Payload] /\ EmptyZoneBuf \in [Offsets -> Payload]
    BY <1>3 DEF EmptyBuf, EmptyZoneBuf
<1>7. MetaTypeOK
    BY <1>2, <1>5 DEF Init, MetaTypeOK
<1>8. ClientTypeOK
    BY <1>2, <1>4, <1>6 DEF Init, ClientTypeOK, ClientPcs
<1>9. GcTypeOK
    BY <1>3, <1>6 DEF Init, GcTypeOK, GcPcs
<1>10. SyncTypeOK
    <2>1. faults \in 0 .. MaxFaults
        BY DEF Init
    <2>2. gc_thread_stop \in BOOLEAN /\ trigger_my_gc \in BOOLEAN
        BY Zenon DEF Init
    <2>3. QED
        BY <2>1, <2>2 DEF Init, SyncTypeOK, DeinitPcs
<1>11. QED
    BY <1>1, <1>7, <1>8, <1>9, <1>10 DEF TypeOK

(* The write path. *)
LEMMA WriteTypes ==
    ASSUME TypeOK, MutexInv, TailNotAhead, TailInLog, CallInv,
           NEW c \in Clients, WriteStep(c)
    PROVE  TypeOK'
<1> USE GeometryAssumption, FtlAssumption
<1> DEFINE n == req[c].n
           z == ZoneOf(log_zone_end)
<1>1. /\ n \in 1 .. BufBlocks /\ n \in Nat \ {0} /\ pc[c] \in ClientPcs
      /\ \A m \in 0 .. n : \A j \in 0 .. m - 1 : buf[c][j] \in Payload
    BY DEF TypeOK, ClientTypeOK, BufIdx
<1>2. DeviceTypeOK /\ MetaTypeOK /\ SyncTypeOK /\ ClientTypeOK /\ GcTypeOK
    BY DEF TypeOK
<1>3. ASSUME pc[c] = "write" PROVE lba[c] = log_zone_end /\ Slba(z) \in Int
    BY <1>3, WriterAtTail, TailZone DEF Slba
<1>4. ASSUME NEW l \in ClientPcs, pc' = [pc EXCEPT ![c] = l], UNCHANGED <<req, buf, idx, lba>>,
             ret' = ret \/ ret' = [ret EXCEPT ![c] = EIO]
      PROVE  ClientTypeOK'
    BY <1>2, <1>4 DEF ClientTypeOK, ClientPcs, Addr, BufIdx, Payload, LBAs
<1>5. GcTypeOK'
    <2>1. UNCHANGED merge /\ (gpc' = gpc \/ gpc' = "lock")
        BY DEF WriteStep, WriteLock, WriteWait, WriteGo, WriteAppend, WriteAppendFail,
               WriteLarge, WriteLargeFail, WriteMap, SignalStart
    <2>2. QED
        BY <1>2, <2>1, GcKept DEF GcTypeOK, GcPcs
<1>6. CASE WriteLock(c)
    <2>1. DeviceTypeOK' /\ MetaTypeOK'
        BY <1>2, <1>6, DeviceKept, MetaKept DEF WriteLock
    <2>2. ClientTypeOK'
        BY <1>4, <1>6 DEF WriteLock, Goto, call, ClientPcs
    <2>3. SyncTypeOK'
        BY <1>2, <1>6 DEF WriteLock, SyncTypeOK, flags, DeinitPcs
    <2>4. QED
        BY <1>5, <2>1, <2>2, <2>3 DEF TypeOK
<1>7. CASE WriteWait(c)
    <2>1. DeviceTypeOK' /\ MetaTypeOK'
        BY <1>2, <1>7, DeviceKept, MetaKept DEF WriteWait
    <2>2. ClientTypeOK'
        BY <1>4, <1>7 DEF WriteWait, Goto, call, ClientPcs
    <2>3. SyncTypeOK'
        BY <1>2, <1>7 DEF WriteWait, SyncTypeOK, DeinitPcs
    <2>4. QED
        BY <1>5, <2>1, <2>2, <2>3 DEF TypeOK
<1>8. CASE WriteGo(c)
    <2>1. DeviceTypeOK' /\ MetaTypeOK' /\ SyncTypeOK'
        BY <1>2, <1>8, DeviceKept, MetaKept, SyncKept DEF WriteGo
    <2>2. log_zone_end \in LBAs
        BY TailZone
    <2>3. ClientTypeOK'
        BY <1>2, <1>8, <2>2 DEF WriteGo, Goto, ClientTypeOK, ClientPcs, Addr, BufIdx, Payload, LBAs
    <2>4. QED
        BY <1>5, <2>1, <2>3 DEF TypeOK
<1>9. CASE WriteAppend(c)
    <2>1. /\ pc[c] = "write" /\ nvme_zns_append(z, n, buf[c]) /\ log_zone_end' = TailAfter(z)
        BY <1>3, <1>9 DEF WriteAppend
    <2>2. DeviceTypeOK'
        BY <1>1, <1>2, <2>1, AppendType
    <2>3. CanAppend(z, n) /\ n <= ZoneCap
        BY <1>1, <1>2, <2>1 DEF nvme_zns_append, CanAppend, DeviceTypeOK
    <2>4. log_zone_end + n < Slba(LogZones - Watermark)
        BY <2>1, <2>3 DEF CallInv, CallOK
    <2>5. log_zone_end' \in 0 .. NumZones * ZoneCap
        BY <1>1, <2>1, <2>3, <2>4, AppendTail
    <2>6. MetaTypeOK'
        BY <1>2, <1>9, <2>5 DEF WriteAppend, MetaTypeOK, LBAs, Payload, Addr, VZones, Slba
    <2>7. ClientTypeOK'
        BY <1>4, <1>9 DEF WriteAppend, Goto, call, ClientPcs
    <2>8. SyncTypeOK'
        BY <1>2, <1>9, SyncKept DEF WriteAppend
    <2>9. QED
        BY <1>5, <2>2, <2>6, <2>7, <2>8 DEF TypeOK
<1>10. CASE WriteAppendFail(c)
    <2>1. DeviceTypeOK' /\ MetaTypeOK'
        BY <1>2, <1>10, DeviceKept, MetaKept DEF WriteAppendFail
    <2>2. ClientTypeOK'
        BY <1>4, <1>10 DEF WriteAppendFail, Leave, Goto, ClientPcs
    <2>3. SyncTypeOK'
        BY <1>2, <1>10, FaultType DEF WriteAppendFail
    <2>4. QED
        BY <1>5, <2>1, <2>2, <2>3 DEF TypeOK
<1>11. CASE WriteLarge(c)
    <2>1. nvme_write(Slba(z), n, buf[c]) /\ Slba(z) \in Int
        BY <1>3, <1>11 DEF WriteLarge
    <2>2. DeviceTypeOK'
        BY <1>1, <1>2, <2>1, WriteType
    <2>3. MetaTypeOK' /\ SyncTypeOK'
        BY <1>2, <1>11, MetaKept, SyncKept DEF WriteLarge
    <2>4. ClientTypeOK'
        BY <1>4, <1>11 DEF WriteLarge, Goto, call, ClientPcs
    <2>5. QED
        BY <1>5, <2>2, <2>3, <2>4 DEF TypeOK
<1>12. CASE WriteLargeFail(c)
    <2>1. Slba(z) \in Int
        BY <1>3, <1>12 DEF WriteLargeFail
    <2>2. PICK m \in LandedBlocks(Slba(z), n) \cup CutBlocks(Slba(z), n) :
            nvme_write(Slba(z), m, buf[c])
        BY <1>3, <1>12 DEF WriteLargeFail
    <2>3. m \in Nat /\ m < n
        BY <1>1, <2>1, Prefixes
    <2>4. DeviceTypeOK'
        BY <1>1, <1>2, <2>1, <2>2, <2>3, WriteType
    <2>5. MetaTypeOK'
        BY <1>2, <1>12, MetaKept DEF WriteLargeFail
    <2>6. ClientTypeOK'
        BY <1>4, <1>12 DEF WriteLargeFail, Leave, Goto, ClientPcs
    <2>7. SyncTypeOK'
        BY <1>2, <1>12, FaultType DEF WriteLargeFail
    <2>8. QED
        BY <1>5, <2>4, <2>5, <2>6, <2>7 DEF TypeOK
<1>13. CASE WriteMap(c)
    <2> DEFINE a == req[c].addr + idx[c]
    <2>1. /\ a \in Addr /\ idx[c] \in 0 .. n - 1 /\ idx[c] + 1 \in 0 .. BufBlocks
        BY <1>13, NextRound DEF WriteMap, Looping
    <2>2. lba[c] + idx[c] \in LBAs
        <3>1. lba[c] + n <= NumZones * ZoneCap
            BY <1>13 DEF WriteMap, CallInv, CallOK
        <3>2. lba[c] \in Nat /\ NumZones * ZoneCap \in Nat
            BY <1>2 DEF ClientTypeOK, LBAs
        <3>3. QED
            BY <1>1, <2>1, <3>1, <3>2 DEF LBAs
    <2>3. buf[c][idx[c]] \in Payload
        BY <1>1, <2>1
    <2>4. /\ log_zone_mapping' = [log_zone_mapping EXCEPT ![a] = lba[c] + idx[c]]
          /\ last' = [last EXCEPT ![a] = buf[c][idx[c]]]
          /\ UNCHANGED <<log_zone_end, data_zone_mapping, zone_states>>
        BY <1>13 DEF WriteMap
    <2> HIDE DEF a
    <2>5. MetaTypeOK'
        BY <1>2, <2>1, <2>2, <2>3, <2>4 DEF MetaTypeOK, LBAs, Payload, Addr, VZones, Slba
    <2>6. ClientTypeOK'
        <3>1. /\ idx' = [idx EXCEPT ![c] = @ + 1] /\ UNCHANGED <<req, buf, lba, ret>>
              /\ pc' = pc \/ pc' = [pc EXCEPT ![c] = "ret"]
            BY <1>13 DEF WriteMap, Goto
        <3>2. pc' \in [Clients -> ClientPcs]
            BY <1>2, <3>1 DEF ClientTypeOK, ClientPcs
        <3>3. idx' \in [Clients -> 0 .. BufBlocks]
            BY <1>2, <2>1, <3>1 DEF ClientTypeOK
        <3>4. QED
            BY <1>2, <3>1, <3>2, <3>3 DEF ClientTypeOK, ClientPcs, Addr, BufIdx, Payload, LBAs
    <2>7. SyncTypeOK'
        BY <1>2, <1>13 DEF WriteMap, UnlockAfter, SyncTypeOK, flags, DeinitPcs
    <2>8. DeviceTypeOK'
        BY <1>2, <1>13, DeviceKept DEF WriteMap
    <2>9. QED
        BY <1>5, <2>5, <2>6, <2>7, <2>8 DEF TypeOK
<1>14. QED
    BY <1>6, <1>7, <1>8, <1>9, <1>10, <1>11, <1>12, <1>13 DEF WriteStep

(* The calls and the read path. *)
LEMMA CallTypes ==
    ASSUME TypeOK, NEW c \in Clients, Call(c) \/ Return(c) \/ SpuriousWake(c)
    PROVE  TypeOK'
<1> USE GeometryAssumption, FtlAssumption
<1>1. DeviceTypeOK /\ MetaTypeOK /\ SyncTypeOK /\ ClientTypeOK /\ GcTypeOK
    BY DEF TypeOK
<1>2. DeviceTypeOK' /\ MetaTypeOK' /\ SyncTypeOK' /\ GcTypeOK'
    <2>1. UNCHANGED <<device, meta, flags, gc_mutex, gpc, merge, dpc, faults, last>>
        BY DEF Call, WriteCall, ReadCall, RejectedCall, Return, SpuriousWake
    <2>2. gpc' \in GcPcs
        BY <1>1, <2>1 DEF GcTypeOK
    <2>3. QED
        BY <1>1, <2>1, <2>2, DeviceKept, MetaKept, SyncKept, GcKept
<1>3. ASSUME NEW a \in Addr, NEW n \in WriteSizes, NEW b \in WriteBuffers(n), WriteCall(c, a, n, b)
      PROVE  ClientTypeOK'
    <2>1. n \in 1 .. BufBlocks /\ b \in [BufIdx -> Payload]
        BY DEF WriteBuffers
    <2>2. /\ pc' = [pc EXCEPT ![c] = "lock"]
          /\ req' = [req EXCEPT ![c] = [op |-> "write", addr |-> a, n |-> n]]
          /\ buf' = [buf EXCEPT ![c] = b]
          /\ UNCHANGED <<idx, lba, ret>>
        BY <1>3 DEF WriteCall, Goto
    <2>3. QED
        BY <1>1, <2>1, <2>2 DEF ClientTypeOK, ClientPcs, Addr, BufIdx, Payload, LBAs
<1>4. ASSUME NEW a \in Addr, NEW n \in ReadSizes, ReadCall(c, a, n)
      PROVE  ClientTypeOK'
    <2>1. n \in 1 .. BufBlocks
        OBVIOUS
    <2>2. /\ pc' = [pc EXCEPT ![c] = "find"]
          /\ req' = [req EXCEPT ![c] = [op |-> "read", addr |-> a, n |-> n]]
          /\ UNCHANGED <<buf, idx, lba, ret>>
        BY <1>4 DEF ReadCall, Goto
    <2>3. QED
        BY <1>1, <2>1, <2>2 DEF ClientTypeOK, ClientPcs, Addr, BufIdx, Payload, LBAs
<1>5. ASSUME RejectedCall(c) PROVE ClientTypeOK'
    <2>1. /\ pc' = [pc EXCEPT ![c] = "ret"] /\ ret' = [ret EXCEPT ![c] = EINVAL]
          /\ UNCHANGED <<req, buf, idx, lba>>
        BY <1>5 DEF RejectedCall, Leave, Goto
    <2>2. QED
        BY <1>1, <2>1 DEF ClientTypeOK, ClientPcs, Addr, BufIdx, Payload, LBAs
<1>6. ASSUME Return(c) PROVE ClientTypeOK'
    <2>1. 0 \in LBAs /\ 0 \in Addr
        BY TypeZero
    <2>2. NoReq \in [op : {"none", "read", "write"}, addr : Addr, n : 1 .. BufBlocks]
        BY <2>1 DEF NoReq
    <2>3. EmptyBuf \in [BufIdx -> Payload]
        BY DEF EmptyBuf, Payload
    <2>4. /\ pc' = [pc EXCEPT ![c] = "idle"]
          /\ req' = [req EXCEPT ![c] = NoReq]
          /\ buf' = [buf EXCEPT ![c] = EmptyBuf]
          /\ idx' = [idx EXCEPT ![c] = 0]
          /\ lba' = [lba EXCEPT ![c] = 0]
          /\ ret' = [ret EXCEPT ![c] = SUCCESS]
        BY <1>6 DEF Return, Goto
    <2>5. 0 \in 0 .. BufBlocks
        OBVIOUS
    <2>6. QED
        BY <1>1, <2>1, <2>2, <2>3, <2>4, <2>5
           DEF ClientTypeOK, ClientPcs, Addr, BufIdx, Payload, LBAs
<1>7. ASSUME SpuriousWake(c) PROVE ClientTypeOK'
    <2>1. pc' = [pc EXCEPT ![c] = "lock"] /\ UNCHANGED call
        BY <1>7 DEF SpuriousWake, Goto
    <2>2. QED
        BY <1>1, <2>1 DEF call, ClientTypeOK, ClientPcs, Addr, BufIdx, Payload, LBAs
<1>8. QED
    BY <1>1, <1>2, <1>3, <1>4, <1>5, <1>6, <1>7 DEF Call, TypeOK

LEMMA ReadTypes ==
    ASSUME TypeOK, CallInv, NEW c \in Clients, ReadStep(c)
    PROVE  TypeOK'
<1> USE GeometryAssumption, FtlAssumption
<1> DEFINE a == req[c].addr + idx[c]
<1>1. DeviceTypeOK /\ MetaTypeOK /\ SyncTypeOK /\ ClientTypeOK /\ GcTypeOK
    BY DEF TypeOK
<1>2. DeviceTypeOK' /\ GcTypeOK'
    <2>1. UNCHANGED <<device, gpc, merge>>
        BY DEF ReadStep, ReadFind, ReadEntry, ReadData, ReadDev, ReadDevFail
    <2>2. gpc' \in GcPcs
        BY <1>1, <2>1 DEF GcTypeOK
    <2>3. QED
        BY <1>1, <2>1, <2>2, DeviceKept, GcKept
<1>3. /\ pc[c] \in Looping /\ a \in Addr /\ idx[c] \in 0 .. req[c].n - 1
      /\ req[c].n \in 1 .. BufBlocks /\ idx[c] + 1 \in 0 .. BufBlocks
    <2>1. pc[c] \in Looping
        BY DEF ReadStep, ReadFind, ReadEntry, ReadData, ReadDev, ReadDevFail, Looping
    <2>2. QED
        BY <2>1, NextRound
<1>4. CASE ReadFind(c)
    <2>1. MetaTypeOK' /\ SyncTypeOK'
        BY <1>1, <1>4, MetaKept, SyncKept DEF ReadFind
    <2>2. ClientTypeOK'
        BY <1>1, <1>4 DEF ReadFind, Goto, call, ClientTypeOK, ClientPcs, Addr, BufIdx, Payload, LBAs
    <2>3. QED
        BY <1>2, <2>1, <2>2 DEF TypeOK
<1>5. CASE ReadEntry(c)
    <2> DEFINE e == IF log_zone_mapping[a] = NoEntry THEN 0 ELSE log_zone_mapping[a]
    <2>1. e \in LBAs
        BY <1>1, <1>3, TypeZero DEF MetaTypeOK
    <2>2. /\ log_zone_mapping' = [log_zone_mapping EXCEPT ![a] = e]
          /\ lba' = [lba EXCEPT ![c] = Unflagged(e)]
          /\ pc' = [pc EXCEPT ![c] = IF Flagged(e) THEN "data" ELSE "dev"]
          /\ UNCHANGED <<log_zone_end, data_zone_mapping, zone_states, last>>
          /\ UNCHANGED <<req, buf, idx, ret>>
        BY <1>5 DEF ReadEntry, Goto
    <2> HIDE DEF e, a
    <2>3. Unflagged(e) \in LBAs
        <3>1. e \in Nat /\ e < Bit63 /\ Bit63 \in Nat \ {0}
            <4>1. NumZones * ZoneCap \in Nat
                OBVIOUS
            <4>2. QED
                BY <2>1, <4>1 DEF LBAs
        <3>2. e % Bit63 = e
            BY <3>1
        <3>3. QED
            BY <2>1, <3>2 DEF Unflagged
    <2>4. MetaTypeOK'
        BY <1>1, <1>3, <2>1, <2>2 DEF MetaTypeOK, LBAs, Payload, Addr, VZones, Slba
    <2>5. ClientTypeOK'
        BY <1>1, <2>2, <2>3 DEF ClientTypeOK, ClientPcs, Addr, BufIdx, Payload, LBAs
    <2>6. SyncTypeOK'
        BY <1>1, <1>5, SyncKept DEF ReadEntry
    <2>7. QED
        BY <1>2, <2>4, <2>5, <2>6 DEF TypeOK
<1>6. CASE ReadData(c)
    <2> DEFINE slba == data_zone_mapping[VZone(a)]
    <2>1. MetaTypeOK' /\ SyncTypeOK'
        BY <1>1, <1>6, MetaKept, SyncKept DEF ReadData
    <2>2. VZone(a) \in VZones /\ VOffset(a) \in Offsets
        BY <1>3, AddrParts
    <2>3. CASE slba = NoEntry
        <3>1. EmptyBuf \in [BufIdx -> Payload]
            BY DEF EmptyBuf, Payload
        <3>2. /\ buf' = [buf EXCEPT ![c] = EmptyBuf]
              /\ pc' = [pc EXCEPT ![c] = "ret"] /\ ret' = [ret EXCEPT ![c] = SUCCESS]
              /\ UNCHANGED <<req, idx, lba>>
            BY <1>6, <2>3 DEF ReadData, Leave, Goto
        <3>3. ClientTypeOK'
            BY <1>1, <3>1, <3>2 DEF ClientTypeOK, ClientPcs, Addr, BufIdx, Payload, LBAs
        <3>4. QED
            BY <1>2, <2>1, <3>3 DEF TypeOK
    <2>4. CASE slba # NoEntry
        <3>1. PICK v \in VZones : slba = Slba(v)
            BY <1>1, <2>2, <2>4 DEF MetaTypeOK
        <3>2. slba + VOffset(a) \in LBAs
            BY <2>2, <3>1, BlockLba, Layout
        <3>3. /\ lba' = [lba EXCEPT ![c] = slba + VOffset(a)]
              /\ pc' = [pc EXCEPT ![c] = "dev"] /\ UNCHANGED <<req, buf, idx, ret>>
            BY <1>6, <2>4 DEF ReadData, Goto, DataLba
        <3>4. ClientTypeOK'
            BY <1>1, <3>2, <3>3 DEF ClientTypeOK, ClientPcs, Addr, BufIdx, Payload, LBAs
        <3>5. QED
            BY <1>2, <2>1, <3>4 DEF TypeOK
    <2>5. QED
        BY <2>3, <2>4
<1>7. CASE ReadDev(c)
    <2> DEFINE m == ReadLen(c)
               b == [k \in BufIdx |-> IF k >= idx[c] /\ k < idx[c] + m /\ k < req[c].n
                                      THEN blk[lba[c] + k - idx[c]] ELSE buf[c][k]]
    <2>1. MetaTypeOK' /\ SyncTypeOK'
        BY <1>1, <1>7, MetaKept, SyncKept DEF ReadDev
    <2>2. m \in Nat \ {0} /\ CanRead(lba[c], m) /\ lba[c] \in Int
        BY <1>1, <1>3, <1>7 DEF ReadDev, ReadLen, ClientTypeOK, LBAs
    <2>3. ASSUME NEW k \in BufIdx, k >= idx[c], k < idx[c] + m
          PROVE  blk[lba[c] + k - idx[c]] \in Payload
        <3>1. k - idx[c] \in 0 .. m - 1 /\ k \in Int /\ idx[c] \in Int
            BY <1>3, <2>2, <2>3 DEF BufIdx
        <3>2. lba[c] + (k - idx[c]) \in LBAs
            BY <2>2, <3>1, ReadRange
        <3>3. lba[c] + (k - idx[c]) = lba[c] + k - idx[c]
            BY <2>2, <3>1
        <3>4. QED
            BY <1>1, <3>2, <3>3 DEF DeviceTypeOK
    <2>4. b \in [BufIdx -> Payload]
        BY <1>1, <2>3 DEF ClientTypeOK
    <2>5. /\ buf' = [buf EXCEPT ![c] = b] /\ idx' = [idx EXCEPT ![c] = @ + 1]
          /\ pc' = [pc EXCEPT ![c] = "ret"] \/ pc' = [pc EXCEPT ![c] = "find"]
          /\ ret' = [ret EXCEPT ![c] = SUCCESS] \/ ret' = ret
          /\ UNCHANGED <<req, lba>>
        BY <1>7 DEF ReadDev, Leave, Goto
    <2> HIDE DEF b
    <2>6. idx' \in [Clients -> 0 .. BufBlocks]
        BY <1>1, <1>3, <2>5 DEF ClientTypeOK
    <2>7. ClientTypeOK'
        BY <1>1, <2>4, <2>5, <2>6 DEF ClientTypeOK, ClientPcs, Addr, BufIdx, Payload, LBAs
    <2>8. QED
        BY <1>2, <2>1, <2>7 DEF TypeOK
<1>8. CASE ReadDevFail(c)
    <2>1. MetaTypeOK' /\ SyncTypeOK'
        BY <1>1, <1>8, MetaKept, FaultType DEF ReadDevFail
    <2>2. ClientTypeOK'
        BY <1>1, <1>8 DEF ReadDevFail, Leave, Goto, ClientTypeOK, ClientPcs, Addr, BufIdx, Payload, LBAs
    <2>3. QED
        BY <1>2, <2>1, <2>2 DEF TypeOK
<1>9. QED
    BY <1>4, <1>5, <1>6, <1>7, <1>8 DEF ReadStep

(* The GC thread. *)
LEMMA ResetIgnoredType ==
    ASSUME DeviceTypeOK, NEW zs, ResetIgnored(zs)
    PROVE  DeviceTypeOK' /\ (Fault \/ UNCHANGED faults)
BY ResetType DEF ResetIgnored

LEMMA ZoneWriteFailsType ==
    ASSUME DeviceTypeOK, GcTypeOK, NEW l \in Int, ZoneWriteFails(l)
    PROVE  DeviceTypeOK' /\ (Fault \/ UNCHANGED faults)
<1>1. PICK m \in LandedBlocks(l, ZoneCap) \cup CutBlocks(l, ZoneCap) : nvme_write(l, m, buffer)
    BY DEF ZoneWriteFails
<1>2. m \in Nat /\ m < ZoneCap
    BY <1>1, Prefixes, GeometryAssumption
<1>3. \A j \in 0 .. m - 1 : buffer[j] \in Payload
    BY <1>2, GeometryAssumption DEF GcTypeOK, Offsets
<1>4. DeviceTypeOK'
    BY <1>1, <1>2, <1>3, WriteType
<1>5. QED
    BY <1>4 DEF ZoneWriteFails

LEMMA ZoneWriteType ==
    ASSUME DeviceTypeOK, GcTypeOK, NEW l \in Int, nvme_write(l, ZoneCap, buffer)
    PROVE  DeviceTypeOK'
<1>1. ZoneCap \in Nat /\ \A j \in 0 .. ZoneCap - 1 : buffer[j] \in Payload
    BY GeometryAssumption DEF GcTypeOK, Offsets
<1>2. QED
    BY <1>1, WriteType

LEMMA VZoneSlba ==
    ASSUME NEW l \in {Slba(v) : v \in VZones}
    PROVE  l \in Int /\ ZoneOf(l) \in VZones
<1> USE GeometryAssumption, FtlAssumption
<1>1. PICK v \in VZones : l = Slba(v)
    OBVIOUS
<1>2. v \in Int /\ Slba(v) \in Int /\ Slba(v) + 0 = Slba(v) /\ 0 \in Offsets
    BY DEF VZones, Slba, Offsets
<1>3. ZoneOf(Slba(v) + 0) = v
    BY <1>2, ZoneOfSlba
<1>4. QED
    BY <1>1, <1>2, <1>3

(* One round of the merge. *)
LEMMA GcZoneType ==
    ASSUME TypeOK, NEW v \in VZones, GcZone(v)
    PROVE  MetaTypeOK' /\ GcTypeOK'
<1> USE GeometryAssumption, FtlAssumption
<1>1. DeviceTypeOK /\ MetaTypeOK /\ GcTypeOK
    BY DEF TypeOK
<1>2. zone_states' \in [VZones -> {EMPTY_ZONE, IMPLICITLY_OPENED, FULL_ZONE}]
    BY <1>1 DEF GcZone, MarkOldEmpty, MetaTypeOK
<1>3. MetaTypeOK'
    <2>1. UNCHANGED <<log_zone_end, log_zone_mapping, data_zone_mapping, last>>
        BY DEF GcZone
    <2>2. QED
        BY <1>1, <1>2, <2>1 DEF MetaTypeOK, LBAs, Payload, Addr, VZones, Slba
<1>4. zone_number' \in {Slba(z) : z \in Zones}
    BY NextZone, Layout DEF GcZone
<1>5. prev_zone' \in {Slba(z) : z \in VZones} \cup {NoEntry}
    BY <1>1 DEF GcZone, MetaTypeOK
<1>6. Merged(v) \in [Offsets -> Payload]
    <2>1. ASSUME NEW k \in Offsets, data_zone_mapping[v] # NoEntry
          PROVE  blk[data_zone_mapping[v] + k] \in Payload
        <3>1. PICK w \in VZones : data_zone_mapping[v] = Slba(w)
            BY <1>1, <2>1 DEF MetaTypeOK
        <3>2. data_zone_mapping[v] + k \in LBAs
            BY <3>1, BlockLba, Layout
        <3>3. QED
            BY <1>1, <3>2 DEF DeviceTypeOK
    <2>2. ASSUME NEW k \in Offsets, zone_sets[UserBlock(v, k)] # NoEntry
          PROVE  blk[zone_sets[UserBlock(v, k)]] \in Payload
        <3>1. UserBlock(v, k) \in Addr
            BY UserBlockAddr
        <3>2. QED
            BY <1>1, <2>2, <3>1 DEF GcTypeOK, DeviceTypeOK
    <2>3. \A k \in Offsets : buffer[k] \in Payload
        BY <1>1 DEF GcTypeOK
    <2>4. QED
        BY <2>1, <2>2, <2>3 DEF Merged
<1>7. /\ cur' = v /\ buffer' = Merged(v) /\ gpc' \in GcPcs /\ UNCHANGED <<zone_sets, todo>>
    BY DEF GcZone, GcGoto, GcPcs
<1>8. GcTypeOK'
    BY <1>1, <1>4, <1>5, <1>6, <1>7
       DEF GcTypeOK, GcPcs, LBAs, Addr, VZones, Zones, Offsets, Payload, Slba
<1>9. QED
    BY <1>3, <1>8

LEMMA MergeTypes ==
    ASSUME TypeOK, MergeInv, MergeStep
    PROVE  TypeOK'
<1> USE GeometryAssumption, FtlAssumption
<1>1. DeviceTypeOK /\ MetaTypeOK /\ SyncTypeOK /\ ClientTypeOK /\ GcTypeOK
    BY DEF TypeOK
<1>2. ClientTypeOK'
    <2>1. UNCHANGED <<pc, call>>
        BY DEF MergeStep, GcZone, GcZoneFail, GcZonesDone, GcWrite, GcWriteFail, GcResetOld,
               GcResetInPlace, GcRewrite, GcRewriteFail, GcResetSpare
    <2>2. QED
        BY <1>1, <2>1, ClientKept
<1>3. ASSUME UNCHANGED <<flags, gc_mutex, dpc>>, Fault \/ UNCHANGED faults PROVE SyncTypeOK'
    BY <1>1, <1>3, FaultType
<1>4. ASSUME NEW v \in VZones, GcZone(v) PROVE TypeOK'
    <2>1. DeviceTypeOK' /\ SyncTypeOK'
        BY <1>1, <1>3, <1>4, DeviceKept DEF GcZone
    <2>2. QED
        BY <1>2, <1>4, <2>1, GcZoneType DEF TypeOK
<1>5. ASSUME NEW v \in VZones, GcZoneFail(v) PROVE TypeOK'
    <2>1. DeviceTypeOK' /\ SyncTypeOK'
        BY <1>1, <1>3, <1>5, DeviceKept DEF GcZoneFail
    <2>2. GcTypeOK'
        BY <1>1, <1>5, GcKept DEF GcZoneFail, GcGoto, GcPcs
    <2>3. zone_states' \in [VZones -> {EMPTY_ZONE, IMPLICITLY_OPENED, FULL_ZONE}]
        BY <1>1, <1>5 DEF GcZoneFail, MarkOldEmpty, MetaTypeOK
    <2>4. MetaTypeOK'
        <3>1. UNCHANGED <<log_zone_end, log_zone_mapping, data_zone_mapping, last>>
            BY <1>5 DEF GcZoneFail
        <3>2. QED
            BY <1>1, <2>3, <3>1 DEF MetaTypeOK, LBAs, Payload, Addr, VZones, Slba
    <2>5. QED
        BY <1>2, <2>1, <2>2, <2>4 DEF TypeOK
<1>6. CASE GcZonesDone
    <2>1. DeviceTypeOK' /\ MetaTypeOK' /\ SyncTypeOK' /\ GcTypeOK'
        BY <1>1, <1>6, DeviceKept, MetaKept, SyncKept, GcKept DEF GcZonesDone, GcGoto, GcPcs
    <2>2. QED
        BY <1>2, <2>1 DEF TypeOK
<1>7. CASE GcWrite
    <2>1. zone_number \in {Slba(z) : z \in VZones} /\ cur \in VZones
        BY <1>1, <1>7 DEF GcWrite, MergeInv, GcTypeOK
    <2>2. DeviceTypeOK'
        BY <1>1, <1>7, <2>1, VZoneSlba, ZoneWriteType DEF GcWrite
    <2>3. SyncTypeOK'
        BY <1>1, <1>7, SyncKept DEF GcWrite
    <2>4. MetaTypeOK'
        <3>1. /\ data_zone_mapping' = [data_zone_mapping EXCEPT ![cur] = zone_number]
              /\ zone_states' = [zone_states EXCEPT ![ZoneOf(zone_number)] = FULL_ZONE]
              /\ UNCHANGED <<log_zone_end, log_zone_mapping, last>>
            BY <1>7 DEF GcWrite
        <3>2. QED
            BY <1>1, <2>1, <3>1 DEF MetaTypeOK, LBAs, Payload, Addr, VZones, Slba
    <2>5. GcTypeOK'
        <3>1. /\ todo' = todo \ {cur} /\ gpc' \in GcPcs
              /\ UNCHANGED <<zone_sets, cur, zone_number, prev_zone, buffer>>
            BY <1>7 DEF GcWrite, GcGoto, GcPcs
        <3>2. QED
            BY <1>1, <3>1 DEF GcTypeOK, GcPcs, LBAs, Addr, VZones, Zones, Offsets, Payload, Slba
    <2>6. QED
        BY <1>2, <2>2, <2>3, <2>4, <2>5 DEF TypeOK
<1>8. CASE GcWriteFail
    <2>1. zone_number \in Int
        BY <1>8, VZoneSlba DEF GcWriteFail, MergeInv
    <2>2. DeviceTypeOK' /\ SyncTypeOK'
        BY <1>1, <1>3, <1>8, <2>1, ZoneWriteFailsType DEF GcWriteFail
    <2>3. MetaTypeOK' /\ GcTypeOK'
        BY <1>1, <1>8, MetaKept, GcKept DEF GcWriteFail, GcGoto, GcPcs
    <2>4. QED
        BY <1>2, <2>2, <2>3 DEF TypeOK
<1>9. CASE GcResetOld \/ GcResetInPlace
    <2>1. DeviceTypeOK' /\ SyncTypeOK'
        BY <1>1, <1>3, <1>9, ResetIgnoredType DEF GcResetOld, GcResetInPlace
    <2>2. MetaTypeOK' /\ GcTypeOK'
        BY <1>1, <1>9, MetaKept, GcKept DEF GcResetOld, GcResetInPlace, GcGoto, GcPcs
    <2>3. QED
        BY <1>2, <2>1, <2>2 DEF TypeOK
<1>10. CASE GcRewrite
    <2>1. prev_zone \in {Slba(z) : z \in VZones}
        BY <1>1, <1>10 DEF GcRewrite, GcTypeOK
    <2>2. DeviceTypeOK'
        BY <1>1, <1>10, <2>1, VZoneSlba, ZoneWriteType DEF GcRewrite
    <2>3. SyncTypeOK' /\ GcTypeOK'
        BY <1>1, <1>10, SyncKept, GcKept DEF GcRewrite, GcGoto, GcPcs
    <2>4. MetaTypeOK'
        <3>1. /\ zone_states' = [zone_states EXCEPT ![ZoneOf(prev_zone)] = FULL_ZONE]
              /\ UNCHANGED <<log_zone_end, log_zone_mapping, data_zone_mapping, last>>
            BY <1>10 DEF GcRewrite
        <3>2. QED
            BY <1>1, <3>1 DEF MetaTypeOK, LBAs, Payload, Addr, VZones, Slba
    <2>5. QED
        BY <1>2, <2>2, <2>3, <2>4 DEF TypeOK
<1>11. CASE GcRewriteFail
    <2>1. prev_zone \in Int
        BY <1>1, VZoneSlba DEF GcTypeOK, NoEntry
    <2>2. DeviceTypeOK' /\ SyncTypeOK'
        BY <1>1, <1>3, <1>11, <2>1, ZoneWriteFailsType DEF GcRewriteFail
    <2>3. MetaTypeOK' /\ GcTypeOK'
        BY <1>1, <1>11, MetaKept, GcKept DEF GcRewriteFail, GcGoto, GcPcs
    <2>4. QED
        BY <1>2, <2>2, <2>3 DEF TypeOK
<1>12. CASE GcResetSpare
    <2>1. DeviceTypeOK' /\ SyncTypeOK' /\ MetaTypeOK'
        BY <1>1, <1>3, <1>12, ResetIgnoredType, MetaKept DEF GcResetSpare
    <2>2. GcTypeOK'
        <3>1. /\ todo' = todo \ {cur} /\ gpc' \in GcPcs
              /\ UNCHANGED <<zone_sets, cur, zone_number, prev_zone, buffer>>
            BY <1>12 DEF GcResetSpare, GcGoto, GcPcs
        <3>2. QED
            BY <1>1, <3>1 DEF GcTypeOK, GcPcs, LBAs, Addr, VZones, Zones, Offsets, Payload, Slba
    <2>3. QED
        BY <1>2, <2>1, <2>2 DEF TypeOK
<1>13. QED
    BY <1>4, <1>5, <1>6, <1>7, <1>8, <1>9, <1>10, <1>11, <1>12 DEF MergeStep

LEMMA LoopTypes ==
    ASSUME TypeOK, GcLock \/ GcIdle \/ GcWait \/ GcExit \/ GcSpuriousWake
                   \/ DeinitStop \/ DeinitStep
    PROVE  TypeOK'
<1> USE FtlAssumption
<1>1. DeviceTypeOK /\ MetaTypeOK /\ SyncTypeOK /\ ClientTypeOK /\ GcTypeOK
    BY DEF TypeOK
<1>2. UNCHANGED <<device, meta, last, pc, call, merge, faults>>
    BY DEF GcLock, GcIdle, GcWait, GcExit, GcSpuriousWake, DeinitStop, DeinitStep,
           DeinitSignal, DeinitJoin, flags
<1>3. gpc' \in GcPcs
    BY <1>1 DEF GcLock, GcIdle, GcWait, GcExit, GcSpuriousWake, DeinitStop, DeinitStep,
           DeinitSignal, DeinitJoin, SignalStart, GcGoto, GcTypeOK, GcPcs
<1>4. gc_mutex' \in Clients \cup {GCThread, Free} /\ dpc' \in DeinitPcs
    BY <1>1 DEF GcLock, GcIdle, GcWait, GcExit, GcSpuriousWake, DeinitStop, DeinitStep,
           DeinitSignal, DeinitJoin, SyncTypeOK, DeinitPcs
<1>5. gc_thread_stop' \in BOOLEAN /\ trigger_my_gc' \in BOOLEAN
    <2>1. trigger_my_gc' = trigger_my_gc
        BY DEF GcLock, GcIdle, GcWait, GcExit, GcSpuriousWake, DeinitStop, DeinitStep,
               DeinitSignal, DeinitJoin, flags
    <2>2. gc_thread_stop' = gc_thread_stop \/ gc_thread_stop' = TRUE
        BY DEF GcLock, GcIdle, GcWait, GcExit, GcSpuriousWake, DeinitStop, DeinitStep,
               DeinitSignal, DeinitJoin, flags
    <2>3. gc_thread_stop \in BOOLEAN /\ trigger_my_gc \in BOOLEAN
        BY <1>1 DEF SyncTypeOK
    <2>4. QED
        BY <2>1, <2>2, <2>3, Zenon
<1>6. SyncTypeOK'
    BY <1>1, <1>2, <1>4, <1>5 DEF SyncTypeOK
<1>7. QED
    BY <1>1, <1>2, <1>3, <1>6, DeviceKept, MetaKept, ClientKept, GcKept DEF TypeOK

(* The two ends of a collection. *)
LEMMA CollectTypes ==
    ASSUME TypeOK, GcCollect \/ GcResetLog \/ GcClear
    PROVE  TypeOK'
<1> USE GeometryAssumption, FtlAssumption
<1>1. DeviceTypeOK /\ MetaTypeOK /\ SyncTypeOK /\ ClientTypeOK /\ GcTypeOK
    BY DEF TypeOK
<1>2. CASE GcCollect
    <2>1. DeviceTypeOK' /\ SyncTypeOK' /\ ClientTypeOK'
        BY <1>1, <1>2, DeviceKept, SyncKept, ClientKept DEF GcCollect
    <2>2. \A a \in Addr : log_zone_mapping[a] # NoEntry => FlagOf(log_zone_mapping[a]) = 0
        <3>1. ASSUME NEW e \in LBAs PROVE FlagOf(e) = 0
            <4>1. e < Bit63 /\ e \in Int /\ Bit63 \in Int
                BY DEF LBAs
            <4>2. QED
                BY <4>1 DEF FlagOf
        <3>2. QED
            BY <1>1, <3>1 DEF MetaTypeOK
    <2>3. log_zone_mapping' \in [Addr -> LBAs \cup {NoEntry}]
        BY <1>2, <2>2, TypeZero DEF GcCollect
    <2>4. MetaTypeOK'
        <3>1. UNCHANGED <<log_zone_end, data_zone_mapping, zone_states, last>>
            BY <1>2 DEF GcCollect
        <3>2. QED
            BY <1>1, <2>3, <3>1 DEF MetaTypeOK, LBAs, Payload, Addr, VZones, Slba
    <2>5. GcTypeOK'
        <3>1. /\ zone_sets' = log_zone_mapping /\ todo' \subseteq VZones
              /\ buffer' = EmptyZoneBuf /\ gpc' \in GcPcs
              /\ UNCHANGED <<cur, zone_number, prev_zone>>
            BY <1>2 DEF GcCollect, GcGoto, GcPcs
        <3>2. EmptyZoneBuf \in [Offsets -> Payload]
            BY DEF EmptyZoneBuf, Payload
        <3>3. QED
            BY <1>1, <3>1, <3>2
               DEF GcTypeOK, MetaTypeOK, GcPcs, LBAs, Addr, VZones, Zones, Offsets, Payload, Slba
    <2>6. QED
        BY <2>1, <2>4, <2>5 DEF TypeOK
<1>3. CASE GcResetLog
    <2>1. DeviceTypeOK' /\ SyncTypeOK'
        BY <1>1, <1>3, ResetIgnoredType, FaultType DEF GcResetLog
    <2>2. MetaTypeOK' /\ ClientTypeOK' /\ GcTypeOK'
        BY <1>1, <1>3, MetaKept, ClientKept, GcKept DEF GcResetLog, GcGoto, GcPcs
    <2>3. QED
        BY <2>1, <2>2 DEF TypeOK
<1>4. CASE GcClear
    <2>1. DeviceTypeOK'
        BY <1>1, <1>4, DeviceKept DEF GcClear
    <2>2. SyncTypeOK'
        <3>1. /\ trigger_my_gc' = FALSE /\ gc_mutex' = Free
              /\ UNCHANGED <<gc_thread_stop, dpc, faults>>
            BY <1>4 DEF GcClear, EmptyLog
        <3>2. trigger_my_gc' \in BOOLEAN
            BY <3>1, Zenon
        <3>3. QED
            BY <1>1, <3>1, <3>2 DEF SyncTypeOK, DeinitPcs
    <2>3. MetaTypeOK'
        <3>1. /\ log_zone_end' = 0 /\ log_zone_mapping' = [a \in Addr |-> NoEntry]
              /\ UNCHANGED <<data_zone_mapping, zone_states, last>>
            BY <1>4 DEF GcClear, EmptyLog
        <3>2. log_zone_mapping' \in [Addr -> LBAs \cup {NoEntry}] /\ log_zone_end' \in 0 .. NumZones * ZoneCap
            BY <3>1, TypeZero
        <3>3. QED
            BY <1>1, <3>1, <3>2 DEF MetaTypeOK, LBAs, Payload, Addr, VZones, Slba
    <2>4. ClientTypeOK'
        <3>1. UNCHANGED call /\ (pc' = pc \/ \E c \in Clients : pc' = [pc EXCEPT ![c] = "lock"])
            BY <1>4 DEF GcClear, SignalStop, Goto
        <3>2. pc' \in [Clients -> ClientPcs]
            BY <1>1, <3>1 DEF ClientTypeOK, ClientPcs
        <3>3. QED
            BY <1>1, <3>1, <3>2 DEF ClientTypeOK, call, ClientPcs, Addr, BufIdx, Payload, LBAs
    <2>5. GcTypeOK'
        <3>1. /\ zone_sets' = [a \in Addr |-> NoEntry] /\ todo' = {} /\ cur' = LogZones
              /\ zone_number' = 0 /\ prev_zone' = NoEntry /\ buffer' = EmptyZoneBuf
              /\ gpc' = "lock"
            BY <1>4 DEF GcClear, GcGoto
        <3>2. LogZones \in VZones /\ 0 \in {Slba(z) : z \in Zones} /\ EmptyZoneBuf \in [Offsets -> Payload]
            BY DEF VZones, Zones, Slba, EmptyZoneBuf, Payload
        <3>3. QED
            BY <3>1, <3>2 DEF GcTypeOK, GcPcs, LBAs, Addr, VZones, Zones, Offsets, Payload, Slba
    <2>6. QED
        BY <2>1, <2>2, <2>3, <2>4, <2>5 DEF TypeOK
<1>5. QED
    BY <1>2, <1>3, <1>4

LEMMA TypeStep ==
    ASSUME IInv, [Next]_vars
    PROVE  TypeOK'
<1>1. TypeOK /\ MutexInv /\ TailNotAhead /\ TailInLog /\ CallInv /\ MergeInv
    BY DEF IInv
<1>2. ASSUME NEW c \in Clients,
             Call(c) \/ WriteStep(c) \/ ReadStep(c) \/ Return(c) \/ SpuriousWake(c)
      PROVE  TypeOK'
    BY <1>1, <1>2, CallTypes, WriteTypes, ReadTypes
<1>3. CASE GcStep \/ GcSpuriousWake \/ DeinitStop \/ DeinitStep
    BY <1>1, <1>3, MergeTypes, LoopTypes, CollectTypes DEF GcStep
<1>4. CASE UNCHANGED vars
    <2>1. UNCHANGED <<device, meta, last, flags, gc_mutex, dpc, faults, pc, call, gpc, merge>>
        BY <1>4 DEF vars
    <2>2. gpc' \in GcPcs
        BY <1>1, <2>1 DEF TypeOK, GcTypeOK
    <2>3. QED
        BY <1>1, <2>1, <2>2, DeviceKept, MetaKept, SyncKept, ClientKept, GcKept DEF TypeOK
<1>5. QED
    BY <1>2, <1>3, <1>4 DEF Next, Terminated

----------------------------------------------------------------------------
(* The theorems *)

LEMMA InductiveInit == Init => IInv
<1> SUFFICES ASSUME Init PROVE IInv
    OBVIOUS
<1>1. TypeOK /\ MutexInv
    BY TypeInit, MutexInit
<1>2. TailNotAhead /\ TailInLog
    <2>1. log_zone_end = 0 /\ \A z \in LogZone : wp[z] = 0
        BY Layout DEF Init
    <2>2. 0 = Slba(0) + 0 /\ 0 \in Offsets
        BY GeometryAssumption DEF Slba, Offsets
    <2>3. OffsetOf(0) = 0
        BY <2>2, ZoneOfSlba
    <2>4. QED
        BY <2>1, <2>3, Layout DEF TailNotAhead, TailInLog
<1>3. CallInv
    BY DEF Init, CallInv, CallOK, Active, Looping
<1>4. MergeInv
    BY DEF Init, MergeInv
<1>5. QED
    BY <1>1, <1>2, <1>3, <1>4 DEF IInv

LEMMA InductiveStep == IInv /\ [Next]_vars => IInv'
<1> SUFFICES ASSUME IInv, [Next]_vars PROVE IInv'
    OBVIOUS
<1>1. TypeOK /\ MutexInv /\ TailNotAhead /\ TailInLog /\ CallInv /\ MergeInv
    BY DEF IInv
<1>2. TypeOK'
    BY TypeStep
<1>3. QED
    BY <1>1, <1>2, MutexStep, TailStep, CallStep, MergeInvStep DEF IInv

(* IInv is an invariant of the FTL: what each thread relies on at the      *)
(* point where it stands holds whatever the others have done meanwhile.    *)
THEOREM Inductive == Spec => []IInv
<1>1. QED
    BY InductiveInit, InductiveStep, PTL DEF Spec

(* Every variable keeps its range: in particular every LBA in the log map, *)
(* every data zone of the zone table and every block a command of the FTL  *)
(* reads or writes is on the device.                                       *)
THEOREM TypeCorrect == Spec => []TypeOK
<1>1. IInv => TypeOK
    BY DEF IInv
<1>2. QED
    BY <1>1, Inductive, PTL

(* gc_mutex does its work for any number of writers: those between its     *)
(* lock and unlock hold it, and the merge runs without any of them.        *)
THEOREM MutualExclusion == Spec => []MutexInv
<1>1. IInv => MutexInv
    BY DEF IInv
<1>2. QED
    BY <1>1, Inductive, PTL

(* The tail never runs ahead of the device, for every request size and     *)
(* whatever commands fail: no append lands below the LBAs its writer maps. *)
THEOREM TailBehindDevice == Spec => []TailNotAhead
<1>1. IInv => TailNotAhead
    BY DEF IInv
<1>2. QED
    BY <1>1, Inductive, PTL

----------------------------------------------------------------------------
(* Writes no longer than a zone *)

(* A write that is under way has one of the sizes that clients write. *)
WriterSize ==
    \A c \in Clients :
        pc[c] \in {"lock", "check", "wait", "write", "map"} => req[c].n \in WriteSizes

LEMMA WriterSizeStep ==
    ASSUME TypeOK, WriterSize, [Next]_vars
    PROVE  WriterSize'
<1>1. DOMAIN pc = Clients /\ DOMAIN req = Clients
    BY DEF TypeOK, ClientTypeOK
<1>2. ASSUME UNCHANGED req,
             \A c \in Clients : UNCHANGED pc[c] \/ (pc[c] = "wait" /\ pc'[c] = "lock")
      PROVE  WriterSize'
    BY <1>2 DEF WriterSize
<1>3. ASSUME NEW c \in Clients, WriteStep(c) PROVE WriterSize'
    <2>1. /\ UNCHANGED req /\ pc[c] \in {"lock", "check", "write", "map"}
          /\ \A d \in Clients \ {c} : UNCHANGED pc[d]
        BY <1>1, <1>3 DEF WriteStep, WriteLock, WriteWait, WriteGo, WriteAppend,
                WriteAppendFail, WriteLarge, WriteLargeFail, WriteMap, Goto, Leave, call
    <2>2. QED
        BY <2>1 DEF WriterSize
<1>4. ASSUME NEW c \in Clients, ReadStep(c) PROVE WriterSize'
    <2>1. /\ UNCHANGED req /\ pc'[c] \in {"find", "entry", "data", "dev", "ret"}
          /\ \A d \in Clients \ {c} : UNCHANGED pc[d]
        BY <1>1, <1>4 DEF ReadStep, ReadFind, ReadEntry, ReadData, ReadDev, ReadDevFail,
                Goto, Leave, call
    <2>2. QED
        BY <2>1 DEF WriterSize
<1>5. ASSUME NEW c \in Clients, Call(c) PROVE WriterSize'
    <2>1. /\ \A d \in Clients \ {c} : UNCHANGED <<pc[d], req[d]>>
          /\ pc'[c] \in {"lock", "find", "ret"} /\ (pc'[c] = "lock" => req'[c].n \in WriteSizes)
        BY <1>1, <1>5 DEF Call, WriteCall, ReadCall, RejectedCall, Goto, Leave
    <2>2. QED
        BY <2>1 DEF WriterSize
<1>6. ASSUME NEW c \in Clients, Return(c) PROVE WriterSize'
    <2>1. pc'[c] = "idle" /\ \A d \in Clients \ {c} : UNCHANGED <<pc[d], req[d]>>
        BY <1>1, <1>6 DEF Return, Goto
    <2>2. QED
        BY <2>1 DEF WriterSize
<1>7. ASSUME NEW c \in Clients, SpuriousWake(c) PROVE WriterSize'
    BY <1>1, <1>2, <1>7 DEF SpuriousWake, Goto, call
<1>8. CASE GcClear
    BY <1>1, <1>2, <1>8 DEF GcClear, SignalStop, Goto, call
<1>9. ASSUME UNCHANGED <<pc, call>> PROVE WriterSize'
    BY <1>2, <1>9 DEF call
<1>10. CASE MergeStep
    BY <1>9, <1>10 DEF MergeStep, GcZone, GcZoneFail, GcZonesDone, GcWrite, GcWriteFail,
            GcResetOld, GcResetInPlace, GcRewrite, GcRewriteFail, GcResetSpare
<1>11. CASE GcLock \/ GcIdle \/ GcWait \/ GcExit \/ GcCollect \/ GcResetLog \/ GcSpuriousWake
    BY <1>9, <1>11 DEF GcLock, GcIdle, GcWait, GcExit, GcCollect, GcResetLog, GcSpuriousWake
<1>12. CASE DeinitStop \/ DeinitStep \/ UNCHANGED vars
    BY <1>9, <1>12 DEF DeinitStop, DeinitStep, DeinitSignal, DeinitJoin, vars
<1>13. QED
    BY <1>3, <1>4, <1>5, <1>6, <1>7, <1>8, <1>10, <1>11, <1>12 DEF Next, GcStep, Terminated

(* A write touches no zone from the first spare one on. *)
LEMMA WriteBelowSpare ==
    ASSUME IInv, WriterSize, WriteSizes \subseteq 1 .. ZoneCap,
           NEW c \in Clients, WriteStep(c),
           NEW y \in Zones, y >= LogZones - Watermark
    PROVE  wp'[y] = wp[y]
<1> USE GeometryAssumption, FtlAssumption
<1> DEFINE n == req[c].n
           z == ZoneOf(log_zone_end)
           s == Slba(LogZones - Watermark)
<1>1. TypeOK /\ MutexInv /\ TailNotAhead /\ TailInLog /\ CallInv
    BY DEF IInv
<1>2. CASE pc[c] # "write"
    BY <1>2 DEF WriteStep, WriteLock, WriteWait, WriteGo, WriteAppend, WriteAppendFail,
                WriteLarge, WriteLargeFail, WriteMap, device
<1>3. CASE pc[c] = "write"
    <2>1. /\ lba[c] = log_zone_end /\ n \in 1 .. ZoneCap
          /\ OffsetOf(log_zone_end) <= wp[z] /\ log_zone_end + n < s
        <3>1. n \in 1 .. ZoneCap
            BY <1>3 DEF WriterSize
        <3>2. QED
            BY <1>1, <1>3, <3>1, WriterAtTail DEF CallInv, CallOK
    <2>2. z \in Int /\ OffsetOf(log_zone_end) \in Offsets /\ log_zone_end = Slba(z) + OffsetOf(log_zone_end)
        BY <1>1, TailZone
    <2>3. Slba(z) \in Int /\ s \in Int /\ y \in Int /\ Slba(y) \in Int /\ LogZones - Watermark \in Int
        BY <2>2 DEF Slba, Zones
    <2>4. Slba(y) >= s
        <3>1. CASE y = LogZones - Watermark
            BY <2>3, <3>1
        <3>2. CASE y > LogZones - Watermark
            <4>1. s + ZoneCap <= Slba(y)
                BY <2>3, <3>2, SlbaMono
            <4>2. QED
                BY <2>3, <4>1
        <3>3. QED
            BY <2>3, <3>1, <3>2
    <2>5. CASE WriteAppend(c)
        <3>1. wp' = [wp EXCEPT ![z] = @ + n]
            BY <2>1, <2>5 DEF WriteAppend, nvme_zns_append
        <3>2. y # z
            BY <2>1, <2>2, <2>3, <2>4 DEF Offsets
        <3>3. QED
            BY <3>1, <3>2
    <2>6. CASE WriteLarge(c) \/ WriteLargeFail(c)
        <3>1. PICK m \in {n} \cup LandedBlocks(Slba(z), n) \cup CutBlocks(Slba(z), n) :
                nvme_write(Slba(z), m, buf[c])
            BY <2>1, <2>6 DEF WriteLarge, WriteLargeFail
        <3>2. m \in Nat /\ m <= n
            <4>1. n \in Nat \ {0}
                BY <2>1
            <4>2. QED
                BY <2>3, <3>1, <4>1, Prefixes
        <3>3. ~ Slba(y) < Slba(z) + m
            BY <2>1, <2>2, <2>3, <2>4, <3>2 DEF Offsets
        <3>4. QED
            BY <3>1, <3>3 DEF nvme_write
    <2>7. CASE UNCHANGED wp
        BY <2>7
    <2>8. QED
        BY <1>3, <2>5, <2>6, <2>7 DEF WriteStep, WriteLock, WriteWait, WriteGo,
                WriteAppendFail, WriteMap, device
<1>4. QED
    BY <1>2, <1>3

SpareInv == IInv /\ WriterSize /\ WatermarkKept

LEMMA SpareInit == Init => SpareInv
<1> SUFFICES ASSUME Init PROVE SpareInv
    OBVIOUS
<1>1. WriterSize
    BY DEF Init, WriterSize
<1>2. WatermarkKept
    <2>1. ASSUME NEW y \in LogZones - Watermark .. LogZones - 1 PROVE y \in Zones
        BY GeometryAssumption, FtlAssumption DEF Zones
    <2>2. QED
        BY <2>1 DEF Init, WatermarkKept
<1>3. QED
    BY <1>1, <1>2, InductiveInit DEF SpareInv

LEMMA SpareStep ==
    ASSUME WriteSizes \subseteq 1 .. ZoneCap, SpareInv, [Next]_vars
    PROVE  SpareInv'
<1> USE GeometryAssumption, FtlAssumption
<1>1. IInv /\ WriterSize /\ WatermarkKept /\ TypeOK /\ MergeInv
    BY DEF SpareInv, IInv
<1>2. IInv' /\ WriterSize'
    BY <1>1, InductiveStep, WriterSizeStep
<1>3. ASSUME NEW y \in LogZones - Watermark .. LogZones - 1
      PROVE  wp'[y] = 0
    <2>1. wp[y] = 0 /\ y \in LogZone /\ y \in Zones /\ y >= LogZones - Watermark
        BY <1>1, Layout DEF WatermarkKept, LogZone
    <2>2. ASSUME NEW c \in Clients, WriteStep(c) PROVE wp'[y] = 0
        BY <1>1, <2>1, <2>2, WriteBelowSpare
    <2>3. ASSUME NEW c \in Clients, Call(c) \/ ReadStep(c) \/ Return(c) \/ SpuriousWake(c)
          PROVE  wp'[y] = 0
        BY <2>1, <2>3 DEF Call, WriteCall, ReadCall, RejectedCall, Return, SpuriousWake,
                ReadStep, ReadFind, ReadEntry, ReadData, ReadDev, ReadDevFail, device
    <2>4. ASSUME NEW zs, ResetIgnored(zs) PROVE wp'[y] = 0
        BY <2>1, <2>4 DEF ResetIgnored, nvme_zns_reset
    <2>5. CASE MergeStep
        <3>1. CASE GcResetSpare
            BY <2>4, <3>1 DEF GcResetSpare
        <3>2. CASE wp'[y] = wp[y]
            BY <2>1, <3>2
        <3>3. CASE gpc = "reset spare"
            BY <2>5, <3>1, <3>3 DEF MergeStep, GcZone, GcZoneFail, GcZonesDone, GcWrite,
                    GcWriteFail, GcResetOld, GcResetInPlace, GcRewrite, GcRewriteFail
        <3>4. QED
            BY <1>1, <2>1, <2>5, <3>2, <3>3, MergeLogZones
    <2>6. CASE GcResetLog
        BY <2>4, <2>6 DEF GcResetLog
    <2>7. CASE GcLock \/ GcIdle \/ GcWait \/ GcExit \/ GcCollect \/ GcClear \/ GcSpuriousWake
        BY <2>1, <2>7 DEF GcLock, GcIdle, GcWait, GcExit, GcCollect, GcClear, GcSpuriousWake, device
    <2>8. CASE DeinitStop \/ DeinitStep \/ UNCHANGED vars
        BY <2>1, <2>8 DEF DeinitStop, DeinitStep, DeinitSignal, DeinitJoin, vars, device
    <2>9. QED
        BY <2>2, <2>3, <2>5, <2>6, <2>7, <2>8 DEF Next, GcStep, Terminated
<1>4. WatermarkKept'
    BY <1>3 DEF WatermarkKept
<1>5. QED
    BY <1>2, <1>4 DEF SpareInv

(* Writes of at most one zone keep gc_wmark: whatever the clients do and   *)
(* whatever commands fail, the last Watermark log zones stay empty.        *)
THEOREM SpareZonesEmpty ==
    ASSUME WriteSizes \subseteq 1 .. ZoneCap
    PROVE  Spec => []WatermarkKept
<1>1. Init => SpareInv
    BY SpareInit
<1>2. SpareInv /\ [Next]_vars => SpareInv'
    BY SpareStep
<1>3. SpareInv => WatermarkKept
    BY DEF SpareInv
<1>4. QED
    BY <1>1, <1>2, <1>3, PTL DEF Spec

(* Such writes change log zones only: the data zones are the merge's.      *)
THEOREM ClientsWriteLog ==
    ASSUME WriteSizes \subseteq 1 .. ZoneCap
    PROVE  Spec => NewWritesGoToLog
<1> DEFINE Step == \A c \in Clients : pc[c] = "write" /\ pc'[c] # "write" =>
                     \A z \in VZones : wp'[z] = wp[z]
<1>1. Init => SpareInv
    BY SpareInit
<1>2. SpareInv /\ [Next]_vars => SpareInv'
    BY SpareStep
<1>3. SpareInv /\ [Next]_vars => [Step]_vars
    <2> SUFFICES ASSUME SpareInv, [Next]_vars,
                        NEW c \in Clients, pc[c] = "write", pc'[c] # "write",
                        NEW z \in VZones
                 PROVE  wp'[z] = wp[z]
        OBVIOUS
    <2>1. IInv /\ WriterSize /\ DOMAIN pc = Clients /\ z \in Zones /\ z >= LogZones - Watermark
          /\ MutexInv
        BY Layout, GeometryAssumption, FtlAssumption
           DEF SpareInv, IInv, TypeOK, ClientTypeOK, VZones
    <2>2. ASSUME NEW d \in Clients, WriteStep(d) PROVE wp'[z] = wp[z]
        BY <2>1, <2>2, WriteBelowSpare
    <2>3. ASSUME UNCHANGED pc PROVE FALSE
        BY <2>3
    <2>4. ASSUME NEW d \in Clients, Call(d) \/ ReadStep(d) \/ Return(d) \/ SpuriousWake(d)
          PROVE  wp'[z] = wp[z]
        BY <2>4 DEF Call, WriteCall, ReadCall, RejectedCall, Return, SpuriousWake,
                ReadStep, ReadFind, ReadEntry, ReadData, ReadDev, ReadDevFail, device
    <2>5. CASE MergeStep
        BY <2>3, <2>5 DEF MergeStep, GcZone, GcZoneFail, GcZonesDone, GcWrite, GcWriteFail,
                GcResetOld, GcResetInPlace, GcRewrite, GcRewriteFail, GcResetSpare
    <2>6. CASE GcLock \/ GcIdle \/ GcWait \/ GcExit \/ GcCollect \/ GcResetLog \/ GcSpuriousWake
        BY <2>3, <2>6 DEF GcLock, GcIdle, GcWait, GcExit, GcCollect, GcResetLog, GcSpuriousWake
    <2>7. CASE GcClear
        BY <2>7 DEF GcClear, device
    <2>8. CASE DeinitStop \/ DeinitStep \/ UNCHANGED vars
        BY <2>3, <2>8 DEF DeinitStop, DeinitStep, DeinitSignal, DeinitJoin, vars
    <2>9. QED
        BY <2>2, <2>4, <2>5, <2>6, <2>7, <2>8 DEF Next, GcStep, Terminated
<1>4. QED
    BY <1>1, <1>2, <1>3, PTL DEF Spec, NewWritesGoToLog

----------------------------------------------------------------------------
(* At most one thread calls the device. *)
OneClient == \A c, d \in Clients : c = d

(* Writes of one block, each one append.  With longer ones the tail falls  *)
(* behind the device, and the properties do not hold.                      *)
SingleBlocks == WriteSizes \subseteq {1} /\ MDTS > 1

----------------------------------------------------------------------------
(* The zone table *)

Mapped(z) == \E v \in VZones : data_zone_mapping[v] = Slba(z)

ZoneOK(z) ==
    IF Replacing(z) THEN zone_states[z] = EMPTY_ZONE
    ELSE IF Mapped(z) THEN zone_states[z] = FULL_ZONE /\ wp[z] = ZoneCap
    ELSE zone_states[z] = EMPTY_ZONE /\ wp[z] = 0

Distinct ==
    \A v, w \in VZones :
        data_zone_mapping[v] # NoEntry /\ data_zone_mapping[v] = data_zone_mapping[w] => v = w

(* What a round of the merge knows of the two zones it works with. *)
RoundInv ==
    /\ gpc \in {"write", "reset in place", "rewrite"} => prev_zone = data_zone_mapping[cur]
    /\ gpc \in {"reset in place", "rewrite"} => prev_zone # NoEntry
    /\ gpc = "write" => \E y \in VZones : zone_number = Slba(y) /\ ~ Mapped(y)
    /\ gpc = "reset old" => \A v \in VZones : data_zone_mapping[v] # prev_zone
    /\ gpc = "rewrite" => wp[ZoneOf(prev_zone)] = 0
    /\ gpc = "reset log" => todo = {}

TableInv == Distinct /\ (\A z \in VZones : ZoneOK(z)) /\ RoundInv

----------------------------------------------------------------------------
(* The device when no command fails by itself *)

LEMMA NoFault ==
    ASSUME TypeOK, MaxFaults = 0
    PROVE  ~ Fault
BY DEF TypeOK, SyncTypeOK, Fault

LEMMA ResetDone ==
    ASSUME TypeOK, MaxFaults = 0, NEW zs, ResetIgnored(zs)
    PROVE  nvme_zns_reset(zs)
BY NoFault DEF ResetIgnored

(* Zones have different starts, and none of them is NoEntry. *)
LEMMA SlbaOne ==
    ASSUME NEW z \in Zones
    PROVE  /\ z \in Int /\ Slba(z) \in Nat /\ Slba(z) # NoEntry
           /\ ZoneOf(Slba(z)) = z
           /\ \A y \in Zones : Slba(y) = Slba(z) => y = z
<1> USE GeometryAssumption
<1>1. z \in Int /\ Slba(z) \in Nat
    BY DEF Zones, Slba
<1>2. ASSUME NEW y \in Zones PROVE ZoneOf(Slba(y)) = y
    <2>1. y \in Int /\ 0 \in Offsets /\ Slba(y) + 0 = Slba(y)
        BY DEF Zones, Slba, Offsets
    <2>2. QED
        BY <2>1, ZoneOfSlba
<1>3. \A y \in Zones : Slba(y) = Slba(z) => y = z
    <2>1. ASSUME NEW y \in Zones, Slba(y) = Slba(z) PROVE y = z
        <3>1. ZoneOf(Slba(y)) = y /\ ZoneOf(Slba(z)) = z
            BY <1>2
        <3>2. QED
            BY <2>1, <3>1
    <2>2. QED
        BY <2>1
<1>4. QED
    BY <1>1, <1>2, <1>3 DEF NoEntry

(* An empty zone can be written from its start to its end. *)
LEMMA ZoneWritable ==
    ASSUME NEW z \in Zones, wp[z] = 0
    PROVE  CanWrite(Slba(z), ZoneCap)
<1> USE GeometryAssumption
<1> SUFFICES ASSUME NEW k \in Chunks(ZoneCap)
             PROVE  ChunkAccepted(Slba(z), ZoneCap, k)
    BY DEF CanWrite
<1>1. /\ k \in Nat /\ k * MDTS \in Nat /\ k * MDTS < ZoneCap
      /\ ChunkLen(ZoneCap, k) \in 1 .. MDTS /\ k * MDTS + ChunkLen(ZoneCap, k) <= ZoneCap
    BY ChunkBounds
<1>2. k * MDTS \in Offsets /\ z \in Int
    BY <1>1 DEF Offsets, Zones
<1>3. ChunkLba(Slba(z), k) = Slba(z) + k * MDTS /\ Slba(z) \in Nat
    BY SlbaOne DEF ChunkLba
<1>4. ZoneOf(ChunkLba(Slba(z), k)) = z /\ OffsetOf(ChunkLba(Slba(z), k)) = k * MDTS
    BY <1>2, <1>3, ZoneOfSlba
<1>5. InOneZone(ChunkLba(Slba(z), k), ChunkLen(ZoneCap, k))
    BY <1>1, <1>3, <1>4 DEF InOneZone
<1>6. k = 0 => k * MDTS = 0
    OBVIOUS
<1>7. QED
    BY <1>4, <1>5, <1>6 DEF ChunkAccepted

(* So the merge's write of such a zone does not fail. *)
LEMMA ZoneWriteGoes ==
    ASSUME TypeOK, MaxFaults = 0, NEW z \in Zones, wp[z] = 0
    PROVE  ~ ZoneWriteFails(Slba(z))
<1>1. \A k \in Chunks(ZoneCap) : ChunkAccepted(Slba(z), ZoneCap, k)
    BY ZoneWritable DEF CanWrite
<1>2. LandedBlocks(Slba(z), ZoneCap) = {}
    BY <1>1 DEF LandedBlocks
<1>3. QED
    BY <1>2, NoFault DEF ZoneWriteFails

(* A whole-zone write changes that zone and no other. *)
LEMMA ZoneWritten ==
    ASSUME TypeOK, NEW z \in Zones, NEW b, nvme_write(Slba(z), ZoneCap, b)
    PROVE  /\ wp'[z] = ZoneCap
           /\ \A y \in Zones \ {z} : wp'[y] = wp[y]
           /\ \A k \in Offsets : blk'[Slba(z) + k] = b[k]
           /\ \A l \in LBAs : ZoneOf(l) # z => blk'[l] = blk[l]
<1> USE GeometryAssumption
<1>1. z \in Int /\ Slba(z) \in Nat /\ Slba(z + 1) = Slba(z) + ZoneCap
    BY SlbaOne DEF Slba
<1>2. wp'[z] = ZoneCap
    BY <1>1 DEF nvme_write
<1>3. ASSUME NEW y \in Zones \ {z} PROVE wp'[y] = wp[y]
    <2>1. y \in Int /\ Slba(y) \in Nat /\ Slba(y + 1) = Slba(y) + ZoneCap
        BY SlbaOne DEF Slba
    <2>2. Slba(y) + ZoneCap <= Slba(z) \/ Slba(z) + ZoneCap <= Slba(y)
        BY <1>1, <2>1, SlbaMono
    <2>3. ~ (Slba(y) < Slba(z) + ZoneCap /\ Slba(z) < Slba(y + 1))
        BY <1>1, <2>1, <2>2
    <2>4. QED
        BY <2>3 DEF nvme_write
<1>4. blk' = Stored(Slba(z), ZoneCap, b)
    BY DEF nvme_write
<1>5. ASSUME NEW k \in Offsets PROVE blk'[Slba(z) + k] = b[k]
    <2>1. Slba(z) + k \in LBAs /\ k \in Int /\ 0 <= k /\ k < ZoneCap
        BY BlockLba DEF Offsets
    <2>2. (Slba(z) + k) - Slba(z) = k /\ Slba(z) + k >= Slba(z) /\ Slba(z) + k < Slba(z) + ZoneCap
        BY <1>1, <2>1
    <2>3. QED
        BY <1>4, <2>1, <2>2 DEF Stored
<1>6. ASSUME NEW l \in LBAs, ZoneOf(l) # z PROVE blk'[l] = blk[l]
    <2>1. l \in Int
        BY DEF LBAs
    <2>2. ASSUME l >= Slba(z), l < Slba(z) + ZoneCap PROVE FALSE
        <3>1. l - Slba(z) \in Offsets /\ l = Slba(z) + (l - Slba(z))
            BY <1>1, <2>1, <2>2 DEF Offsets
        <3>2. QED
            BY <1>1, <1>6, <3>1, ZoneOfSlba
    <2>3. QED
        BY <1>4, <2>2 DEF Stored
<1>7. QED
    BY <1>2, <1>3, <1>5, <1>6

----------------------------------------------------------------------------
(* When every data zone holds a virtual zone, every virtual zone has one:  *)
(* only then does the merge rewrite a zone where it is, and it has one to  *)
(* rewrite.                                                                *)
LEMMA AllMapped ==
    ASSUME MetaTypeOK, Distinct, \A z \in VZones : Mapped(z), NEW v \in VZones
    PROVE  data_zone_mapping[v] # NoEntry
<1> USE GeometryAssumption, FtlAssumption
<1> DEFINE f == [z \in VZones |-> CHOOSE w \in VZones : data_zone_mapping[w] = Slba(z)]
<1>1. ASSUME NEW z \in VZones PROVE f[z] \in VZones /\ data_zone_mapping[f[z]] = Slba(z)
    BY DEF Mapped
<1>2. f \in [VZones -> VZones]
    BY <1>1
<1> HIDE DEF f
<1>3. ASSUME NEW y \in VZones, NEW z \in VZones, f[y] = f[z] PROVE y = z
    <2>1. Slba(y) = Slba(z)
        BY <1>1, <1>3
    <2>2. QED
        BY <2>1, SlbaOne, Layout
<1>4. f \in Injection(VZones, VZones)
    BY <1>2, <1>3 DEF Injection, IsInjective
<1>5. IsFiniteSet(VZones)
    BY FS_Interval DEF VZones
<1>6. f \in Surjection(VZones, VZones)
    BY <1>4, <1>5, FS_Injection
<1>7. PICK z \in VZones : f[z] = v
    BY <1>6 DEF Surjection
<1>8. QED
    BY <1>1, <1>7, SlbaOne, Layout

(* The zone a merge gets is unmapped, and empty on the device.             *)
LEMMA NextZoneFree ==
    ASSUME TypeOK, TableInv, gpc = "zone"
    PROVE  \/ \E y \in VZones : next_empty_zone = Slba(y) /\ ~ Mapped(y) /\ wp[y] = 0
           \/ /\ next_empty_zone = Slba(LogZones - 1)
              /\ \A v \in VZones : data_zone_mapping[v] # NoEntry
<1> USE FtlAssumption
<1>1. \A z \in VZones : ~ Replacing(z) /\ ZoneOK(z)
    BY DEF TableInv, Replacing
<1>2. CASE Empties = {}
    <2>1. \A z \in VZones : Mapped(z)
        BY <1>1, <1>2 DEF Empties, ZoneOK
    <2>2. QED
        BY <1>2, <2>1, AllMapped DEF next_empty_zone, TableInv, TypeOK
<1>3. CASE Empties # {}
    <2> DEFINE z == CHOOSE x \in Empties : \A y \in Empties : x <= y
    <2>1. Empties \in SUBSET Nat /\ Empties \subseteq VZones
        <3>1. NumZones \in Nat
            BY GeometryAssumption
        <3>2. QED
            BY <3>1 DEF Empties, VZones
    <2>2. \E x \in Empties : \A y \in Empties : x <= y
        BY <1>3, <2>1, NatMin
    <2>3. z \in VZones /\ zone_states[z] = EMPTY_ZONE
        BY <2>1, <2>2 DEF Empties
    <2>4. next_empty_zone = Slba(z)
        BY <1>3 DEF next_empty_zone
    <2> HIDE DEF z
    <2>5. ~ Mapped(z) /\ wp[z] = 0
        BY <1>1, <2>3 DEF ZoneOK, EMPTY_ZONE, FULL_ZONE
    <2>6. QED
        BY <2>3, <2>4, <2>5
<1>4. QED
    BY <1>2, <1>3

(* Steps that leave the zone table and the data zones alone keep it right. *)
LEMMA TableKept ==
    ASSUME TableInv, UNCHANGED <<data_zone_mapping, zone_states>>,
           \A z \in VZones : UNCHANGED wp[z],
           \/ /\ {gpc, gpc'} \cap {"write", "reset old", "reset in place", "rewrite"} = {}
              /\ gpc' = "reset log" => todo' = {}
           \/ UNCHANGED <<gpc, cur, zone_number, prev_zone, todo, wp>>
    PROVE  TableInv'
<1>1. \A z \in VZones : Replacing(z)' <=> Replacing(z)
    BY DEF Replacing, Slba
<1>2. \A z \in VZones : Mapped(z)' <=> Mapped(z)
    BY DEF Mapped, Slba, VZones
<1>3. \A z \in VZones : ZoneOK(z)'
    BY <1>1, <1>2 DEF TableInv, ZoneOK, VZones
<1>4. Distinct'
    BY DEF TableInv, Distinct, VZones
<1>5. RoundInv'
    BY <1>2 DEF TableInv, RoundInv, VZones, Slba, ZoneOf
<1>6. QED
    BY <1>3, <1>4, <1>5 DEF TableInv, VZones

(* The beginning of a round. *)
LEMMA TableZone ==
    ASSUME TypeOK, TableInv, NEW v \in VZones, GcZone(v)
    PROVE  TableInv'
<1> USE GeometryAssumption, FtlAssumption
<1>1. /\ gpc = "zone" /\ cur' = v /\ prev_zone' = data_zone_mapping[v]
      /\ zone_number' = next_empty_zone /\ MarkOldEmpty(v)
      /\ gpc' = IF zone_number' < Slba(LogZones) THEN "reset in place" ELSE "write"
      /\ UNCHANGED <<wp, data_zone_mapping>>
    BY DEF GcZone, GcGoto, device
<1>2. \A z \in VZones : ~ Replacing(z) /\ ZoneOK(z)
    BY <1>1 DEF TableInv, Replacing
<1>3. \A z \in VZones : Replacing(z)' <=> data_zone_mapping[v] = Slba(z)
    BY <1>1 DEF Replacing, Slba
<1>4. \A z \in VZones : Mapped(z)' <=> Mapped(z)
    BY <1>1 DEF Mapped, Slba, VZones
<1>5. ASSUME NEW z \in VZones PROVE ZoneOK(z)'
    <2>1. zone_states \in [VZones -> {EMPTY_ZONE, IMPLICITLY_OPENED, FULL_ZONE}]
        BY DEF TypeOK, MetaTypeOK
    <2>2. CASE data_zone_mapping[v] = Slba(z)
        <3>1. ZoneOf(data_zone_mapping[v]) = z /\ data_zone_mapping[v] # NoEntry
            BY <2>2, SlbaOne, Layout
        <3>2. zone_states'[z] = EMPTY_ZONE
            BY <1>1, <2>1, <3>1 DEF MarkOldEmpty
        <3>3. QED
            BY <1>3, <2>2, <3>2 DEF ZoneOK
    <2>3. CASE data_zone_mapping[v] # Slba(z)
        <3>1. data_zone_mapping[v] # NoEntry => ZoneOf(data_zone_mapping[v]) # z
            <4>1. data_zone_mapping[v] \in {Slba(y) : y \in VZones} \cup {NoEntry}
                BY DEF TypeOK, MetaTypeOK
            <4>2. QED
                BY <2>3, <4>1, SlbaOne, Layout
        <3>2. zone_states'[z] = zone_states[z]
            BY <1>1, <2>1, <3>1 DEF MarkOldEmpty
        <3>3. QED
            BY <1>1, <1>2, <1>3, <1>4, <2>3, <3>2 DEF ZoneOK
    <2>4. QED
        BY <2>2, <2>3
<1>6. Distinct'
    BY <1>1 DEF TableInv, Distinct, VZones
<1>7. RoundInv'
    <2>1. CASE next_empty_zone = Slba(LogZones - 1) /\ \A w \in VZones : data_zone_mapping[w] # NoEntry
        <3>1. gpc' = "reset in place"
            <4>1. Slba(LogZones - 1) \in Int /\ Slba(LogZones) \in Int
                BY DEF Slba
            <4>2. Slba(LogZones - 1) < Slba(LogZones)
                BY <4>1, Layout
            <4>3. QED
                BY <1>1, <2>1, <4>2
        <3>2. QED
            BY <1>1, <2>1, <3>1 DEF RoundInv
    <2>2. ASSUME NEW y \in VZones, next_empty_zone = Slba(y), ~ Mapped(y) PROVE RoundInv'
        <3>1. gpc' = "write"
            <4>1. Slba(y) \in Int /\ Slba(LogZones) \in Int
                BY Layout, SlbaOne DEF Slba
            <4>2. ~ Slba(y) < Slba(LogZones)
                BY <4>1, Layout
            <4>3. QED
                BY <1>1, <2>2, <4>2
        <3>2. zone_number' = Slba(y) /\ ~ Mapped(y)'
            BY <1>1, <1>4, <2>2
        <3>3. QED
            BY <1>1, <3>1, <3>2 DEF RoundInv, VZones, Slba
    <2>3. QED
        BY <1>1, <2>1, <2>2, NextZoneFree
<1>8. QED
    BY <1>5, <1>6, <1>7 DEF TableInv, VZones

(* The merged zone goes to the zone found. *)
LEMMA TableWrite ==
    ASSUME TypeOK, TableInv, GcWrite
    PROVE  TableInv'
<1> USE GeometryAssumption, FtlAssumption
<1>1. /\ gpc = "write" /\ nvme_write(zone_number, ZoneCap, buffer)
      /\ data_zone_mapping' = [data_zone_mapping EXCEPT ![cur] = zone_number]
      /\ zone_states' = [zone_states EXCEPT ![ZoneOf(zone_number)] = FULL_ZONE]
      /\ gpc' = IF prev_zone = NoEntry THEN "zone" ELSE "reset old"
      /\ UNCHANGED <<prev_zone, cur>>
    BY DEF GcWrite, GcGoto
<1>2. PICK y \in VZones : zone_number = Slba(y) /\ ~ Mapped(y)
    BY <1>1 DEF TableInv, RoundInv
<1>3. /\ prev_zone = data_zone_mapping[cur] /\ cur \in VZones
      /\ data_zone_mapping \in [VZones -> {Slba(z) : z \in VZones} \cup {NoEntry}]
      /\ zone_states \in [VZones -> {EMPTY_ZONE, IMPLICITLY_OPENED, FULL_ZONE}]
    BY <1>1 DEF TableInv, RoundInv, TypeOK, MetaTypeOK, GcTypeOK
<1>4. /\ y \in Zones /\ ZoneOf(zone_number) = y /\ zone_number # NoEntry
      /\ \A z \in VZones : Slba(z) = Slba(y) => z = y
    BY <1>2, SlbaOne, Layout
<1>5. /\ wp'[y] = ZoneCap /\ \A z \in VZones \ {y} : wp'[z] = wp[z]
    BY <1>1, <1>2, <1>4, ZoneWritten, Layout
<1>6. data_zone_mapping'[cur] = Slba(y)
      /\ \A w \in VZones \ {cur} : data_zone_mapping'[w] = data_zone_mapping[w]
    BY <1>1, <1>2, <1>3
<1>7. \A w \in VZones : data_zone_mapping[w] # Slba(y)
    BY <1>2 DEF Mapped
<1>8. Distinct'
    <2>1. \A v, w \in VZones : data_zone_mapping'[v] # NoEntry
            /\ data_zone_mapping'[v] = data_zone_mapping'[w] => v = w
        BY <1>6, <1>7 DEF TableInv, Distinct
    <2>2. QED
        BY <2>1 DEF Distinct, VZones
<1>9. prev_zone # NoEntry => \A v \in VZones : data_zone_mapping'[v] # prev_zone
    BY <1>3, <1>6, <1>7 DEF TableInv, Distinct
<1>10. RoundInv'
    BY <1>1, <1>9 DEF RoundInv, VZones
<1>11. ASSUME NEW z \in VZones PROVE ZoneOK(z)'
    <2>1. CASE z = y
        <3>1. ~ Replacing(z)'
            <4>1. prev_zone # Slba(y)
                BY <1>3, <1>7
            <4>2. QED
                BY <1>1, <2>1, <4>1 DEF Replacing, Slba
        <3>2. Mapped(z)'
            BY <1>3, <1>6, <2>1 DEF Mapped, Slba, VZones
        <3>3. zone_states'[z] = FULL_ZONE
            BY <1>1, <1>3, <1>4, <2>1
        <3>4. QED
            BY <1>5, <2>1, <3>1, <3>2, <3>3 DEF ZoneOK
    <2>2. CASE z # y
        <3>1. zone_states'[z] = zone_states[z] /\ wp'[z] = wp[z]
            BY <1>1, <1>3, <1>4, <1>5, <2>2
        <3>2. ZoneOK(z)
            BY DEF TableInv
        <3>3. CASE prev_zone = Slba(z)
            <4>1. Replacing(z) /\ prev_zone # NoEntry
                BY <1>1, <3>3, SlbaOne, Layout DEF Replacing
            <4>2. Replacing(z)'
                BY <1>1, <3>3, <4>1 DEF Replacing, Slba
            <4>3. QED
                BY <3>1, <3>2, <4>1, <4>2 DEF ZoneOK
        <3>4. CASE prev_zone # Slba(z)
            <4>1. ~ Replacing(z) /\ ~ Replacing(z)'
                BY <1>1, <3>4 DEF Replacing, Slba
            <4>2. Mapped(z)' <=> Mapped(z)
                <5>1. \A w \in VZones : data_zone_mapping'[w] = Slba(z) <=> data_zone_mapping[w] = Slba(z)
                    BY <1>3, <1>4, <1>6, <2>2, <3>4
                <5>2. QED
                    BY <5>1 DEF Mapped, Slba, VZones
            <4>3. QED
                BY <3>1, <3>2, <4>1, <4>2 DEF ZoneOK
        <3>5. QED
            BY <3>3, <3>4
    <2>3. QED
        BY <2>1, <2>2
<1>12. QED
    BY <1>8, <1>10, <1>11 DEF TableInv, VZones

(* The zone the merged data was in before is given back ... *)
LEMMA TableResetOld ==
    ASSUME TypeOK, MergeInv, MaxFaults = 0, TableInv, GcResetOld
    PROVE  TableInv'
<1> USE GeometryAssumption, FtlAssumption
<1>1. /\ gpc = "reset old" /\ gpc' = "zone" /\ prev_zone # NoEntry
      /\ nvme_zns_reset({ZoneOf(prev_zone)})
      /\ UNCHANGED <<data_zone_mapping, zone_states>>
    BY ResetDone DEF GcResetOld, GcGoto, meta, OldZone, MergeInv
<1>2. PICK y \in VZones : prev_zone = Slba(y)
    BY <1>1 DEF TypeOK, GcTypeOK
<1>3. ZoneOf(prev_zone) = y /\ \A z \in VZones : Slba(z) = Slba(y) => z = y
    BY <1>2, SlbaOne, Layout
<1>4. wp'[y] = 0 /\ \A z \in VZones \ {y} : wp'[z] = wp[z]
    BY <1>1, <1>3, Layout DEF nvme_zns_reset
<1>5. ASSUME NEW z \in VZones PROVE ZoneOK(z)'
    <2>1. ~ Replacing(z)' /\ (Replacing(z) <=> z = y) /\ (Mapped(z)' <=> Mapped(z))
        BY <1>1, <1>2, <1>3 DEF Replacing, Mapped, Slba, VZones
    <2>2. ZoneOK(z)
        BY DEF TableInv
    <2>3. CASE z = y
        <3>1. ~ Mapped(y)
            BY <1>1, <1>2 DEF TableInv, RoundInv, Mapped
        <3>2. QED
            BY <1>1, <1>4, <2>1, <2>2, <2>3, <3>1 DEF ZoneOK
    <2>4. CASE z # y
        BY <1>1, <1>4, <2>1, <2>2, <2>4 DEF ZoneOK
    <2>5. QED
        BY <2>3, <2>4
<1>6. Distinct'
    BY <1>1 DEF TableInv, Distinct, VZones
<1>7. RoundInv'
    BY <1>1 DEF RoundInv
<1>8. QED
    BY <1>5, <1>6, <1>7 DEF TableInv, VZones

(* ... or emptied, to be rewritten where it is. *)
LEMMA TableInPlace ==
    ASSUME TypeOK, MaxFaults = 0, TableInv, GcResetInPlace
    PROVE  TableInv'
<1> USE GeometryAssumption, FtlAssumption
<1>1. /\ gpc = "reset in place" /\ gpc' = "rewrite" /\ prev_zone # NoEntry
      /\ prev_zone = data_zone_mapping[cur]
      /\ nvme_zns_reset({ZoneOf(prev_zone)})
      /\ UNCHANGED <<data_zone_mapping, zone_states, prev_zone, cur>>
    BY ResetDone DEF GcResetInPlace, GcGoto, meta, merge, TableInv, RoundInv
<1>2. PICK y \in VZones : prev_zone = Slba(y)
    BY <1>1 DEF TypeOK, GcTypeOK
<1>3. ZoneOf(prev_zone) = y /\ \A z \in VZones : Slba(z) = Slba(y) => z = y
    BY <1>2, SlbaOne, Layout
<1>4. wp'[y] = 0 /\ \A z \in VZones \ {y} : wp'[z] = wp[z]
    BY <1>1, <1>3, Layout DEF nvme_zns_reset
<1>5. ASSUME NEW z \in VZones PROVE ZoneOK(z)'
    <2>1. /\ Replacing(z) <=> z = y
          /\ Replacing(z)' <=> z = y
          /\ Mapped(z)' <=> Mapped(z)
        BY <1>1, <1>2, <1>3 DEF Replacing, Mapped, Slba, VZones
    <2>2. ZoneOK(z)
        BY DEF TableInv
    <2>3. QED
        BY <1>1, <1>4, <2>1, <2>2 DEF ZoneOK
<1>6. Distinct'
    BY <1>1 DEF TableInv, Distinct, VZones
<1>7. wp'[ZoneOf(prev_zone')] = 0
    BY <1>1, <1>3, <1>4
<1>8. RoundInv'
    BY <1>1, <1>7 DEF RoundInv, ZoneOf
<1>9. QED
    BY <1>5, <1>6, <1>8 DEF TableInv, VZones

LEMMA TableRewrite ==
    ASSUME TypeOK, TableInv, GcRewrite
    PROVE  TableInv'
<1> USE GeometryAssumption, FtlAssumption
<1>1. /\ gpc = "rewrite" /\ gpc' = "reset spare" /\ prev_zone # NoEntry
      /\ prev_zone = data_zone_mapping[cur] /\ cur \in VZones
      /\ nvme_write(prev_zone, ZoneCap, buffer)
      /\ zone_states' = [zone_states EXCEPT ![ZoneOf(prev_zone)] = FULL_ZONE]
      /\ UNCHANGED <<data_zone_mapping>>
    BY DEF GcRewrite, GcGoto, TableInv, RoundInv, TypeOK, GcTypeOK
<1>2. PICK y \in VZones : prev_zone = Slba(y)
    BY <1>1 DEF TypeOK, GcTypeOK
<1>3. ZoneOf(prev_zone) = y /\ \A z \in VZones : Slba(z) = Slba(y) => z = y
    BY <1>2, SlbaOne, Layout
<1>4. wp'[y] = ZoneCap /\ \A z \in VZones \ {y} : wp'[z] = wp[z]
    BY <1>1, <1>2, ZoneWritten, Layout
<1>5. zone_states \in [VZones -> {EMPTY_ZONE, IMPLICITLY_OPENED, FULL_ZONE}]
    BY DEF TypeOK, MetaTypeOK
<1>6. ASSUME NEW z \in VZones PROVE ZoneOK(z)'
    <2>1. ~ Replacing(z)' /\ (Replacing(z) <=> z = y) /\ (Mapped(z)' <=> Mapped(z))
        BY <1>1, <1>2, <1>3 DEF Replacing, Mapped, Slba, VZones
    <2>2. ZoneOK(z)
        BY DEF TableInv
    <2>3. CASE z = y
        <3>1. Mapped(y)
            BY <1>1, <1>2 DEF Mapped
        <3>2. zone_states'[y] = FULL_ZONE
            BY <1>1, <1>3, <1>5
        <3>3. QED
            BY <1>4, <2>1, <2>3, <3>1, <3>2 DEF ZoneOK
    <2>4. CASE z # y
        <3>1. zone_states'[z] = zone_states[z] /\ wp'[z] = wp[z]
            BY <1>1, <1>3, <1>4, <1>5, <2>4
        <3>2. QED
            BY <2>1, <2>2, <2>4, <3>1 DEF ZoneOK
    <2>5. QED
        BY <2>3, <2>4
<1>7. Distinct'
    BY <1>1 DEF TableInv, Distinct, VZones
<1>8. RoundInv'
    BY <1>1 DEF RoundInv
<1>9. QED
    BY <1>6, <1>7, <1>8 DEF TableInv, VZones

(* No write of the merge fails: every zone it writes is empty. *)
LEMMA MergeWritesGo ==
    ASSUME TypeOK, MaxFaults = 0, TableInv
    PROVE  ~ GcWriteFail /\ ~ GcRewriteFail /\ \A v \in VZones : ~ GcZoneFail(v)
<1> USE GeometryAssumption, FtlAssumption
<1>1. ASSUME GcWriteFail PROVE FALSE
    <2>1. PICK y \in VZones : zone_number = Slba(y) /\ ~ Mapped(y)
        BY <1>1 DEF GcWriteFail, TableInv, RoundInv
    <2>2. ~ Replacing(y)
        <3>1. cur \in VZones /\ prev_zone = data_zone_mapping[cur]
            BY <1>1 DEF GcWriteFail, TypeOK, GcTypeOK, TableInv, RoundInv
        <3>2. QED
            BY <2>1, <3>1 DEF Replacing, Mapped
    <2>3. wp[y] = 0
        BY <2>1, <2>2 DEF TableInv, ZoneOK
    <2>4. QED
        BY <1>1, <2>1, <2>3, ZoneWriteGoes, Layout DEF GcWriteFail
<1>2. ASSUME GcRewriteFail PROVE FALSE
    <2>1. prev_zone # NoEntry /\ wp[ZoneOf(prev_zone)] = 0
        BY <1>2 DEF GcRewriteFail, TableInv, RoundInv
    <2>2. PICK y \in VZones : prev_zone = Slba(y)
        BY <2>1 DEF TypeOK, GcTypeOK
    <2>3. wp[y] = 0
        BY <2>1, <2>2, SlbaOne, Layout
    <2>4. QED
        BY <1>2, <2>2, <2>3, ZoneWriteGoes, Layout DEF GcRewriteFail
<1>3. QED
    BY <1>1, <1>2, NoFault DEF GcZoneFail

LEMMA TableMerge ==
    ASSUME TypeOK, MergeInv, MaxFaults = 0, TableInv, MergeStep
    PROVE  TableInv'
<1> USE GeometryAssumption, FtlAssumption
<1>1. CASE GcZonesDone
    BY <1>1, TableKept DEF GcZonesDone, GcGoto, device, meta, merge
<1>2. CASE GcResetSpare
    <2>1. /\ gpc = "reset spare" /\ gpc' = "zone" /\ zone_number = Slba(LogZones - 1)
          /\ nvme_zns_reset({ZoneOf(zone_number)}) /\ UNCHANGED <<data_zone_mapping, zone_states>>
        BY <1>2, ResetDone DEF GcResetSpare, GcGoto, MergeInv, meta
    <2>2. ZoneOf(zone_number) = LogZones - 1
        BY <2>1, SlbaOne, Layout
    <2>3. ASSUME NEW z \in VZones PROVE wp'[z] = wp[z]
        <3>1. z \in Zones
            BY Layout
        <3>2. z \notin {LogZones - 1}
            BY DEF VZones
        <3>3. QED
            BY <2>1, <2>2, <3>1, <3>2 DEF nvme_zns_reset
    <2>4. QED
        BY <2>1, <2>3, TableKept
<1>3. QED
    BY <1>1, <1>2, TableZone, TableWrite, TableResetOld, TableInPlace, TableRewrite,
       MergeWritesGo DEF MergeStep

LEMMA TableStep ==
    ASSUME WriteSizes \subseteq 1 .. ZoneCap, MaxFaults = 0,
           SpareInv, TableInv, [Next]_vars
    PROVE  TableInv'
<1> USE GeometryAssumption, FtlAssumption
<1>1. IInv /\ WriterSize /\ TypeOK /\ MutexInv /\ MergeInv
    BY DEF SpareInv, IInv
<1>2. ASSUME UNCHANGED <<data_zone_mapping, zone_states, wp, merge>>, gpc' = gpc \/ SignalStart
      PROVE  TableInv'
    BY <1>2, TableKept DEF SignalStart, merge
<1>3. ASSUME NEW c \in Clients, WriteStep(c) PROVE TableInv'
    <2>1. CASE pc[c] = "write"
        <3>1. \A z \in VZones : UNCHANGED wp[z]
            <4>1. ASSUME NEW z \in VZones PROVE UNCHANGED wp[z]
                <5>1. z \in Zones /\ z >= LogZones - Watermark
                    BY Layout DEF VZones
                <5>2. QED
                    BY <1>1, <1>3, <5>1, WriteBelowSpare
            <4>2. QED
                BY <4>1
        <3>2. gpc \in {"lock", "wait", "exit"}
            BY <1>1, <2>1 DEF MutexInv, GcHolds
        <3>3. UNCHANGED <<gpc, data_zone_mapping, zone_states>>
            BY <1>3, <2>1 DEF WriteStep, WriteLock, WriteWait, WriteGo, WriteAppend,
                    WriteAppendFail, WriteLarge, WriteLargeFail, WriteMap, meta
        <3>4. QED
            BY <3>1, <3>2, <3>3, TableKept
    <2>2. CASE pc[c] # "write"
        BY <1>2, <1>3, <2>2 DEF WriteStep, WriteLock, WriteWait, WriteGo, WriteAppend,
                WriteAppendFail, WriteLarge, WriteLargeFail, WriteMap, meta, device
    <2>3. QED
        BY <2>1, <2>2
<1>4. ASSUME NEW c \in Clients, Call(c) \/ ReadStep(c) \/ Return(c) \/ SpuriousWake(c)
      PROVE  TableInv'
    BY <1>2, <1>4 DEF Call, WriteCall, ReadCall, RejectedCall, Return, SpuriousWake,
            ReadStep, ReadFind, ReadEntry, ReadData, ReadDev, ReadDevFail, device, meta
<1>5. CASE GcLock \/ GcIdle \/ GcWait \/ GcExit \/ GcCollect \/ GcClear \/ GcSpuriousWake
    BY <1>5, TableKept DEF GcLock, GcIdle, GcWait, GcExit, GcCollect, GcClear,
            GcSpuriousWake, GcGoto, device, meta
<1>6. CASE GcResetLog
    <2>1. /\ gpc = "reset log" /\ gpc' = "clear" /\ nvme_zns_reset(LogZone)
          /\ UNCHANGED <<data_zone_mapping, zone_states>>
        BY <1>1, <1>6, ResetDone DEF GcResetLog, GcGoto, meta
    <2>2. ASSUME NEW z \in VZones PROVE wp'[z] = wp[z]
        <3>1. z \in Zones
            BY Layout
        <3>2. z \notin LogZone
            BY DEF VZones, LogZone
        <3>3. QED
            BY <2>1, <3>1, <3>2 DEF nvme_zns_reset
    <2>3. QED
        BY <2>1, <2>2, TableKept
<1>7. CASE DeinitStop \/ DeinitStep \/ UNCHANGED vars
    BY <1>2, <1>7 DEF DeinitStop, DeinitStep, DeinitSignal, DeinitJoin, vars, device, meta
<1>8. QED
    BY <1>1, <1>3, <1>4, <1>5, <1>6, <1>7, TableMerge DEF Next, GcStep, Terminated

LEMMA TableStart ==
    ASSUME \A z \in VZones : wp[z] = 0 /\ zone_states[z] = EMPTY_ZONE,
           data_zone_mapping = [v \in VZones |-> NoEntry],
           gpc \notin {"write", "reset old", "reset in place", "rewrite", "reset log"}
    PROVE  TableInv
<1>1. \A z \in VZones : Slba(z) # NoEntry
    BY SlbaOne, Layout
<1>2. \A z \in VZones : ~ Replacing(z) /\ ~ Mapped(z)
    BY <1>1 DEF Replacing, Mapped
<1>3. Distinct /\ RoundInv
    BY DEF Distinct, RoundInv
<1>4. QED
    BY <1>2, <1>3 DEF TableInv, ZoneOK

LEMMA TableInit == Init => TableInv
<1> SUFFICES ASSUME Init PROVE TableInv
    OBVIOUS
<1>1. \A z \in VZones : wp[z] = 0 /\ zone_states[z] = EMPTY_ZONE
    BY Layout DEF Init, ReportedState
<1>2. QED
    BY <1>1, TableStart DEF Init

LEMMA TableHolds ==
    ASSUME TableInv
    PROVE  ZoneTable /\ (gpc = "reset log" => todo = {})
<1>1. ASSUME NEW z \in VZones, ~ Replacing(z)
      PROVE  /\ zone_states[z] = EMPTY_ZONE => wp[z] = 0
             /\ zone_states[z] = FULL_ZONE => wp[z] = ZoneCap
             /\ zone_states[z] = FULL_ZONE <=> \E v \in VZones : data_zone_mapping[v] = Slba(z)
    <2>1. ZoneOK(z)
        BY DEF TableInv
    <2>2. QED
        BY <1>1, <2>1 DEF ZoneOK, Mapped, EMPTY_ZONE, FULL_ZONE
<1>2. \A v, w \in VZones :
          data_zone_mapping[v] # NoEntry /\ data_zone_mapping[v] = data_zone_mapping[w] => v = w
    BY DEF TableInv, Distinct
<1>3. QED
    BY <1>1, <1>2 DEF ZoneTable, TableInv, RoundInv

(* The FTL's picture of the data zones is the device's: for any number of  *)
(* writers and readers, and writes of up to a zone, while no command fails *)
(* by itself.  (A failed reset or write in a merge does break it.)         *)
THEOREM ZoneTableKept ==
    ASSUME WriteSizes \subseteq 1 .. ZoneCap, MaxFaults = 0
    PROVE  Spec => []ZoneTable
<1>1. Init => SpareInv /\ TableInv
    BY SpareInit, TableInit
<1>2. SpareInv /\ TableInv /\ [Next]_vars => (SpareInv /\ TableInv)'
    BY SpareStep, TableStep
<1>3. TableInv => ZoneTable
    BY TableHolds
<1>4. QED
    BY <1>1, <1>2, <1>3, PTL DEF Spec

(* Such a merge is never given up: when the log is emptied, every virtual  *)
(* zone with blocks in it has been merged.                                 *)
THEOREM MergeComplete ==
    ASSUME WriteSizes \subseteq 1 .. ZoneCap, MaxFaults = 0
    PROVE  Spec => [](gpc = "reset log" => todo = {})
<1>1. Init => SpareInv /\ TableInv
    BY SpareInit, TableInit
<1>2. SpareInv /\ TableInv /\ [Next]_vars => (SpareInv /\ TableInv)'
    BY SpareStep, TableStep
<1>3. TableInv => (gpc = "reset log" => todo = {})
    BY TableHolds
<1>4. QED
    BY <1>1, <1>2, <1>3, PTL DEF Spec

----------------------------------------------------------------------------
(* One client and the garbage collector *)

(* A collection is wanted only while a writer waits for the room it makes. *)
QuietInv ==
    /\ GcRuns => trigger_my_gc
    /\ trigger_my_gc =>
          \E c \in Clients : pc[c] \in {"lock", "check", "wait"} /\ LogIsLow(req[c].n)

(* Nothing is wanted before the step, nor after it. *)
LEMMA QuietCalm ==
    ASSUME QuietInv, ~ trigger_my_gc, UNCHANGED trigger_my_gc, GcRuns' => GcRuns
    PROVE  QuietInv'
BY DEF QuietInv

(* Or the writer goes on waiting. *)
LEMMA QuietKept ==
    ASSUME QuietInv, UNCHANGED <<trigger_my_gc, log_zone_end, req>>, GcRuns' => trigger_my_gc,
           \A c \in Clients : pc[c] \in {"lock", "check", "wait"}
                                 => pc'[c] \in {"lock", "check", "wait"}
    PROVE  QuietInv'
<1>1. ASSUME trigger_my_gc'
      PROVE  \E c \in Clients : pc'[c] \in {"lock", "check", "wait"} /\ LogIsLow(req[c].n)'
    <2>1. PICK c \in Clients : pc[c] \in {"lock", "check", "wait"} /\ LogIsLow(req[c].n)
        BY <1>1 DEF QuietInv
    <2>2. LogIsLow(req[c].n)'
        BY <2>1 DEF LogIsLow, free_zone_number
    <2>3. QED
        BY <2>1, <2>2
<1>2. QED
    BY <1>1 DEF QuietInv

LEMMA QuietStep ==
    ASSUME OneClient, TypeOK, MutexInv, QuietInv, [Next]_vars
    PROVE  QuietInv'
<1>1. pc \in [Clients -> ClientPcs]
    BY DEF TypeOK, ClientTypeOK
<1>2. ASSUME NEW c \in Clients, pc[c] \notin {"lock", "check", "wait"}
      PROVE  ~ trigger_my_gc
    BY <1>2 DEF QuietInv, OneClient
<1>3. ASSUME NEW c \in Clients, WriteStep(c) PROVE QuietInv'
    <2>1. CASE WriteLock(c)
        <3>1. /\ UNCHANGED <<trigger_my_gc, log_zone_end, req, gpc>>
              /\ pc'[c] = "check" /\ \A d \in Clients \ {c} : pc'[d] = pc[d]
            BY <1>1, <2>1 DEF WriteLock, Goto, meta, flags, call
        <3>2. GcRuns' => trigger_my_gc
            BY <3>1 DEF QuietInv, GcRuns, GcHolds
        <3>3. QED
            BY <3>1, <3>2, QuietKept
    <2>2. CASE WriteWait(c)
        <3>1. gc_mutex = c /\ ~ GcRuns /\ LogIsLow(req[c].n)
            BY <2>2, FtlAssumption DEF WriteWait, MutexInv, GcRuns
        <3>2. ~ GcRuns'
            BY <2>2, <3>1 DEF WriteWait, SignalStart, GcRuns, GcHolds
        <3>3. pc'[c] = "wait" /\ UNCHANGED <<log_zone_end, req>>
            BY <1>1, <2>2 DEF WriteWait, Goto, meta, call
        <3>4. LogIsLow(req[c].n)'
            BY <3>1, <3>3 DEF LogIsLow, free_zone_number
        <3>5. QED
            BY <3>2, <3>3, <3>4 DEF QuietInv
    <2>3. CASE WriteGo(c)
        <3>1. ~ trigger_my_gc
            BY <2>3 DEF WriteGo, QuietInv, OneClient
        <3>2. UNCHANGED <<trigger_my_gc, gpc>>
            BY <2>3 DEF WriteGo, flags
        <3>3. QED
            BY <3>1, <3>2, QuietCalm DEF GcRuns, GcHolds
    <2>4. CASE WriteAppend(c) \/ WriteAppendFail(c) \/ WriteLarge(c) \/ WriteLargeFail(c)
               \/ WriteMap(c)
        <3>1. pc[c] \in {"write", "map"} /\ UNCHANGED <<trigger_my_gc, gpc>>
            BY <2>4 DEF WriteAppend, WriteAppendFail, WriteLarge, WriteLargeFail, WriteMap, flags
        <3>2. QED
            BY <1>2, <3>1, QuietCalm DEF GcRuns, GcHolds
    <2>5. QED
        BY <1>3, <2>1, <2>2, <2>3, <2>4 DEF WriteStep
<1>4. ASSUME NEW c \in Clients, Call(c) \/ ReadStep(c) \/ Return(c) PROVE QuietInv'
    <2>1. pc[c] \notin {"lock", "check", "wait"} /\ UNCHANGED <<trigger_my_gc, gpc>>
        BY <1>4 DEF Call, WriteCall, ReadCall, RejectedCall, Return, ReadStep, ReadFind,
                ReadEntry, ReadData, ReadDev, ReadDevFail, flags
    <2>2. QED
        BY <1>2, <2>1, QuietCalm DEF GcRuns, GcHolds
<1>5. ASSUME UNCHANGED <<trigger_my_gc, log_zone_end, req>>, GcRuns' => trigger_my_gc,
             \A d \in Clients : UNCHANGED pc[d] \/ pc'[d] = "lock"
      PROVE  QuietInv'
    BY <1>5, QuietKept
<1>6. ASSUME NEW c \in Clients, SpuriousWake(c) PROVE QuietInv'
    <2>1. UNCHANGED <<trigger_my_gc, log_zone_end, req, gpc>>
        BY <1>6 DEF SpuriousWake, meta, flags, call
    <2>2. \A d \in Clients : UNCHANGED pc[d] \/ pc'[d] = "lock"
        BY <1>1, <1>6 DEF SpuriousWake, Goto
    <2>3. GcRuns' => trigger_my_gc
        BY <2>1 DEF QuietInv, GcRuns, GcHolds
    <2>4. QED
        BY <1>5, <2>1, <2>2, <2>3
<1>7. CASE MergeStep \/ GcResetLog
    <2>1. GcRuns /\ UNCHANGED <<trigger_my_gc, log_zone_end, req, pc>>
        BY <1>7 DEF MergeStep, GcZone, GcZoneFail, GcZonesDone, GcWrite, GcWriteFail,
                GcResetOld, GcResetInPlace, GcRewrite, GcRewriteFail, GcResetSpare,
                GcResetLog, GcRuns, GcHolds, meta, flags, call
    <2>2. trigger_my_gc
        BY <2>1 DEF QuietInv
    <2>3. QED
        BY <1>5, <2>1, <2>2
<1>8. CASE GcCollect
    BY <1>5, <1>8 DEF GcCollect, flags, call
<1>9. CASE GcLock \/ GcIdle \/ GcWait \/ GcExit \/ GcSpuriousWake
    <2>1. ~ GcRuns' /\ UNCHANGED <<trigger_my_gc, log_zone_end, req, pc>>
        BY <1>9 DEF GcLock, GcIdle, GcWait, GcExit, GcSpuriousWake, GcGoto, GcRuns, GcHolds,
                meta, flags, call
    <2>2. QED
        BY <1>5, <2>1
<1>10. CASE GcClear
    BY <1>10 DEF GcClear, EmptyLog, GcGoto, QuietInv, GcRuns, GcHolds
<1>11. CASE DeinitStop \/ DeinitStep \/ UNCHANGED vars
    <2>1. (GcRuns' => GcRuns) /\ UNCHANGED <<trigger_my_gc, log_zone_end, req, pc>>
        BY <1>11 DEF DeinitStop, DeinitStep, DeinitSignal, DeinitJoin, SignalStart, vars,
                meta, flags, call, GcRuns, GcHolds
    <2>2. GcRuns => trigger_my_gc
        BY DEF QuietInv
    <2>3. QED
        BY <1>5, <2>1, <2>2
<1>12. QED
    BY <1>3, <1>4, <1>6, <1>7, <1>8, <1>9, <1>10, <1>11 DEF Next, GcStep, Terminated

LEMMA QuietInit == Init => QuietInv
BY DEF Init, QuietInv, GcRuns, GcHolds

LEMMA QuietHolds ==
    ASSUME OneClient, QuietInv
    PROVE  /\ QuietReads
           /\ \A c \in Clients : pc[c] \notin {"lock", "check", "wait"} =>
                 ~ trigger_my_gc /\ ~ GcRuns
<1>1. ASSUME NEW c \in Clients, pc[c] \notin {"lock", "check", "wait"}
      PROVE  ~ trigger_my_gc /\ ~ GcRuns
    BY <1>1 DEF QuietInv, OneClient
<1>2. QED
    BY <1>1 DEF QuietReads

(* One client's reads need no lock: nothing collects, and nothing is about *)
(* to, while it is inside one; for every size of its reads and writes and  *)
(* any number of failing commands.                                         *)
THEOREM ReadsUndisturbed ==
    ASSUME OneClient
    PROVE  Spec => []QuietReads
<1>1. Init => IInv /\ QuietInv
    BY InductiveInit, QuietInit
<1>2. IInv /\ QuietInv /\ [Next]_vars => (IInv /\ QuietInv)'
    BY InductiveStep, QuietStep DEF IInv
<1>3. QuietInv => QuietReads
    BY QuietHolds
<1>4. QED
    BY <1>1, <1>2, <1>3, PTL DEF Spec

----------------------------------------------------------------------------
(* The tail with writes of one block *)

(* The device will append where the tail is, and the log is empty behind.  *)
TailSync ==
    \A z \in LogZone :
        /\ gpc = "clear" \/ z > ZoneOf(log_zone_end) => wp[z] = 0
        /\ gpc # "clear" /\ z = ZoneOf(log_zone_end) => wp[z] = OffsetOf(log_zone_end)

LEMMA NextLba ==
    ASSUME NEW l \in Int
    PROVE  \/ ZoneOf(l + 1) = ZoneOf(l) /\ OffsetOf(l + 1) = OffsetOf(l) + 1
           \/ ZoneOf(l + 1) = ZoneOf(l) + 1 /\ OffsetOf(l + 1) = 0
<1> USE GeometryAssumption
<1> DEFINE z == ZoneOf(l)
           k == OffsetOf(l)
<1>1. z \in Int /\ k \in Offsets /\ l = Slba(z) + k /\ Slba(z) \in Int
      /\ Slba(z + 1) = Slba(z) + ZoneCap
    BY SplitLba DEF Slba
<1> HIDE DEF z, k
<1>2. CASE k + 1 < ZoneCap
    <2>1. k + 1 \in Offsets /\ l + 1 = Slba(z) + (k + 1)
        BY <1>1, <1>2 DEF Offsets
    <2>2. QED
        BY <1>1, <2>1, ZoneOfSlba DEF z, k
<1>3. CASE k + 1 = ZoneCap
    <2>1. 0 \in Offsets /\ z + 1 \in Int /\ l + 1 = Slba(z + 1) + 0
        BY <1>1, <1>3 DEF Offsets
    <2>2. QED
        BY <2>1, ZoneOfSlba DEF z
<1>4. QED
    BY <1>1, <1>2, <1>3 DEF Offsets

LEMMA OneBlock ==
    ASSUME SingleBlocks, SpareInv
    PROVE  /\ WriteSizes \subseteq 1 .. ZoneCap
           /\ \A c \in Clients :
                /\ pc[c] \in {"lock", "check", "wait", "write", "map"} => req[c].n = 1
                /\ pc[c] = "map" => idx[c] = 0 /\ LastRound(c)
           /\ 1 < MDTS
<1>1. WriteSizes \subseteq 1 .. ZoneCap /\ 1 < MDTS
    BY GeometryAssumption DEF SingleBlocks
<1>2. ASSUME NEW c \in Clients, pc[c] \in {"lock", "check", "wait", "write", "map"}
      PROVE  req[c].n = 1
    BY <1>2 DEF SpareInv, WriterSize, SingleBlocks
<1>3. ASSUME NEW c \in Clients, pc[c] = "map"
      PROVE  idx[c] = 0 /\ LastRound(c)
    <2>1. idx[c] < req[c].n /\ idx[c] \in 0 .. BufBlocks /\ BufBlocks \in Nat
        BY <1>3, FtlAssumption DEF SpareInv, IInv, CallInv, CallOK, Looping, TypeOK, ClientTypeOK
    <2>2. QED
        BY <1>2, <1>3, <2>1 DEF LastRound
<1>4. QED
    BY <1>1, <1>2, <1>3

(* A writer about to write: where the device is, and that it has room. *)
LEMMA WriterSync ==
    ASSUME SingleBlocks, SpareInv, TailSync, NEW c \in Clients, pc[c] = "write"
    PROVE  /\ lba[c] = log_zone_end
           /\ ZoneOf(log_zone_end) \in LogZone
           /\ wp[ZoneOf(log_zone_end)] = OffsetOf(log_zone_end)
           /\ CanAppend(ZoneOf(log_zone_end), 1)
           /\ AppendLba(ZoneOf(log_zone_end)) = log_zone_end
           /\ gpc \in {"lock", "wait", "exit"}
           /\ gc_mutex = c
<1> USE GeometryAssumption, FtlAssumption
<1>1. TypeOK /\ MutexInv /\ TailNotAhead /\ TailInLog /\ CallInv
    BY DEF SpareInv, IInv
<1>2. lba[c] = log_zone_end /\ gc_mutex = c
    BY <1>1, WriterAtTail
<1>3. gpc \in {"lock", "wait", "exit"}
    BY <1>1, <1>2 DEF MutexInv, GcHolds
<1>4. /\ ZoneOf(log_zone_end) \in LogZone /\ ZoneOf(log_zone_end) \in Zones
      /\ OffsetOf(log_zone_end) \in Offsets
      /\ log_zone_end = Slba(ZoneOf(log_zone_end)) + OffsetOf(log_zone_end)
    BY <1>1, TailZone
<1>5. wp[ZoneOf(log_zone_end)] = OffsetOf(log_zone_end)
    BY <1>3, <1>4 DEF TailSync
<1>6. QED
    BY <1>2, <1>3, <1>4, <1>5 DEF CanAppend, AppendLba, Offsets

(* A step of a writer is an append of its block, or leaves the device and  *)
(* the tail as they are.                                                   *)
LEMMA WriterSteps ==
    ASSUME SingleBlocks, MaxFaults = 0, SpareInv, TailSync, NEW c \in Clients, WriteStep(c)
    PROVE  \/ WriteLock(c) \/ WriteWait(c) \/ WriteGo(c) \/ WriteMap(c)
           \/ /\ WriteAppend(c)
              /\ log_zone_end' = log_zone_end + 1
              /\ wp' = [wp EXCEPT ![ZoneOf(log_zone_end)] = @ + 1]
              /\ blk' = Stored(log_zone_end, 1, buf[c])
<1>1. ASSUME pc[c] = "write"
      PROVE  /\ req[c].n = 1 /\ 1 < MDTS /\ lba[c] = log_zone_end
             /\ CanAppend(ZoneOf(lba[c]), req[c].n)
             /\ AppendLba(ZoneOf(lba[c])) = log_zone_end
    BY <1>1, OneBlock, WriterSync
<1>2. ~ WriteAppendFail(c)
    <2>1. TypeOK
        BY DEF SpareInv, IInv
    <2>2. QED
        BY <1>1, <2>1, NoFault DEF WriteAppendFail
<1>3. ~ WriteLarge(c) /\ ~ WriteLargeFail(c)
    <2>1. ~ (1 >= MDTS)
        BY GeometryAssumption DEF SingleBlocks
    <2>2. QED
        BY <1>1, <2>1 DEF WriteLarge, WriteLargeFail
<1>4. WriteAppend(c) => /\ log_zone_end' = log_zone_end + 1
                        /\ wp' = [wp EXCEPT ![ZoneOf(log_zone_end)] = @ + 1]
                        /\ blk' = Stored(log_zone_end, 1, buf[c])
    BY <1>1 DEF WriteAppend, nvme_zns_append, TailAfter
<1>5. QED
    BY <1>2, <1>3, <1>4 DEF WriteStep

LEMMA TailSyncKept ==
    ASSUME TailSync, UNCHANGED log_zone_end, \A z \in LogZone : UNCHANGED wp[z],
           gpc' = "clear" <=> gpc = "clear"
    PROVE  TailSync'
BY DEF TailSync, LogZone, ZoneOf, OffsetOf

LEMMA TailSyncAppend ==
    ASSUME SingleBlocks, MaxFaults = 0, SpareInv, TailSync,
           NEW c \in Clients, WriteAppend(c)
    PROVE  TailSync'
<1> USE GeometryAssumption, FtlAssumption
<1> DEFINE z == ZoneOf(log_zone_end)
<1>1. /\ pc[c] = "write" /\ gpc' = gpc /\ log_zone_end' = log_zone_end + 1
      /\ wp' = [wp EXCEPT ![z] = @ + 1]
    BY WriterSteps DEF WriteAppend, WriteStep, WriteLock, WriteWait, WriteGo, WriteMap
<1>2. wp[z] = OffsetOf(log_zone_end) /\ gpc # "clear" /\ z \in LogZone
    BY <1>1, WriterSync
<1>3. wp \in [Zones -> 0 .. ZoneCap] /\ LogZone \subseteq Zones /\ log_zone_end \in Int
    BY Layout DEF SpareInv, IInv, TypeOK, DeviceTypeOK, MetaTypeOK
<1>4. z \in Int /\ \A y \in LogZone : y \in Int
    BY <1>2 DEF LogZone
<1>5. ASSUME NEW y \in LogZone
      PROVE  /\ y > ZoneOf(log_zone_end') => wp'[y] = 0
             /\ y = ZoneOf(log_zone_end') => wp'[y] = OffsetOf(log_zone_end')
    <2>1. y > z => wp[y] = 0 /\ wp'[y] = wp[y]
        BY <1>1, <1>2, <1>3, <1>4 DEF TailSync
    <2>2. wp'[z] = OffsetOf(log_zone_end) + 1
        BY <1>1, <1>2, <1>3
    <2>3. CASE ZoneOf(log_zone_end') = z /\ OffsetOf(log_zone_end') = OffsetOf(log_zone_end) + 1
        BY <2>1, <2>2, <2>3
    <2>4. CASE ZoneOf(log_zone_end') = z + 1 /\ OffsetOf(log_zone_end') = 0
        BY <1>4, <2>1, <2>4
    <2>5. QED
        BY <1>1, <1>3, <2>3, <2>4, NextLba
<1>6. QED
    BY <1>1, <1>2, <1>5 DEF TailSync, LogZone, ZoneOf, OffsetOf

(* The merge changes no zone of the log. *)
LEMMA MergeKeepsLog ==
    ASSUME SpareInv, WatermarkKept', MergeStep, NEW z \in LogZone
    PROVE  wp'[z] = wp[z]
<1> USE FtlAssumption
<1>1. TypeOK /\ MergeInv /\ WatermarkKept
    BY DEF SpareInv, IInv
<1>2. CASE z = LogZones - 1
    <2>1. z \in LogZones - Watermark .. LogZones - 1
        BY <1>2
    <2>2. QED
        BY <1>1, <2>1 DEF WatermarkKept
<1>3. QED
    BY <1>1, <1>2, MergeLogZones

LEMMA TailSyncStep ==
    ASSUME SingleBlocks, MaxFaults = 0, SpareInv, TailSync, [Next]_vars
    PROVE  TailSync'
<1> USE GeometryAssumption, FtlAssumption
<1>1. /\ TypeOK /\ MergeInv /\ WatermarkKept'
    BY OneBlock, SpareStep DEF SpareInv, IInv
<1>2. ASSUME UNCHANGED <<log_zone_end, wp>>, gpc' = "clear" <=> gpc = "clear" PROVE TailSync'
    BY <1>2, TailSyncKept
<1>3. ASSUME NEW c \in Clients, WriteStep(c) PROVE TailSync'
    <2>1. CASE WriteLock(c) \/ WriteWait(c) \/ WriteGo(c) \/ WriteMap(c)
        BY <1>2, <2>1 DEF WriteLock, WriteWait, WriteGo, WriteMap, SignalStart, device, meta
    <2>2. QED
        BY <1>3, <2>1, WriterSteps, TailSyncAppend
<1>4. ASSUME NEW c \in Clients, Call(c) \/ ReadStep(c) \/ Return(c) \/ SpuriousWake(c)
      PROVE  TailSync'
    BY <1>2, <1>4 DEF Call, WriteCall, ReadCall, RejectedCall, Return, SpuriousWake,
            ReadStep, ReadFind, ReadEntry, ReadData, ReadDev, ReadDevFail, device, meta
<1>5. CASE MergeStep
    <2>1. UNCHANGED log_zone_end /\ gpc # "clear" /\ gpc' # "clear"
        BY <1>5 DEF MergeStep, GcZone, GcZoneFail, GcZonesDone, GcWrite, GcWriteFail,
                GcResetOld, GcResetInPlace, GcRewrite, GcRewriteFail, GcResetSpare, GcGoto, meta
    <2>2. \A z \in LogZone : UNCHANGED wp[z]
        BY <1>1, <1>5, MergeKeepsLog
    <2>3. QED
        BY <2>1, <2>2, TailSyncKept
<1>6. CASE GcResetLog
    <2>1. gpc' = "clear" /\ nvme_zns_reset(LogZone)
        BY <1>1, <1>6, ResetDone DEF GcResetLog, GcGoto
    <2>2. \A z \in LogZone : wp'[z] = 0
        BY <2>1, Layout DEF nvme_zns_reset
    <2>3. QED
        BY <2>1, <2>2 DEF TailSync, LogZone
<1>7. CASE GcClear
    <2>1. gpc = "clear" /\ log_zone_end' = 0 /\ gpc' = "lock" /\ UNCHANGED wp
        BY <1>7 DEF GcClear, EmptyLog, GcGoto, device
    <2>2. \A z \in LogZone : wp'[z] = 0
        BY <2>1 DEF TailSync
    <2>3. OffsetOf(0) = 0
        <3>1. 0 \in Offsets /\ Slba(0) + 0 = 0
            BY DEF Offsets, Slba
        <3>2. QED
            BY <3>1, ZoneOfSlba
    <2>4. QED
        BY <2>1, <2>2, <2>3 DEF TailSync, LogZone, OffsetOf
<1>8. CASE GcLock \/ GcIdle \/ GcWait \/ GcExit \/ GcCollect \/ GcSpuriousWake
    BY <1>2, <1>8 DEF GcLock, GcIdle, GcWait, GcExit, GcCollect, GcSpuriousWake, GcGoto, device, meta
<1>9. CASE DeinitStop \/ DeinitStep \/ UNCHANGED vars
    BY <1>2, <1>9 DEF DeinitStop, DeinitStep, DeinitSignal, DeinitJoin, SignalStart, vars,
            device, meta
<1>10. QED
    BY <1>3, <1>4, <1>5, <1>6, <1>7, <1>8, <1>9 DEF Next, GcStep, Terminated

LEMMA TailSyncStart ==
    ASSUME \A z \in LogZone : wp[z] = 0, log_zone_end = 0
    PROVE  TailSync
<1>1. 0 \in Offsets /\ Slba(0) + 0 = 0
    BY GeometryAssumption DEF Offsets, Slba
<1>2. OffsetOf(0) = 0
    BY <1>1, ZoneOfSlba
<1>3. QED
    BY <1>2 DEF TailSync


----------------------------------------------------------------------------
(* Calls and merges do not fail *)

Reading == {"find", "entry", "data", "dev"}

(* Nobody has failed, and no reader asks for more than one command brings. *)
CalmInv ==
    \A c \in Clients :
        /\ ret[c] # EIO
        /\ pc[c] \in Reading => req[c].n \in ReadSizes

(* A single block of the device can be read. *)
LEMMA BlockReadable ==
    ASSUME NEW l \in LBAs
    PROVE  CanRead(l, 1)
<1> USE GeometryAssumption
<1> SUFFICES ASSUME NEW k \in Chunks(1) PROVE InOneZone(ChunkLba(l, k), ChunkLen(1, k))
    BY DEF CanRead
<1>1. /\ k * MDTS \in Nat /\ k * MDTS < 1
      /\ ChunkLen(1, k) \in 1 .. MDTS /\ k * MDTS + ChunkLen(1, k) <= 1
    BY ChunkBounds
<1>2. k * MDTS = 0 /\ ChunkLen(1, k) = 1
    BY <1>1
<1>3. l \in Int /\ l >= 0
    BY DEF LBAs
<1>4. ChunkLba(l, k) = l
    BY <1>2, <1>3 DEF ChunkLba
<1>5. ZoneOf(l) \in Zones /\ OffsetOf(l) \in Offsets
    BY <1>3, LbaInZone, SplitLba
<1>6. QED
    BY <1>2, <1>3, <1>4, <1>5 DEF InOneZone, Offsets

LEMMA ReadsGo ==
    ASSUME ReadSizes \subseteq 1 .. MDTS - 1, MaxFaults = 0, TypeOK, CalmInv,
           NEW c \in Clients
    PROVE  ~ ReadDevFail(c)
<1> SUFFICES ASSUME ReadDevFail(c) PROVE FALSE
    OBVIOUS
<1>1. pc[c] = "dev" /\ lba[c] \in LBAs
    BY DEF ReadDevFail, TypeOK, ClientTypeOK
<1>2. req[c].n \in 1 .. MDTS - 1
    BY <1>1 DEF CalmInv, Reading
<1>3. ReadLen(c) = 1
    BY <1>2, GeometryAssumption DEF ReadLen
<1>4. QED
    BY <1>1, <1>3, BlockReadable, NoFault DEF ReadDevFail

LEMMA CalmStep ==
    ASSUME SingleBlocks, ReadSizes \subseteq 1 .. MDTS - 1, MaxFaults = 0,
           SpareInv, TailSync, CalmInv, [Next]_vars
    PROVE  CalmInv'
<1>1. TypeOK /\ pc \in [Clients -> ClientPcs] /\ DOMAIN ret = Clients /\ DOMAIN req = Clients
    BY DEF SpareInv, IInv, TypeOK, ClientTypeOK
<1>2. ASSUME UNCHANGED <<req, ret>>,
             \A d \in Clients : UNCHANGED pc[d] \/ pc'[d] \notin Reading
      PROVE  CalmInv'
    BY <1>2 DEF CalmInv
<1>3. ASSUME NEW c \in Clients, WriteStep(c) PROVE CalmInv'
    <2>1. WriteLock(c) \/ WriteWait(c) \/ WriteGo(c) \/ WriteMap(c) \/ WriteAppend(c)
        BY <1>3, WriterSteps
    <2>2. UNCHANGED <<req, ret>>
        BY <2>1 DEF WriteLock, WriteWait, WriteGo, WriteMap, WriteAppend, call
    <2>3. \A d \in Clients : UNCHANGED pc[d] \/ pc'[d] \notin Reading
        BY <1>1, <2>1 DEF WriteLock, WriteWait, WriteGo, WriteMap, WriteAppend, Goto, Reading
    <2>4. QED
        BY <1>2, <2>2, <2>3
<1>4. ASSUME NEW c \in Clients, ReadStep(c) PROVE CalmInv'
    <2>1. ReadFind(c) \/ ReadEntry(c) \/ ReadData(c) \/ ReadDev(c)
        BY <1>1, <1>4, ReadsGo DEF ReadStep
    <2>2. /\ UNCHANGED req /\ pc[c] \in Reading
          /\ \A d \in Clients \ {c} : UNCHANGED <<pc[d], ret[d]>>
          /\ ret'[c] = ret[c] \/ ret'[c] = SUCCESS
        BY <1>1, <2>1 DEF ReadFind, ReadEntry, ReadData, ReadDev, Goto, Leave, call, Reading
    <2>3. QED
        BY <2>2 DEF CalmInv, SUCCESS, EIO
<1>5. ASSUME NEW c \in Clients, Call(c) PROVE CalmInv'
    <2>1. /\ \A d \in Clients \ {c} : UNCHANGED <<pc[d], ret[d], req[d]>>
          /\ ret'[c] = ret[c] \/ ret'[c] = EINVAL
        BY <1>1, <1>5 DEF Call, WriteCall, ReadCall, RejectedCall, Goto, Leave
    <2>2. pc'[c] \in Reading => req'[c].n \in ReadSizes
        BY <1>1, <1>5 DEF Call, WriteCall, ReadCall, RejectedCall, Goto, Leave, Reading
    <2>3. QED
        BY <2>1, <2>2 DEF CalmInv, EINVAL, EIO
<1>6. ASSUME NEW c \in Clients, Return(c) \/ SpuriousWake(c) PROVE CalmInv'
    <2>1. /\ \A d \in Clients \ {c} : UNCHANGED <<pc[d], ret[d], req[d]>>
          /\ ret'[c] = ret[c] \/ ret'[c] = SUCCESS
          /\ pc'[c] \in {"idle", "lock"}
        BY <1>1, <1>6 DEF Return, SpuriousWake, Goto, call
    <2>2. QED
        BY <2>1 DEF CalmInv, SUCCESS, EIO, Reading
<1>7. CASE MergeStep \/ GcResetLog \/ GcCollect
    BY <1>2, <1>7 DEF MergeStep, GcZone, GcZoneFail, GcZonesDone, GcWrite, GcWriteFail,
            GcResetOld, GcResetInPlace, GcRewrite, GcRewriteFail, GcResetSpare, GcResetLog,
            GcCollect, call
<1>8. CASE GcLock \/ GcIdle \/ GcWait \/ GcExit \/ GcSpuriousWake
    BY <1>2, <1>8 DEF GcLock, GcIdle, GcWait, GcExit, GcSpuriousWake, call
<1>9. CASE GcClear
    <2>1. UNCHANGED <<req, ret>>
        BY <1>9 DEF GcClear, call
    <2>2. \A d \in Clients : UNCHANGED pc[d] \/ pc'[d] \notin Reading
        BY <1>1, <1>9 DEF GcClear, SignalStop, Goto, Reading
    <2>3. QED
        BY <1>2, <2>1, <2>2
<1>10. CASE DeinitStop \/ DeinitStep \/ UNCHANGED vars
    BY <1>2, <1>10 DEF DeinitStop, DeinitStep, DeinitSignal, DeinitJoin, vars, call
<1>11. QED
    BY <1>3, <1>4, <1>5, <1>6, <1>7, <1>8, <1>9, <1>10 DEF Next, GcStep, Terminated

LEMMA TailSyncInit == Init => TailSync
<1> SUFFICES ASSUME Init PROVE TailSync
    OBVIOUS
<1>1. \A z \in LogZone : wp[z] = 0
    BY Layout DEF Init
<1>2. QED
    BY <1>1, TailSyncStart DEF Init

(* What the data theorems below rest on. *)
BaseInv == SpareInv /\ TableInv /\ TailSync

LEMMA BaseInit == Init => BaseInv
BY SpareInit, TableInit, TailSyncInit DEF BaseInv

LEMMA BaseStep ==
    ASSUME SingleBlocks, MaxFaults = 0, BaseInv, [Next]_vars
    PROVE  BaseInv'
<1>1. WriteSizes \subseteq 1 .. ZoneCap
    BY GeometryAssumption DEF SingleBlocks
<1>2. QED
    BY <1>1, SpareStep, TableStep, TailSyncStep DEF BaseInv

(* While the device does not fail by itself no call fails and no merge is  *)
(* given up, with any number of clients: every append is at a write        *)
(* pointer that leaves room, every zone a merge writes is empty.           *)
THEOREM NothingFails ==
    ASSUME SingleBlocks, ReadSizes \subseteq 1 .. MDTS - 1, MaxFaults = 0
    PROVE  Spec => []NoFailure
<1>1. Init => BaseInv /\ CalmInv
    BY BaseInit DEF Init, CalmInv, SUCCESS, EIO, Reading
<1>2. BaseInv /\ CalmInv /\ [Next]_vars => (BaseInv /\ CalmInv)'
    BY BaseStep, CalmStep DEF BaseInv
<1>3. BaseInv /\ CalmInv => NoFailure
    BY TableHolds DEF BaseInv, CalmInv, NoFailure
<1>4. QED
    BY <1>1, <1>2, <1>3, PTL DEF Spec

----------------------------------------------------------------------------
(* The user's data *)

(* A writer that is to map its block has it on the device, below the tail. *)
WrittenBlock(c) ==
    pc[c] = "map" => lba[c] < log_zone_end /\ blk[lba[c]] = buf[c][0]

InDataZone(a) ==
    /\ data_zone_mapping[VZone(a)] # NoEntry
    /\ blk[data_zone_mapping[VZone(a)] + VOffset(a)] = last[a]

(* Where the block last written to a is: in the log, else in its data      *)
(* zone, and in the merge buffer while that zone is replaced.              *)
Held(a) ==
    /\ LogEntry(a) # NoEntry => LogEntry(a) < log_zone_end /\ blk[LogEntry(a)] = last[a]
    /\ last[a] # NotWritten =>
          /\ LogEntry(a) = NoEntry => InDataZone(a) \/ (gpc = "rewrite" /\ cur = VZone(a))
          /\ cur = VZone(a) =>
                /\ gpc \in {"write", "reset in place", "rewrite"} => buffer[VOffset(a)] = last[a]
                /\ gpc = "reset spare" => InDataZone(a)

(* What a reader has found in the log map is still there when it fetches it. *)
EntryFound(c) ==
    pc[c] = "entry" => log_zone_mapping[req[c].addr + idx[c]] # NoEntry

DataInv ==
    /\ \A c \in Clients : WrittenBlock(c) /\ EntryFound(c)
    /\ \A a \in Addr : Held(a)

(* Readers run with no collection beside them, or there are none. *)
AloneInv == (ReadSizes = {} => CalmInv) /\ (OneClient => QuietInv)

LEMMA ReadersAlone ==
    ASSUME ReadSizes = {} \/ OneClient, AloneInv, NEW c \in Clients, pc[c] \in Reading
    PROVE  OneClient /\ ~ GcRuns /\ ~ trigger_my_gc
<1>1. OneClient /\ QuietInv
    BY DEF AloneInv, CalmInv
<1>2. pc[c] \notin {"lock", "check", "wait"}
    BY DEF Reading
<1>3. QED
    BY <1>1, <1>2, QuietHolds

(* The user block of the place a user block has. *)
LEMMA BlockOfAddr ==
    ASSUME NEW a \in Addr
    PROVE  UserBlock(VZone(a), VOffset(a)) = a
<1>1. a \in Int /\ ZoneOf(a) \in Int
    BY SplitLba, GeometryAssumption, FtlAssumption DEF Addr
<1>2. VZone(a) - LogZones = ZoneOf(a) /\ VOffset(a) = OffsetOf(a)
    BY <1>1, FtlAssumption DEF VZone, VOffset, ZoneOf, OffsetOf
<1>3. a = Slba(ZoneOf(a)) + OffsetOf(a)
    BY <1>1, SplitLba
<1>4. QED
    BY <1>2, <1>3 DEF UserBlock

(* What is below the tail is neither in a data zone nor in the merge's     *)
(* spare zone.                                                             *)
LEMMA LogLba ==
    ASSUME TypeOK, TailInLog, NEW l \in LBAs, l < log_zone_end
    PROVE  ZoneOf(l) \notin VZones /\ ZoneOf(l) # LogZones - 1
<1> USE GeometryAssumption, FtlAssumption
<1> DEFINE z == ZoneOf(l)
<1>1. l \in Int /\ z \in Int /\ OffsetOf(l) \in Offsets /\ l = Slba(z) + OffsetOf(l)
    BY SplitLba DEF LBAs
<1>2. l < Slba(LogZones - 1)
    <2>1. Slba(LogZones - 1) \in Int /\ log_zone_end \in Int
        BY DEF Slba, TypeOK, MetaTypeOK
    <2>2. QED
        BY <1>1, <2>1, Layout DEF TailInLog
<1> HIDE DEF z
<1>3. Slba(z) \in Int /\ Slba(LogZones - 1) \in Int
    BY <1>1 DEF Slba
<1>4. Slba(z) < Slba(LogZones - 1)
    BY <1>1, <1>2, <1>3 DEF Offsets
<1>5. z < LogZones - 1
    <2>1. CASE z = LogZones - 1
        BY <1>3, <1>4, <2>1
    <2>2. CASE LogZones - 1 < z
        <3>1. Slba(LogZones - 1) + ZoneCap <= Slba(z)
            BY <1>1, <2>2, SlbaMono
        <3>2. QED
            BY <1>3, <1>4, <3>1
    <2>3. QED
        BY <1>1, <2>1, <2>2
<1>6. QED
    BY <1>1, <1>5 DEF z, VZones

(* The place of a user block in its data zone. *)
LEMMA DataZoneLba ==
    ASSUME TypeOK, NEW a \in Addr, data_zone_mapping[VZone(a)] # NoEntry
    PROVE  \E y \in VZones :
             /\ data_zone_mapping[VZone(a)] = Slba(y)
             /\ Slba(y) + VOffset(a) \in LBAs
             /\ ZoneOf(Slba(y) + VOffset(a)) = y
<1>1. VZone(a) \in VZones /\ VOffset(a) \in Offsets
    BY AddrParts
<1>2. PICK y \in VZones : data_zone_mapping[VZone(a)] = Slba(y)
    BY <1>1 DEF TypeOK, MetaTypeOK
<1>3. y \in Zones /\ y \in Int
    BY Layout, SlbaOne
<1>4. QED
    BY <1>1, <1>2, <1>3, BlockLba, ZoneOfSlba

(* The tail is in no data zone. *)
LEMMA TailNotData ==
    ASSUME TypeOK, TailInLog
    PROVE  log_zone_end \in LBAs /\ ZoneOf(log_zone_end) \notin VZones
<1>1. QED
    BY TailZone, FtlAssumption DEF LogZone, VZones

(* A step that leaves a block where it is, in the log or its data zone.    *)
LEMMA HeldKept ==
    ASSUME NEW a \in Addr, Held(a), LogEntry(a)' = LogEntry(a),
           LogEntry(a) # NoEntry =>
               LogEntry(a) < log_zone_end' /\ blk'[LogEntry(a)] = blk[LogEntry(a)],
           InDataZone(a) => InDataZone(a)', UNCHANGED last[a],
           \/ UNCHANGED <<gpc, cur, buffer>>
           \/ gpc # "rewrite" /\ gpc' \notin {"write", "reset in place", "rewrite", "reset spare"}
    PROVE  Held(a)'
<1>1. VZone(a)' = VZone(a) /\ VOffset(a)' = VOffset(a)
    BY DEF VZone, VOffset
<1>2. QED
    BY <1>1 DEF Held

(* A step that changes nothing in data zones keeps the blocks there. *)
LEMMA DataZoneKept ==
    ASSUME TypeOK, NEW a \in Addr, InDataZone(a), UNCHANGED <<data_zone_mapping[VZone(a)], last[a]>>,
           \A l \in LBAs : Slba(ZoneOf(l)) = data_zone_mapping[VZone(a)] => blk'[l] = blk[l]
    PROVE  InDataZone(a)'
<1>1. PICK y \in VZones : /\ data_zone_mapping[VZone(a)] = Slba(y)
                          /\ Slba(y) + VOffset(a) \in LBAs
                          /\ ZoneOf(Slba(y) + VOffset(a)) = y
    BY DataZoneLba DEF InDataZone
<1>2. blk'[Slba(y) + VOffset(a)] = blk[Slba(y) + VOffset(a)]
    BY <1>1
<1>3. VZone(a)' = VZone(a) /\ VOffset(a)' = VOffset(a)
    BY DEF VZone, VOffset
<1>4. QED
    BY <1>1, <1>2, <1>3 DEF InDataZone

(* Steps that concern no block and no map. *)
LEMMA HeldCalm ==
    ASSUME TypeOK, \A a \in Addr : Held(a),
           UNCHANGED <<blk, log_zone_end, log_zone_mapping, data_zone_mapping, merge, last>>,
           \/ UNCHANGED gpc
           \/ {gpc, gpc'} \subseteq {"lock", "check", "towait", "wait", "exit"}
           \/ gpc = "zone" /\ gpc' = "reset log" /\ todo = {}
    PROVE  \A a \in Addr : Held(a)'
<1> SUFFICES ASSUME NEW a \in Addr PROVE Held(a)'
    OBVIOUS
<1>1. Held(a)
    OBVIOUS
<1>2. LogEntry(a)' = LogEntry(a)
    <2>1. UNCHANGED <<zone_sets, todo>> /\ VZone(a)' = VZone(a)
        BY DEF merge, VZone
    <2>2. QED
        BY <2>1 DEF LogEntry, GcRuns, GcHolds
<1>3. InDataZone(a) => InDataZone(a)'
    BY DataZoneKept
<1>4. UNCHANGED <<cur, buffer>>
    BY DEF merge
<1>5. LogEntry(a) # NoEntry => LogEntry(a) < log_zone_end'
    BY <1>1 DEF Held
<1>6. QED
    BY <1>1, <1>2, <1>3, <1>4, <1>5, HeldKept


(* The log map and the tail keep their place while a reader or writer      *)
(* that holds them is at work; a writer maps its block ...                 *)
LEMMA HeldMap ==
    ASSUME SingleBlocks, BaseInv, DataInv, NEW c \in Clients, WriteMap(c)
    PROVE  \A a \in Addr : Held(a)'
<1> SUFFICES ASSUME NEW a \in Addr PROVE Held(a)'
    OBVIOUS
<1> DEFINE m == req[c].addr + idx[c]
<1>1. TypeOK /\ MutexInv /\ CallInv /\ Held(a) /\ WrittenBlock(c)
    BY DEF BaseInv, SpareInv, IInv, DataInv
<1>2. pc[c] = "map" /\ idx[c] = 0 /\ m \in Addr
    <2>1. pc[c] = "map" /\ pc[c] \in Looping
        BY DEF WriteMap, Looping
    <2>2. QED
        BY <1>1, <2>1, OneBlock, NextRound DEF BaseInv
<1>3. /\ log_zone_mapping' = [log_zone_mapping EXCEPT ![m] = lba[c] + 0]
      /\ last' = [last EXCEPT ![m] = buf[c][0]]
      /\ UNCHANGED <<blk, log_zone_end, data_zone_mapping, merge, gpc>>
    BY <1>2 DEF WriteMap, device
<1>4. /\ lba[c] \in LBAs /\ lba[c] + 0 = lba[c] /\ lba[c] # NoEntry
      /\ log_zone_mapping \in [Addr -> LBAs \cup {NoEntry}]
      /\ last \in [Addr -> Payload \cup {NotWritten}]
    BY <1>1, GeometryAssumption DEF TypeOK, ClientTypeOK, MetaTypeOK, LBAs, NoEntry
<1>5. gpc \in {"lock", "wait", "exit"}
    BY <1>1, <1>2, FtlAssumption DEF MutexInv, GcHolds, TypeOK, GcTypeOK, GcPcs
<1>6. LogEntry(a) = log_zone_mapping[a] /\ LogEntry(a)' = log_zone_mapping'[a]
    BY <1>3, <1>5 DEF LogEntry, GcRuns, GcHolds
<1> HIDE DEF m
<1>7. CASE a = m
    <2>1. LogEntry(a)' = lba[c] /\ last'[a] = buf[c][0]
        BY <1>2, <1>3, <1>4, <1>6, <1>7
    <2>2. lba[c] < log_zone_end /\ blk[lba[c]] = buf[c][0]
        BY <1>1, <1>2 DEF WrittenBlock
    <2>3. QED
        BY <1>3, <1>4, <1>5, <2>1, <2>2 DEF Held
<1>8. CASE a # m
    <2>1. LogEntry(a)' = LogEntry(a) /\ UNCHANGED last[a]
        BY <1>2, <1>3, <1>4, <1>6, <1>8
    <2>2. InDataZone(a) => InDataZone(a)'
        BY <1>1, <1>3, <2>1, DataZoneKept
    <2>3. LogEntry(a) # NoEntry => LogEntry(a) < log_zone_end'
        BY <1>1, <1>3 DEF Held
    <2>4. UNCHANGED <<gpc, cur, buffer>>
        BY <1>3 DEF merge
    <2>5. QED
        BY <1>1, <1>3, <2>1, <2>2, <2>3, <2>4, HeldKept
<1>9. QED
    BY <1>7, <1>8

(* ... that it has appended where no other block is. *)
LEMMA HeldAppend ==
    ASSUME SingleBlocks, MaxFaults = 0, BaseInv, DataInv, NEW c \in Clients, WriteAppend(c)
    PROVE  \A a \in Addr : Held(a)'
<1> SUFFICES ASSUME NEW a \in Addr PROVE Held(a)'
    OBVIOUS
<1>1. TypeOK /\ TailInLog /\ Held(a)
    BY DEF BaseInv, SpareInv, IInv, DataInv
<1>2. log_zone_end' = log_zone_end + 1 /\ blk' = Stored(log_zone_end, 1, buf[c])
    BY WriterSteps DEF BaseInv, WriteStep, WriteAppend, WriteLock, WriteWait, WriteGo, WriteMap
<1>3. UNCHANGED <<log_zone_mapping, data_zone_mapping, merge, gpc, last>>
    BY DEF WriteAppend
<1>4. LogEntry(a)' = LogEntry(a)
    <2>1. UNCHANGED <<zone_sets, todo>> /\ VZone(a)' = VZone(a)
        BY <1>3 DEF merge, VZone
    <2>2. QED
        BY <1>3, <2>1 DEF LogEntry, GcRuns, GcHolds
<1>5. log_zone_end \in Int
    BY <1>1 DEF TypeOK, MetaTypeOK
<1>6. \A l \in LBAs : l # log_zone_end => blk'[l] = blk[l]
    BY <1>2, <1>5 DEF Stored, LBAs
<1>7. LogEntry(a) # NoEntry => LogEntry(a) < log_zone_end' /\ blk'[LogEntry(a)] = blk[LogEntry(a)]
    <2>1. LogEntry(a) \in LBAs \cup {NoEntry}
        BY <1>1 DEF TypeOK, MetaTypeOK, GcTypeOK, LogEntry
    <2>2. LogEntry(a) # NoEntry => LogEntry(a) < log_zone_end
        BY <1>1 DEF Held
    <2>3. \A l \in LBAs : l \in Int
        BY DEF LBAs
    <2>4. QED
        BY <1>2, <1>5, <1>6, <2>1, <2>2, <2>3
<1>8. InDataZone(a) => InDataZone(a)'
    <2>1. ASSUME InDataZone(a), NEW l \in LBAs, Slba(ZoneOf(l)) = data_zone_mapping[VZone(a)]
          PROVE  blk'[l] = blk[l]
        <3>1. PICK y \in VZones : data_zone_mapping[VZone(a)] = Slba(y)
            BY <1>1, <2>1, DataZoneLba DEF InDataZone
        <3>2. ZoneOf(l) \in Zones
            BY LbaInZone, GeometryAssumption DEF LBAs
        <3>3. ZoneOf(l) = y
            BY <2>1, <3>1, <3>2, SlbaOne, Layout
        <3>4. QED
            BY <1>1, <1>6, <3>3, TailNotData
    <2>2. QED
        BY <1>1, <1>3, <2>1, DataZoneKept
<1>9. UNCHANGED <<gpc, cur, buffer>>
    BY <1>3 DEF merge
<1>10. QED
    BY <1>1, <1>3, <1>4, <1>7, <1>8, <1>9, HeldKept

(* The merge takes the log over as it is. *)
LEMMA HeldCollect ==
    ASSUME TypeOK, \A a \in Addr : Held(a), GcCollect
    PROVE  \A a \in Addr : Held(a)'
<1> SUFFICES ASSUME NEW a \in Addr PROVE Held(a)'
    OBVIOUS
<1>1. /\ gpc = "check" /\ gpc' = "zone" /\ zone_sets' = log_zone_mapping
      /\ todo' = {v \in VZones : \E b \in Addr : VZone(b) = v /\ log_zone_mapping[b] # NoEntry}
      /\ UNCHANGED <<blk, log_zone_end, data_zone_mapping, last>>
    BY DEF GcCollect, GcGoto, device
<1>2. LogEntry(a) = log_zone_mapping[a]
    BY <1>1 DEF LogEntry, GcRuns, GcHolds
<1>3. LogEntry(a)' = IF VZone(a) \in todo' THEN zone_sets'[a] ELSE NoEntry
    BY <1>1 DEF LogEntry, GcRuns, GcHolds, VZone
<1>4. VZone(a) \notin todo' => log_zone_mapping[a] = NoEntry
    BY <1>1, AddrParts
<1>5. LogEntry(a)' = LogEntry(a)
    BY <1>1, <1>2, <1>3, <1>4
<1>6. InDataZone(a) => InDataZone(a)'
    BY <1>1, DataZoneKept
<1>7. QED
    BY <1>1, <1>5, <1>6, HeldKept DEF Held


(* The merge leaves the log entries' blocks alone. *)
LEMMA LogKept ==
    ASSUME TypeOK, TailInLog, NEW a \in Addr, Held(a), LogEntry(a) # NoEntry,
           UNCHANGED log_zone_end,
           \A l \in LBAs : ZoneOf(l) \notin VZones \cup {LogZones - 1} => blk'[l] = blk[l]
    PROVE  LogEntry(a) < log_zone_end' /\ blk'[LogEntry(a)] = blk[LogEntry(a)]
<1>1. LogEntry(a) \in LBAs
    BY DEF TypeOK, MetaTypeOK, GcTypeOK, LogEntry
<1>2. LogEntry(a) < log_zone_end
    BY DEF Held
<1>3. QED
    BY <1>1, <1>2, LogLba

(* A round gathers the blocks of its virtual zone ... *)
LEMMA HeldZone ==
    ASSUME TypeOK, \A a \in Addr : Held(a), NEW v \in VZones, GcZone(v)
    PROVE  \A a \in Addr : Held(a)'
<1> SUFFICES ASSUME NEW a \in Addr PROVE Held(a)'
    OBVIOUS
<1>1. /\ gpc = "zone" /\ v \in todo /\ cur' = v /\ buffer' = Merged(v)
      /\ gpc' \in {"write", "reset in place"}
      /\ UNCHANGED <<blk, log_zone_end, data_zone_mapping, zone_sets, todo, last>>
    BY DEF GcZone, GcGoto, device
<1>2. VZone(a)' = VZone(a) /\ VOffset(a)' = VOffset(a) /\ Held(a)
    BY DEF VZone, VOffset
<1>3. LogEntry(a) = (IF VZone(a) \in todo THEN zone_sets[a] ELSE NoEntry)
    BY <1>1 DEF LogEntry, GcRuns, GcHolds
<1>4. LogEntry(a)' = LogEntry(a)
    BY <1>1, <1>2, <1>3 DEF LogEntry, GcRuns, GcHolds
<1>5. InDataZone(a) => InDataZone(a)'
    BY <1>1, DataZoneKept
<1>6. ASSUME last[a] # NotWritten, VZone(a) = v
      PROVE  buffer'[VOffset(a)] = last[a]
    <2>1. VOffset(a) \in Offsets /\ UserBlock(v, VOffset(a)) = a
        BY <1>6, AddrParts, BlockOfAddr
    <2>2. buffer'[VOffset(a)] =
            IF zone_sets[a] # NoEntry THEN blk[zone_sets[a]]
            ELSE IF data_zone_mapping[v] # NoEntry THEN blk[data_zone_mapping[v] + VOffset(a)]
            ELSE buffer[VOffset(a)]
        BY <1>1, <2>1 DEF Merged
    <2>3. LogEntry(a) = zone_sets[a]
        BY <1>1, <1>3, <1>6
    <2>4. CASE zone_sets[a] # NoEntry
        BY <1>2, <2>2, <2>3, <2>4 DEF Held
    <2>5. CASE zone_sets[a] = NoEntry
        <3>1. InDataZone(a)
            BY <1>1, <1>2, <1>6, <2>3, <2>5 DEF Held
        <3>2. QED
            BY <1>6, <2>2, <2>5, <3>1 DEF InDataZone
    <2>6. QED
        BY <2>4, <2>5
<1>7. LogEntry(a)' # NoEntry => LogEntry(a)' < log_zone_end' /\ blk'[LogEntry(a)'] = last'[a]
    BY <1>1, <1>2, <1>4 DEF Held
<1>8. last[a] # NotWritten /\ LogEntry(a)' = NoEntry => InDataZone(a)'
    BY <1>1, <1>2, <1>4, <1>5 DEF Held
<1>9. QED
    BY <1>1, <1>2, <1>6, <1>7, <1>8 DEF Held

(* ... and brings them, log and old zone together, to the zone found. *)
LEMMA HeldWrite ==
    ASSUME TypeOK, TailInLog, TableInv, \A a \in Addr : Held(a), GcWrite
    PROVE  \A a \in Addr : Held(a)'
<1> SUFFICES ASSUME NEW a \in Addr PROVE Held(a)'
    OBVIOUS
<1> DEFINE v == VZone(a)
<1>1. /\ gpc = "write" /\ gpc' \in {"zone", "reset old"} /\ todo' = todo \ {cur}
      /\ nvme_write(zone_number, ZoneCap, buffer)
      /\ data_zone_mapping' = [data_zone_mapping EXCEPT ![cur] = zone_number]
      /\ UNCHANGED <<log_zone_end, zone_sets, cur, buffer, last>>
    BY DEF GcWrite, GcGoto
<1>2. PICK y \in VZones : zone_number = Slba(y) /\ ~ Mapped(y)
    BY <1>1 DEF TableInv, RoundInv
<1>3. /\ \A k \in Offsets : blk'[Slba(y) + k] = buffer[k]
      /\ \A l \in LBAs : ZoneOf(l) # y => blk'[l] = blk[l]
    <2>1. nvme_write(Slba(y), ZoneCap, buffer) /\ y \in Zones
        BY <1>1, <1>2, Layout
    <2>2. QED
        BY <2>1, ZoneWritten
<1>4. /\ v \in VZones /\ VOffset(a) \in Offsets /\ VZone(a)' = v /\ VOffset(a)' = VOffset(a)
      /\ cur \in VZones /\ DOMAIN data_zone_mapping = VZones /\ Held(a)
    BY AddrParts DEF TypeOK, MetaTypeOK, GcTypeOK, VZone, VOffset
<1>5. /\ LogEntry(a) = (IF v \in todo THEN zone_sets[a] ELSE NoEntry)
      /\ LogEntry(a)' = (IF v \in todo' THEN zone_sets[a] ELSE NoEntry)
    BY <1>1, <1>4 DEF LogEntry, GcRuns, GcHolds
<1> HIDE DEF v
<1>6. CASE cur = v
    <2>1. LogEntry(a)' = NoEntry
        BY <1>1, <1>5, <1>6
    <2>2. data_zone_mapping'[v] = Slba(y) /\ Slba(y) # NoEntry
        BY <1>1, <1>2, <1>4, <1>6, SlbaOne, Layout
    <2>3. last[a] # NotWritten => buffer[VOffset(a)] = last[a]
        BY <1>1, <1>4, <1>6 DEF Held, v
    <2>4. last'[a] # NotWritten => InDataZone(a)'
        BY <1>1, <1>3, <1>4, <2>2, <2>3 DEF InDataZone
    <2>5. QED
        BY <1>1, <2>1, <2>4 DEF Held
<1>7. CASE cur # v
    <2>1. LogEntry(a)' = LogEntry(a)
        BY <1>1, <1>5, <1>7
    <2>2. data_zone_mapping'[v] = data_zone_mapping[v]
        BY <1>1, <1>4, <1>7
    <2>3. data_zone_mapping[v] # Slba(y)
        BY <1>2, <1>4 DEF Mapped
    <2>4. InDataZone(a) => InDataZone(a)'
        BY <1>1, <1>3, <2>2, <2>3, DataZoneKept DEF v
    <2>5. LogEntry(a) # NoEntry =>
              LogEntry(a) < log_zone_end' /\ blk'[LogEntry(a)] = blk[LogEntry(a)]
        BY <1>1, <1>2, <1>3, <1>4, LogKept
    <2>6. QED
        BY <1>1, <1>4, <2>1, <2>4, <2>5, HeldKept
<1>8. QED
    BY <1>6, <1>7

(* Nothing of the user's is in the zone given back. *)
LEMMA HeldResetOld ==
    ASSUME TypeOK, TailInLog, MergeInv, MaxFaults = 0, TableInv, \A a \in Addr : Held(a),
           GcResetOld
    PROVE  \A a \in Addr : Held(a)'
<1> SUFFICES ASSUME NEW a \in Addr PROVE Held(a)'
    OBVIOUS
<1>1. /\ gpc = "reset old" /\ gpc' = "zone" /\ prev_zone # NoEntry
      /\ nvme_zns_reset({ZoneOf(prev_zone)})
      /\ UNCHANGED <<log_zone_end, data_zone_mapping, last, merge>>
    BY ResetDone DEF GcResetOld, GcGoto, meta, OldZone, MergeInv
<1>2. PICK y \in VZones : prev_zone = Slba(y)
    BY <1>1 DEF TypeOK, GcTypeOK
<1>3. ZoneOf(prev_zone) = y
    BY <1>2, SlbaOne, Layout
<1>4. \A l \in LBAs : ZoneOf(l) # y => blk'[l] = blk[l]
    BY <1>1, <1>3 DEF nvme_zns_reset
<1>5. VZone(a) \in VZones /\ VZone(a)' = VZone(a) /\ Held(a)
    BY AddrParts DEF VZone
<1>6. LogEntry(a)' = LogEntry(a)
    BY <1>1, <1>5 DEF LogEntry, GcRuns, GcHolds, merge
<1>7. data_zone_mapping[VZone(a)] # Slba(y)
    BY <1>1, <1>2, <1>5 DEF TableInv, RoundInv
<1>8. InDataZone(a) => InDataZone(a)'
    BY <1>1, <1>4, <1>7, DataZoneKept
<1>9. LogEntry(a) # NoEntry =>
          LogEntry(a) < log_zone_end' /\ blk'[LogEntry(a)] = blk[LogEntry(a)]
    BY <1>1, <1>4, <1>5, LogKept
<1>10. QED
    BY <1>1, <1>5, <1>6, <1>8, <1>9, HeldKept


(* A zone rewritten where it is: until then its blocks are in the buffer.  *)
LEMMA HeldInPlace ==
    ASSUME TypeOK, TailInLog, MaxFaults = 0, TableInv, \A a \in Addr : Held(a), GcResetInPlace
    PROVE  \A a \in Addr : Held(a)'
<1> SUFFICES ASSUME NEW a \in Addr PROVE Held(a)'
    OBVIOUS
<1>1. /\ gpc = "reset in place" /\ gpc' = "rewrite" /\ prev_zone # NoEntry
      /\ prev_zone = data_zone_mapping[cur] /\ cur \in VZones
      /\ nvme_zns_reset({ZoneOf(prev_zone)})
      /\ UNCHANGED <<log_zone_end, data_zone_mapping, last, merge, cur, buffer, zone_sets, todo>>
    BY ResetDone DEF GcResetInPlace, GcGoto, meta, merge, TableInv, RoundInv, TypeOK, GcTypeOK
<1>2. PICK y \in VZones : prev_zone = Slba(y)
    BY <1>1 DEF TypeOK, GcTypeOK
<1>3. ZoneOf(prev_zone) = y
    BY <1>2, SlbaOne, Layout
<1>4. \A l \in LBAs : ZoneOf(l) # y => blk'[l] = blk[l]
    BY <1>1, <1>3 DEF nvme_zns_reset
<1>5. /\ VZone(a) \in VZones /\ VZone(a)' = VZone(a) /\ VOffset(a)' = VOffset(a) /\ Held(a)
    BY AddrParts DEF VZone, VOffset
<1>6. LogEntry(a)' = LogEntry(a)
    BY <1>1, <1>5 DEF LogEntry, GcRuns, GcHolds
<1>7. LogEntry(a) # NoEntry =>
          LogEntry(a) < log_zone_end' /\ blk'[LogEntry(a)] = blk[LogEntry(a)]
    BY <1>1, <1>4, <1>5, LogKept
<1>8. VZone(a) # cur /\ InDataZone(a) => InDataZone(a)'
    <2>1. ASSUME VZone(a) # cur, InDataZone(a) PROVE InDataZone(a)'
        <3>1. data_zone_mapping[VZone(a)] # Slba(y)
            BY <1>1, <1>2, <1>5, <2>1 DEF TableInv, Distinct
        <3>2. QED
            BY <1>1, <1>4, <2>1, <3>1, DataZoneKept
    <2>2. QED
        BY <2>1
<1>9. QED
    BY <1>1, <1>5, <1>6, <1>7, <1>8 DEF Held

LEMMA HeldRewrite ==
    ASSUME TypeOK, TailInLog, TableInv, \A a \in Addr : Held(a), GcRewrite
    PROVE  \A a \in Addr : Held(a)'
<1> SUFFICES ASSUME NEW a \in Addr PROVE Held(a)'
    OBVIOUS
<1>1. /\ gpc = "rewrite" /\ gpc' = "reset spare" /\ prev_zone # NoEntry
      /\ prev_zone = data_zone_mapping[cur] /\ cur \in VZones
      /\ nvme_write(prev_zone, ZoneCap, buffer)
      /\ UNCHANGED <<log_zone_end, data_zone_mapping, last, cur, buffer, zone_sets, todo>>
    BY DEF GcRewrite, GcGoto, merge, TableInv, RoundInv, TypeOK, GcTypeOK
<1>2. PICK y \in VZones : prev_zone = Slba(y)
    BY <1>1 DEF TypeOK, GcTypeOK
<1>3. /\ \A k \in Offsets : blk'[Slba(y) + k] = buffer[k]
      /\ \A l \in LBAs : ZoneOf(l) # y => blk'[l] = blk[l]
    <2>1. nvme_write(Slba(y), ZoneCap, buffer) /\ y \in Zones
        BY <1>1, <1>2, Layout
    <2>2. QED
        BY <2>1, ZoneWritten
<1>4. /\ VZone(a) \in VZones /\ VOffset(a) \in Offsets
      /\ VZone(a)' = VZone(a) /\ VOffset(a)' = VOffset(a) /\ Held(a)
    BY AddrParts DEF VZone, VOffset
<1>5. LogEntry(a)' = LogEntry(a)
    BY <1>1, <1>4 DEF LogEntry, GcRuns, GcHolds
<1>6. LogEntry(a) # NoEntry =>
          LogEntry(a) < log_zone_end' /\ blk'[LogEntry(a)] = blk[LogEntry(a)]
    BY <1>1, <1>3, <1>4, LogKept
<1>7. last[a] # NotWritten /\ VZone(a) = cur => InDataZone(a)'
    <2>1. ASSUME last[a] # NotWritten, VZone(a) = cur PROVE InDataZone(a)'
        <3>1. buffer[VOffset(a)] = last[a]
            BY <1>1, <1>4, <2>1 DEF Held
        <3>2. data_zone_mapping'[VZone(a)] = Slba(y) /\ Slba(y) # NoEntry
            BY <1>1, <1>2, <2>1
        <3>3. QED
            BY <1>1, <1>3, <1>4, <3>1, <3>2 DEF InDataZone
    <2>2. QED
        BY <2>1
<1>8. VZone(a) # cur /\ InDataZone(a) => InDataZone(a)'
    <2>1. ASSUME VZone(a) # cur, InDataZone(a) PROVE InDataZone(a)'
        <3>1. data_zone_mapping[VZone(a)] # Slba(y)
            BY <1>1, <1>2, <1>4, <2>1 DEF TableInv, Distinct
        <3>2. QED
            BY <1>1, <1>3, <2>1, <3>1, DataZoneKept
    <2>2. QED
        BY <2>1
<1>9. QED
    BY <1>1, <1>4, <1>5, <1>6, <1>7, <1>8 DEF Held

(* The spare zone lies behind every log entry. *)
LEMMA HeldResetSpare ==
    ASSUME TypeOK, TailInLog, MergeInv, MaxFaults = 0, \A a \in Addr : Held(a), GcResetSpare
    PROVE  \A a \in Addr : Held(a)'
<1> SUFFICES ASSUME NEW a \in Addr PROVE Held(a)'
    OBVIOUS
<1> USE FtlAssumption
<1>1. /\ gpc = "reset spare" /\ gpc' = "zone" /\ zone_number = Slba(LogZones - 1)
      /\ nvme_zns_reset({ZoneOf(zone_number)}) /\ todo' = todo \ {cur}
      /\ UNCHANGED <<log_zone_end, data_zone_mapping, last, zone_sets, cur, buffer>>
    BY ResetDone DEF GcResetSpare, GcGoto, MergeInv, meta
<1>2. ZoneOf(zone_number) = LogZones - 1
    BY <1>1, SlbaOne, Layout
<1>3. \A l \in LBAs : ZoneOf(l) # LogZones - 1 => blk'[l] = blk[l]
    BY <1>1, <1>2 DEF nvme_zns_reset
<1>4. VZone(a) \in VZones /\ VZone(a)' = VZone(a) /\ Held(a)
    BY AddrParts DEF VZone
<1>5. InDataZone(a) => InDataZone(a)'
    <2>1. ASSUME InDataZone(a), NEW l \in LBAs, Slba(ZoneOf(l)) = data_zone_mapping[VZone(a)]
          PROVE  blk'[l] = blk[l]
        <3>1. PICK y \in VZones : data_zone_mapping[VZone(a)] = Slba(y)
            BY <2>1, DataZoneLba DEF InDataZone
        <3>2. ZoneOf(l) \in Zones
            BY LbaInZone, GeometryAssumption DEF LBAs
        <3>3. ZoneOf(l) = y
            BY <2>1, <3>1, <3>2, SlbaOne, Layout
        <3>4. y # LogZones - 1
            BY DEF VZones
        <3>5. QED
            BY <1>3, <3>3, <3>4
    <2>2. QED
        BY <1>1, <2>1, DataZoneKept
<1>6. /\ LogEntry(a) = (IF VZone(a) \in todo THEN zone_sets[a] ELSE NoEntry)
      /\ LogEntry(a)' = (IF VZone(a) \in todo' THEN zone_sets[a] ELSE NoEntry)
    BY <1>1, <1>4 DEF LogEntry, GcRuns, GcHolds
<1>7. CASE VZone(a) = cur
    <2>1. LogEntry(a)' = NoEntry
        BY <1>1, <1>6, <1>7
    <2>2. last[a] # NotWritten => InDataZone(a)'
        BY <1>1, <1>4, <1>5, <1>7 DEF Held
    <2>3. QED
        BY <1>1, <2>1, <2>2 DEF Held
<1>8. CASE VZone(a) # cur
    <2>1. LogEntry(a)' = LogEntry(a)
        BY <1>1, <1>6, <1>8
    <2>2. LogEntry(a) # NoEntry =>
              LogEntry(a) < log_zone_end' /\ blk'[LogEntry(a)] = blk[LogEntry(a)]
        BY <1>1, <1>3, <1>4, LogKept
    <2>3. QED
        BY <1>1, <1>4, <1>5, <2>1, <2>2, HeldKept
<1>9. QED
    BY <1>7, <1>8

(* When the log is emptied every block is in its data zone. *)
LEMMA HeldEmptied ==
    ASSUME TypeOK, MaxFaults = 0, \A a \in Addr : Held(a), GcResetLog \/ GcClear
    PROVE  \A a \in Addr : Held(a)'
<1> SUFFICES ASSUME NEW a \in Addr PROVE Held(a)'
    OBVIOUS
<1>1. /\ (gpc = "reset log" /\ gpc' = "clear") \/ (gpc = "clear" /\ gpc' = "lock")
      /\ gpc = "clear" => log_zone_mapping' = [b \in Addr |-> NoEntry]
      /\ UNCHANGED <<data_zone_mapping, last>>
    BY DEF GcResetLog, GcClear, GcGoto, EmptyLog, meta
<1>2. \A l \in LBAs : ZoneOf(l) \in VZones => blk'[l] = blk[l]
    <2>1. UNCHANGED blk \/ nvme_zns_reset(LogZone)
        BY ResetDone DEF GcResetLog, GcClear, device
    <2>2. \A z \in VZones : z \notin LogZone
        BY FtlAssumption DEF VZones, LogZone
    <2>3. QED
        BY <2>1, <2>2 DEF nvme_zns_reset
<1>3. Held(a) /\ VZone(a)' = VZone(a)
    BY DEF VZone
<1>4. LogEntry(a) = NoEntry /\ LogEntry(a)' = NoEntry
    BY <1>1 DEF LogEntry, GcRuns, GcHolds
<1>5. InDataZone(a) => InDataZone(a)'
    <2>1. ASSUME InDataZone(a), NEW l \in LBAs, Slba(ZoneOf(l)) = data_zone_mapping[VZone(a)]
          PROVE  blk'[l] = blk[l]
        <3>1. PICK y \in VZones : data_zone_mapping[VZone(a)] = Slba(y)
            BY <2>1, DataZoneLba DEF InDataZone
        <3>2. ZoneOf(l) \in Zones
            BY LbaInZone, GeometryAssumption DEF LBAs
        <3>3. ZoneOf(l) = y
            BY <2>1, <3>1, <3>2, SlbaOne, Layout
        <3>4. QED
            BY <1>2, <3>3
    <2>2. QED
        BY <1>1, <2>1, DataZoneKept
<1>6. QED
    BY <1>1, <1>3, <1>4, <1>5, HeldKept

LEMMA HeldStep ==
    ASSUME SingleBlocks, ReadSizes = {} \/ OneClient, MaxFaults = 0,
           BaseInv, AloneInv, DataInv, [Next]_vars
    PROVE  \A a \in Addr : Held(a)'
<1> DEFINE Done == \A a \in Addr : Held(a)'
<1> SUFFICES Done
    OBVIOUS
<1>1. /\ TypeOK /\ TailInLog /\ MergeInv /\ TableInv /\ TailSync /\ SpareInv
      /\ \A a \in Addr : Held(a)
    BY DEF BaseInv, SpareInv, IInv, DataInv
<1>2. ASSUME UNCHANGED <<device, meta, merge, last>>,
             \/ UNCHANGED gpc
             \/ {gpc, gpc'} \subseteq {"lock", "check", "towait", "wait", "exit"}
             \/ gpc = "zone" /\ gpc' = "reset log" /\ todo = {}
      PROVE  Done
    BY <1>1, <1>2, HeldCalm DEF device, meta
<1> HIDE DEF Done
<1>3. ASSUME NEW c \in Clients, WriteStep(c) PROVE Done
    <2>1. CASE WriteLock(c) \/ WriteWait(c) \/ WriteGo(c)
        BY <1>2, <2>1 DEF WriteLock, WriteWait, WriteGo, SignalStart
    <2>2. CASE WriteMap(c)
        BY <2>2, HeldMap DEF Done
    <2>3. CASE WriteAppend(c)
        BY <2>3, HeldAppend DEF Done
    <2>4. QED
        BY <1>1, <1>3, <2>1, <2>2, <2>3, WriterSteps
<1>4. ASSUME NEW c \in Clients, ReadStep(c) PROVE Done
    <2>1. CASE ReadEntry(c)
        <3>1. log_zone_mapping[req[c].addr + idx[c]] # NoEntry
            BY <2>1 DEF ReadEntry, DataInv, EntryFound
        <3>2. UNCHANGED <<device, log_zone_end, data_zone_mapping, zone_states, merge, last, gpc>>
            BY <2>1 DEF ReadEntry
        <3>3. log_zone_mapping' = log_zone_mapping
            BY <1>1, <2>1, <3>1 DEF ReadEntry, TypeOK, MetaTypeOK
        <3>4. QED
            BY <1>2, <3>2, <3>3 DEF meta
    <2>2. CASE ReadFind(c) \/ ReadData(c) \/ ReadDev(c) \/ ReadDevFail(c)
        BY <1>2, <2>2 DEF ReadFind, ReadData, ReadDev, ReadDevFail
    <2>3. QED
        BY <1>4, <2>1, <2>2 DEF ReadStep
<1>5. ASSUME NEW c \in Clients, Call(c) \/ Return(c) \/ SpuriousWake(c) PROVE Done
    BY <1>2, <1>5 DEF Call, WriteCall, ReadCall, RejectedCall, Return, SpuriousWake
<1>6. CASE MergeStep
    <2>1. CASE GcZonesDone
        <3>1. /\ UNCHANGED <<device, meta, merge, last>>
              /\ gpc = "zone" /\ gpc' = "reset log" /\ todo = {}
            BY <2>1 DEF GcZonesDone, GcGoto
        <3>2. QED
            BY <1>2, <3>1
    <2>2. CASE \E v \in VZones : GcZone(v)
        BY <1>1, <2>2, HeldZone DEF Done
    <2>3. QED
        BY <1>1, <1>6, <2>1, <2>2, HeldWrite, HeldResetOld, HeldInPlace, HeldRewrite,
           HeldResetSpare, MergeWritesGo DEF MergeStep, Done
<1>7. CASE GcLock \/ GcIdle \/ GcWait \/ GcExit \/ GcSpuriousWake
    <2>1. /\ UNCHANGED <<device, meta, merge, last>>
          /\ {gpc, gpc'} \subseteq {"lock", "check", "towait", "wait", "exit"}
        BY <1>7 DEF GcLock, GcIdle, GcWait, GcExit, GcSpuriousWake, GcGoto
    <2>2. QED
        BY <1>2, <2>1
<1>8. CASE GcCollect \/ GcResetLog \/ GcClear
    BY <1>1, <1>8, HeldCollect, HeldEmptied DEF Done
<1>9. CASE DeinitStop \/ DeinitStep \/ UNCHANGED vars
    <2>1. /\ UNCHANGED <<device, meta, merge, last>>
          /\ UNCHANGED gpc \/ {gpc, gpc'} \subseteq {"lock", "wait"}
        BY <1>9 DEF DeinitStop, DeinitStep, DeinitSignal, DeinitJoin, SignalStart, vars
    <2>2. QED
        BY <1>2, <2>1
<1>10. QED
    BY <1>3, <1>4, <1>5, <1>6, <1>7, <1>8, <1>9 DEF Next, GcStep, Terminated, Done


LEMMA WrittenStep ==
    ASSUME SingleBlocks, MaxFaults = 0, BaseInv, DataInv, [Next]_vars, NEW d \in Clients
    PROVE  WrittenBlock(d)'
<1>1. /\ TypeOK /\ MutexInv /\ TailInLog /\ SpareInv /\ TailSync /\ WrittenBlock(d)
      /\ pc \in [Clients -> ClientPcs] /\ DOMAIN lba = Clients /\ DOMAIN buf = Clients
    BY DEF BaseInv, SpareInv, IInv, DataInv, TypeOK, ClientTypeOK
<1>2. pc[d] = "map" => gc_mutex = d /\ ~ GcHolds
    BY <1>1, FtlAssumption DEF MutexInv
<1>3. ASSUME UNCHANGED <<blk, log_zone_end, pc[d], lba[d], buf[d]>> PROVE WrittenBlock(d)'
    BY <1>1, <1>3 DEF WrittenBlock
<1>4. ASSUME pc'[d] # "map" PROVE WrittenBlock(d)'
    BY <1>4 DEF WrittenBlock
<1>5. ASSUME NEW c \in Clients, WriteStep(c) PROVE WrittenBlock(d)'
    <2>1. CASE c = d /\ (WriteLock(c) \/ WriteWait(c) \/ WriteGo(c) \/ WriteMap(c))
        <3>1. WriteMap(c) => LastRound(c)
            BY <1>1, OneBlock DEF WriteMap
        <3>2. pc'[d] # "map"
            BY <1>1, <2>1, <3>1 DEF WriteLock, WriteWait, WriteGo, WriteMap, Goto
        <3>3. QED
            BY <1>4, <3>2
    <2>2. CASE c # d /\ (WriteLock(c) \/ WriteWait(c) \/ WriteGo(c) \/ WriteMap(c))
        <3>1. UNCHANGED <<blk, log_zone_end, pc[d], lba[d], buf[d]>>
            BY <1>1, <2>2 DEF WriteLock, WriteWait, WriteGo, WriteMap, Goto, device, meta, call
        <3>2. QED
            BY <1>3, <3>1
    <2>3. CASE WriteAppend(c)
        <3>1. /\ pc[c] = "write" /\ UNCHANGED <<lba, buf>>
              /\ log_zone_end' = log_zone_end + 1 /\ blk' = Stored(log_zone_end, 1, buf[c])
              /\ \A e \in Clients \ {c} : pc'[e] = pc[e]
            BY <1>1, <2>3, WriterSteps DEF WriteAppend, WriteStep, WriteLock, WriteWait,
                    WriteGo, WriteMap, Goto, call
        <3>2. lba[c] = log_zone_end /\ gc_mutex = c
            BY <1>1, <3>1, WriterSync
        <3>3. CASE c = d
            <4>1. log_zone_end \in LBAs /\ log_zone_end \in Int
                BY <1>1, TailZone DEF LBAs
            <4>2. log_zone_end < log_zone_end + 1 /\ log_zone_end - log_zone_end = 0
                BY <4>1
            <4>3. blk'[log_zone_end] = buf[c][0]
                BY <3>1, <4>1, <4>2 DEF Stored
            <4>4. QED
                BY <3>1, <3>2, <3>3, <4>2, <4>3 DEF WrittenBlock
        <3>4. CASE c # d
            BY <1>2, <1>4, <3>1, <3>2, <3>4
        <3>5. QED
            BY <3>3, <3>4
    <2>4. QED
        BY <1>1, <1>5, <2>1, <2>2, <2>3, WriterSteps
<1>6. ASSUME NEW c \in Clients, Call(c) \/ ReadStep(c) \/ Return(c) \/ SpuriousWake(c)
      PROVE  WrittenBlock(d)'
    <2>1. CASE c = d
        <3>1. pc'[d] # "map"
            BY <1>1, <1>6, <2>1 DEF Call, WriteCall, ReadCall, RejectedCall, Return, SpuriousWake,
                    ReadStep, ReadFind, ReadEntry, ReadData, ReadDev, ReadDevFail, Goto, Leave
        <3>2. QED
            BY <1>4, <3>1
    <2>2. CASE c # d
        <3>1. UNCHANGED <<blk, log_zone_end>>
            BY <1>6 DEF Call, WriteCall, ReadCall, RejectedCall, Return, SpuriousWake,
                    ReadStep, ReadFind, ReadEntry, ReadData, ReadDev, ReadDevFail, device, meta
        <3>2. UNCHANGED <<pc[d], lba[d], buf[d]>>
            <4>1. CASE Call(c) \/ Return(c) \/ SpuriousWake(c)
                BY <1>1, <2>2, <4>1 DEF Call, WriteCall, ReadCall, RejectedCall, Return,
                        SpuriousWake, Goto, Leave, call
            <4>2. CASE ReadStep(c)
                BY <1>1, <2>2, <4>2 DEF ReadStep, ReadFind, ReadEntry, ReadData, ReadDev,
                        ReadDevFail, Goto, Leave, call
            <4>3. QED
                BY <1>6, <4>1, <4>2
        <3>3. QED
            BY <1>3, <3>1, <3>2
    <2>3. QED
        BY <2>1, <2>2
<1>7. CASE MergeStep \/ GcCollect \/ GcResetLog \/ GcClear
    <2>1. GcHolds
        BY <1>7 DEF MergeStep, GcZone, GcZoneFail, GcZonesDone, GcWrite, GcWriteFail,
                GcResetOld, GcResetInPlace, GcRewrite, GcRewriteFail, GcResetSpare,
                GcCollect, GcResetLog, GcClear, GcHolds
    <2>2. UNCHANGED pc[d] \/ pc'[d] = "lock"
        BY <1>1, <1>7 DEF MergeStep, GcZone, GcZoneFail, GcZonesDone, GcWrite, GcWriteFail,
                GcResetOld, GcResetInPlace, GcRewrite, GcRewriteFail, GcResetSpare,
                GcCollect, GcResetLog, GcClear, SignalStop, Goto
    <2>3. QED
        BY <1>2, <1>4, <2>1, <2>2
<1>8. CASE GcLock \/ GcIdle \/ GcWait \/ GcExit \/ GcSpuriousWake
    BY <1>3, <1>8 DEF GcLock, GcIdle, GcWait, GcExit, GcSpuriousWake, device, meta, call
<1>9. CASE DeinitStop \/ DeinitStep \/ UNCHANGED vars
    BY <1>3, <1>9 DEF DeinitStop, DeinitStep, DeinitSignal, DeinitJoin, vars, device, meta, call
<1>10. QED
    BY <1>5, <1>6, <1>7, <1>8, <1>9 DEF Next, GcStep, Terminated

LEMMA EntryStep ==
    ASSUME ReadSizes = {} \/ OneClient, AloneInv, TypeOK, DataInv, [Next]_vars, NEW d \in Clients
    PROVE  EntryFound(d)'
<1> DEFINE a == req[d].addr + idx[d]
<1>1. EntryFound(d) /\ pc \in [Clients -> ClientPcs]
    BY DEF DataInv, TypeOK, ClientTypeOK
<1>2. pc[d] \in Reading => OneClient /\ ~ GcRuns /\ ~ trigger_my_gc
    BY ReadersAlone
<1>3. ASSUME UNCHANGED <<req, idx>>, UNCHANGED pc[d] \/ pc'[d] # "entry",
             pc[d] = "entry" => UNCHANGED log_zone_mapping
      PROVE  EntryFound(d)'
    BY <1>1, <1>3 DEF EntryFound
<1>4. ASSUME NEW c \in Clients,
             WriteStep(c) \/ ReadStep(c) \/ Call(c) \/ Return(c) \/ SpuriousWake(c)
      PROVE  EntryFound(d)'
    <2>1. CASE c = d
        <3>1. CASE ReadFind(c)
            <4>1. UNCHANGED <<req, idx, log_zone_mapping>>
                BY <3>1 DEF ReadFind, meta, call
            <4>2. pc'[d] = "entry" => log_zone_mapping[a] # NoEntry
                BY <1>1, <2>1, <3>1 DEF ReadFind, Goto
            <4>3. QED
                BY <4>1, <4>2 DEF EntryFound
        <3>2. CASE ~ ReadFind(c)
            <4>1. pc'[d] # "entry"
                BY <1>1, <1>4, <2>1, <3>2 DEF Call, WriteCall, ReadCall, RejectedCall, Return,
                        SpuriousWake, ReadStep, ReadEntry, ReadData, ReadDev, ReadDevFail,
                        WriteStep, WriteLock, WriteWait, WriteGo, WriteAppend,
                        WriteAppendFail, WriteLarge, WriteLargeFail, WriteMap, Goto, Leave
            <4>2. QED
                BY <4>1 DEF EntryFound
        <3>3. QED
            BY <3>1, <3>2
    <2>2. CASE c # d
        <3>1. pc[d] \notin Reading
            BY <1>2, <2>2 DEF OneClient
        <3>2. pc'[d] = pc[d]
            BY <1>1, <1>4, <2>2 DEF Call, WriteCall, ReadCall, RejectedCall, Return,
                    SpuriousWake, ReadStep, ReadFind, ReadEntry, ReadData, ReadDev, ReadDevFail,
                    WriteStep, WriteLock, WriteWait, WriteGo, WriteAppend,
                    WriteAppendFail, WriteLarge, WriteLargeFail, WriteMap, Goto, Leave
        <3>3. QED
            BY <3>1, <3>2 DEF EntryFound, Reading
    <2>3. QED
        BY <2>1, <2>2
<1>5. CASE MergeStep \/ GcResetLog
    BY <1>3, <1>5 DEF MergeStep, GcZone, GcZoneFail, GcZonesDone, GcWrite, GcWriteFail,
            GcResetOld, GcResetInPlace, GcRewrite, GcRewriteFail, GcResetSpare, GcResetLog,
            meta, call
<1>6. CASE GcCollect \/ GcClear
    <2>1. UNCHANGED <<req, idx>> /\ (UNCHANGED pc[d] \/ pc'[d] = "lock")
        BY <1>1, <1>6 DEF GcCollect, GcClear, SignalStop, Goto, call
    <2>2. pc[d] # "entry"
        BY <1>2, <1>6 DEF GcCollect, GcClear, GcRuns, GcHolds, Reading
    <2>3. QED
        BY <1>3, <2>1, <2>2
<1>7. CASE GcLock \/ GcIdle \/ GcWait \/ GcExit \/ GcSpuriousWake
    BY <1>3, <1>7 DEF GcLock, GcIdle, GcWait, GcExit, GcSpuriousWake, meta, call
<1>8. CASE DeinitStop \/ DeinitStep \/ UNCHANGED vars
    BY <1>3, <1>8 DEF DeinitStop, DeinitStep, DeinitSignal, DeinitJoin, vars, meta, call
<1>9. QED
    BY <1>4, <1>5, <1>6, <1>7, <1>8 DEF Next, GcStep, Terminated


LEMMA AloneStep ==
    ASSUME SingleBlocks, MaxFaults = 0, BaseInv, AloneInv, [Next]_vars
    PROVE  AloneInv'
<1>1. TypeOK /\ MutexInv /\ SpareInv /\ TailSync
    BY DEF BaseInv, SpareInv, IInv
<1>2. ReadSizes = {} => CalmInv'
    BY <1>1, CalmStep DEF AloneInv
<1>3. OneClient => QuietInv'
    BY <1>1, QuietStep DEF AloneInv
<1>4. QED
    BY <1>2, <1>3 DEF AloneInv, OneClient

LEMMA DataStep ==
    ASSUME SingleBlocks, ReadSizes = {} \/ OneClient, MaxFaults = 0,
           BaseInv, AloneInv, DataInv, [Next]_vars
    PROVE  DataInv'
<1>1. TypeOK
    BY DEF BaseInv, SpareInv, IInv
<1>2. \A c \in Clients : WrittenBlock(c)' /\ EntryFound(c)'
    BY <1>1, WrittenStep, EntryStep
<1>3. \A a \in Addr : Held(a)'
    BY HeldStep
<1>4. QED
    BY <1>2, <1>3 DEF DataInv, Addr

(* Before anything was written. *)
LEMMA DataStart ==
    ASSUME pc = [c \in Clients |-> "idle"], last = [a \in Addr |-> NotWritten],
           log_zone_mapping = [a \in Addr |-> NoEntry], todo = {}
    PROVE  DataInv
<1>1. \A c \in Clients : WrittenBlock(c) /\ EntryFound(c)
    BY DEF WrittenBlock, EntryFound
<1>2. \A a \in Addr : LogEntry(a) = NoEntry
    BY DEF LogEntry
<1>3. \A a \in Addr : Held(a)
    BY <1>2 DEF Held
<1>4. QED
    BY <1>1, <1>3 DEF DataInv

LEMMA HeldView ==
    ASSUME NEW a \in Addr, Held(a), last[a] # NotWritten
    PROVE  View(a) = last[a]
<1>1. CASE gpc = "rewrite" /\ cur = VZone(a)
    BY <1>1 DEF Held, View
<1>2. CASE ~ (gpc = "rewrite" /\ cur = VZone(a)) /\ LogEntry(a) # NoEntry
    BY <1>2 DEF Held, View
<1>3. CASE ~ (gpc = "rewrite" /\ cur = VZone(a)) /\ LogEntry(a) = NoEntry
    BY <1>3 DEF Held, View, InDataZone
<1>4. QED
    BY <1>1, <1>2, <1>3

LEMMA AloneInit == Init => AloneInv
BY QuietInit DEF Init, AloneInv, CalmInv, SUCCESS, EIO, Reading

LEMMA DataInit == Init => DataInv
BY DataStart DEF Init

(* No acknowledged block is lost or replaced, at any step of any merge:    *)
(* for any number of writers of single blocks, and for one client that     *)
(* also reads, while no command fails by itself.  (With longer writes, or  *)
(* with two clients that read and write, the FTL does lose blocks.)        *)
THEOREM DataKept ==
    ASSUME SingleBlocks, ReadSizes = {} \/ OneClient, MaxFaults = 0
    PROVE  Spec => []NoAckedDataLost
<1>1. Init => BaseInv /\ AloneInv /\ DataInv
    BY BaseInit, AloneInit, DataInit
<1>2. BaseInv /\ AloneInv /\ DataInv /\ [Next]_vars => (BaseInv /\ AloneInv /\ DataInv)'
    BY BaseStep, AloneStep, DataStep
<1>3. DataInv => NoAckedDataLost
    BY HeldView DEF DataInv, NoAckedDataLost
<1>4. QED
    BY <1>1, <1>2, <1>3, PTL DEF Spec


----------------------------------------------------------------------------
(* What one client's reads of single blocks return *)

(* A reader is on the way to the block last written, or has it. *)
ReadOK(c) ==
    LET a == req[c].addr IN
    /\ pc[c] \in {"lock", "check", "wait", "write", "map"} => req[c].op = "write"
    /\ pc[c] \in Reading => req[c].op = "read" /\ req[c].n \in ReadSizes
    /\ pc[c] = "idle" => buf[c] = EmptyBuf
    /\ pc[c] = "data" => log_zone_mapping[a] = NoEntry
    /\ pc[c] = "dev" /\ last[a] # NotWritten => blk[lba[c]] = last[a]
    /\ pc[c] = "ret" /\ req[c].op = "read" /\ ret[c] = SUCCESS =>
          /\ req[c].n \in ReadSizes
          /\ last[a] # NotWritten => buf[c][0] = last[a]

ReadInv == \A c \in Clients : ReadOK(c)

(* The GC thread rests while its only client is not inside a write.        *)
LEMMA GcRests ==
    ASSUME OneClient, QuietInv, NEW c \in Clients, pc[c] \notin {"lock", "check", "wait"},
           GcStep \/ GcSpuriousWake
    PROVE  UNCHANGED <<device, meta, pc, call, last, trigger_my_gc>>
           /\ gpc \in {"lock", "check", "towait", "wait"}
           /\ gpc' \in {"lock", "check", "towait", "wait", "exit"}
<1>1. ~ trigger_my_gc /\ ~ GcRuns
    BY QuietHolds
<1>2. ~ MergeStep /\ ~ GcCollect /\ ~ GcResetLog /\ ~ GcClear
    BY <1>1 DEF MergeStep, GcZone, GcZoneFail, GcZonesDone, GcWrite, GcWriteFail,
            GcResetOld, GcResetInPlace, GcRewrite, GcRewriteFail, GcResetSpare,
            GcCollect, GcResetLog, GcClear, GcRuns, GcHolds
<1>3. GcLock \/ GcIdle \/ GcWait \/ GcExit \/ GcSpuriousWake
    BY <1>2 DEF GcStep
<1>4. QED
    BY <1>3 DEF GcLock, GcIdle, GcWait, GcExit, GcSpuriousWake, GcGoto, flags

(* A step that is not one of c's leaves what c is reading.                 *)
LEMMA ReadKept ==
    ASSUME NEW c \in Clients, ReadOK(c), UNCHANGED <<req, buf, ret, lba>>,
           \/ UNCHANGED <<pc[c], log_zone_mapping, blk, last>>
           \/ pc[c] \in {"lock", "check", "wait"} /\ pc'[c] \in {"lock", "check", "wait"}
    PROVE  ReadOK(c)'
BY DEF ReadOK, Reading

(* With one client an address of the log map is the LBA of the block. *)
LEMMA EntryLba ==
    ASSUME NEW e \in LBAs
    PROVE  ~ Flagged(e) /\ Unflagged(e) = e
<1>1. e \in Nat /\ e < Bit63 /\ Bit63 \in Nat
    BY GeometryAssumption, FtlAssumption DEF LBAs
<1>2. FlagOf(e) = 0
    BY <1>1 DEF FlagOf
<1>3. e % Bit63 = e
    BY <1>1
<1>4. QED
    BY <1>2, <1>3 DEF Flagged, Unflagged

LEMMA ReadBlock ==
    ASSUME SingleBlocks, ReadSizes \subseteq {1}, OneClient,
           TypeOK, CallInv, QuietInv, DataInv, NEW c \in Clients, pc[c] \in Reading, ReadOK(c)
    PROVE  /\ req[c].n = 1 /\ idx[c] = 0 /\ LastRound(c) /\ ReadLen(c) = 1
           /\ req[c].addr \in Addr /\ req[c].addr + idx[c] = req[c].addr
           /\ LogEntry(req[c].addr) = log_zone_mapping[req[c].addr]
           /\ gpc # "rewrite" /\ gpc # "clear"
           /\ Held(req[c].addr)
<1>1. req[c].n = 1
    BY DEF ReadOK
<1>2. idx[c] \in 0 .. req[c].n - 1 /\ req[c].addr + idx[c] \in Addr
    BY NextRound DEF Reading, Looping
<1>3. idx[c] = 0 /\ LastRound(c)
    BY <1>1, <1>2 DEF LastRound
<1>4. req[c].addr \in Addr /\ req[c].addr + 0 = req[c].addr
    BY GeometryAssumption, FtlAssumption DEF TypeOK, ClientTypeOK, Addr
<1>5. ~ GcRuns
    BY QuietHolds DEF Reading
<1>6. ReadLen(c) = 1
    BY <1>1 DEF ReadLen
<1>7. QED
    BY <1>1, <1>3, <1>4, <1>5, <1>6 DEF LogEntry, GcRuns, GcHolds, DataInv

LEMMA ReadSteps ==
    ASSUME SingleBlocks, ReadSizes \subseteq {1}, OneClient,
           TypeOK, CallInv, QuietInv, DataInv, NEW c \in Clients, ReadOK(c), ReadStep(c)
    PROVE  ReadOK(c)'
<1> DEFINE a == req[c].addr
<1>1. pc[c] \in Reading
    BY DEF ReadStep, ReadFind, ReadEntry, ReadData, ReadDev, ReadDevFail, Reading
<1>2. /\ req[c].n = 1 /\ idx[c] = 0 /\ LastRound(c) /\ ReadLen(c) = 1
      /\ a \in Addr /\ a + idx[c] = a /\ LogEntry(a) = log_zone_mapping[a]
      /\ gpc # "rewrite" /\ gpc # "clear" /\ Held(a)
    BY <1>1, ReadBlock
<1>3. /\ pc \in [Clients -> ClientPcs] /\ DOMAIN lba = Clients /\ DOMAIN buf = Clients
      /\ DOMAIN ret = Clients /\ log_zone_mapping \in [Addr -> LBAs \cup {NoEntry}]
    BY DEF TypeOK, ClientTypeOK, MetaTypeOK
<1>4. req[c].op = "read" /\ req[c].n \in ReadSizes
    BY <1>1 DEF ReadOK
<1>5. CASE ReadFind(c)
    <2>1. ~ LogMapBusy
        BY <1>2, <1>5 DEF LogMapBusy, OneClient, ReadFind
    <2>2. /\ pc'[c] \in {"entry", "data"} /\ (pc'[c] = "data" => log_zone_mapping[a] = NoEntry)
          /\ UNCHANGED <<req, log_zone_mapping>>
        BY <1>2, <1>3, <1>5, <2>1 DEF ReadFind, Goto, call, meta
    <2>3. QED
        BY <1>4, <2>2 DEF ReadOK, Reading
<1>6. CASE ReadEntry(c)
    <2>1. log_zone_mapping[a] \in LBAs
        BY <1>2, <1>3, <1>6 DEF ReadEntry, DataInv, EntryFound
    <2>2. log_zone_mapping[a] # NoEntry
        BY <1>2, <1>6 DEF ReadEntry, DataInv, EntryFound
    <2>3. ~ Flagged(log_zone_mapping[a]) /\ Unflagged(log_zone_mapping[a]) = log_zone_mapping[a]
        BY <2>1, EntryLba
    <2>4. pc'[c] = "dev" /\ lba'[c] = log_zone_mapping[a] /\ UNCHANGED <<req, blk, last>>
        BY <1>2, <1>3, <1>6, <2>2, <2>3 DEF ReadEntry, Goto, device
    <2>5. blk[log_zone_mapping[a]] = last[a]
        BY <1>2, <2>2 DEF Held
    <2>6. QED
        BY <1>4, <2>4, <2>5 DEF ReadOK, Reading
<1>7. CASE ReadData(c)
    <2>1. log_zone_mapping[a] = NoEntry
        BY <1>7 DEF ReadData, ReadOK
    <2>2. last[a] # NotWritten => InDataZone(a)
        BY <1>2, <2>1 DEF Held
    <2>3. UNCHANGED <<req, blk, last>>
        BY <1>7 DEF ReadData, device
    <2>4. CASE data_zone_mapping[VZone(a)] = NoEntry
        <3>1. pc'[c] = "ret" /\ last[a] = NotWritten
            BY <1>2, <1>3, <1>7, <2>2, <2>4 DEF ReadData, Leave, Goto, InDataZone
        <3>2. QED
            BY <1>4, <2>3, <3>1 DEF ReadOK, Reading
    <2>5. CASE data_zone_mapping[VZone(a)] # NoEntry
        <3>1. pc'[c] = "dev" /\ lba'[c] = data_zone_mapping[VZone(a)] + VOffset(a)
            BY <1>2, <1>3, <1>7, <2>5 DEF ReadData, DataLba, Goto
        <3>2. last[a] # NotWritten => blk[lba'[c]] = last[a]
            BY <2>2, <3>1 DEF InDataZone
        <3>3. QED
            BY <1>4, <2>3, <3>1, <3>2 DEF ReadOK, Reading
    <2>6. QED
        BY <2>4, <2>5
<1>8. CASE ReadDev(c)
    <2>1. 0 \in BufIdx /\ lba[c] \in Int
        BY FtlAssumption DEF BufIdx, TypeOK, ClientTypeOK, LBAs
    <2>2. pc'[c] = "ret" /\ UNCHANGED <<req, last>>
        BY <1>2, <1>3, <1>8 DEF ReadDev, Leave, Goto
    <2>3. buf'[c][0] = blk[lba[c] + 0 - 0]
        BY <1>2, <1>3, <1>8, <2>1 DEF ReadDev
    <2>4. last[a] # NotWritten => buf'[c][0] = last[a]
        BY <1>8, <2>1, <2>3 DEF ReadDev, ReadOK
    <2>5. QED
        BY <1>4, <2>2, <2>4 DEF ReadOK, Reading
<1>9. CASE ReadDevFail(c)
    <2>1. pc'[c] = "ret" /\ ret'[c] = EIO
        BY <1>3, <1>9 DEF ReadDevFail, Leave, Goto
    <2>2. QED
        BY <2>1 DEF ReadOK, Reading, EIO, SUCCESS
<1>10. QED
    BY <1>5, <1>6, <1>7, <1>8, <1>9 DEF ReadStep

LEMMA ReadOKStep ==
    ASSUME SingleBlocks, ReadSizes \subseteq {1}, OneClient,
           TypeOK, CallInv, QuietInv, DataInv, ReadInv, [Next]_vars, NEW c \in Clients
    PROVE  ReadOK(c)'
<1>1. /\ pc \in [Clients -> ClientPcs] /\ DOMAIN lba = Clients /\ DOMAIN buf = Clients
      /\ DOMAIN ret = Clients /\ DOMAIN req = Clients /\ ReadOK(c)
    BY DEF TypeOK, ClientTypeOK, ReadInv
<1>2. ASSUME WriteStep(c) PROVE ReadOK(c)'
    <2>1. req[c].op = "write" /\ UNCHANGED req
        BY <1>1, <1>2 DEF ReadOK, WriteStep, WriteLock, WriteWait, WriteGo, WriteAppend,
                WriteAppendFail, WriteLarge, WriteLargeFail, WriteMap, call
    <2>2. pc'[c] \in {"check", "wait", "write", "map", "ret"}
        BY <1>1, <1>2 DEF WriteStep, WriteLock, WriteWait, WriteGo, WriteAppend,
                WriteAppendFail, WriteLarge, WriteLargeFail, WriteMap, Goto, Leave
    <2>3. QED
        BY <2>1, <2>2 DEF ReadOK, Reading
<1>3. ASSUME ReadStep(c) PROVE ReadOK(c)'
    BY <1>1, <1>3, ReadSteps
<1>4. ASSUME Call(c) PROVE ReadOK(c)'
    <2>1. \/ pc'[c] = "lock" /\ req'[c].op = "write"
          \/ pc'[c] = "find" /\ req'[c].op = "read" /\ req'[c].n \in ReadSizes
          \/ pc'[c] = "ret" /\ ret'[c] = EINVAL
        BY <1>1, <1>4 DEF Call, WriteCall, ReadCall, RejectedCall, Goto, Leave
    <2>2. QED
        BY <2>1 DEF ReadOK, Reading, EINVAL, SUCCESS
<1>5. ASSUME Return(c) PROVE ReadOK(c)'
    <2>1. pc'[c] = "idle" /\ buf'[c] = EmptyBuf
        BY <1>1, <1>5 DEF Return, Goto
    <2>2. QED
        BY <2>1 DEF ReadOK, Reading, EmptyBuf
<1>6. ASSUME SpuriousWake(c) PROVE ReadOK(c)'
    BY <1>1, <1>6, ReadKept DEF SpuriousWake, Goto, call
<1>7. CASE GcStep \/ GcSpuriousWake
    <2>1. CASE pc[c] \notin {"lock", "check", "wait"}
        <3>1. UNCHANGED <<device, meta, pc, call, last>>
            BY <1>7, <2>1, GcRests
        <3>2. QED
            BY <1>1, <3>1, ReadKept DEF device, meta, call
    <2>2. CASE pc[c] \in {"lock", "check", "wait"}
        <3>1. UNCHANGED call
            BY <1>7 DEF GcStep, MergeStep, GcZone, GcZoneFail, GcZonesDone, GcWrite, GcWriteFail,
                    GcResetOld, GcResetInPlace, GcRewrite, GcRewriteFail, GcResetSpare,
                    GcCollect, GcResetLog, GcClear, GcLock, GcIdle, GcWait, GcExit, GcSpuriousWake
        <3>2. pc'[c] = pc[c] \/ pc'[c] = "lock"
            BY <1>1, <1>7 DEF GcStep, MergeStep, GcZone, GcZoneFail, GcZonesDone, GcWrite,
                    GcWriteFail, GcResetOld, GcResetInPlace, GcRewrite, GcRewriteFail,
                    GcResetSpare, GcCollect, GcResetLog, GcClear, GcLock, GcIdle, GcWait,
                    GcExit, GcSpuriousWake, SignalStop, Goto
        <3>3. QED
            BY <1>1, <2>2, <3>1, <3>2, ReadKept DEF call
    <2>3. QED
        BY <2>1, <2>2
<1>8. CASE DeinitStop \/ DeinitStep \/ UNCHANGED vars
    BY <1>1, <1>8, ReadKept DEF DeinitStop, DeinitStep, DeinitSignal, DeinitJoin, vars,
            device, meta, call
<1>9. \A d \in Clients : d = c
    BY DEF OneClient
<1>10. QED
    BY <1>2, <1>3, <1>4, <1>5, <1>6, <1>7, <1>8, <1>9 DEF Next, Terminated

(* The same with any number of clients that only write. *)
LEMMA WriterOKStep ==
    ASSUME SingleBlocks, ReadSizes = {}, TypeOK, CalmInv, CalmInv', ReadInv, [Next]_vars,
           NEW c \in Clients
    PROVE  ReadOK(c)'
<1>1. /\ pc \in [Clients -> ClientPcs] /\ DOMAIN lba = Clients /\ DOMAIN buf = Clients
      /\ DOMAIN ret = Clients /\ DOMAIN req = Clients /\ ReadOK(c)
    BY DEF TypeOK, ClientTypeOK, ReadInv
<1>2. \A d \in Clients : pc[d] \notin Reading /\ pc'[d] \notin Reading
    BY DEF CalmInv
<1>3. ASSUME UNCHANGED <<req[c], buf[c], ret[c]>>,
             pc'[c] = pc[c] \/ {pc[c], pc'[c]} \subseteq {"lock", "check", "wait", "write", "map"}
      PROVE  ReadOK(c)'
    BY <1>1, <1>2, <1>3 DEF ReadOK, Reading
<1>4. ASSUME NEW d \in Clients, d # c,
             Call(d) \/ WriteStep(d) \/ ReadStep(d) \/ Return(d) \/ SpuriousWake(d)
      PROVE  ReadOK(c)'
    <2>1. UNCHANGED <<pc[c], req[c], buf[c], ret[c]>>
        BY <1>1, <1>4 DEF Call, WriteCall, ReadCall, RejectedCall, WriteStep, WriteLock, WriteWait,
                WriteGo, WriteAppend, WriteAppendFail, WriteLarge, WriteLargeFail, WriteMap,
                ReadStep, ReadFind, ReadEntry, ReadData, ReadDev, ReadDevFail, Return,
                SpuriousWake, Goto, Leave, call
    <2>2. QED
        BY <1>3, <2>1
<1>5. ASSUME WriteStep(c) PROVE ReadOK(c)'
    <2>1. req[c].op = "write" /\ UNCHANGED req
        BY <1>1, <1>5 DEF ReadOK, WriteStep, WriteLock, WriteWait, WriteGo, WriteAppend,
                WriteAppendFail, WriteLarge, WriteLargeFail, WriteMap, call
    <2>2. pc'[c] \in {"check", "wait", "write", "map", "ret"}
        BY <1>1, <1>5 DEF WriteStep, WriteLock, WriteWait, WriteGo, WriteAppend,
                WriteAppendFail, WriteLarge, WriteLargeFail, WriteMap, Goto, Leave
    <2>3. QED
        BY <2>1, <2>2 DEF ReadOK, Reading
<1>6. ASSUME Call(c) PROVE ReadOK(c)'
    <2>1. \/ pc'[c] = "lock" /\ req'[c].op = "write"
          \/ pc'[c] = "ret" /\ ret'[c] = EINVAL
        BY <1>1, <1>6 DEF Call, WriteCall, RejectedCall, Goto, Leave
    <2>2. QED
        BY <2>1 DEF ReadOK, Reading, EINVAL, SUCCESS
<1>7. ASSUME Return(c) PROVE ReadOK(c)'
    <2>1. pc'[c] = "idle" /\ buf'[c] = EmptyBuf
        BY <1>1, <1>7 DEF Return, Goto
    <2>2. QED
        BY <2>1 DEF ReadOK, Reading, EmptyBuf
<1>8. ~ ReadStep(c)
    BY <1>2 DEF ReadStep, ReadFind, ReadEntry, ReadData, ReadDev, ReadDevFail, Reading
<1>9. CASE SpuriousWake(c) \/ GcStep \/ GcSpuriousWake \/ DeinitStop \/ DeinitStep \/ UNCHANGED vars
    <2>1. UNCHANGED call
        BY <1>9 DEF SpuriousWake, GcStep, MergeStep, GcZone, GcZoneFail, GcZonesDone, GcWrite,
                GcWriteFail, GcResetOld, GcResetInPlace, GcRewrite, GcRewriteFail, GcResetSpare,
                GcCollect, GcResetLog, GcClear, GcLock, GcIdle, GcWait, GcExit, GcSpuriousWake,
                DeinitStop, DeinitStep, DeinitSignal, DeinitJoin, vars
    <2>2. UNCHANGED pc[c] \/ (pc[c] = "wait" /\ pc'[c] = "lock")
        BY <1>1, <1>9 DEF SpuriousWake, GcStep, MergeStep, GcZone, GcZoneFail, GcZonesDone, GcWrite,
                GcWriteFail, GcResetOld, GcResetInPlace, GcRewrite, GcRewriteFail, GcResetSpare,
                GcCollect, GcResetLog, GcClear, GcLock, GcIdle, GcWait, GcExit, GcSpuriousWake,
                SignalStop, DeinitStop, DeinitStep, DeinitSignal, DeinitJoin, vars, Goto
    <2>3. QED
        BY <1>3, <2>1, <2>2 DEF call
<1>10. QED
    BY <1>4, <1>5, <1>6, <1>7, <1>8, <1>9 DEF Next, Terminated

(* A read that succeeds returns the block last written, for one client     *)
(* with reads and writes of single blocks, while no command fails.         *)
THEOREM ReadsReturnLast ==
    ASSUME OneClient, SingleBlocks, ReadSizes \subseteq {1}, MaxFaults = 0
    PROVE  Spec => []ReadCorrect
<1> DEFINE All == BaseInv /\ AloneInv /\ DataInv /\ ReadInv
<1>1. Init => All
    <2>1. Init => ReadInv
        BY DEF Init, ReadInv, ReadOK, Reading, EmptyBuf
    <2>2. QED
        BY <2>1, BaseInit, AloneInit, DataInit
<1>2. All /\ [Next]_vars => All'
    <2>1. SUFFICES ASSUME All, [Next]_vars PROVE All'
        OBVIOUS
    <2>2. TypeOK /\ CallInv /\ QuietInv
        BY <2>1 DEF BaseInv, SpareInv, IInv, AloneInv
    <2>3. ReadInv'
        BY <2>1, <2>2, ReadOKStep DEF ReadInv
    <2>4. QED
        BY <2>1, <2>3, BaseStep, AloneStep, DataStep
<1>3. All => ReadCorrect
    <2>1. SUFFICES ASSUME All, NEW c \in Clients, pc[c] = "ret", req[c].op = "read",
                          ret[c] = SUCCESS, NEW k \in 0 .. req[c].n - 1,
                          last[req[c].addr + k] # NotWritten
                   PROVE  buf[c][k] = last[req[c].addr + k]
        BY DEF ReadCorrect
    <2>2. ReadOK(c) /\ req[c].addr \in Addr
        BY <2>1 DEF ReadInv, BaseInv, SpareInv, IInv, TypeOK, ClientTypeOK
    <2>3. req[c].n = 1
        BY <2>1, <2>2 DEF ReadOK
    <2>4. k = 0 /\ req[c].addr + k = req[c].addr
        BY <2>1, <2>2, <2>3, GeometryAssumption, FtlAssumption DEF Addr
    <2>5. QED
        BY <2>1, <2>2, <2>4 DEF ReadOK
<1>4. QED
    BY <1>1, <1>2, <1>3, PTL DEF Spec

----------------------------------------------------------------------------
(* The lives of the FTL *)

AllIdle == \A c \in Clients : pc[c] = "idle"

(* Where the threads are when the device is not in use. *)
ClosedInv ==
    /\ dpc # "up" => AllIdle
    /\ dpc = "closed" /\ ipc = "none" => gpc = "exit"
    /\ ipc # "none" => dpc = "closed" /\ ~ trigger_my_gc /\ ~ GcRuns

(* Nobody is inside a call, and none can begin. *)
LEMMA NoCalls ==
    ASSUME AllIdle, dpc # "up", NEW c \in Clients
    PROVE  ~ (Call(c) \/ WriteStep(c) \/ ReadStep(c) \/ Return(c) \/ SpuriousWake(c))
BY DEF AllIdle, Call, WriteCall, ReadCall, RejectedCall, Return, SpuriousWake,
       ReadStep, ReadFind, ReadEntry, ReadData, ReadDev, ReadDevFail,
       WriteStep, WriteLock, WriteWait, WriteGo, WriteAppend,
       WriteAppendFail, WriteLarge, WriteLargeFail, WriteMap

(* Only deinit changes how far deinit is. *)
LEMMA DpcKept ==
    ASSUME Next, ~ DeinitStop, ~ DeinitStep
    PROVE  dpc' = dpc
<1>1. ASSUME NEW c \in Clients,
             Call(c) \/ WriteStep(c) \/ ReadStep(c) \/ Return(c) \/ SpuriousWake(c)
      PROVE  dpc' = dpc
    BY <1>1 DEF Call, WriteCall, ReadCall, RejectedCall, Return, SpuriousWake,
            ReadStep, ReadFind, ReadEntry, ReadData, ReadDev, ReadDevFail,
            WriteStep, WriteLock, WriteWait, WriteGo, WriteAppend,
            WriteAppendFail, WriteLarge, WriteLargeFail, WriteMap
<1>2. GcStep \/ GcSpuriousWake => dpc' = dpc
    BY DEF GcStep, MergeStep, GcZone, GcZoneFail, GcZonesDone, GcWrite,
            GcWriteFail, GcResetOld, GcResetInPlace, GcRewrite, GcRewriteFail,
            GcResetSpare, GcCollect, GcResetLog, GcClear, GcLock, GcIdle, GcWait,
            GcExit, GcSpuriousWake
<1>3. QED
    BY <1>1, <1>2 DEF Next, Terminated, vars

LEMMA IdleStep ==
    ASSUME AllIdle, dpc # "up", Next
    PROVE  UNCHANGED <<pc, call, last, log_zone_mapping>> \/ GcCollect \/ GcClear
<1>1. \A c \in Clients : ~ (Call(c) \/ WriteStep(c) \/ ReadStep(c) \/ Return(c) \/ SpuriousWake(c))
    BY NoCalls
<1>2. CASE MergeStep \/ GcResetLog
    BY <1>2 DEF MergeStep, GcZone, GcZoneFail, GcZonesDone, GcWrite, GcWriteFail,
            GcResetOld, GcResetInPlace, GcRewrite, GcRewriteFail, GcResetSpare, GcResetLog, meta
<1>3. CASE GcLock \/ GcIdle \/ GcWait \/ GcExit \/ GcSpuriousWake
    BY <1>3 DEF GcLock, GcIdle, GcWait, GcExit, GcSpuriousWake, meta
<1>4. CASE DeinitStop \/ DeinitStep \/ Terminated
    BY <1>4 DEF DeinitStop, DeinitStep, DeinitSignal, DeinitJoin, Terminated, vars, meta
<1>5. QED
    BY <1>1, <1>2, <1>3, <1>4 DEF Next, GcStep

(* The idle stay idle until the device is in use. *)
LEMMA IdleKept ==
    ASSUME AllIdle, dpc # "up", Next
    PROVE  AllIdle'
<1>1. GcCollect \/ GcClear => UNCHANGED pc
    BY DEF GcCollect, GcClear, SignalStop, AllIdle
<1>2. QED
    BY <1>1, IdleStep DEF AllIdle

(* Without a request the GC thread only comes and goes. *)
LEMMA GcCalm ==
    ASSUME ~ trigger_my_gc, ~ GcRuns, GcStep \/ GcSpuriousWake
    PROVE  /\ GcLock \/ GcIdle \/ GcWait \/ GcExit \/ GcSpuriousWake
           /\ ~ GcRuns' /\ UNCHANGED <<trigger_my_gc, dpc>>
<1>1. ~ MergeStep /\ ~ GcCollect /\ ~ GcResetLog /\ ~ GcClear
    BY DEF MergeStep, GcZone, GcZoneFail, GcZonesDone, GcWrite, GcWriteFail,
            GcResetOld, GcResetInPlace, GcRewrite, GcRewriteFail, GcResetSpare,
            GcCollect, GcResetLog, GcClear, GcRuns, GcHolds
<1>2. GcLock \/ GcIdle \/ GcWait \/ GcExit \/ GcSpuriousWake
    BY <1>1 DEF GcStep
<1>3. QED
    BY <1>2 DEF GcLock, GcIdle, GcWait, GcExit, GcSpuriousWake, GcGoto, GcRuns, GcHolds, flags

LEMMA ClosedNext ==
    ASSUME ClosedInv, Next, UNCHANGED ipc
    PROVE  ClosedInv'
<1>1. dpc' # "up" => AllIdle'
    <2>1. CASE dpc # "up"
        BY <2>1, IdleKept DEF ClosedInv
    <2>2. CASE DeinitStop
        BY <2>2 DEF DeinitStop, AllIdle
    <2>3. CASE dpc = "up" /\ ~ DeinitStop
        BY <2>3, DpcKept DEF DeinitStep, DeinitSignal, DeinitJoin
    <2>4. QED
        BY <2>1, <2>2, <2>3
<1>2. CASE ipc # "none"
    <2>1. AllIdle /\ dpc = "closed" /\ ~ trigger_my_gc /\ ~ GcRuns
        BY <1>2 DEF ClosedInv
    <2>2. GcStep \/ GcSpuriousWake \/ Terminated
        <3>1. \A c \in Clients : ~ (Call(c) \/ WriteStep(c) \/ ReadStep(c) \/ Return(c) \/ SpuriousWake(c))
            BY <2>1, NoCalls
        <3>2. QED
            BY <2>1, <3>1 DEF Next, DeinitStop, DeinitStep, DeinitSignal, DeinitJoin
    <2>3. dpc' = "closed" /\ ~ trigger_my_gc' /\ ~ GcRuns'
        <3>1. CASE Terminated
            BY <2>1, <3>1 DEF Terminated, vars, flags, GcRuns, GcHolds
        <3>2. CASE GcStep \/ GcSpuriousWake
            BY <2>1, <3>2, GcCalm
        <3>3. QED
            BY <2>2, <3>1, <3>2
    <2>4. QED
        BY <1>1, <1>2, <2>3 DEF ClosedInv
<1>3. CASE ipc = "none" /\ dpc = "closed"
    <2>1. AllIdle /\ gpc = "exit"
        BY <1>3 DEF ClosedInv
    <2>2. UNCHANGED <<gpc, dpc>>
        <3>1. \A c \in Clients : ~ (Call(c) \/ WriteStep(c) \/ ReadStep(c) \/ Return(c) \/ SpuriousWake(c))
            BY <1>3, <2>1, NoCalls
        <3>2. ~ GcStep /\ ~ GcSpuriousWake
            BY <2>1 DEF GcStep, MergeStep, GcZone, GcZoneFail, GcZonesDone, GcWrite,
                    GcWriteFail, GcResetOld, GcResetInPlace, GcRewrite, GcRewriteFail,
                    GcResetSpare, GcCollect, GcResetLog, GcClear, GcLock, GcIdle, GcWait,
                    GcExit, GcSpuriousWake
        <3>3. Terminated
            BY <1>3, <3>1, <3>2 DEF Next, DeinitStop, DeinitStep, DeinitSignal, DeinitJoin
        <3>4. QED
            BY <3>3 DEF Terminated, vars
    <2>3. QED
        BY <1>1, <1>3, <2>1, <2>2 DEF ClosedInv
<1>4. CASE ipc = "none" /\ dpc # "closed"
    <2>1. dpc' = "closed" => gpc' = "exit"
        BY <1>4, DpcKept DEF DeinitStop, DeinitStep, DeinitSignal, DeinitJoin
    <2>2. QED
        BY <1>1, <1>4, <2>1 DEF ClosedInv
<1>5. QED
    BY <1>2, <1>3, <1>4

LEMMA ClosedStep ==
    ASSUME ClosedInv, [LifeNext]_lifeVars
    PROVE  ClosedInv'
<1>1. CASE Next /\ UNCHANGED ipc
    BY <1>1, ClosedNext
<1>2. CASE UNCHANGED lifeVars
    BY <1>2 DEF lifeVars, vars, flags, ClosedInv, AllIdle, GcRuns, GcHolds
<1>3. CASE ProcessEnds
    BY <1>3 DEF ProcessEnds, ForgetCalls, FreshMetadata, ClosedInv, AllIdle, GcRuns, GcHolds
<1>4. CASE InitOpen
    <2>1. AllIdle /\ dpc = "closed" /\ ~ GcRuns
        BY <1>4 DEF InitOpen, MayOpen, ClosedInv, GcRuns, GcHolds
    <2>2. UNCHANGED <<pc, dpc, gpc>> /\ ~ trigger_my_gc' /\ ipc' # "none"
        BY <1>4 DEF InitOpen, FreshMetadata
    <2>3. QED
        BY <2>1, <2>2 DEF ClosedInv, AllIdle, GcRuns, GcHolds
<1>5. CASE InitReset \/ InitReport
    BY <1>5 DEF InitReset, InitReport, flags, ClosedInv, AllIdle, GcRuns, GcHolds
<1>6. CASE InitThread
    <2>1. gpc' = "lock" /\ UNCHANGED <<pc, trigger_my_gc>> /\ ipc # "none"
          /\ ((ipc' = "reset again" /\ dpc' = dpc) \/ (ipc' = "none" /\ dpc' = "up"))
        BY <1>6 DEF InitThread, AfterThread, flags
    <2>2. QED
        BY <2>1 DEF ClosedInv, AllIdle, GcRuns, GcHolds
<1>7. CASE InitResetAgain
    BY <1>7 DEF InitResetAgain, ClosedInv
<1>8. CASE InitFail
    BY <1>8 DEF InitFail, vars, flags, ClosedInv, AllIdle, GcRuns, GcHolds
<1>9. QED
    BY <1>1, <1>2, <1>3, <1>4, <1>5, <1>6, <1>7, <1>8 DEF LifeNext, InitStep

(* Until init_ss_zns_device returns nobody is inside a call and the GC     *)
(* thread it has started collects nothing: with and without force_reset,   *)
(* in the process that closed the device or in a new one, whatever was     *)
(* under way when the last life ended, for any number of clients.          *)
THEOREM InitUndisturbed == LifeSpec => []InitAlone
<1>1. LifeInit => ClosedInv
    BY DEF LifeInit, Init, ClosedInv
<1>2. ClosedInv /\ [LifeNext]_lifeVars => ClosedInv'
    BY ClosedStep
<1>3. ClosedInv => InitAlone
    BY DEF ClosedInv, InitAlone, AllIdle
<1>4. QED
    BY <1>1, <1>2, <1>3, PTL DEF LifeSpec


----------------------------------------------------------------------------
(* From the end of one life to the start of the next, with force_reset *)

(* The memory of a process that has not used the device yet. *)
Blank ==
    /\ TypeOK /\ MutexInv
    /\ ~ gc_thread_stop /\ ~ trigger_my_gc
    /\ gpc \in {"lock", "check", "towait", "wait", "exit"}
    /\ log_zone_end = 0
    /\ log_zone_mapping = NoMap
    /\ data_zone_mapping = NoZoneMap
    /\ zone_states = [z \in VZones |-> EMPTY_ZONE]
    /\ pc = [c \in Clients |-> "idle"]
    /\ req = [c \in Clients |-> NoReq]
    /\ buf = [c \in Clients |-> EmptyBuf]
    /\ idx = [c \in Clients |-> 0]
    /\ ret = [c \in Clients |-> SUCCESS]
    /\ todo = {}
    /\ last = NothingWritten

ZonesEmpty == \A z \in Zones : wp[z] = 0

(* While init is under way: before the GC thread is there, and after the   *)
(* first reset.                                                            *)
Asleep ==
    /\ Blank
    /\ ipc \in {"start", "reset", "report", "thread"} => gpc = "exit"
    /\ ipc \in {"report", "thread", "reset again"} => ZonesEmpty
    /\ ipc \in {"start", "reset", "report", "thread", "reset again", "failed"}

(* What a process that dies leaves to the next one. *)
LEMMA DeathIsBlank ==
    ASSUME ForceReset = TRUE, TypeOK, ProcessEnds
    PROVE  Asleep'
<1> USE GeometryAssumption, FtlAssumption
<1>1. DeviceTypeOK'
    BY DeviceKept DEF TypeOK, ProcessEnds
<1>2. 0 \in LBAs /\ 0 \in Addr /\ NumZones * ZoneCap \in Nat
    BY TypeZero
<1>3. LogZones \in VZones /\ 0 \in {Slba(z) : z \in Zones} /\ Zero \in Payload
    BY DEF VZones, Zones, Slba, Payload
<1>4. EmptyBuf \in [BufIdx -> Payload] /\ EmptyZoneBuf \in [Offsets -> Payload]
    BY <1>3 DEF EmptyBuf, EmptyZoneBuf
<1>5. MetaTypeOK'
    <2>1. log_zone_end' = 0 /\ log_zone_mapping' = NoMap /\ data_zone_mapping' = NoZoneMap
          /\ zone_states' = [z \in VZones |-> EMPTY_ZONE] /\ last' = NothingWritten
        BY DEF ProcessEnds, FreshMetadata
    <2>2. MetaTypeOK' = (/\ log_zone_end' \in 0 .. NumZones * ZoneCap
                         /\ log_zone_mapping' \in [Addr -> LBAs \cup {NoEntry}]
                         /\ data_zone_mapping' \in [VZones -> {Slba(z) : z \in VZones} \cup {NoEntry}]
                         /\ zone_states' \in [VZones -> {EMPTY_ZONE, IMPLICITLY_OPENED, FULL_ZONE}]
                         /\ last' \in [Addr -> Payload \cup {NotWritten}])
        BY DEF MetaTypeOK, Addr, LBAs, VZones, Slba, Payload
    <2>3. QED
        BY <1>2, <2>1, <2>2 DEF NoMap, NoZoneMap, NothingWritten
<1>6. ClientTypeOK'
    <2>1. NoReq \in [op : {"none", "read", "write"}, addr : Addr, n : 1 .. BufBlocks]
        BY <1>2 DEF NoReq
    <2>2. ClientTypeOK' = (/\ pc' \in [Clients -> ClientPcs]
                           /\ req' \in [Clients -> [op : {"none", "read", "write"}, addr : Addr,
                                                    n : 1 .. BufBlocks]]
                           /\ buf' \in [Clients -> [BufIdx -> Payload]]
                           /\ idx' \in [Clients -> 0 .. BufBlocks]
                           /\ lba' \in [Clients -> LBAs]
                           /\ ret' \in [Clients -> {SUCCESS, EINVAL, EIO}])
        BY DEF ClientTypeOK, ClientPcs, Addr, BufIdx, Payload, LBAs
    <2>3. QED
        BY <1>2, <1>4, <2>1, <2>2 DEF ProcessEnds, ForgetCalls, ClientPcs
<1>7. GcTypeOK'
    <2>1. GcTypeOK' = (/\ gpc' \in GcPcs
                       /\ zone_sets' \in [Addr -> LBAs \cup {NoEntry}]
                       /\ todo' \subseteq VZones
                       /\ cur' \in VZones
                       /\ zone_number' \in {Slba(z) : z \in Zones}
                       /\ prev_zone' \in {Slba(z) : z \in VZones} \cup {NoEntry}
                       /\ buffer' \in [Offsets -> Payload])
        BY DEF GcTypeOK, GcPcs, Addr, LBAs, VZones, Zones, Slba, Offsets, Payload
    <2>2. QED
        BY <1>3, <1>4, <2>1 DEF ProcessEnds, ForgetMerge, NoMap, GcPcs
<1>8. SyncTypeOK'
    BY DEF TypeOK, SyncTypeOK, ProcessEnds, FreshMetadata, DeinitPcs
<1>9. MutexInv'
    BY DEF ProcessEnds, ForgetCalls, FreshMetadata, MutexInv, GcHolds
<1>10. TypeOK'
    BY <1>1, <1>5, <1>6, <1>7, <1>8 DEF TypeOK
<1>11. /\ NoMap' = NoMap /\ NoZoneMap' = NoZoneMap /\ NothingWritten' = NothingWritten
       /\ VZones' = VZones /\ EmptyBuf' = EmptyBuf
    BY DEF NoMap, NoZoneMap, NothingWritten, Addr, VZones, EmptyBuf, BufIdx
<1>12. Blank'
    BY <1>9, <1>10, <1>11 DEF Blank, ProcessEnds, FreshMetadata, ForgetCalls, ForgetMerge
<1>13. QED
    BY <1>12 DEF Asleep, ProcessEnds

(* A step that leaves the memory as it is. *)
LEMMA BlankKept ==
    ASSUME Blank, TypeOK', MutexInv', gpc' \in {"lock", "check", "towait", "wait", "exit"},
           UNCHANGED <<meta, flags, pc, call, todo, last>>
    PROVE  Blank'
BY DEF Blank, meta, flags, call, NoMap, NoZoneMap, NothingWritten, Addr, VZones, EmptyBuf, BufIdx

LEMMA AsleepStep ==
    ASSUME ForceReset = TRUE, SameProcess = FALSE, ClosedInv, Asleep, ipc # "none",
           LifeNext, ipc' # "none"
    PROVE  Asleep'
<1> USE GeometryAssumption, FtlAssumption
<1>1. Blank /\ TypeOK /\ MutexInv /\ dpc = "closed" /\ AllIdle /\ ~ GcRuns
    BY DEF Asleep, Blank, ClosedInv
<1>2. CASE Next /\ UNCHANGED ipc
    <2>1. GcStep \/ GcSpuriousWake \/ Terminated
        <3>1. \A c \in Clients : ~ (Call(c) \/ WriteStep(c) \/ ReadStep(c) \/ Return(c) \/ SpuriousWake(c))
            BY <1>1, NoCalls
        <3>2. QED
            BY <1>1, <1>2, <3>1 DEF Next, DeinitStop, DeinitStep, DeinitSignal, DeinitJoin
    <2>2. CASE Terminated
        <3>1. TypeOK'
            BY <1>1, <2>2, DeviceKept, MetaKept, SyncKept, ClientKept, GcKept
               DEF TypeOK, Terminated, vars, GcTypeOK
        <3>2. MutexInv'
            BY <1>1, <2>2 DEF Terminated, vars, MutexInv, GcHolds
        <3>3. gpc' = gpc /\ UNCHANGED <<meta, flags, pc, call, todo, last, device>>
            BY <2>2 DEF Terminated, vars, merge
        <3>4. Blank'
            BY <1>1, <3>1, <3>2, <3>3, BlankKept DEF Blank
        <3>5. QED
            BY <1>2, <3>3, <3>4 DEF Asleep, ZonesEmpty, device, Zones
    <2>3. CASE GcStep \/ GcSpuriousWake
        <3>1. GcLock \/ GcIdle \/ GcWait \/ GcSpuriousWake
            <4>1. GcLock \/ GcIdle \/ GcWait \/ GcExit \/ GcSpuriousWake
                BY <1>1, <2>3, GcCalm DEF Blank
            <4>2. QED
                BY <1>1, <4>1 DEF GcExit, Blank
        <3>2. /\ UNCHANGED <<device, meta, flags, pc, call, merge, dpc, faults, last>>
              /\ gpc' \in {"lock", "check", "towait", "wait", "exit"} /\ gpc # "exit"
              /\ gc_mutex' \in {gc_mutex, GCThread, Free}
            BY <3>1 DEF GcLock, GcIdle, GcWait, GcSpuriousWake, GcGoto
        <3>3. SyncTypeOK'
            BY <1>1, <3>2 DEF TypeOK, SyncTypeOK, flags, DeinitPcs
        <3>4. TypeOK'
            BY <1>1, <3>2, <3>3, DeviceKept, MetaKept, ClientKept, GcKept DEF TypeOK, GcPcs
        <3>5. MutexInv'
            BY <1>1, <1>2, MutexStep
        <3>6. Blank'
            BY <1>1, <3>2, <3>4, <3>5, BlankKept DEF merge
        <3>7. QED
            BY <1>2, <3>2, <3>6 DEF Asleep, ZonesEmpty, device, Zones
    <2>4. QED
        BY <2>1, <2>2, <2>3
<1>3. CASE ProcessEnds
    BY <1>1, <1>3, DeathIsBlank
<1>4. CASE InitOpen
    <2>1. /\ ipc = "start" /\ ipc' = "reset" /\ gpc = "exit"
          /\ gc_thread_stop' = FALSE /\ trigger_my_gc' = FALSE /\ log_zone_end' = 0 /\ gc_mutex' = Free
          /\ UNCHANGED <<device, log_zone_mapping, data_zone_mapping, zone_states, pc, call,
                         gpc, merge, dpc, faults, last>>
        BY <1>4 DEF InitOpen, MayOpen, FreshMetadata, Asleep
    <2>2. UNCHANGED <<meta, flags>>
        <3>1. gc_thread_stop = FALSE /\ trigger_my_gc = FALSE
            BY <1>1, Zenon DEF Blank, TypeOK, SyncTypeOK
        <3>2. UNCHANGED flags
            BY <2>1, <3>1, Zenon DEF flags
        <3>3. QED
            BY <1>1, <2>1, <3>2 DEF meta, Blank
    <2>3. SyncTypeOK'
        <3>1. gc_thread_stop' \in BOOLEAN /\ trigger_my_gc' \in BOOLEAN
            BY <2>1, Zenon
        <3>2. QED
            BY <1>1, <2>1, <3>1 DEF TypeOK, SyncTypeOK, DeinitPcs
    <2>4. TypeOK'
        BY <1>1, <2>1, <2>2, <2>3, DeviceKept, MetaKept, ClientKept, GcKept DEF TypeOK, GcTypeOK
    <2>5. MutexInv'
        BY <1>1, <2>1 DEF MutexInv, GcHolds, AllIdle
    <2>6. Blank'
        BY <1>1, <2>1, <2>2, <2>4, <2>5, BlankKept DEF merge
    <2>7. QED
        BY <2>1, <2>6 DEF Asleep
<1>5. CASE InitReset
    <2>1. /\ ipc = "reset" /\ ipc' = "report" /\ nvme_zns_reset(Zones) /\ UNCHANGED last
          /\ UNCHANGED <<meta, flags, gc_mutex, pc, call, gpc, merge, dpc, faults>>
        BY <1>1, <1>5 DEF InitReset, ResetFirst, Blank
    <2>2. TypeOK'
        BY <1>1, <2>1, ResetType, MetaKept, SyncKept, ClientKept, GcKept DEF TypeOK, GcTypeOK
    <2>3. MutexInv'
        BY <1>1, <2>1 DEF MutexInv, GcHolds
    <2>4. Blank'
        BY <1>1, <2>1, <2>2, <2>3, BlankKept DEF merge, Blank
    <2>5. ZonesEmpty'
        BY <2>1 DEF nvme_zns_reset, ZonesEmpty, Zones
    <2>6. QED
        BY <2>1, <2>4, <2>5 DEF Asleep
<1>6. CASE InitReport
    <2>1. /\ ipc = "report" /\ ipc' = "thread" /\ zone_states' = [z \in VZones |-> ReportedState(z)]
          /\ UNCHANGED <<device, log_zone_end, log_zone_mapping, data_zone_mapping, flags,
                         gc_mutex, pc, call, gpc, merge, dpc, faults, last>>
        BY <1>6 DEF InitReport
    <2>2. \A z \in VZones : ReportedState(z) = EMPTY_ZONE
        BY <2>1, Layout DEF ReportedState, Asleep, ZonesEmpty
    <2>3. UNCHANGED <<meta, last>>
        BY <1>1, <2>1, <2>2 DEF meta, Blank
    <2>4. TypeOK'
        BY <1>1, <2>1, <2>3, DeviceKept, MetaKept, SyncKept, ClientKept, GcKept DEF TypeOK, GcTypeOK
    <2>5. MutexInv'
        BY <1>1, <2>1 DEF MutexInv, GcHolds
    <2>6. Blank'
        BY <1>1, <2>1, <2>3, <2>4, <2>5, BlankKept DEF merge, Blank
    <2>7. QED
        BY <2>1, <2>6 DEF Asleep, ZonesEmpty, device, Zones
<1>7. CASE InitThread
    <2>1. /\ ipc = "thread" /\ ipc' = "reset again" /\ gpc' = "lock"
          /\ UNCHANGED <<device, meta, flags, gc_mutex, pc, call, merge, faults, last, dpc>>
        BY <1>7 DEF InitThread, AfterThread
    <2>2. TypeOK'
        BY <1>1, <2>1, DeviceKept, MetaKept, SyncKept, ClientKept, GcKept DEF TypeOK, GcPcs
    <2>3. MutexInv'
        BY <1>1, <2>1 DEF MutexInv, GcHolds, Asleep
    <2>4. Blank'
        BY <1>1, <2>1, <2>2, <2>3, BlankKept DEF merge
    <2>5. QED
        BY <2>1, <2>4 DEF Asleep, ZonesEmpty, device, Zones
<1>8. CASE InitFail
    <2>1. ipc' = "failed" /\ UNCHANGED vars
        BY <1>8 DEF InitFail
    <2>2. TypeOK'
        BY <1>1, <2>1, DeviceKept, MetaKept, SyncKept, ClientKept, GcKept DEF TypeOK, vars, GcTypeOK
    <2>3. MutexInv'
        BY <1>1, <2>1 DEF MutexInv, GcHolds, vars
    <2>4. Blank'
        BY <1>1, <2>1, <2>2, <2>3, BlankKept DEF vars, merge, Blank
    <2>5. QED
        BY <2>1, <2>4 DEF Asleep
<1>9. QED
    BY <1>2, <1>3, <1>4, <1>5, <1>6, <1>7, <1>8 DEF LifeNext, InitStep, InitResetAgain

(* The state init leaves is one the invariants may start from.         *)
LEMMA AwakeFresh ==
    Blank /\ ZonesEmpty => SpareInv /\ BaseInv /\ AloneInv /\ DataInv /\ ReadInv
<1> SUFFICES ASSUME Blank, ZonesEmpty
             PROVE  SpareInv /\ BaseInv /\ AloneInv /\ DataInv /\ ReadInv
    OBVIOUS
<1>1. TypeOK /\ MutexInv /\ ~ trigger_my_gc /\ ~ GcRuns
    BY DEF Blank, GcRuns, GcHolds
<1>2. \A z \in Zones : wp[z] = 0
    BY DEF ZonesEmpty
<1>3. TailSync
    BY <1>2, Layout, TailSyncStart DEF Blank
<1>4. TableInv
    BY <1>2, Layout, TableStart DEF Blank, NoZoneMap
<1>5. IInv
    <2>1. TailNotAhead /\ TailInLog
        <3>1. 0 = Slba(0) + 0 /\ 0 \in Offsets
            BY GeometryAssumption DEF Slba, Offsets
        <3>2. OffsetOf(0) = 0
            BY <3>1, ZoneOfSlba
        <3>3. QED
            BY <1>2, <3>2, Layout DEF Blank, TailNotAhead, TailInLog
    <2>2. CallInv
        BY DEF Blank, CallInv, CallOK, Active, Looping
    <2>3. MergeInv
        BY DEF Blank, MergeInv
    <2>4. QED
        BY <1>1, <2>1, <2>2, <2>3 DEF IInv
<1>6. SpareInv
    <2>1. WriterSize
        BY DEF Blank, WriterSize
    <2>2. ASSUME NEW y \in LogZones - Watermark .. LogZones - 1 PROVE y \in Zones
        BY GeometryAssumption, FtlAssumption DEF Zones
    <2>3. WatermarkKept
        BY <1>2, <2>2 DEF WatermarkKept
    <2>4. QED
        BY <1>5, <2>1, <2>3 DEF SpareInv
<1>7. AloneInv
    BY <1>1 DEF Blank, AloneInv, CalmInv, QuietInv, SUCCESS, EIO, Reading
<1>8. DataInv
    BY DataStart DEF Blank, NoMap, NothingWritten
<1>9. ReadInv
    BY DEF Blank, ReadInv, ReadOK, Reading, NoReq
<1>10. QED
    BY <1>3, <1>4, <1>6, <1>7, <1>8, <1>9 DEF BaseInv

(* What follows needs the state after the return of init as it needs the   *)
(* states before it.                                                       *)
LEMMA AwakeFreshNext ==
    (Blank /\ ZonesEmpty)' => (SpareInv /\ BaseInv /\ AloneInv /\ DataInv /\ ReadInv)'
BY AwakeFresh, PTL

(* init returns. *)
LEMMA WakeUp ==
    ASSUME ForceReset = TRUE, ClosedInv, Asleep, LifeNext, ipc # "none", ipc' = "none"
    PROVE  (Blank /\ ZonesEmpty)'
<1>1. InitResetAgain
    BY DEF LifeNext, InitStep, InitOpen, InitReset, InitReport, InitThread, AfterThread,
           InitFail, ProcessEnds
<1>2. Blank /\ TypeOK /\ MutexInv
    BY DEF Asleep, Blank
<1>3. /\ nvme_zns_reset(Zones) /\ dpc' = "up"
      /\ UNCHANGED <<meta, flags, gc_mutex, pc, call, gpc, merge, faults, last>>
    BY <1>1 DEF InitResetAgain
<1>4. SyncTypeOK'
    BY <1>2, <1>3 DEF TypeOK, SyncTypeOK, flags, DeinitPcs
<1>5. TypeOK'
    BY <1>2, <1>3, <1>4, ResetType, MetaKept, ClientKept, GcKept DEF TypeOK, GcTypeOK
<1>6. MutexInv'
    BY <1>2, <1>3 DEF MutexInv, GcHolds
<1>7. Blank'
    BY <1>2, <1>3, <1>5, <1>6, BlankKept DEF merge, Blank
<1>8. ZonesEmpty'
    BY <1>3 DEF nvme_zns_reset, ZonesEmpty, Zones
<1>9. QED
    BY <1>7, <1>8

(* Only the death of the process ends a life that init has begun. *)
LEMMA LifeGoesOn ==
    ASSUME SameProcess = FALSE, LifeNext, ipc = "none"
    PROVE  (Next /\ ipc' = "none") \/ ProcessEnds
BY DEF LifeNext, InitStep, InitOpen, MayOpen, InitReset, InitReport, InitThread,
       InitResetAgain, InitFail

(* No step outside the FTL's life changes what the FTL relies on in it.    *)
LEMMA SleepOrLife ==
    ASSUME ForceReset = TRUE, SameProcess = FALSE, ClosedInv, [LifeNext]_lifeVars,
           ipc # "none" => Asleep, ipc = "none" => TypeOK
    PROVE  /\ ipc' # "none" => Asleep'
           /\ ipc' = "none" => \/ ipc = "none" /\ [Next]_vars
                               \/ (Blank /\ ZonesEmpty)'
<1>1. CASE UNCHANGED lifeVars
    <2>1. UNCHANGED <<ipc, vars>>
        BY <1>1 DEF lifeVars
    <2>2. ASSUME Asleep PROVE Asleep'
        <3>1. TypeOK /\ MutexInv /\ Blank
            BY <2>2 DEF Asleep, Blank
        <3>2. TypeOK'
            BY <2>1, <3>1, DeviceKept, MetaKept, SyncKept, ClientKept, GcKept
               DEF TypeOK, vars, GcTypeOK
        <3>3. MutexInv'
            BY <2>1, <3>1 DEF MutexInv, GcHolds, vars
        <3>4. Blank'
            BY <2>1, <3>1, <3>2, <3>3, BlankKept DEF vars, merge, Blank
        <3>5. QED
            BY <2>1, <2>2, <3>4 DEF Asleep, ZonesEmpty, vars, device, Zones
    <2>3. QED
        BY <2>1, <2>2
<1>2. CASE LifeNext /\ ipc = "none"
    BY <1>2, LifeGoesOn, DeathIsBlank DEF ProcessEnds
<1>3. CASE LifeNext /\ ipc # "none"
    BY <1>3, AsleepStep, WakeUp
<1>4. QED
    BY <1>1, <1>2, <1>3

(* In every life the FTL's picture of the data zones is the device's from  *)
(* the moment init_ss_zns_device returns: force_reset makes the states it  *)
(* read true, whenever the process before was killed.  (A process that     *)
(* opens the device again brings its old maps along, and a start without   *)
(* force_reset has none: neither keeps the promise.)                       *)
THEOREM ZoneTableInEveryLife ==
    ASSUME WriteSizes \subseteq 1 .. ZoneCap, MaxFaults = 0, ForceReset = TRUE, SameProcess = FALSE
    PROVE  LifeSpec => []ZoneTableWhenOpen
<1> DEFINE All == /\ ClosedInv
                  /\ ipc # "none" => Asleep
                  /\ ipc = "none" => SpareInv /\ TableInv
<1>1. LifeInit => All
    <2>1. LifeInit => ClosedInv
        BY DEF LifeInit, Init, ClosedInv
    <2>2. QED
        BY <2>1, SpareInit, TableInit DEF LifeInit
<1>2. All /\ [LifeNext]_lifeVars => All'
    <2> SUFFICES ASSUME All, [LifeNext]_lifeVars PROVE All'
        OBVIOUS
    <2>1. ipc = "none" => TypeOK
        BY DEF SpareInv, IInv
    <2>2. /\ ipc' # "none" => Asleep'
          /\ ipc' = "none" => (ipc = "none" /\ [Next]_vars) \/ (Blank /\ ZonesEmpty)'
        BY <2>1, SleepOrLife
    <2>3. ipc = "none" /\ [Next]_vars => (SpareInv /\ TableInv)'
        BY SpareStep, TableStep
    <2>4. (Blank /\ ZonesEmpty)' => (SpareInv /\ TableInv)'
        BY AwakeFreshNext DEF BaseInv
    <2>5. QED
        BY <2>2, <2>3, <2>4, ClosedStep
<1>3. All => ZoneTableWhenOpen
    BY TableHolds DEF ClosedInv, ZoneTableWhenOpen
<1>4. QED
    BY <1>1, <1>2, <1>3, PTL DEF LifeSpec


----------------------------------------------------------------------------
(* The refinement: the FTL of every life implements the block store *)

(* What a life of single blocks rests on: of one client that reads and     *)
(* writes them, or of any number of clients that write them.               *)
LifeData == BaseInv /\ AloneInv /\ CalmInv /\ DataInv /\ ReadInv

LifeInv ==
    /\ ClosedInv
    /\ ipc # "none" => Asleep
    /\ ipc = "none" => LifeData

LEMMA BlankData == Blank /\ ZonesEmpty => LifeData
<1>1. Blank => CalmInv
    BY DEF Blank, CalmInv, SUCCESS, EIO, Reading
<1>2. QED
    BY <1>1, AwakeFresh DEF LifeData

LEMMA BlankDataNext == (Blank /\ ZonesEmpty)' => LifeData'
BY BlankData, PTL

LEMMA LifeDataStep ==
    ASSUME ReadSizes = {} \/ OneClient, SingleBlocks, ReadSizes \subseteq {1}, MaxFaults = 0,
           LifeData, [Next]_vars
    PROVE  LifeData'
<1>1. ReadSizes \subseteq 1 .. MDTS - 1
    BY GeometryAssumption DEF SingleBlocks
<1>2. TypeOK /\ CallInv /\ SpareInv /\ TailSync /\ MutexInv /\ (OneClient => QuietInv)
    BY DEF LifeData, BaseInv, SpareInv, IInv, AloneInv
<1>3. CalmInv'
    BY <1>1, <1>2, CalmStep DEF LifeData
<1>4. ReadInv'
    BY <1>2, <1>3, ReadOKStep, WriterOKStep DEF ReadInv, LifeData
<1>5. QED
    BY <1>3, <1>4, BaseStep, AloneStep, DataStep DEF LifeData

LEMMA LifeInvStep ==
    ASSUME ReadSizes = {} \/ OneClient, SingleBlocks, ReadSizes \subseteq {1}, MaxFaults = 0,
           ForceReset = TRUE, SameProcess = FALSE, LifeInv, [LifeNext]_lifeVars
    PROVE  LifeInv'
<1>1. ClosedInv /\ (ipc # "none" => Asleep) /\ (ipc = "none" => TypeOK)
    BY DEF LifeInv, LifeData, BaseInv, SpareInv, IInv
<1>2. /\ ipc' # "none" => Asleep'
      /\ ipc' = "none" => (ipc = "none" /\ [Next]_vars) \/ (Blank /\ ZonesEmpty)'
    BY <1>1, SleepOrLife
<1>3. ipc = "none" /\ [Next]_vars => LifeData'
    BY LifeDataStep DEF LifeInv
<1>4. ClosedInv'
    BY <1>1, ClosedStep
<1>5. QED
    BY <1>2, <1>3, <1>4, BlankDataNext DEF LifeInv

(* The store of the block device is what was last written to it. *)
LEMMA StoreIsLast == LifeInv => Store = last
<1> SUFFICES ASSUME LifeInv PROVE Store = last
    OBVIOUS
<1>1. CASE ipc # "none"
    BY <1>1 DEF LifeInv, Asleep, Blank, Store, NothingWritten
<1>2. CASE ipc = "none"
    <2>1. last \in [Addr -> Payload \cup {NotWritten}] /\ \A a \in Addr : Held(a)
        BY <1>2 DEF LifeInv, LifeData, BaseInv, SpareInv, IInv, TypeOK, MetaTypeOK, DataInv
    <2>2. \A a \in Addr : Store[a] = last[a]
        BY <2>1, HeldView DEF Store
    <2>3. QED
        BY <2>1, <2>2 DEF Store
<1>3. QED
    BY <1>1, <1>2

LEMMA StoreIsLastNext == LifeInv' => (Store = last)'
BY StoreIsLast, PTL

(* A step that the user of the device does not see. *)
LEMMA Invisible ==
    ASSUME Store = last, Store' = last', UNCHANGED <<req, buf, last>>,
           \A c \in Clients : pc'[c] = pc[c]
                              \/ (pc[c] \notin {"idle", "ret"} /\ pc'[c] \notin {"idle", "ret"})
    PROVE  UNCHANGED BS!vars
<1>1. CallState' = CallState
    BY DEF CallState
<1>2. QED
    BY <1>1 DEF BS!vars

(* A step of one client, as the user sees it. *)
LEMMA CallMoves ==
    ASSUME NEW c \in Clients, pc \in [Clients -> ClientPcs],
           NEW l, pc' = [pc EXCEPT ![c] = l]
    PROVE  /\ CallState[c] = IF pc[c] = "idle" THEN "idle"
                             ELSE IF pc[c] = "ret" THEN "done" ELSE "busy"
           /\ l = "idle" => CallState' = [CallState EXCEPT ![c] = "idle"]
           /\ l = "ret" => CallState' = [CallState EXCEPT ![c] = "done"]
           /\ l \notin {"idle", "ret"} => CallState' = [CallState EXCEPT ![c] = "busy"]
BY DEF CallState

(* A call begins. *)
LEMMA CallBegins ==
    ASSUME SingleBlocks, ReadSizes \subseteq {1}, Store = last, Store' = last',
           TypeOK, ReadInv, NEW c \in Clients, Call(c)
    PROVE  BS!Next
<1> USE GeometryAssumption, FtlAssumption
<1>1. /\ pc \in [Clients -> ClientPcs] /\ ReadOK(c) /\ 0 \in BufIdx
      /\ DOMAIN req = Clients /\ DOMAIN buf = Clients /\ Zero \notin Data
    BY DEF TypeOK, ClientTypeOK, ReadInv, BufIdx
<1>2. pc[c] = "idle" /\ UNCHANGED last
    BY DEF Call, WriteCall, ReadCall, RejectedCall
<1>3. CallState[c] = "idle"
    BY <1>2 DEF CallState
<1>4. ASSUME NEW a \in Addr, NEW n \in WriteSizes, NEW b \in WriteBuffers(n), WriteCall(c, a, n, b)
      PROVE  BS!Start(c, "write", a, b[0])
    <2>1. CallState' = [CallState EXCEPT ![c] = "busy"]
        <3>1. pc' = [pc EXCEPT ![c] = "lock"] /\ "lock" \notin {"idle", "ret"}
            BY <1>4 DEF WriteCall, Goto
        <3>2. QED
            BY <1>1, <3>1, CallMoves
    <2>2. req' = [req EXCEPT ![c] = [op |-> "write", addr |-> a, n |-> n]]
          /\ buf' = [buf EXCEPT ![c] = b]
        BY <1>4 DEF WriteCall
    <2>3. /\ [d \in Clients |-> req'[d].op] = [[d \in Clients |-> req[d].op] EXCEPT ![c] = "write"]
          /\ [d \in Clients |-> req'[d].addr] = [[d \in Clients |-> req[d].addr] EXCEPT ![c] = a]
          /\ [d \in Clients |-> buf'[d][0]] = [[d \in Clients |-> buf[d][0]] EXCEPT ![c] = b[0]]
        BY <1>1, <2>2
    <2>4. QED
        BY <1>2, <1>3, <2>1, <2>3 DEF BS!Start
<1>5. ASSUME NEW n \in WriteSizes, NEW b \in WriteBuffers(n)
      PROVE  b[0] \in Data
    BY <1>1, <1>5 DEF WriteBuffers, Payload, SingleBlocks
<1>6. ASSUME NEW a \in Addr, NEW n \in ReadSizes, ReadCall(c, a, n)
      PROVE  BS!Start(c, "read", a, Zero)
    <2>1. CallState' = [CallState EXCEPT ![c] = "busy"]
        <3>1. pc' = [pc EXCEPT ![c] = "find"] /\ "find" \notin {"idle", "ret"}
            BY <1>6 DEF ReadCall, Goto
        <3>2. QED
            BY <1>1, <3>1, CallMoves
    <2>2. req' = [req EXCEPT ![c] = [op |-> "read", addr |-> a, n |-> n]] /\ buf' = buf
        BY <1>6 DEF ReadCall
    <2>3. buf[c][0] = Zero
        BY <1>1, <1>2 DEF ReadOK, EmptyBuf
    <2>4. /\ [d \in Clients |-> req'[d].op] = [[d \in Clients |-> req[d].op] EXCEPT ![c] = "read"]
          /\ [d \in Clients |-> req'[d].addr] = [[d \in Clients |-> req[d].addr] EXCEPT ![c] = a]
          /\ [d \in Clients |-> buf'[d][0]] = [[d \in Clients |-> buf[d][0]] EXCEPT ![c] = Zero]
        BY <1>1, <2>2, <2>3
    <2>5. QED
        BY <1>2, <1>3, <2>1, <2>4 DEF BS!Start
<1>7. ASSUME RejectedCall(c) PROVE BS!Reject(c)
    <2>1. CallState' = [CallState EXCEPT ![c] = "done"] /\ UNCHANGED <<req, buf>>
        BY <1>1, <1>7, CallMoves DEF RejectedCall, Leave, Goto
    <2>2. QED
        BY <1>2, <1>3, <2>1 DEF BS!Reject
<1>8. QED
    BY <1>4, <1>5, <1>6, <1>7 DEF Call, BS!Next

(* A call returns and is forgotten. *)
LEMMA CallReturns ==
    ASSUME Store = last, Store' = last', TypeOK, NEW c \in Clients, Return(c)
    PROVE  BS!Next
<1>1. /\ pc \in [Clients -> ClientPcs] /\ 0 \in BufIdx
      /\ DOMAIN req = Clients /\ DOMAIN buf = Clients
    BY FtlAssumption DEF TypeOK, ClientTypeOK, BufIdx
<1>2. CallState' = [CallState EXCEPT ![c] = "idle"] /\ CallState[c] = "done"
    BY <1>1, CallMoves DEF Return, Goto
<1>3. req' = [req EXCEPT ![c] = NoReq] /\ buf' = [buf EXCEPT ![c] = EmptyBuf] /\ UNCHANGED last
    BY DEF Return
<1>4. /\ [d \in Clients |-> req'[d].op] = [[d \in Clients |-> req[d].op] EXCEPT ![c] = "none"]
      /\ [d \in Clients |-> req'[d].addr] = [[d \in Clients |-> req[d].addr] EXCEPT ![c] = 0]
      /\ [d \in Clients |-> buf'[d][0]] = [[d \in Clients |-> buf[d][0]] EXCEPT ![c] = Zero]
    BY <1>1, <1>3 DEF NoReq, EmptyBuf
<1>5. BS!Return(c)
    BY <1>2, <1>3, <1>4 DEF BS!Return
<1>6. QED
    BY <1>5 DEF BS!Next

(* A write takes effect when it maps its block. *)
LEMMA WriteTakesEffect ==
    ASSUME SingleBlocks, Store = last, Store' = last', LifeData, CalmInv',
           NEW c \in Clients, WriteStep(c)
    PROVE  BS!Next \/ UNCHANGED BS!vars
<1>1. /\ TypeOK /\ CallOK(c) /\ ReadOK(c) /\ WriterSize
    BY DEF LifeData, BaseInv, SpareInv, IInv, CallInv, ReadInv
<1>2. /\ pc \in [Clients -> ClientPcs] /\ DOMAIN ret = Clients /\ idx[c] \in Int
      /\ req[c].addr \in Addr
    BY <1>1 DEF TypeOK, ClientTypeOK
<1>3. pc[c] \in {"lock", "check", "write", "map"} /\ req[c].n = 1
    BY <1>1 DEF WriteStep, WriteLock, WriteWait, WriteGo, WriteAppend, WriteAppendFail,
            WriteLarge, WriteLargeFail, WriteMap, WriterSize, SingleBlocks
<1>4. CASE WriteMap(c)
    <2>1. pc[c] = "map"
        BY <1>4 DEF WriteMap
    <2>2. idx[c] = 0
        BY <1>1, <1>2, <1>3, <2>1, GeometryAssumption DEF CallOK, Looping, TypeOK, ClientTypeOK
    <2>3. LastRound(c) /\ req[c].addr + idx[c] = req[c].addr
        BY <1>2, <1>3, <2>2, GeometryAssumption, FtlAssumption DEF LastRound, Addr
    <2>4. /\ pc' = [pc EXCEPT ![c] = "ret"] /\ UNCHANGED <<req, buf>>
          /\ last' = [last EXCEPT ![req[c].addr] = buf[c][0]]
        BY <1>4, <2>2, <2>3 DEF WriteMap, Goto
    <2>5. CallState' = [CallState EXCEPT ![c] = "done"] /\ CallState[c] = "busy"
        BY <1>2, <2>1, <2>4, CallMoves
    <2>6. req[c].op = "write"
        BY <1>1, <2>1 DEF ReadOK
    <2>7. BS!Write(c)
        BY <2>4, <2>5, <2>6 DEF BS!Write
    <2>8. QED
        BY <2>7 DEF BS!Next
<1>5. CASE WriteAppendFail(c) \/ WriteLargeFail(c)
    <2>1. ret'[c] = EIO
        BY <1>2, <1>5 DEF WriteAppendFail, WriteLargeFail, Leave
    <2>2. QED
        BY <2>1 DEF CalmInv
<1>6. CASE WriteLarge(c)
    BY <1>3, <1>6, GeometryAssumption DEF WriteLarge, SingleBlocks
<1>7. CASE WriteLock(c) \/ WriteWait(c) \/ WriteGo(c) \/ WriteAppend(c)
    <2>1. UNCHANGED <<req, buf, last>>
        BY <1>7 DEF WriteLock, WriteWait, WriteGo, WriteAppend, call
    <2>2. \A d \in Clients : pc'[d] = pc[d]
                 \/ (pc[d] \notin {"idle", "ret"} /\ pc'[d] \notin {"idle", "ret"})
        BY <1>2, <1>7 DEF WriteLock, WriteWait, WriteGo, WriteAppend, Goto
    <2>3. QED
        BY <2>1, <2>2, Invisible
<1>8. QED
    BY <1>4, <1>5, <1>6, <1>7 DEF WriteStep

(* A read takes effect when it has its block. *)
LEMMA ReadTakesEffect ==
    ASSUME OneClient, SingleBlocks, ReadSizes \subseteq {1}, Store = last, Store' = last',
           LifeData, LifeData', NEW c \in Clients, ReadStep(c)
    PROVE  BS!Next \/ UNCHANGED BS!vars
<1>1. /\ TypeOK /\ CallInv /\ QuietInv /\ DataInv /\ ReadOK(c) /\ ReadOK(c)' /\ CalmInv' /\ TypeOK'
    BY DEF LifeData, BaseInv, SpareInv, IInv, CallInv, ReadInv, AloneInv
<1>2. /\ pc \in [Clients -> ClientPcs] /\ DOMAIN ret = Clients /\ DOMAIN buf = Clients
      /\ 0 \in BufIdx /\ buf' \in [Clients -> [BufIdx -> Payload]]
    BY <1>1, FtlAssumption DEF TypeOK, ClientTypeOK, BufIdx, Payload
<1>3. pc[c] \in Reading
    BY DEF ReadStep, ReadFind, ReadEntry, ReadData, ReadDev, ReadDevFail, Reading
<1>4. LastRound(c) /\ UNCHANGED <<req, last>>
    <2>1. LastRound(c)
        BY <1>1, <1>3, ReadBlock
    <2>2. UNCHANGED <<req, last>>
        BY DEF ReadStep, ReadFind, ReadEntry, ReadData, ReadDev, ReadDevFail, call
    <2>3. QED
        BY <2>1, <2>2
<1>5. req[c].op = "read"
    BY <1>1, <1>3 DEF ReadOK
<1>6. ASSUME pc' = [pc EXCEPT ![c] = "ret"], ret'[c] = SUCCESS,
             NEW b, buf' = [buf EXCEPT ![c] = b]
      PROVE  BS!Next
    <2>1. CallState' = [CallState EXCEPT ![c] = "done"] /\ CallState[c] = "busy"
        BY <1>2, <1>3, <1>6, CallMoves DEF Reading
    <2>2. b[0] \in Data \cup {Zero}
        BY <1>2, <1>6 DEF Payload
    <2>3. [d \in Clients |-> buf'[d][0]] = [[d \in Clients |-> buf[d][0]] EXCEPT ![c] = b[0]]
        BY <1>2, <1>6
    <2>4. last[req[c].addr] # NotWritten => b[0] = last[req[c].addr]
        BY <1>1, <1>2, <1>4, <1>5, <1>6 DEF ReadOK
    <2>5. BS!Read(c)
        BY <1>4, <1>5, <2>1, <2>2, <2>3, <2>4 DEF BS!Read
    <2>6. QED
        BY <2>5 DEF BS!Next
<1>7. CASE ReadFind(c) \/ ReadEntry(c)
    <2>1. UNCHANGED <<req, buf, last>>
        BY <1>7 DEF ReadFind, ReadEntry, call
    <2>2. \A d \in Clients : pc'[d] = pc[d]
                 \/ (pc[d] \notin {"idle", "ret"} /\ pc'[d] \notin {"idle", "ret"})
        BY <1>2, <1>7 DEF ReadFind, ReadEntry, Goto
    <2>3. QED
        BY <2>1, <2>2, Invisible
<1>8. CASE ReadData(c)
    <2>1. CASE data_zone_mapping[VZone(req[c].addr + idx[c])] = NoEntry
        BY <1>2, <1>6, <1>8, <2>1 DEF ReadData, Leave, Goto
    <2>2. CASE data_zone_mapping[VZone(req[c].addr + idx[c])] # NoEntry
        <3>1. UNCHANGED buf /\ pc' = [pc EXCEPT ![c] = "dev"] /\ pc[c] = "data"
            BY <1>8, <2>2 DEF ReadData, Goto
        <3>2. \A d \in Clients : pc'[d] = pc[d]
                     \/ (pc[d] \notin {"idle", "ret"} /\ pc'[d] \notin {"idle", "ret"})
            BY <1>2, <3>1
        <3>3. QED
            BY <1>4, <3>1, <3>2, Invisible
    <2>3. QED
        BY <2>1, <2>2
<1>9. CASE ReadDev(c)
    BY <1>2, <1>4, <1>6, <1>9 DEF ReadDev, Leave, Goto
<1>10. CASE ReadDevFail(c)
    <2>1. ret'[c] = EIO
        BY <1>2, <1>10 DEF ReadDevFail, Leave
    <2>2. QED
        BY <1>1, <2>1 DEF CalmInv
<1>11. QED
    BY <1>7, <1>8, <1>9, <1>10 DEF ReadStep

(* Collections, merges, resets and the end of a life are invisible. *)
LEMMA CollectorInvisible ==
    ASSUME Store = last, Store' = last', TypeOK,
           GcStep \/ GcSpuriousWake \/ DeinitStop \/ DeinitStep \/ UNCHANGED vars
    PROVE  UNCHANGED BS!vars
<1>1. pc \in [Clients -> ClientPcs]
    BY DEF TypeOK, ClientTypeOK
<1>2. UNCHANGED <<call, last>>
        /\ (UNCHANGED pc \/ \E c \in Clients : pc[c] = "wait" /\ Goto(c, "lock"))
    <2>1. CASE MergeStep \/ GcResetLog \/ GcCollect
        BY <2>1 DEF MergeStep, GcZone, GcZoneFail, GcZonesDone, GcWrite, GcWriteFail, GcResetOld,
                GcResetInPlace, GcRewrite, GcRewriteFail, GcResetSpare, GcResetLog, GcCollect
    <2>2. CASE GcClear
        BY <2>2 DEF GcClear, SignalStop
    <2>3. CASE GcLock \/ GcIdle \/ GcWait \/ GcExit \/ GcSpuriousWake
        BY <2>3 DEF GcLock, GcIdle, GcWait, GcExit, GcSpuriousWake
    <2>4. CASE DeinitStop \/ DeinitStep \/ UNCHANGED vars
        BY <2>4 DEF DeinitStop, DeinitStep, DeinitSignal, DeinitJoin, vars
    <2>5. QED
        BY <2>1, <2>2, <2>3, <2>4 DEF GcStep
<1>3. \A d \in Clients : pc'[d] = pc[d]
             \/ (pc[d] \notin {"idle", "ret"} /\ pc'[d] \notin {"idle", "ret"})
    BY <1>1, <1>2 DEF Goto
<1>4. QED
    BY <1>2, <1>3, Invisible DEF call


(* Before, between and after the steps of init the user sees nothing. *)
LEMMA BlankInvisible ==
    ASSUME Blank, Blank', Store = last, Store' = last'
    PROVE  UNCHANGED BS!vars
<1>1. UNCHANGED <<pc, req, buf, last>>
    BY DEF Blank, NothingWritten, EmptyBuf, Addr, BufIdx
<1>2. QED
    BY <1>1, Invisible

(* The end of a life forgets calls and blocks. *)
LEMMA DeathForgets ==
    ASSUME ForceReset = TRUE, Store' = last', ProcessEnds
    PROVE  BS!Next
<1>1. /\ pc' = [c \in Clients |-> "idle"] /\ req' = [c \in Clients |-> NoReq]
      /\ buf' = [c \in Clients |-> EmptyBuf] /\ last' = NothingWritten
    BY DEF ProcessEnds, ForgetCalls
<1>2. 0 \in BufIdx
    BY FtlAssumption DEF BufIdx
<1>3. BS!Format
    BY <1>1, <1>2 DEF BS!Format, CallState, NothingWritten, NoReq, EmptyBuf
<1>4. QED
    BY <1>3 DEF BS!Next

LEMMA StoreStep ==
    ASSUME ReadSizes = {} \/ OneClient, SingleBlocks, ReadSizes \subseteq {1}, MaxFaults = 0,
           ForceReset = TRUE, SameProcess = FALSE, LifeInv, [LifeNext]_lifeVars
    PROVE  BS!Next \/ UNCHANGED BS!vars
<1>1. Store = last /\ Store' = last'
    BY LifeInvStep, StoreIsLast, StoreIsLastNext
<1>2. ClosedInv /\ (ipc # "none" => Asleep) /\ (ipc = "none" => TypeOK)
    BY DEF LifeInv, LifeData, BaseInv, SpareInv, IInv
<1>3. /\ ipc' # "none" => Asleep'
      /\ ipc' = "none" => (ipc = "none" /\ [Next]_vars) \/ (Blank /\ ZonesEmpty)'
    BY <1>2, SleepOrLife
<1>4. CASE ipc = "none" /\ [Next]_vars
    <2>1. LifeData /\ LifeData' /\ TypeOK /\ ReadInv /\ CalmInv'
        <3>1. LifeData /\ LifeData'
            BY <1>4, LifeDataStep DEF LifeInv
        <3>2. QED
            BY <1>2, <1>4, <3>1 DEF LifeData
    <2>2. ASSUME NEW c \in Clients,
                 Call(c) \/ WriteStep(c) \/ ReadStep(c) \/ Return(c) \/ SpuriousWake(c)
          PROVE  BS!Next \/ UNCHANGED BS!vars
        <3>1. CASE Call(c)
            BY <1>1, <2>1, <3>1, CallBegins
        <3>2. CASE WriteStep(c)
            BY <1>1, <2>1, <3>2, WriteTakesEffect
        <3>3. CASE ReadStep(c)
            <4>1. pc[c] \in Reading
                BY <3>3 DEF ReadStep, ReadFind, ReadEntry, ReadData, ReadDev, ReadDevFail, Reading
            <4>2. OneClient
                BY <2>1, <4>1, ReadersAlone DEF LifeData
            <4>3. QED
                BY <1>1, <2>1, <3>3, <4>2, ReadTakesEffect
        <3>4. CASE Return(c)
            BY <1>1, <2>1, <3>4, CallReturns
        <3>5. CASE SpuriousWake(c)
            <4>1. pc[c] = "wait" /\ pc' = [pc EXCEPT ![c] = "lock"] /\ UNCHANGED <<req, buf, last>>
                BY <3>5 DEF SpuriousWake, Goto, call
            <4>2. \A d \in Clients : pc'[d] = pc[d]
                         \/ (pc[d] \notin {"idle", "ret"} /\ pc'[d] \notin {"idle", "ret"})
                BY <2>1, <4>1 DEF TypeOK, ClientTypeOK
            <4>3. QED
                BY <1>1, <4>1, <4>2, Invisible
        <3>6. QED
            BY <2>2, <3>1, <3>2, <3>3, <3>4, <3>5
    <2>3. CASE GcStep \/ GcSpuriousWake \/ DeinitStop \/ DeinitStep \/ UNCHANGED vars
        BY <1>1, <2>1, <2>3, CollectorInvisible
    <2>4. QED
        BY <1>4, <2>2, <2>3 DEF Next, Terminated
<1>5. CASE ipc = "none" /\ ~ [Next]_vars
    <2>1. ProcessEnds
        BY <1>5, LifeGoesOn DEF lifeVars
    <2>2. QED
        BY <1>1, <2>1, DeathForgets
<1>6. CASE ipc # "none"
    <2>1. Blank /\ Blank'
        BY <1>2, <1>3, <1>6 DEF Asleep
    <2>2. QED
        BY <1>1, <2>1, BlankInvisible
<1>7. QED
    BY <1>4, <1>5, <1>6

(* The FTL implements the block store in every life that force_reset       *)
(* begins: for one client that reads and writes single blocks, or any      *)
(* number of clients that write them at the same time, on a device of any  *)
(* size that does not fail, with the process killed and started again      *)
(* whenever it may be.  A read returns the block written last, a write     *)
(* takes effect at one moment of its call, no call fails, and merges cannot   *)
(* be seen.                                                                *)
THEOREM StoreImplemented ==
    ASSUME ReadSizes = {} \/ OneClient, SingleBlocks, ReadSizes \subseteq {1}, MaxFaults = 0,
           ForceReset = TRUE, SameProcess = FALSE
    PROVE  LifeSpec => ImplementsBlockStore
<1>1. LifeInit => LifeInv
    <2>1. LifeInit => ClosedInv
        BY DEF LifeInit, Init, ClosedInv
    <2>2. Init => CalmInv /\ ReadInv
        BY DEF Init, CalmInv, ReadInv, ReadOK, EmptyBuf, SUCCESS, EIO, Reading
    <2>3. QED
        BY <2>1, <2>2, BaseInit, AloneInit, DataInit DEF LifeInit, LifeInv, LifeData
<1>2. LifeInv /\ [LifeNext]_lifeVars => LifeInv'
    BY LifeInvStep
<1>3. LifeInit => BS!Init
    <2>1. SUFFICES ASSUME LifeInit PROVE BS!Init
        OBVIOUS
    <2>2. Store = last /\ 0 \in BufIdx
        BY <1>1, <2>1, StoreIsLast, FtlAssumption DEF BufIdx
    <2>3. QED
        BY <2>1, <2>2 DEF LifeInit, Init, BS!Init, CallState, NoReq, EmptyBuf
<1>4. LifeInv /\ [LifeNext]_lifeVars => [BS!Next]_BS!vars
    BY StoreStep
<1>5. QED
    BY <1>1, <1>2, <1>3, <1>4, PTL DEF LifeSpec, ImplementsBlockStore, BS!Spec

----------------------------------------------------------------------------
(* What the liveness properties rest on: the safety part of their argument *)

(* A collection that is wanted finds the GC thread awake, or makes it so:  *)
(* trigger_my_gc is set and start_gc signalled under gc_mutex, which the   *)
(* thread keeps from its test of the flag until it sleeps.                 *)
TriggerSeen == trigger_my_gc => gpc \notin {"towait", "wait"}

LEMMA TriggerStep ==
    ASSUME MutexInv, TriggerSeen, [Next]_vars
    PROVE  TriggerSeen'
<1>1. ASSUME UNCHANGED trigger_my_gc, gpc' = gpc \/ gpc' \notin {"towait", "wait"}
      PROVE  TriggerSeen'
    BY <1>1 DEF TriggerSeen
<1>2. ASSUME NEW c \in Clients, WriteWait(c) PROVE TriggerSeen'
    <2>1. gc_mutex = c /\ c # GCThread
        BY <1>2, FtlAssumption DEF WriteWait, MutexInv
    <2>2. gpc \in {"lock", "wait", "exit"}
        BY <2>1 DEF MutexInv, GcHolds
    <2>3. QED
        BY <1>2, <2>2 DEF WriteWait, SignalStart, TriggerSeen
<1>3. ASSUME NEW c \in Clients,
             Call(c) \/ WriteStep(c) \/ ReadStep(c) \/ Return(c) \/ SpuriousWake(c), ~ WriteWait(c)
      PROVE  TriggerSeen'
    <2>1. UNCHANGED <<trigger_my_gc, gpc>>
        BY <1>3 DEF Call, WriteCall, ReadCall, RejectedCall, Return, SpuriousWake,
                ReadStep, ReadFind, ReadEntry, ReadData, ReadDev, ReadDevFail,
                WriteStep, WriteLock, WriteGo, WriteAppend, WriteAppendFail,
                WriteLarge, WriteLargeFail, WriteMap, flags
    <2>2. QED
        BY <1>1, <2>1
<1>4. CASE GcIdle \/ GcWait
    BY <1>4 DEF GcIdle, GcWait, GcGoto, flags, TriggerSeen
<1>5. CASE MergeStep \/ GcResetLog \/ GcCollect \/ GcLock \/ GcExit \/ GcSpuriousWake
    <2>1. UNCHANGED trigger_my_gc /\ gpc' \notin {"towait", "wait"}
        BY <1>5 DEF MergeStep, GcZone, GcZoneFail, GcZonesDone, GcWrite, GcWriteFail, GcResetOld,
                GcResetInPlace, GcRewrite, GcRewriteFail, GcResetSpare, GcResetLog, GcCollect,
                GcLock, GcExit, GcSpuriousWake, GcGoto, flags
    <2>2. QED
        BY <1>1, <2>1
<1>6. CASE GcClear
    BY <1>6 DEF GcClear, GcGoto, TriggerSeen
<1>7. CASE DeinitStop \/ DeinitStep \/ UNCHANGED vars
    <2>1. UNCHANGED trigger_my_gc /\ (gpc' = gpc \/ gpc' = "lock")
        BY <1>7 DEF DeinitStop, DeinitStep, DeinitSignal, DeinitJoin, SignalStart, vars, flags
    <2>2. QED
        BY <1>1, <2>1
<1>8. QED
    BY <1>2, <1>3, <1>4, <1>5, <1>6, <1>7 DEF Next, GcStep, Terminated

(* No request for a collection is slept through: for any number of         *)
(* clients, any sizes, failing commands, and a GC thread that has not yet  *)
(* begun, waits or is at work (TriggerServed).                             *)
THEOREM NoTriggerMissed == Spec => []TriggerSeen
<1>1. Init => TriggerSeen
    BY DEF Init, TriggerSeen
<1>2. IInv /\ TriggerSeen /\ [Next]_vars => TriggerSeen'
    BY TriggerStep DEF IInv
<1>3. QED
    BY <1>1, <1>2, Inductive, PTL DEF Spec

----------------------------------------------------------------------------
(* What a waiting writer waits for. *)
WaitInv ==
    /\ gc_thread_stop => dpc # "up"
    /\ dpc # "up" => AllIdle
    /\ gpc = "exit" => gc_thread_stop
    /\ \A c \in Clients : pc[c] = "wait" => gc_mutex # c
    /\ OneClient => \A c \in Clients : pc[c] = "wait" => trigger_my_gc

LEMMA WaitStep ==
    ASSUME TypeOK, WaitInv, [Next]_vars
    PROVE  WaitInv'
<1>1. pc \in [Clients -> ClientPcs]
    BY DEF TypeOK, ClientTypeOK
<1>2. ASSUME NEW c \in Clients,
             Call(c) \/ WriteStep(c) \/ ReadStep(c) \/ Return(c) \/ SpuriousWake(c)
      PROVE  WaitInv'
    <2>1. dpc = "up" /\ UNCHANGED <<dpc, gc_thread_stop>>
        <3>1. dpc = "up"
            BY <1>2, NoCalls DEF WaitInv
        <3>2. QED
            BY <1>2, <3>1 DEF Call, WriteCall, ReadCall, RejectedCall, Return, SpuriousWake,
                    ReadStep, ReadFind, ReadEntry, ReadData, ReadDev, ReadDevFail,
                    WriteStep, WriteLock, WriteWait, WriteGo, WriteAppend, WriteAppendFail,
                    WriteLarge, WriteLargeFail, WriteMap, flags
    <2>2. gpc' = gpc \/ gpc' = "lock"
        BY <1>2 DEF Call, WriteCall, ReadCall, RejectedCall, Return, SpuriousWake,
                ReadStep, ReadFind, ReadEntry, ReadData, ReadDev, ReadDevFail,
                WriteStep, WriteLock, WriteWait, WriteGo, WriteAppend, WriteAppendFail,
                WriteLarge, WriteLargeFail, WriteMap, SignalStart
    <2>3. \/ WriteWait(c) /\ gc_mutex' = Free /\ trigger_my_gc' = TRUE
          \/ UNCHANGED trigger_my_gc /\ pc'[c] # "wait" /\ gc_mutex' \in {gc_mutex, c, Free}
        BY <1>1, <1>2 DEF Call, WriteCall, ReadCall, RejectedCall, Return, SpuriousWake,
                ReadStep, ReadFind, ReadEntry, ReadData, ReadDev, ReadDevFail,
                WriteStep, WriteLock, WriteWait, WriteGo, WriteAppend, WriteAppendFail,
                WriteLarge, WriteLargeFail, WriteMap, UnlockAfter, Goto, Leave, flags
    <2>4. \A d \in Clients \ {c} : pc'[d] = pc[d]
        BY <1>1, <1>2 DEF Call, WriteCall, ReadCall, RejectedCall, Return, SpuriousWake,
                ReadStep, ReadFind, ReadEntry, ReadData, ReadDev, ReadDevFail,
                WriteStep, WriteLock, WriteWait, WriteGo, WriteAppend, WriteAppendFail,
                WriteLarge, WriteLargeFail, WriteMap, Goto, Leave
    <2>5. \A d \in Clients : pc'[d] = "wait" => gc_mutex' # d
        BY <2>3, <2>4, FtlAssumption DEF WaitInv
    <2>6. OneClient => \A d \in Clients : pc'[d] = "wait" => trigger_my_gc'
        BY <2>3, <2>4 DEF WaitInv, OneClient
    <2>7. QED
        BY <2>1, <2>2, <2>5, <2>6 DEF WaitInv, OneClient
<1>3. ASSUME UNCHANGED <<pc, trigger_my_gc, gc_thread_stop, dpc>>,
             gc_mutex' \in {gc_mutex, GCThread, Free}, gpc' = "exit" => gc_thread_stop
      PROVE  WaitInv'
    BY <1>3, FtlAssumption DEF WaitInv, AllIdle, OneClient
<1>4. CASE MergeStep \/ GcResetLog \/ GcCollect
    <2>1. UNCHANGED <<pc, trigger_my_gc, gc_thread_stop, dpc, gc_mutex>> /\ gpc' # "exit"
        BY <1>4 DEF MergeStep, GcZone, GcZoneFail, GcZonesDone, GcWrite, GcWriteFail, GcResetOld,
                GcResetInPlace, GcRewrite, GcRewriteFail, GcResetSpare, GcResetLog, GcCollect,
                GcGoto, flags
    <2>2. QED
        BY <1>3, <2>1
<1>5. CASE GcLock \/ GcIdle \/ GcWait \/ GcExit \/ GcSpuriousWake
    <2>1. UNCHANGED <<pc, trigger_my_gc, gc_thread_stop, dpc>>
          /\ gc_mutex' \in {gc_mutex, GCThread, Free} /\ (gpc' = "exit" => gc_thread_stop)
        BY <1>5 DEF GcLock, GcIdle, GcWait, GcExit, GcSpuriousWake, GcGoto, flags
    <2>2. QED
        BY <1>3, <2>1
<1>6. CASE GcClear
    <2>1. gc_mutex' = Free /\ gpc' = "lock" /\ UNCHANGED <<gc_thread_stop, dpc>>
        BY <1>6 DEF GcClear, GcGoto
    <2>2. \/ UNCHANGED pc /\ \A c \in Clients : pc[c] # "wait"
          \/ \E c \in Clients : pc[c] = "wait" /\ pc' = [pc EXCEPT ![c] = "lock"]
        BY <1>6 DEF GcClear, SignalStop, Goto
    <2>3. dpc # "up" => AllIdle'
        BY <1>1, <2>2 DEF WaitInv, AllIdle
    <2>4. OneClient => \A c \in Clients : pc'[c] # "wait"
        BY <1>1, <2>2 DEF OneClient
    <2>5. QED
        BY <2>1, <2>3, <2>4, FtlAssumption DEF WaitInv, OneClient
<1>7. CASE DeinitStop
    BY <1>7 DEF DeinitStop, WaitInv, AllIdle, OneClient
<1>8. CASE DeinitStep \/ UNCHANGED vars
    <2>1. UNCHANGED <<pc, trigger_my_gc, gc_thread_stop, gc_mutex>>
          /\ (dpc' # "up" => dpc # "up") /\ (dpc # "up" => dpc' # "up")
          /\ (gpc' = gpc \/ gpc' = "lock")
        BY <1>8 DEF DeinitStep, DeinitSignal, DeinitJoin, SignalStart, vars, flags
    <2>2. QED
        BY <2>1 DEF WaitInv, AllIdle, OneClient
<1>9. QED
    BY <1>2, <1>4, <1>5, <1>6, <1>7, <1>8 DEF Next, GcStep, Terminated

(* Who waits is waited for: a collection is wanted, the GC thread is awake *)
(* and has not exited, and gc_mutex is its or free.                        *)
WaiterServed ==
    \A c \in Clients : pc[c] = "wait" =>
        /\ trigger_my_gc
        /\ gpc \notin {"towait", "wait", "exit"}
        /\ gc_mutex \in {Free, GCThread}

(* One client never waits in vain: whatever fails, whatever sizes it       *)
(* writes, and whether or not it is woken without a signal (WriteReturns). *)
(* A second client that waits may be passed over: stop_gc is signalled     *)
(* once, to one of them, and the trigger is gone.                          *)
THEOREM NoWaitInVain ==
    ASSUME OneClient
    PROVE  Spec => []WaiterServed
<1>1. Init => WaitInv
    BY DEF Init, WaitInv, AllIdle
<1>2. IInv /\ WaitInv /\ [Next]_vars => WaitInv'
    BY WaitStep DEF IInv
<1>3. IInv /\ TriggerSeen /\ WaitInv => WaiterServed
    <2> SUFFICES ASSUME IInv, TriggerSeen, WaitInv, NEW c \in Clients, pc[c] = "wait"
                 PROVE  /\ trigger_my_gc
                        /\ gpc \notin {"towait", "wait", "exit"}
                        /\ gc_mutex \in {Free, GCThread}
        BY DEF WaiterServed
    <2>1. trigger_my_gc /\ gc_mutex # c
        BY DEF WaitInv
    <2>2. gpc # "exit"
        BY DEF WaitInv, AllIdle
    <2>3. gc_mutex \in {Free, GCThread}
        BY <2>1 DEF IInv, TypeOK, SyncTypeOK, OneClient
    <2>4. QED
        BY <2>1, <2>2, <2>3 DEF TriggerSeen
<1>4. QED
    BY <1>1, <1>2, <1>3, Inductive, NoTriggerMissed, PTL DEF Spec

----------------------------------------------------------------------------
(* How much of a collection is left: the virtual zones to merge, and the   *)
(* place in the round.  It bounds the steps that trigger_gc still takes.   *)
Place ==
    IF gpc = "reset old" THEN 7
    ELSE IF gpc = "zone" THEN 6
    ELSE IF gpc = "reset in place" THEN 5
    ELSE IF gpc = "rewrite" THEN 4
    ELSE IF gpc \in {"write", "reset spare"} THEN 3
    ELSE IF gpc = "reset log" THEN 2
    ELSE IF gpc = "clear" THEN 1 ELSE 0

MergeWork == IF GcRuns THEN 8 * Cardinality(todo) + Place ELSE 0

LEMMA Places ==
    /\ gpc = "reset old" => Place = 7
    /\ gpc = "zone" => Place = 6
    /\ gpc = "reset in place" => Place = 5
    /\ gpc = "rewrite" => Place = 4
    /\ gpc \in {"write", "reset spare"} => Place = 3
    /\ gpc = "reset log" => Place = 2
    /\ gpc = "clear" => Place = 1
BY DEF Place

LEMMA PlacesNext ==
    /\ gpc' = "reset old" => Place' = 7
    /\ gpc' = "zone" => Place' = 6
    /\ gpc' = "reset in place" => Place' = 5
    /\ gpc' = "rewrite" => Place' = 4
    /\ gpc' \in {"write", "reset spare"} => Place' = 3
    /\ gpc' = "reset log" => Place' = 2
    /\ gpc' = "clear" => Place' = 1
BY DEF Place

(* The zone of a round is still to be merged until its round is over. *)
CurTodo == gpc \in {"write", "reset in place", "rewrite", "reset spare"} => cur \in todo

LEMMA CurTodoStep ==
    ASSUME CurTodo, [Next]_vars
    PROVE  CurTodo'
<1>1. ASSUME NEW c \in Clients,
             Call(c) \/ WriteStep(c) \/ ReadStep(c) \/ Return(c) \/ SpuriousWake(c)
      PROVE  CurTodo'
    <2>1. UNCHANGED merge /\ (gpc' = gpc \/ gpc' = "lock")
        BY <1>1 DEF Call, WriteCall, ReadCall, RejectedCall, Return, SpuriousWake,
                ReadStep, ReadFind, ReadEntry, ReadData, ReadDev, ReadDevFail,
                WriteStep, WriteLock, WriteWait, WriteGo, WriteAppend, WriteAppendFail,
                WriteLarge, WriteLargeFail, WriteMap, SignalStart
    <2>2. QED
        BY <2>1 DEF CurTodo, merge
<1>2. CASE \E v \in VZones : GcZone(v)
    BY <1>2 DEF GcZone, GcGoto, CurTodo
<1>3. CASE \E v \in VZones : GcZoneFail(v)
    BY <1>3 DEF GcZoneFail, GcGoto, CurTodo
<1>4. CASE GcResetInPlace \/ GcRewrite
    <2>1. UNCHANGED <<cur, todo>> /\ gpc \in {"reset in place", "rewrite"}
        BY <1>4 DEF GcResetInPlace, GcRewrite, merge
    <2>2. QED
        BY <2>1 DEF CurTodo
<1>5. CASE GcZonesDone \/ GcWriteFail \/ GcResetOld \/ GcRewriteFail \/ GcResetSpare
           \/ GcWrite \/ GcResetLog \/ GcCollect
    BY <1>5 DEF GcZonesDone, GcWriteFail, GcResetOld, GcRewriteFail, GcResetSpare, GcWrite,
            GcResetLog, GcCollect, GcGoto, CurTodo
<1>6. CASE GcClear \/ GcLock \/ GcIdle \/ GcWait \/ GcExit \/ GcSpuriousWake
    BY <1>6 DEF GcClear, GcLock, GcIdle, GcWait, GcExit, GcSpuriousWake, GcGoto, CurTodo
<1>7. CASE DeinitStop \/ DeinitStep \/ UNCHANGED vars
    <2>1. UNCHANGED merge /\ (gpc' = gpc \/ gpc' = "lock")
        BY <1>7 DEF DeinitStop, DeinitStep, DeinitSignal, DeinitJoin, SignalStart, vars
    <2>2. QED
        BY <2>1 DEF CurTodo, merge
<1>8. QED
    BY <1>1, <1>2, <1>3, <1>4, <1>5, <1>6, <1>7 DEF Next, GcStep, MergeStep, Terminated

(* How many zones are left. *)
LEMMA TodoCount ==
    ASSUME TypeOK
    PROVE  /\ IsFiniteSet(todo) /\ Cardinality(todo) \in 0 .. NumZones - LogZones
           /\ cur \in todo => Cardinality(todo \ {cur}) = Cardinality(todo) - 1
<1>1. LogZones \in Int /\ NumZones \in Int /\ LogZones < NumZones
    BY GeometryAssumption, FtlAssumption
<1>2. IsFiniteSet(VZones) /\ Cardinality(VZones) = NumZones - LogZones
    BY <1>1, FS_Interval DEF VZones
<1>3. todo \in SUBSET VZones
    BY DEF TypeOK, GcTypeOK
<1>4. IsFiniteSet(todo) /\ Cardinality(todo) <= NumZones - LogZones
    BY <1>2, <1>3, FS_Subset
<1>5. Cardinality(todo) \in Nat
    BY <1>4, FS_CardinalityType
<1>6. cur \in todo => Cardinality(todo \ {cur}) = Cardinality(todo) - 1
    BY <1>4, FS_RemoveElement
<1>7. QED
    BY <1>1, <1>4, <1>5, <1>6

LEMMA TodoCounted == TypeOK => Cardinality(todo) \in Nat
BY TodoCount, GeometryAssumption, FtlAssumption

LEMMA TodoCountNext == TypeOK' => (Cardinality(todo) \in Nat)'
BY TodoCounted, PTL

(* Every step of a collection takes some of its work away, and no other    *)
(* step of any thread adds to it.                                          *)
WorkShrinks ==
    GcRuns => /\ MergeWork \in 1 .. 8 * (NumZones - LogZones) + 7
              /\ IF gpc' = gpc THEN MergeWork' = MergeWork
                 ELSE MergeWork' \in 0 .. MergeWork - 1

LEMMA WorkStep ==
    ASSUME TypeOK, TypeOK', CurTodo, [Next]_vars
    PROVE  WorkShrinks
<1> DEFINE left == Cardinality(todo)
<1> SUFFICES ASSUME GcRuns
             PROVE  /\ MergeWork \in 1 .. 8 * (NumZones - LogZones) + 7
                    /\ IF gpc' = gpc THEN MergeWork' = MergeWork
                       ELSE MergeWork' \in 0 .. MergeWork - 1
    BY DEF WorkShrinks
<1>1. left \in Nat /\ left <= NumZones - LogZones /\ NumZones - LogZones \in Int
    BY TodoCount, GeometryAssumption, FtlAssumption
<1>2. gpc \in {"zone", "write", "reset old", "reset in place", "rewrite", "reset spare",
               "reset log", "clear"}
    BY DEF GcRuns, GcHolds, TypeOK, GcTypeOK, GcPcs
<1>3. MergeWork = 8 * left + Place /\ Place \in 1 .. 7
    <2>1. MergeWork = 8 * left + Place
        BY DEF MergeWork
    <2>2. Place \in {1, 2, 3, 4, 5, 6, 7}
        BY <1>2, Places
    <2>3. QED
        BY <2>1, <2>2
<1>4. MergeWork \in 1 .. 8 * (NumZones - LogZones) + 7
    BY <1>1, <1>3
<1>5. ASSUME UNCHANGED <<gpc, todo>> PROVE MergeWork' = MergeWork
    BY <1>5 DEF MergeWork, GcRuns, GcHolds, Place
<1>6. ASSUME UNCHANGED todo,
             \/ gpc = "zone" /\ gpc' \in {"reset in place", "write", "reset log"}
             \/ gpc = "reset old" /\ gpc' = "zone"
             \/ gpc = "reset in place" /\ gpc' = "rewrite"
             \/ gpc = "rewrite" /\ gpc' \in {"reset spare", "reset log"}
             \/ gpc = "write" /\ gpc' = "reset log"
             \/ gpc = "reset log" /\ gpc' = "clear"
      PROVE  gpc' # gpc /\ MergeWork' \in 0 .. MergeWork - 1
    <2>1. GcRuns'
        BY <1>6 DEF GcRuns, GcHolds
    <2>2. MergeWork' = 8 * left + Place'
        BY <1>6, <2>1 DEF MergeWork
    <2>3. gpc' # gpc
        BY <1>6
    <2>4. \/ Place = 6 /\ Place' \in {5, 3, 2}
          \/ Place = 7 /\ Place' = 6
          \/ Place = 5 /\ Place' = 4
          \/ Place = 4 /\ Place' \in {3, 2}
          \/ Place = 3 /\ Place' = 2
          \/ Place = 2 /\ Place' = 1
        BY <1>6, Places, PlacesNext
    <2>5. QED
        BY <1>1, <1>3, <2>2, <2>3, <2>4
<1>7. ASSUME gpc \in {"write", "reset spare"}, todo' = todo \ {cur},
             gpc' \in {"zone", "reset old"}
      PROVE  gpc' # gpc /\ MergeWork' \in 0 .. MergeWork - 1
    <2>1. Cardinality(todo') = left - 1
        BY <1>7, TodoCount DEF CurTodo
    <2>2. left - 1 \in Nat
        BY <2>1, TodoCountNext
    <2>3. GcRuns'
        BY <1>7 DEF GcRuns, GcHolds
    <2>4. MergeWork' = 8 * (left - 1) + Place'
        BY <2>1, <2>3 DEF MergeWork
    <2>5. Place' \in {6, 7} /\ Place = 3 /\ gpc' # gpc
        BY <1>7, Places, PlacesNext
    <2>6. QED
        BY <1>1, <1>3, <2>2, <2>4, <2>5
<1>8. CASE \E v \in VZones : GcZone(v)
    <2>1. UNCHANGED todo /\ gpc = "zone" /\ gpc' \in {"reset in place", "write"}
        BY <1>8 DEF GcZone, GcGoto
    <2>2. QED
        BY <1>4, <1>6, <2>1
<1>9. CASE (\E v \in VZones : GcZoneFail(v)) \/ GcZonesDone \/ GcWriteFail \/ GcResetOld
           \/ GcResetInPlace \/ GcRewrite \/ GcRewriteFail \/ GcResetLog
    <2>1. UNCHANGED todo
          /\ \/ gpc = "zone" /\ gpc' \in {"reset in place", "write", "reset log"}
             \/ gpc = "reset old" /\ gpc' = "zone"
             \/ gpc = "reset in place" /\ gpc' = "rewrite"
             \/ gpc = "rewrite" /\ gpc' \in {"reset spare", "reset log"}
             \/ gpc = "write" /\ gpc' = "reset log"
             \/ gpc = "reset log" /\ gpc' = "clear"
        BY <1>9 DEF GcZoneFail, GcZonesDone, GcWriteFail, GcResetOld, GcResetInPlace, GcRewrite,
                GcRewriteFail, GcResetLog, GcGoto, merge
    <2>2. QED
        BY <1>4, <1>6, <2>1
<1>10. CASE GcWrite \/ GcResetSpare
    <2>1. gpc \in {"write", "reset spare"} /\ todo' = todo \ {cur} /\ gpc' \in {"zone", "reset old"}
        BY <1>10 DEF GcWrite, GcResetSpare, GcGoto
    <2>2. QED
        BY <1>4, <1>7, <2>1
<1>11. CASE GcClear
    <2>1. gpc' = "lock" /\ gpc # "lock"
        BY <1>11 DEF GcClear, GcGoto
    <2>2. MergeWork' = 0
        BY <2>1 DEF MergeWork, GcRuns, GcHolds
    <2>3. QED
        BY <1>4, <2>1, <2>2
<1>12. CASE GcLock \/ GcIdle \/ GcWait \/ GcExit \/ GcCollect \/ GcSpuriousWake
    BY <1>2, <1>12 DEF GcLock, GcIdle, GcWait, GcExit, GcCollect, GcSpuriousWake
<1>13. ASSUME UNCHANGED merge, gpc' = IF gpc = "wait" THEN "lock" ELSE gpc
       PROVE  /\ MergeWork \in 1 .. 8 * (NumZones - LogZones) + 7
              /\ IF gpc' = gpc THEN MergeWork' = MergeWork
                 ELSE MergeWork' \in 0 .. MergeWork - 1
    <2>1. UNCHANGED <<gpc, todo>>
        BY <1>2, <1>13 DEF merge
    <2>2. QED
        BY <1>4, <1>5, <2>1
<1>14. ASSUME NEW c \in Clients,
              Call(c) \/ WriteStep(c) \/ ReadStep(c) \/ Return(c) \/ SpuriousWake(c)
       PROVE  UNCHANGED merge /\ gpc' = IF gpc = "wait" THEN "lock" ELSE gpc
    <2>1. UNCHANGED merge /\ gpc \notin {"wait"}
        BY <1>2, <1>14 DEF Call, WriteCall, ReadCall, RejectedCall, Return, SpuriousWake,
                ReadStep, ReadFind, ReadEntry, ReadData, ReadDev, ReadDevFail,
                WriteStep, WriteLock, WriteWait, WriteGo, WriteAppend, WriteAppendFail,
                WriteLarge, WriteLargeFail, WriteMap
    <2>2. gpc' = gpc
        BY <1>14, <2>1 DEF Call, WriteCall, ReadCall, RejectedCall, Return, SpuriousWake,
                ReadStep, ReadFind, ReadEntry, ReadData, ReadDev, ReadDevFail,
                WriteStep, WriteLock, WriteWait, WriteGo, WriteAppend, WriteAppendFail,
                WriteLarge, WriteLargeFail, WriteMap, SignalStart
    <2>3. QED
        BY <2>1, <2>2
<1>15. DeinitStop \/ DeinitStep \/ UNCHANGED vars
          => UNCHANGED merge /\ gpc' = IF gpc = "wait" THEN "lock" ELSE gpc
    BY <1>2 DEF DeinitStop, DeinitStep, DeinitSignal, DeinitJoin, SignalStart, vars
<1>16. QED
    BY <1>8, <1>9, <1>10, <1>11, <1>12, <1>13, <1>14, <1>15
       DEF Next, GcStep, MergeStep, Terminated

(* A refused write of a whole zone has a first command that is refused. *)
LEMMA GoesOrLands ==
    ASSUME NEW slba, ~ CanWrite(slba, ZoneCap)
    PROVE  LandedBlocks(slba, ZoneCap) # {}
<1> DEFINE T == {k \in Chunks(ZoneCap) : ~ ChunkAccepted(slba, ZoneCap, k)}
<1>1. T \in SUBSET Nat /\ T # {}
    BY GeometryAssumption DEF CanWrite, Chunks
<1>2. PICK j \in T : \A y \in T : j <= y
    BY <1>1, NatMin
<1>3. \A i \in 0 .. j - 1 : ChunkAccepted(slba, ZoneCap, i)
    BY <1>1, <1>2, GeometryAssumption DEF Chunks
<1>4. j * MDTS \in LandedBlocks(slba, ZoneCap)
    BY <1>2, <1>3 DEF LandedBlocks
<1>5. QED
    BY <1>4

(* A collection can always go on: its writes go through or are refused at  *)
(* some command, and no round waits for a lock or a condition.             *)
MergeGoesOn ==
    /\ gpc = "write" =>
          CanWrite(zone_number, ZoneCap) \/ LandedBlocks(zone_number, ZoneCap) # {}
    /\ gpc = "rewrite" =>
          \/ prev_zone # NoEntry /\ CanWrite(prev_zone, ZoneCap)
          \/ LandedBlocks(prev_zone, ZoneCap) # {}

LEMMA GoesOn == TypeOK => MergeGoesOn
<1>1. ~ CanWrite(NoEntry, ZoneCap)
    <2>1. 0 \in Chunks(ZoneCap)
        <3>1. ZoneCap + MDTS - 1 \in Nat /\ ZoneCap + MDTS - 1 >= MDTS /\ MDTS \in Nat \ {0}
            BY GeometryAssumption
        <3>2. (ZoneCap + MDTS - 1) \div MDTS >= 1
            BY <3>1
        <3>3. QED
            BY <3>1, <3>2 DEF Chunks
    <2>2. ~ ChunkAccepted(NoEntry, ZoneCap, 0)
        BY GeometryAssumption DEF ChunkAccepted, InOneZone, ChunkLba, NoEntry
    <2>3. QED
        BY <2>1, <2>2 DEF CanWrite
<1>2. QED
    BY <1>1, GoesOrLands DEF MergeGoesOn, TypeOK, GcTypeOK

(* A collection ends, after at most eight steps for each virtual zone and  *)
(* seven more, whatever fails on the way and whoever calls the device      *)
(* meanwhile; and it never has to wait for anything.  With fairness of the *)
(* GC thread that is what TriggerServed and WriteReturns need.             *)
THEOREM MergesEnd == Spec => [][WorkShrinks]_vars /\ []MergeGoesOn
<1>1. Init => CurTodo
    BY DEF Init, CurTodo
<1>2. IInv /\ CurTodo /\ [Next]_vars => CurTodo'
    BY CurTodoStep
<1>3. IInv /\ IInv' /\ CurTodo /\ [Next]_vars => [WorkShrinks]_vars
    BY WorkStep DEF IInv
<1>4. IInv => MergeGoesOn
    BY GoesOn DEF IInv
<1>5. QED
    BY <1>1, <1>2, <1>3, <1>4, Inductive, PTL DEF Spec

----------------------------------------------------------------------------
(* A write too long for what the watermark leaves of an empty log.         *)
TooLong(n) == n \div ZoneCap \in LogZones - Watermark .. LogZones

(* What a difference of unsigned numbers below zero wraps to. *)
LEMMA Wrapped ==
    ASSUME NEW m \in Int, NEW u \in Nat, 0 - u < m, m < 0
    PROVE  m % u = m + u
<1> DEFINE k == m \div u
           r == m % u
<1>1. k \in Int /\ r \in Int /\ 0 <= r /\ r < u /\ m = u * k + r
    OBVIOUS
<1> HIDE DEF k, r
<1>2. ~ (k >= 0)
    <2>1. k >= 0 => u * k >= 0
        BY <1>1
    <2>2. QED
        BY <1>1, <2>1
<1>3. ~ (k <= 0 - 2)
    <2>1. k <= 0 - 2 => u * (k + 2) <= 0
        BY <1>1
    <2>2. u * (k + 2) = u * k + 2 * u
        BY <1>1
    <2>3. QED
        BY <1>1, <2>1, <2>2
<1>4. k = 0 - 1
    BY <1>1, <1>2, <1>3
<1>5. r = m + u
    BY <1>1, <1>4
<1>6. QED
    BY <1>5 DEF r

LEMMA EmptyLogRoom ==
    ASSUME NEW n \in 1 .. BufBlocks, log_zone_end = 0
    PROVE  LogIsLow(n) <=> TooLong(n)
<1> USE GeometryAssumption, FtlAssumption
<1> DEFINE q == n \div ZoneCap
<1>1. NumZones * ZoneCap \in Nat /\ NumZones <= NumZones * ZoneCap
    BY Layout
<1>2. U32 > NumZones + NumZones + BufBlocks
    <2>1. 2 * NumZones * ZoneCap = NumZones * ZoneCap + NumZones * ZoneCap
        OBVIOUS
    <2>2. QED
        BY <1>1, <2>1
<1>3. (log_zone_end + n) % U32 = n
    BY <1>2
<1>4. q \in Nat /\ q <= BufBlocks
    OBVIOUS
<1> HIDE DEF q
<1>5. CASE q <= LogZones
    <2>1. LogZones - q \in Nat /\ LogZones - q < U32
        BY <1>2, <1>4, <1>5
    <2>2. (LogZones - q) % U32 = LogZones - q
        BY <2>1
    <2>3. QED
        BY <1>3, <1>4, <1>5, <2>2 DEF LogIsLow, free_zone_number, TooLong, q
<1>6. CASE q > LogZones
    <2>1. /\ LogZones - q \in Int /\ 0 - U32 < LogZones - q /\ LogZones - q < 0
          /\ LogZones - q + U32 > Watermark
        BY <1>2, <1>4, <1>6
    <2>2. (LogZones - q) % U32 = LogZones - q + U32
        BY <2>1, Wrapped
    <2>3. QED
        BY <1>3, <1>4, <1>6, <2>1, <2>2 DEF LogIsLow, free_zone_number, TooLong, q
<1>7. QED
    BY <1>4, <1>5, <1>6

(* A writer that finds the log empty goes on exactly if its write is not   *)
(* too long for the log.                                                   *)
EmptyLogServes ==
    \A c \in Clients : pc[c] = "check" /\ log_zone_end = 0 =>
        /\ pc'[c] = "wait" => TooLong(req[c].n)
        /\ pc'[c] = "write" => ~ TooLong(req[c].n)

LEMMA ServeStep ==
    ASSUME TypeOK, [Next]_vars
    PROVE  EmptyLogServes
<1>1. SUFFICES ASSUME NEW c \in Clients, pc[c] = "check", log_zone_end = 0
               PROVE  /\ pc'[c] = "wait" => TooLong(req[c].n)
                      /\ pc'[c] = "write" => ~ TooLong(req[c].n)
    BY DEF EmptyLogServes
<1>2. pc \in [Clients -> ClientPcs] /\ req[c].n \in 1 .. BufBlocks
    BY DEF TypeOK, ClientTypeOK
<1>3. CASE WriteWait(c) \/ WriteGo(c)
    <2>1. \/ pc'[c] = "wait" /\ LogIsLow(req[c].n)
          \/ pc'[c] = "write" /\ ~ LogIsLow(req[c].n)
        BY <1>2, <1>3 DEF WriteWait, WriteGo, Goto
    <2>2. QED
        BY <1>1, <1>2, <2>1, EmptyLogRoom
<1>4. CASE ~ WriteWait(c) /\ ~ WriteGo(c)
    <2>1. ASSUME NEW d \in Clients,
                 Call(d) \/ WriteStep(d) \/ ReadStep(d) \/ Return(d) \/ SpuriousWake(d)
          PROVE  pc'[c] \notin {"wait", "write"}
        <3>1. CASE d = c
            BY <1>1, <1>4, <2>1, <3>1 DEF Call, WriteCall, ReadCall, RejectedCall, Return, SpuriousWake,
                    ReadStep, ReadFind, ReadEntry, ReadData, ReadDev, ReadDevFail,
                    WriteStep, WriteLock, WriteAppend, WriteAppendFail,
                    WriteLarge, WriteLargeFail, WriteMap
        <3>2. CASE d # c
            BY <1>1, <1>2, <2>1, <3>2 DEF Call, WriteCall, ReadCall, RejectedCall, Return, SpuriousWake,
                    ReadStep, ReadFind, ReadEntry, ReadData, ReadDev, ReadDevFail,
                    WriteStep, WriteLock, WriteWait, WriteGo, WriteAppend, WriteAppendFail,
                    WriteLarge, WriteLargeFail, WriteMap, Goto, Leave
        <3>3. QED
            BY <3>1, <3>2
    <2>2. GcStep \/ GcSpuriousWake \/ DeinitStop \/ DeinitStep \/ UNCHANGED vars => pc'[c] = "check"
        BY <1>1, <1>2 DEF GcStep, MergeStep, GcZone, GcZoneFail, GcZonesDone, GcWrite,
                GcWriteFail, GcResetOld, GcResetInPlace, GcRewrite, GcRewriteFail, GcResetSpare,
                GcCollect, GcResetLog, GcClear, GcLock, GcIdle, GcWait, GcExit, GcSpuriousWake,
                SignalStop, DeinitStop, DeinitStep, DeinitSignal, DeinitJoin, vars, Goto
    <2>3. QED
        BY <2>1, <2>2 DEF Next, Terminated
<1>5. QED
    BY <1>3, <1>4

(* An empty log, as a collection leaves it, is room enough for any write   *)
(* that the watermark allows; one of LogZones - Watermark to LogZones      *)
(* whole zones waits again after every collection (a longer one wraps the  *)
(* difference and is let through).                                         *)
THEOREM RoomAfterCollection == Spec => [][EmptyLogServes]_vars
<1>1. IInv /\ [Next]_vars => [EmptyLogServes]_vars
    BY ServeStep DEF IInv
<1>2. QED
    BY <1>1, Inductive, PTL DEF Spec

----------------------------------------------------------------------------
(* gc_mutex is held by a client that is not between lock and unlock: its   *)
(* write has failed.                                                       *)
Keeps(c) == gc_mutex = c /\ pc[c] \notin {"check", "write", "map"}

(* It keeps it, and nothing that writes or collects goes on.               *)
Frozen ==
    \A c \in Clients : Keeps(c) =>
        /\ Keeps(c)'
        /\ UNCHANGED <<device, log_zone_end, data_zone_mapping, zone_states, last>>

LEMMA FrozenStep ==
    ASSUME TypeOK, MutexInv, [Next]_vars
    PROVE  Frozen
<1>1. SUFFICES ASSUME NEW c \in Clients, Keeps(c)
               PROVE  /\ Keeps(c)'
                      /\ UNCHANGED <<device, log_zone_end, data_zone_mapping, zone_states, last>>
    BY DEF Frozen
<1>2. pc \in [Clients -> ClientPcs] /\ gc_mutex = c /\ c # Free /\ c # GCThread
    BY <1>1, FtlAssumption DEF TypeOK, ClientTypeOK, Keeps
<1>3. \A d \in Clients : pc[d] \notin {"check", "write", "map"}
    BY <1>1, <1>2 DEF MutexInv, Keeps
<1>4. gpc \in {"lock", "wait", "exit"}
    BY <1>2 DEF MutexInv, GcHolds
<1>5. ASSUME NEW d \in Clients,
             Call(d) \/ WriteStep(d) \/ ReadStep(d) \/ Return(d) \/ SpuriousWake(d)
      PROVE  /\ UNCHANGED <<gc_mutex, device, log_zone_end, data_zone_mapping, zone_states, last>>
             /\ pc'[c] = pc[c] \/ pc'[c] \notin {"check", "write", "map"}
    <2>1. ~ WriteStep(d)
        BY <1>2, <1>3 DEF WriteStep, WriteLock, WriteWait, WriteGo, WriteAppend, WriteAppendFail,
                WriteLarge, WriteLargeFail, WriteMap
    <2>2. UNCHANGED <<gc_mutex, device, log_zone_end, data_zone_mapping, zone_states, last>>
        BY <1>5, <2>1 DEF Call, WriteCall, ReadCall, RejectedCall, Return, SpuriousWake,
                ReadStep, ReadFind, ReadEntry, ReadData, ReadDev, ReadDevFail, meta
    <2>3. pc'[c] = pc[c] \/ pc'[c] \notin {"check", "write", "map"}
        BY <1>2, <1>5, <2>1 DEF Call, WriteCall, ReadCall, RejectedCall, Return, SpuriousWake,
                ReadStep, ReadFind, ReadEntry, ReadData, ReadDev, ReadDevFail, Goto, Leave
    <2>4. QED
        BY <2>2, <2>3
<1>6. GcStep \/ GcSpuriousWake \/ DeinitStop \/ DeinitStep \/ UNCHANGED vars
          => UNCHANGED <<pc, gc_mutex, device, log_zone_end, data_zone_mapping, zone_states, last>>
    BY <1>2, <1>4 DEF GcStep, MergeStep, GcZone, GcZoneFail, GcZonesDone, GcWrite,
            GcWriteFail, GcResetOld, GcResetInPlace, GcRewrite, GcRewriteFail, GcResetSpare,
            GcCollect, GcResetLog, GcClear, GcLock, GcIdle, GcWait, GcExit, GcSpuriousWake,
            DeinitStop, DeinitStep, DeinitSignal, DeinitJoin, vars, meta
<1>7. QED
    BY <1>1, <1>5, <1>6 DEF Next, Terminated, Keeps

(* After a write that failed nothing is written or collected any more, by  *)
(* any thread, and the calls that want to are stuck: the mutex that it     *)
(* left locked is locked for good (zns_device.cpp:548).  What was stored   *)
(* stays as it is, and can be read.                                        *)
THEOREM FailureFreezes == Spec => [][Frozen]_vars
<1>1. IInv /\ [Next]_vars => [Frozen]_vars
    BY FrozenStep DEF IInv
<1>2. QED
    BY <1>1, Inductive, PTL DEF Spec

============================================================================
