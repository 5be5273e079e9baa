------------------------------- MODULE M1Proofs -------------------------------
(***************************************************************************)
(* Theorems about M1: for every geometry, number of threads, transfer      *)
(* limit and number of faults, the chunk loop moves every block to its     *)
(* place, no test fails on a device that works, and test 3 counts its      *)
(* errors and ends its rounds.  Last, why its threads quit.                *)
(***************************************************************************)
EXTENDS M1, ZNSProofs, FiniteSetTheorems

(***************************************************************************)
(* What the transfer loop needs of the sizes: a limit is a multiple of the *)
(* block, and nlb can count its blocks, or those of a zone.                *)
(***************************************************************************)
SizesFit ==
    \A s \in LbaSizes, m \in Mdts \ {0} :
        2 ^ m % s = 0 /\ (2 ^ m \div s <= U16 \/ ZoneCap <= U16)

Pcs == {"setup", "test1", "test2", "reset2", "io", "spawn", "wait", "join", "verdict", "abort"}
ThreadPcs == {"none", "calloc", "loop", "write", "appended", "written", "read", "done"}

ThreadTypeOK ==
    /\ th \in [Thread -> [pc : ThreadPcs, wptr : Offsets, wdata : Payload, rdata : Payload,
                          ret : {0, EIO}, xappend : Int]]
    /\ errors \in Nat

TypeOK ==
    /\ DeviceTypeOK
    /\ ThreadTypeOK
    /\ mode \in {"tests", "parallel"}
    /\ pc \in Pcs
    /\ pc \in {"setup", "test1"} => step \in 1 .. 9
    /\ pc = "io" => io.dir \in {"write", "read"}
    /\ returned \in Int
    /\ lba_size \in LbaSizes
    /\ mdts \in Nat /\ identified \in {0, mdts}
    /\ stdin \in BOOLEAN
    /\ drawn \in Zones
    /\ io \in [dir : {"none", "write", "read"}, lba : Int, left : Int, ptr : Int, ret : {0, ENOSYS}]
    /\ data \in [Offsets -> Payload]
    /\ t1 \in Int /\ t2 \in Int
    /\ faults \in Nat

(* Tests 1 and 2 use the device alone; test 3 looks at no request. *)
ModeInv ==
    /\ mode = "tests" => /\ pc \notin {"spawn", "wait", "join"}
                         /\ mdts \in Mdts
                         /\ errors = 0
                         /\ \A t \in Thread : th[t] = Asleep
    /\ mode = "parallel" => pc \in {"setup", "spawn", "wait", "join", "verdict", "abort"} /\ mdts = 0

----------------------------------------------------------------------------
(* The device, seen by zone and offset *)

(* Among the blocks from offset k of zone z on are those of no other zone. *)
LEMMA BlocksFrom ==
    ASSUME NEW z \in Zones, NEW w \in Zones, NEW k \in Nat, NEW n \in Nat, k + n <= ZoneCap,
           NEW j \in Offsets
    PROVE  /\ (Slba(w) + j >= Slba(z) + k /\ Slba(w) + j < Slba(z) + k + n)
                 <=> (w = z /\ j >= k /\ j < k + n)
           /\ Slba(w) + j \in LBAs
<1>1. z \in Int /\ w \in Int /\ Slba(z) \in Int /\ Slba(w) \in Int /\ j \in Int /\ 0 <= j /\ j < ZoneCap
    BY GeometryAssumption DEF Zones, Slba, Offsets
<1>2. CASE w < z
    <2>1. Slba(w) + ZoneCap <= Slba(z)
        BY <1>1, <1>2, SlbaMono
    <2> QED
        BY <1>1, <1>2, <2>1, BlockLba, GeometryAssumption
<1>3. CASE w > z
    <2>1. Slba(z) + ZoneCap <= Slba(w)
        BY <1>1, <1>3, SlbaMono
    <2> QED
        BY <1>1, <1>3, <2>1, BlockLba, GeometryAssumption
<1>4. CASE w = z
    BY <1>1, <1>4, BlockLba
<1> QED
    BY <1>1, <1>2, <1>3, <1>4

(* Storing n blocks from offset k of zone z on. *)
LEMMA StoredBlocks ==
    ASSUME NEW z \in Zones, NEW k \in Nat, NEW n \in Nat, k + n <= ZoneCap, NEW b,
           NEW w \in Zones, NEW j \in Offsets
    PROVE  Stored(Slba(z) + k, n, b)[Slba(w) + j]
             = IF w = z /\ j >= k /\ j < k + n THEN b[j - k] ELSE blk[Slba(w) + j]
<1>a. (Slba(w) + j >= Slba(z) + k /\ Slba(w) + j < Slba(z) + k + n)
           <=> (w = z /\ j >= k /\ j < k + n)
    BY BlocksFrom
<1>b. Slba(w) + j \in LBAs
    BY BlocksFrom
<1>c. w = z => (Slba(w) + j) - (Slba(z) + k) = j - k
    <2>1. Slba(z) \in Int /\ j \in Int
        BY GeometryAssumption DEF Zones, Slba, Offsets
    <2> QED
        BY <2>1
<1>0. /\ (Slba(w) + j >= Slba(z) + k /\ Slba(w) + j < Slba(z) + k + n)
           <=> (w = z /\ j >= k /\ j < k + n)
      /\ Slba(w) + j \in LBAs
      /\ w = z => (Slba(w) + j) - (Slba(z) + k) = j - k
    BY <1>a, <1>b, <1>c
<1> DEFINE l == Slba(w) + j
           a == Slba(z) + k
<1>1. /\ (l >= a /\ l < a + n) <=> (w = z /\ j >= k /\ j < k + n)
      /\ l \in LBAs
      /\ w = z => l - a = j - k
    BY <1>0
<1>2. Stored(a, n, b)[l] = IF l >= a /\ l < a + n THEN b[l - a] ELSE blk[l]
    BY <1>1 DEF Stored
<1> HIDE DEF l, a
<1>3. Stored(a, n, b)[l] = IF w = z /\ j >= k /\ j < k + n THEN b[j - k] ELSE blk[l]
    BY <1>1, <1>2
<1> QED
    BY <1>3 DEF l, a

(* A write, or an append, of n blocks at the write pointer. *)
LEMMA WriteEffect ==
    ASSUME DeviceTypeOK, NEW z \in Zones, NEW k \in Nat, NEW n \in Nat \ {0}, k + n <= ZoneCap,
           wp[z] = k, NEW b,
           nvme_write(Slba(z) + k, n, b) \/ nvme_zns_append(z, n, b)
    PROVE  /\ wp' = [wp EXCEPT ![z] = k + n]
           /\ \A w \in Zones, j \in Offsets :
                 blk'[Slba(w) + j] =
                    IF w = z /\ j >= k /\ j < k + n THEN b[j - k] ELSE blk[Slba(w) + j]
<1>1. blk' = Stored(Slba(z) + k, n, b)
    BY DEF nvme_write, nvme_zns_append, AppendLba
<1>2. wp' = [wp EXCEPT ![z] = k + n]
    <2>1. CASE nvme_zns_append(z, n, b)
        BY <2>1 DEF nvme_zns_append
    <2>2. CASE nvme_write(Slba(z) + k, n, b)
        <3> DEFINE V(w) == IF n > 0 /\ Slba(w) < Slba(z) + k + n /\ Slba(z) + k < Slba(w + 1)
                           THEN IF Slba(z) + k + n < Slba(w + 1) THEN Slba(z) + k + n - Slba(w) ELSE ZoneCap
                           ELSE wp[w]
        <3>1. wp' = [w \in Zones |-> V(w)]
            BY <2>2 DEF nvme_write
        <3>2. ASSUME NEW w \in Zones PROVE V(w) = IF w = z THEN k + n ELSE wp[w]
            <4>1. /\ z \in Int /\ w \in Int /\ Slba(z) \in Int /\ Slba(w) \in Int
                  /\ Slba(w + 1) \in Int /\ Slba(w + 1) = Slba(w) + ZoneCap
                BY GeometryAssumption DEF Zones, Slba
            <4>2. w < z => Slba(w) + ZoneCap <= Slba(z)
                BY <4>1, SlbaMono
            <4>3. z < w => Slba(z) + ZoneCap <= Slba(w)
                BY <4>1, SlbaMono
            <4> QED
                BY <4>1, <4>2, <4>3, GeometryAssumption
        <3>3. wp' = [w \in Zones |-> IF w = z THEN k + n ELSE wp[w]]
            BY <3>1, <3>2
        <3> QED
            BY <3>3 DEF DeviceTypeOK
    <2> QED
        BY <2>1, <2>2
<1>3. ASSUME NEW w \in Zones, NEW j \in Offsets
      PROVE  blk'[Slba(w) + j] = IF w = z /\ j >= k /\ j < k + n THEN b[j - k] ELSE blk[Slba(w) + j]
    BY <1>1, StoredBlocks
<1> QED
    BY <1>2, <1>3

LEMMA ResetEffect ==
    ASSUME DeviceTypeOK, NEW z \in Zones, nvme_zns_reset({z})
    PROVE  /\ wp' = [wp EXCEPT ![z] = 0]
           /\ \A w \in Zones, j \in Offsets :
                 blk'[Slba(w) + j] = IF w = z THEN Zero ELSE blk[Slba(w) + j]
<1>1. ASSUME NEW w \in Zones, NEW j \in Offsets
      PROVE  Slba(w) + j \in LBAs /\ ZoneOf(Slba(w) + j) = w
    <2>1. w \in Int
        BY DEF Zones
    <2> QED
        BY <2>1, BlockLba, ZoneOfSlba
<1> QED
    BY <1>1 DEF nvme_zns_reset, DeviceTypeOK

----------------------------------------------------------------------------
(* Types *)

(* The nine lines of test 1. *)
LEMMA ScriptLines ==
    /\ Len(Script) = 9
    /\ Script[1] = line("identify", 0, 0, FALSE) /\ Script[2] = line("reset", 0, 0, FALSE)
    /\ Script[3] = line("write", 0, 1, FALSE) /\ Script[4] = line("read", 0, 1, FALSE)
    /\ Script[5] = line("reset", 0, 0, TRUE) /\ Script[6] = line("write", 0, 2, TRUE)
    /\ Script[7] = line("append", 2, 2, TRUE) /\ Script[8] = line("write", -1, 1, TRUE)
    /\ Script[9] = line("read", 0, 5, TRUE)
BY DEF Script

LEMMA ScriptTypes ==
    ASSUME NEW k \in 1 .. 9
    PROVE  /\ Script[k].op \in {"identify", "write", "read", "append", "reset"}
           /\ Script[k].at \in Int
           /\ Script[k].n \in Nat
<1>1. k \in {1, 2, 3, 4, 5, 6, 7, 8, 9}
    OBVIOUS
<1> QED
    BY <1>1, ScriptLines DEF line

LEMMA PatternType ==
    ASSUME NEW b \in Int
    PROVE  b % Period \in Payload /\ Pattern(b) \in Payload /\ Pattern(b) # Zero /\ b % Period # Zero
<1>1. b * Bytes \in Int
    BY M1Assumption
<1>2. b % Period \in Data /\ (b * Bytes) % Period \in Data
    BY <1>1, M1Assumption
<1> QED
    BY <1>2, GeometryAssumption DEF Pattern, Payload

(* A command the device accepts leaves a device behind. *)
LEMMA EffectType ==
    ASSUME DeviceTypeOK, NEW op \in {"identify", "write", "read", "append", "reset"},
           NEW lba \in Int, NEW n \in Nat, NEW buf \in [Offsets -> Payload],
           Accepted(op, lba, n), Effect(op, lba, n, buf)
    PROVE  DeviceTypeOK'
<1>0. OffsetOf(lba) \in Offsets /\ ZoneOf(lba) \in Int
    BY SplitLba
<1>1. CASE op = "write"
    <2>1. InOneZone(lba, n) /\ nvme_write(lba, n, buf)
        BY <1>1 DEF Accepted, Effect
    <2>2. n <= ZoneCap
        BY <1>0, <2>1, GeometryAssumption DEF InOneZone, Offsets
    <2>3. \A j \in 0 .. n - 1 : buf[j] \in Payload
        BY <2>2, GeometryAssumption DEF Offsets
    <2> QED
        BY <2>1, <2>3, WriteType
<1>2. CASE op = "append"
    <2>1. CanAppend(ZoneOf(lba), n) /\ nvme_zns_append(ZoneOf(lba), n, buf)
        BY <1>2 DEF Accepted, Effect
    <2>2. n <= ZoneCap
        BY <2>1, GeometryAssumption DEF CanAppend, DeviceTypeOK
    <2>3. \A j \in 0 .. n - 1 : buf[j] \in Payload
        BY <2>2, GeometryAssumption DEF Offsets
    <2> QED
        BY <2>1, <2>3, AppendType
<1>3. CASE op = "reset"
    <2>1. nvme_zns_reset({ZoneOf(lba)})
        BY <1>3 DEF Effect
    <2> QED
        BY <2>1, ResetType
<1>4. CASE op \in {"identify", "read"}
    BY <1>4 DEF Effect, device, DeviceTypeOK
<1> QED
    BY <1>1, <1>2, <1>3, <1>4

(* The commands of the chunk loop. *)
LEMMA CommandType ==
    ASSUME TypeOK
    PROVE  /\ lba_size \in Nat \ {0}
           /\ get_mdts_size \in Int
           /\ single_io_size \in Int
           /\ numbers \in Int
           /\ CommandBlocks \in 1 .. U16
           /\ BufferFrom \in Int
           /\ [b \in Offsets |-> IF BufferFrom + b \in Offsets THEN data[BufferFrom + b] ELSE Zero]
                \in [Offsets -> Payload]
<1>1. lba_size \in Nat \ {0} /\ io.left \in Int /\ io.ptr \in Int
    BY M1Assumption DEF TypeOK
<1>2. get_mdts_size \in Int
    BY DEF TypeOK, get_mdts_size
<1>3. single_io_size \in Int
    BY <1>1, <1>2 DEF single_io_size
<1>4. numbers \in Int /\ BufferFrom \in Int
    BY <1>1, <1>3 DEF numbers, BufferFrom
<1>5. CommandBlocks \in 1 .. U16
    BY <1>4, M1Assumption DEF CommandBlocks
<1>6. \A b \in Offsets : (IF BufferFrom + b \in Offsets THEN data[BufferFrom + b] ELSE Zero) \in Payload
    BY DEF TypeOK, Payload
<1> QED
    BY <1>1, <1>2, <1>3, <1>4, <1>5, <1>6

(* The zone of a thread. *)
LEMMA ThreadZone ==
    ASSUME NEW t \in Thread
    PROVE  t \in Zones /\ t \in Nat /\ ZoneOfThread(t) = t
BY M1Assumption, GeometryAssumption DEF Thread, Zones, ZoneOfThread

LEMMA InitTypes == Init => TypeOK /\ ModeInv
<1> SUFFICES ASSUME Init PROVE TypeOK /\ ModeInv
    OBVIOUS
<1> USE M1Assumption, GeometryAssumption DEF Init
<1>1. DeviceTypeOK
    BY DEF DeviceTypeOK, Payload
<1>2. ThreadTypeOK
    BY DEF ThreadTypeOK, Asleep, ThreadPcs, Offsets, Payload
<1>3. io \in [dir : {"none", "write", "read"}, lba : Int, left : Int, ptr : Int, ret : {0, ENOSYS}]
    BY DEF Idle
<1>4. data \in [Offsets -> Payload]
    BY DEF Payload
<1>5. mdts \in Nat /\ drawn \in Zones
    BY DEF Zones
<1>s. stdin \in BOOLEAN
    <2>1. stdin \in IF mode = "tests" THEN BOOLEAN ELSE {TRUE}
        BY DEF Init
    <2> QED
        BY <2>1, Zenon
<1>6. TypeOK
    BY <1>1, <1>2, <1>3, <1>4, <1>5, <1>s DEF TypeOK, Pcs
<1>7. ModeInv
    BY DEF ModeInv
<1> QED
    BY <1>6, <1>7

LEMMA ScriptStep ==
    ASSUME TypeOK, pc = "test1"
    PROVE  /\ step \in 1 .. 9
           /\ Script[step].op \in {"identify", "write", "read", "append", "reset"}
           /\ Script[step].n \in Nat
           /\ Script[step].at \in Int
           /\ Lba(Script[step]) \in Int
           /\ Block \in [Offsets -> Payload]
           /\ AppendLba(drawn) \in Int
<1>1. step \in 1 .. 9
    BY DEF TypeOK
<1>2. /\ Script[step].op \in {"identify", "write", "read", "append", "reset"}
      /\ Script[step].n \in Nat
      /\ Script[step].at \in Int
    BY <1>1, ScriptTypes
<1>3. drawn \in Int /\ wp[drawn] \in Int /\ Slba(drawn) \in Int /\ returned \in Int
    BY GeometryAssumption DEF TypeOK, DeviceTypeOK, Zones, Slba
<1>4. Lba(Script[step]) \in Int /\ AppendLba(drawn) \in Int
    BY <1>2, <1>3 DEF Lba, AppendLba
<1>5. Block \in [Offsets -> Payload]
    BY PatternType DEF Block
<1> QED
    BY <1>1, <1>2, <1>4, <1>5

LEMMA ThreadFacts ==
    ASSUME TypeOK, NEW t \in Thread
    PROVE  /\ th[t].pc \in ThreadPcs /\ th[t].wptr \in Offsets /\ th[t].wptr \in Nat
           /\ th[t].wdata \in Payload /\ th[t].rdata \in Payload
           /\ th[t].ret \in {0, EIO} /\ th[t].xappend \in Int
           /\ t \in Zones /\ t \in Nat /\ ZoneOfThread(t) = t /\ Slba(t) \in Int
           /\ Slba(t) + th[t].wptr \in LBAs /\ Slba(t) + th[t].wptr \in Int
           /\ ZoneOf(Slba(t) + th[t].wptr) = t /\ OffsetOf(Slba(t) + th[t].wptr) = th[t].wptr
           /\ Start(t) \in Int /\ Written(t) \in Payload
           /\ ThreadOp(t) \in {"write", "append"}
<1>1. /\ th[t].pc \in ThreadPcs /\ th[t].wptr \in Offsets /\ th[t].wdata \in Payload
      /\ th[t].rdata \in Payload /\ th[t].ret \in {0, EIO} /\ th[t].xappend \in Int
    BY DEF TypeOK, ThreadTypeOK
<1>2. th[t].wptr \in Nat
    BY <1>1, GeometryAssumption DEF Offsets
<1>3. t \in Zones /\ t \in Nat /\ ZoneOfThread(t) = t
    BY ThreadZone
<1>4. Slba(t) \in Int
    BY <1>3, GeometryAssumption DEF Slba
<1>5. /\ Slba(t) + th[t].wptr \in LBAs /\ Slba(t) + th[t].wptr \in Int
      /\ ZoneOf(Slba(t) + th[t].wptr) = t /\ OffsetOf(Slba(t) + th[t].wptr) = th[t].wptr
    BY <1>1, <1>2, <1>3, <1>4, BlockLba, ZoneOfSlba
<1>6. Start(t) \in Int
    BY <1>2, <1>3, M1Assumption DEF Start
<1>7. Written(t) \in Payload
    BY <1>1, <1>6, PatternType DEF Written
<1>8. ThreadOp(t) \in {"write", "append"}
    BY DEF ThreadOp
<1> QED
    BY <1>1, <1>2, <1>3, <1>4, <1>5, <1>6, <1>7, <1>8

LEMMA DeviceStep == TypeOK /\ Next => DeviceTypeOK'
<1> SUFFICES ASSUME TypeOK, Next PROVE DeviceTypeOK'
    OBVIOUS
<1>0. DeviceTypeOK
    BY DEF TypeOK
<1>1. CASE Test1Step
    <2>1. pc = "test1" /\ Accepted(Script[step].op, Lba(Script[step]), Script[step].n)
          /\ Effect(Script[step].op, Lba(Script[step]), Script[step].n, Block)
        BY <1>1 DEF Test1Step
    <2> QED
        BY <1>0, <2>1, ScriptStep, EffectType
<1>2. CASE Test2Reset
    <2>1. CASE UNCHANGED device
        BY <1>0, <2>1 DEF device, DeviceTypeOK
    <2>2. CASE nvme_zns_reset({ZoneOf(Descriptor(drawn).zslba)})
        BY <1>0, <2>2, ResetType
    <2> QED
        BY <1>2, <2>1, <2>2 DEF Test2Reset
<1>3. CASE IoCommand
    <2> DEFINE buf == [b \in Offsets |-> IF BufferFrom + b \in Offsets THEN data[BufferFrom + b] ELSE Zero]
    <2>1. Accepted(io.dir, io.lba, CommandBlocks) /\ Effect(io.dir, io.lba, CommandBlocks, buf)
        BY <1>3 DEF IoCommand
    <2>2. CommandBlocks \in Nat /\ buf \in [Offsets -> Payload]
        BY CommandType, M1Assumption
    <2>3. io.dir \in {"identify", "write", "read", "append", "reset"} /\ io.lba \in Int
        BY <1>3 DEF TypeOK, IoCommand
    <2> HIDE DEF buf
    <2> QED
        BY <1>0, <2>1, <2>2, <2>3, EffectType
<1>4. ASSUME NEW t \in Thread, ThreadNext(t) PROVE DeviceTypeOK'
    <2>1. CASE ThreadLoop(t)
        BY <1>0, <2>1, ResetType DEF ThreadLoop, device, DeviceTypeOK
    <2>2. CASE ThreadWrite(t)
        <3> DEFINE buf == [b \in Offsets |-> Written(t)]
                   lba == Slba(ZoneOfThread(t)) + th[t].wptr
        <3>1. CASE UNCHANGED device
            BY <1>0, <3>1 DEF device, DeviceTypeOK
        <3>2. CASE Accepted(ThreadOp(t), lba, 1) /\ Effect(ThreadOp(t), lba, 1, buf)
            <4>1. lba \in Int /\ buf \in [Offsets -> Payload]
                  /\ ThreadOp(t) \in {"identify", "write", "read", "append", "reset"}
                BY ThreadFacts
            <4> HIDE DEF lba, buf
            <4> QED
                BY <1>0, <3>2, <4>1, EffectType
        <3> QED
            BY <2>2, <3>1, <3>2 DEF ThreadWrite
    <2>3. CASE UNCHANGED device
        BY <1>0, <2>3 DEF device, DeviceTypeOK
    <2> QED
        BY <1>4, <2>1, <2>2, <2>3
           DEF ThreadNext, ThreadCalloc, ThreadCheckAppend, ThreadCheckStatus, ThreadRead
<1>5. CASE UNCHANGED device
    BY <1>0, <1>5 DEF device, DeviceTypeOK
<1>6. Setup \/ Test1Fails \/ Test2Begin \/ IoFails \/ IoDone \/ Spawn \/ Sleep \/ StopThreads \/ Join
        \/ Ended => UNCHANGED device
    BY DEF Setup, Test1Fails, Test2Begin, IoFails, IoDone, Spawn, Sleep, StopThreads, Join, Ended, vars
<1> QED
    BY <1>1, <1>2, <1>3, <1>4, <1>5, <1>6 DEF Next, MainNext

(* What a step of a thread leaves to the other threads, and of itself. *)
LEMMA ThreadTypeStep == TypeOK /\ Next => ThreadTypeOK'
<1> SUFFICES ASSUME TypeOK, Next PROVE ThreadTypeOK'
    OBVIOUS
<1> DEFINE R == [pc : ThreadPcs, wptr : Offsets, wdata : Payload, rdata : Payload,
                 ret : {0, EIO}, xappend : Int]
<1>0. ThreadTypeOK /\ th \in [Thread -> R] /\ errors \in Nat
    BY DEF TypeOK, ThreadTypeOK
<1>1. CASE MainNext \/ Ended
    <2>1. CASE Spawn
        <3>1. PICK t \in Thread : th' = [th EXCEPT ![t].pc = "calloc"]
            BY <2>1 DEF Spawn
        <3>2. errors' = errors
            BY <2>1 DEF Spawn
        <3> QED
            BY <1>0, <3>1, <3>2 DEF ThreadTypeOK, ThreadPcs
    <2>2. CASE UNCHANGED <<th, errors>>
        BY <1>0, <2>2 DEF ThreadTypeOK
    <2>3. MainNext \/ Ended => Spawn \/ UNCHANGED <<th, errors>>
        BY DEF MainNext, Setup, Test1Step, Test1Fails, Test2Begin, Test2Reset, IoCommand, IoFails,
               IoDone, Sleep, StopThreads, Join, Ended, vars, threadVars
    <2> QED
        BY <1>1, <2>1, <2>2, <2>3
<1>2. ASSUME NEW t \in Thread, ThreadNext(t) PROVE ThreadTypeOK'
    <2> DEFINE lba == Slba(ZoneOfThread(t)) + th[t].wptr
    <2>1. ASSUME NEW r \in R, th' = [th EXCEPT ![t] = r], errors' \in Nat PROVE ThreadTypeOK'
        BY <1>0, <2>1 DEF ThreadTypeOK
    <2>2. th[t] \in R /\ errors + 1 \in Nat
        BY <1>0
    <2>z. 0 \in Offsets
        BY GeometryAssumption DEF Offsets
    <2>3. ASSUME CountError(t) PROVE ThreadTypeOK'
        <3>1. th' = [th EXCEPT ![t] = [th[t] EXCEPT !.pc = "done", !.ret = EIO]] /\ errors' = errors + 1
            BY <1>0, <2>3 DEF CountError
        <3>2. [th[t] EXCEPT !.pc = "done", !.ret = EIO] \in R
            BY <2>2 DEF ThreadPcs
        <3> QED
            BY <2>1, <2>2, <3>1, <3>2
    <2>4. ASSUME NEW at \in ThreadPcs, Goto(t, at) PROVE ThreadTypeOK'
        <3>1. th' = [th EXCEPT ![t] = [th[t] EXCEPT !.pc = at]] /\ errors' = errors
            BY <1>0, <2>4 DEF Goto
        <3>2. [th[t] EXCEPT !.pc = at] \in R
            BY <2>2, <2>4
        <3> QED
            BY <1>0, <2>1, <3>1, <3>2
    <2>5. CASE ThreadCalloc(t)
        BY <2>3, <2>4, <2>5 DEF ThreadCalloc, ThreadPcs
    <2>6. CASE ThreadLoop(t)
        <3>1. CASE th' = [th EXCEPT ![t].pc = "write", ![t].wptr = 0] /\ UNCHANGED errors
            <4>1. th' = [th EXCEPT ![t] = [th[t] EXCEPT !.pc = "write", !.wptr = 0]]
                BY <1>0, <3>1
            <4>2. [th[t] EXCEPT !.pc = "write", !.wptr = 0] \in R
                BY <2>2, <2>z DEF ThreadPcs
            <4> QED
                BY <1>0, <2>1, <3>1, <4>1, <4>2
        <3> QED
            BY <2>3, <2>4, <2>6, <3>1 DEF ThreadLoop, ThreadPcs
    <2>7. CASE ThreadWrite(t)
        <3>1. PICK at \in {"appended", "written"}, x \in Int, e \in {0, EIO} :
                th' = [th EXCEPT ![t].pc = at, ![t].wdata = Written(t), ![t].ret = e, ![t].xappend = x]
            <4>1. AppendLba(ZoneOfThread(t)) \in Int /\ lba \in Int /\ 0 \in Int
                <5>1. wp[t] \in Int
                    BY ThreadFacts, GeometryAssumption DEF TypeOK, DeviceTypeOK
                <5> QED
                    BY <5>1, ThreadFacts DEF AppendLba
            <4> QED
                BY <2>7, <4>1 DEF ThreadWrite
        <3>2. th' = [th EXCEPT ![t] = [th[t] EXCEPT !.pc = at, !.wdata = Written(t), !.ret = e, !.xappend = x]]
            BY <1>0, <3>1
        <3>3. [th[t] EXCEPT !.pc = at, !.wdata = Written(t), !.ret = e, !.xappend = x] \in R
            BY <2>2, ThreadFacts DEF ThreadPcs
        <3>4. errors' = errors
            BY <2>7 DEF ThreadWrite
        <3> QED
            BY <1>0, <2>1, <3>2, <3>3, <3>4
    <2>8. CASE ThreadCheckAppend(t)
        BY <2>3, <2>4, <2>8 DEF ThreadCheckAppend, ThreadPcs
    <2>n. ~ LastBlock(t) => th[t].wptr + 1 \in Offsets
        BY ThreadFacts, GeometryAssumption DEF LastBlock, Offsets
    <2>9. CASE ThreadCheckStatus(t)
        <3>1. CASE th' = [th EXCEPT ![t].pc = "read", ![t].wptr = 0] /\ UNCHANGED errors
            <4>1. th' = [th EXCEPT ![t] = [th[t] EXCEPT !.pc = "read", !.wptr = 0]]
                BY <1>0, <3>1
            <4>2. [th[t] EXCEPT !.pc = "read", !.wptr = 0] \in R
                BY <2>2, <2>z DEF ThreadPcs
            <4> QED
                BY <1>0, <2>1, <3>1, <4>1, <4>2
        <3>2. CASE ~ LastBlock(t) /\ th' = [th EXCEPT ![t].pc = "write", ![t].wptr = @ + 1] /\ UNCHANGED errors
            <4>1. th' = [th EXCEPT ![t] = [th[t] EXCEPT !.pc = "write", !.wptr = @ + 1]]
                BY <1>0, <3>2
            <4>2. [th[t] EXCEPT !.pc = "write", !.wptr = @ + 1] \in R
                BY <2>2, <2>n, <3>2 DEF ThreadPcs
            <4> QED
                BY <1>0, <2>1, <3>2, <4>1, <4>2
        <3> QED
            BY <2>3, <2>9, <3>1, <3>2 DEF ThreadCheckStatus
    <2>10. CASE ThreadRead(t)
        <3> DEFINE d == blk[lba]
        <3>1. d \in Payload
            BY ThreadFacts DEF TypeOK, DeviceTypeOK
        <3> HIDE DEF d
        <3>2. CASE th' = [th EXCEPT ![t].rdata = d, ![t].pc = "loop"] /\ UNCHANGED errors
            <4>1. th' = [th EXCEPT ![t] = [th[t] EXCEPT !.rdata = d, !.pc = "loop"]]
                BY <1>0, <3>2
            <4>2. [th[t] EXCEPT !.rdata = d, !.pc = "loop"] \in R
                BY <2>2, <3>1 DEF ThreadPcs
            <4> QED
                BY <1>0, <2>1, <3>2, <4>1, <4>2
        <3>3. CASE ~ LastBlock(t) /\ th' = [th EXCEPT ![t].rdata = d, ![t].wptr = @ + 1] /\ UNCHANGED errors
            <4>1. th' = [th EXCEPT ![t] = [th[t] EXCEPT !.rdata = d, !.wptr = @ + 1]]
                BY <1>0, <3>3
            <4>2. [th[t] EXCEPT !.rdata = d, !.wptr = @ + 1] \in R
                BY <2>2, <2>n, <3>1, <3>3
            <4> QED
                BY <1>0, <2>1, <3>3, <4>1, <4>2
        <3>4. CASE UNCHANGED <<th, errors>>
            BY <1>0, <3>4 DEF ThreadTypeOK
        <3> QED
            BY <2>3, <2>10, <3>2, <3>3, <3>4 DEF ThreadRead, d
    <2> QED
        BY <1>2, <2>5, <2>6, <2>7, <2>8, <2>9, <2>10 DEF ThreadNext
<1> QED
    BY <1>1, <1>2 DEF Next

(* Threads only run in test 3, and leave main alone unless they abort. *)
LEMMA ThreadsRun ==
    ASSUME TypeOK, ModeInv, NEW t \in Thread, ThreadNext(t)
    PROVE  /\ mode = "parallel" /\ pc # "abort" /\ pc' \in {pc, "abort"}
           /\ th[t].pc \in {"calloc", "loop", "write", "appended", "written", "read"}
           /\ UNCHANGED <<mode, step, returned, lba_size, mdts, identified, stdin, drawn, io, data,
                          t1, t2, stop_t, waited>>
<1> USE DEF ThreadNext, ThreadCalloc, ThreadLoop, ThreadWrite, ThreadCheckAppend,
            ThreadCheckStatus, ThreadRead, Running, MainIdle, mainVars
<1>1. pc # "abort" /\ th[t].pc \in {"calloc", "loop", "write", "appended", "written", "read"}
    OBVIOUS
<1>2. mode = "parallel"
    BY <1>1 DEF TypeOK, ModeInv, Asleep
<1>3. pc' \in {pc, "abort"}
    OBVIOUS
<1>4. UNCHANGED <<mode, step, returned, lba_size, mdts, identified, stdin, drawn, io, data, t1, t2,
                  stop_t, waited>>
    OBVIOUS
<1> QED
    BY <1>1, <1>2, <1>3, <1>4

LEMMA ThreadFaults ==
    ASSUME TypeOK, NEW t \in Thread, ThreadNext(t)
    PROVE  faults' \in Nat
BY DEF TypeOK, ThreadNext, ThreadCalloc, ThreadLoop, ThreadWrite, ThreadCheckAppend, ThreadCheckStatus,
       ThreadRead, Fault

LEMMA TypeStep == TypeOK /\ ModeInv /\ Next => TypeOK' /\ ModeInv'
<1> SUFFICES ASSUME TypeOK, ModeInv, Next PROVE TypeOK' /\ ModeInv'
    OBVIOUS
<1>0. DeviceTypeOK' /\ ThreadTypeOK'
    BY DeviceStep, ThreadTypeStep
<1>s. UNCHANGED stdin => stdin' \in BOOLEAN
    BY Zenon DEF TypeOK
<1>t. UNCHANGED <<th, errors, mode, mdts>> /\ pc' \notin {"spawn", "wait", "join"}
        /\ (mode = "parallel" => pc' \in {"verdict", "abort"}) => ModeInv'
    BY DEF ModeInv
<1>1. CASE Setup
    <2>1. drawn' \in Zones
        BY <1>1, GeometryAssumption DEF Setup, Zones, TypeOK
    <2>2. UNCHANGED <<th, errors, mode, mdts>>
        BY <1>1 DEF Setup, threadVars
    <2>3. pc' \in (IF mode = "tests" THEN {"test1", "verdict"} ELSE {"spawn", "verdict"}) /\ t1' \in Int /\ faults' \in Nat
        BY <1>1 DEF Setup, Fault, EIO, TypeOK
    <2>4. pc' = "test1" => step' \in 1 .. 9
        BY <1>1 DEF Setup, TypeOK
    <2>5. TypeOK'
        BY <1>0, <1>1, <1>s, <2>1, <2>2, <2>3, <2>4 DEF Setup, TypeOK, Pcs
    <2>6. ModeInv'
        BY <2>2, <2>3 DEF ModeInv, TypeOK
    <2> QED
        BY <2>5, <2>6
<1>2. CASE Test1Step
    <2>1. UNCHANGED <<th, errors, mode, mdts>> /\ mode = "tests" /\ pc' \in {pc, "test2", "abort"}
        BY <1>2 DEF Test1Step, Test1Returns, threadVars, ModeInv, TypeOK
    <2>2. returned' \in Int /\ t1' \in Int
        BY <1>2, ScriptStep DEF Test1Step, Test1Returns, TypeOK
    <2>3. pc' = "test1" => step' \in 1 .. 9
        <3>1. pc' = "test1" => step # Len(Script)
            BY <1>2 DEF Test1Step, Test1Returns
        <3> QED
            BY <1>2, <3>1, ScriptStep, ScriptLines DEF Test1Step
    <2>4. TypeOK'
        BY <1>0, <1>2, <1>s, <2>1, <2>2, <2>3 DEF Test1Step, TypeOK, Pcs
    <2>5. ModeInv'
        BY <1>2, <1>t, <2>1 DEF Test1Step
    <2> QED
        BY <2>4, <2>5
<1>3. CASE Test1Fails
    <2>1. UNCHANGED <<th, errors, mode, mdts>> /\ mode = "tests" /\ pc' \in {"test2", "abort"}
        BY <1>3 DEF Test1Fails, Test1Returns, threadVars, ModeInv, TypeOK
    <2>2. t1' \in Int /\ faults' \in Nat
        BY <1>3 DEF Test1Fails, Test1Returns, Fault, EIO, TypeOK
    <2>4. TypeOK'
        BY <1>0, <1>3, <1>s, <2>1, <2>2 DEF Test1Fails, TypeOK, Pcs
    <2>5. ModeInv'
        BY <1>t, <2>1
    <2> QED
        BY <2>4, <2>5
<1>4. CASE Test2Begin
    <2>1. UNCHANGED <<th, errors, mode, mdts>> /\ mode = "tests" /\ pc' \in {"reset2", "abort"}
        BY <1>4 DEF Test2Begin, threadVars, ModeInv, TypeOK
    <2>2. data' \in [Offsets -> Payload] /\ drawn' \in Zones
        <3>1. \A b \in Offsets : Pattern(b) \in Payload /\ Zero \in Payload
            BY PatternType, GeometryAssumption DEF Offsets, Payload
        <3> QED
            BY <1>4, <3>1 DEF Test2Begin
    <2>3. identified' \in {0, mdts'} /\ faults' \in Nat
        BY <1>4, <2>1 DEF Test2Begin, Fault, TypeOK
    <2>4. TypeOK'
        BY <1>0, <1>4, <1>s, <2>1, <2>2, <2>3 DEF Test2Begin, TypeOK, Pcs
    <2>5. ModeInv'
        BY <1>t, <2>1
    <2> QED
        BY <2>4, <2>5
<1>r. \A dir \in {"write", "read"} :
        Request(dir) \in [dir : {"none", "write", "read"}, lba : Int, left : Int, ptr : Int, ret : {0, ENOSYS}]
    <2>1. lba_size \in Nat /\ drawn \in Int
        BY CommandType DEF TypeOK, Zones
    <2>2. Descriptor(drawn).zslba \in Int /\ Descriptor(drawn).zcap \in Nat
        BY <2>1, GeometryAssumption DEF Descriptor, Slba
    <2> QED
        BY <2>1, <2>2 DEF Request
<1>5. CASE Test2Reset
    <2>1. UNCHANGED <<th, errors, mode, mdts>> /\ mode = "tests" /\ pc' \in {"io", "verdict"}
        BY <1>5 DEF Test2Reset, Test2Returns, threadVars, ModeInv, TypeOK
    <2>2. t2' \in Int /\ faults' \in Nat
        BY <1>5 DEF Test2Reset, Test2Returns, Fault, EIO, TypeOK
    <2>3. io' \in [dir : {"none", "write", "read"}, lba : Int, left : Int, ptr : Int, ret : {0, ENOSYS}]
        BY <1>5, <1>r DEF Test2Reset, TypeOK
    <2>7. pc' = "io" => io'.dir \in {"write", "read"}
        BY <1>5 DEF Test2Reset, Test2Returns, Request
    <2>4. TypeOK'
        BY <1>0, <1>5, <1>s, <2>1, <2>2, <2>3, <2>7 DEF Test2Reset, TypeOK, Pcs
    <2>5. ModeInv'
        BY <1>t, <2>1
    <2> QED
        BY <2>4, <2>5
<1>6. CASE IoCommand
    <2>1. UNCHANGED <<th, errors, mode, mdts>> /\ mode = "tests" /\ pc' = "io"
        BY <1>6 DEF IoCommand, threadVars, ModeInv, TypeOK
    <2>2. data' \in [Offsets -> Payload]
        <3>1. CASE io.dir = "write"
            BY <1>6, <3>1 DEF IoCommand, TypeOK
        <3>2. CASE io.dir # "write"
            <4>1. \A b \in Offsets :
                    b >= BufferFrom /\ b < BufferFrom + CommandBlocks => blk[io.lba + b - BufferFrom] \in Payload
                <5>1. CASE io.dir = "read"
                    <6>1. InOneZone(io.lba, CommandBlocks) /\ io.lba \in Int /\ CommandBlocks \in Nat /\ BufferFrom \in Int
                        <7>1. Accepted("read", io.lba, CommandBlocks)
                            BY <1>6, <5>1 DEF IoCommand
                        <7>2. InOneZone(io.lba, CommandBlocks)
                            BY <7>1 DEF Accepted
                        <7>3. io.lba \in Int
                            BY DEF TypeOK
                        <7> QED
                            BY <7>2, <7>3, CommandType, M1Assumption
                    <6>2. ASSUME NEW b \in Offsets, b >= BufferFrom, b < BufferFrom + CommandBlocks
                          PROVE  blk[io.lba + b - BufferFrom] \in Payload
                        <7>1. b \in Int /\ b - BufferFrom \in 0 .. CommandBlocks - 1
                            BY <6>1, <6>2, GeometryAssumption DEF Offsets
                        <7>2. io.lba + (b - BufferFrom) \in LBAs
                            BY <6>1, <7>1, InOneZoneLbas
                        <7>3. io.lba + (b - BufferFrom) = io.lba + b - BufferFrom
                            BY <6>1, <7>1
                        <7> QED
                            BY <7>2, <7>3 DEF TypeOK, DeviceTypeOK
                    <6> QED
                        BY <6>2
                <5> QED
                    BY <1>6, <3>2, <5>1 DEF IoCommand, TypeOK
            <4> QED
                BY <1>6, <3>2, <4>1 DEF IoCommand, TypeOK
        <3> QED
            BY <3>1, <3>2
    <2>3. /\ io' \in [dir : {"none", "write", "read"}, lba : Int, left : Int, ptr : Int, ret : {0, ENOSYS}]
          /\ io'.dir = io.dir
        <3>1. numbers \in Int /\ single_io_size \in Int
            BY CommandType
        <3>2. io' = [io EXCEPT !.lba = io.lba + numbers, !.left = io.left - single_io_size,
                               !.ptr = io.ptr + single_io_size, !.ret = 0]
            BY <1>6 DEF IoCommand
        <3>3. io \in [dir : {"none", "write", "read"}, lba : Int, left : Int, ptr : Int, ret : {0, ENOSYS}]
            BY DEF TypeOK
        <3>6. io.lba + numbers \in Int /\ io.left - single_io_size \in Int /\ io.ptr + single_io_size \in Int
            BY <3>1, <3>3
        <3>7. io' = [dir |-> io.dir, lba |-> io.lba + numbers, left |-> io.left - single_io_size,
                     ptr |-> io.ptr + single_io_size, ret |-> 0]
            BY <3>2, <3>3
        <3>4. io'.dir = io.dir
            BY <3>7
        <3>5. io.dir \in {"none", "write", "read"}
            BY <3>3
        <3> QED
            BY <3>4, <3>5, <3>6, <3>7
    <2>6. io.dir \in {"write", "read"}
        BY <1>6 DEF IoCommand, TypeOK
    <2>4. TypeOK'
        BY <1>0, <1>6, <1>s, <2>1, <2>2, <2>3, <2>6 DEF IoCommand, TypeOK, Pcs
    <2>5. ModeInv'
        BY <1>t, <2>1
    <2> QED
        BY <2>4, <2>5
<1>7. CASE IoFails
    <2>1. UNCHANGED <<th, errors, mode, mdts>> /\ mode = "tests" /\ pc' = "verdict"
        BY <1>7 DEF IoFails, Test2Returns, threadVars, ModeInv, TypeOK
    <2>2. t2' \in Int /\ faults' \in Nat
        BY <1>7 DEF IoFails, Test2Returns, Fault, EIO, TypeOK
    <2>4. TypeOK'
        BY <1>0, <1>7, <1>s, <2>1, <2>2 DEF IoFails, TypeOK, Pcs
    <2>5. ModeInv'
        BY <1>t, <2>1
    <2> QED
        BY <2>4, <2>5
<1>8. CASE IoDone
    <2>1. UNCHANGED <<th, errors, mode, mdts>> /\ mode = "tests" /\ pc' \in {"io", "verdict", "abort"}
        BY <1>8 DEF IoDone, Test2Returns, threadVars, ModeInv, TypeOK
    <2>2. t2' \in Int
        BY <1>8 DEF IoDone, Test2Returns, ENOSYS, TypeOK
    <2>3. io' \in [dir : {"none", "write", "read"}, lba : Int, left : Int, ptr : Int, ret : {0, ENOSYS}]
        BY <1>8, <1>r DEF IoDone, TypeOK
    <2>7. pc' = "io" => io'.dir \in {"write", "read"}
        BY <1>8 DEF IoDone, Test2Returns, Request, TypeOK
    <2>6. data' \in [Offsets -> Payload]
        BY <1>8 DEF IoDone, TypeOK, Payload
    <2>4. TypeOK'
        BY <1>0, <1>8, <1>s, <2>1, <2>2, <2>3, <2>6, <2>7 DEF IoDone, TypeOK, Pcs
    <2>5. ModeInv'
        BY <1>t, <2>1
    <2> QED
        BY <2>4, <2>5
<1>9. CASE Spawn \/ Sleep \/ StopThreads \/ Join
    <2>1. mode = "parallel" /\ pc' \in {"spawn", "wait", "join", "verdict"} /\ UNCHANGED <<mode, mdts>>
        BY <1>9 DEF Spawn, Sleep, StopThreads, Join, Test2Returns, ModeInv, TypeOK, mainVars
    <2>2. t2' \in Int /\ faults' \in Nat
        BY <1>9 DEF Spawn, Sleep, StopThreads, Join, Test2Returns, TypeOK, ThreadTypeOK, mainVars
    <2>3. UNCHANGED <<returned, lba_size, identified, stdin, drawn, io, data, t1>>
        BY <1>9 DEF Spawn, Sleep, StopThreads, Join, mainVars
    <2>4. TypeOK'
        BY <1>0, <1>s, <2>1, <2>2, <2>3 DEF TypeOK, Pcs
    <2>5. ModeInv'
        BY <2>1 DEF ModeInv
    <2> QED
        BY <2>4, <2>5
<1>10. CASE Ended
    <2>1. UNCHANGED vars
        BY <1>10 DEF Ended
    <2>2. UNCHANGED <<mode, pc, step, returned, lba_size, mdts, identified, stdin, drawn, io, data, t1, t2,
                      th, errors, faults>>
        BY <2>1 DEF vars, mainVars, threadVars
    <2>3. TypeOK'
        BY <1>0, <1>s, <2>2 DEF TypeOK
    <2>4. ModeInv'
        BY <2>2 DEF ModeInv
    <2> QED
        BY <2>3, <2>4
<1>11. ASSUME NEW t \in Thread, ThreadNext(t) PROVE TypeOK' /\ ModeInv'
    <2>1. /\ mode = "parallel" /\ pc' \in {pc, "abort"}
          /\ UNCHANGED <<mode, step, returned, lba_size, mdts, identified, stdin, drawn, io, data, t1, t2,
                         stop_t, waited>>
        BY <1>11, ThreadsRun
    <2>2. faults' \in Nat
        BY <1>11, ThreadFaults
    <2>3. TypeOK'
        BY <1>0, <1>s, <2>1, <2>2 DEF TypeOK, Pcs
    <2>4. ModeInv'
        BY <2>1 DEF ModeInv
    <2> QED
        BY <2>3, <2>4
<1> QED
    BY <1>1, <1>2, <1>3, <1>4, <1>5, <1>6, <1>7, <1>8, <1>9, <1>10, <1>11 DEF Next, MainNext

----------------------------------------------------------------------------
(* The rounds of test 3 *)

(* The first n blocks of the thread's zone hold this round's patterns. *)
Filled(t, n) ==
    \A b \in Offsets : b < n /\ Covered(TidBase + t + b) =>
        blk[Slba(t) + b] = (TidBase + t + b) % Period

(***************************************************************************)
(* Where a thread is in its round.  A round that did not fail leaves its   *)
(* zone full, and only at the end of one is the flag looked at.            *)
(***************************************************************************)
RoundInv(t) ==
    LET at == th[t].pc  ok == th[t].ret = 0 IN
    /\ at \notin {"appended", "written", "done"} => ok
    /\ at \in {"none", "calloc"} => th[t].rdata = Zero
    /\ at \in {"loop", "done"} /\ ok /\ th[t].rdata # Zero => wp[t] = ZoneCap /\ Filled(t, ZoneCap)
    /\ at = "write" => wp[t] = th[t].wptr /\ Filled(t, th[t].wptr)
    /\ at \in {"appended", "written"} /\ ok => wp[t] = th[t].wptr + 1 /\ Filled(t, th[t].wptr + 1)
    /\ at = "appended" /\ ok => th[t].xappend = Slba(t) + th[t].wptr
    /\ at = "read" => wp[t] = ZoneCap /\ Filled(t, ZoneCap)

Untouched(u) ==
    /\ wp'[u] = wp[u]
    /\ \A b \in Offsets : blk'[Slba(u) + b] = blk[Slba(u) + b]

LEMMA RoundKept ==
    ASSUME NEW u \in Thread, RoundInv(u), th'[u] = th[u], Untouched(u)
    PROVE  RoundInv(u)'
<1>1. ASSUME NEW n, Filled(u, n) PROVE Filled(u, n)'
    BY <1>1 DEF Filled, Untouched, Covered, Slba
<1>2. /\ th'[u] = th[u] /\ wp'[u] = wp[u] /\ Slba(u)' = Slba(u)
    BY DEF Untouched, Slba
<1>3. /\ Filled(u, ZoneCap) => Filled(u, ZoneCap)'
      /\ Filled(u, th[u].wptr) => Filled(u, th[u].wptr)'
      /\ Filled(u, th[u].wptr + 1) => Filled(u, th[u].wptr + 1)'
    <2>1. Filled(u, ZoneCap) => Filled(u, ZoneCap)'
        BY <1>1
    <2>2. Filled(u, th[u].wptr) => Filled(u, th[u].wptr)'
        BY <1>2 DEF Filled, Untouched, Covered, Slba
    <2>3. Filled(u, th[u].wptr + 1) => Filled(u, th[u].wptr + 1)'
        BY <1>2 DEF Filled, Untouched, Covered, Slba
    <2> QED
        BY <2>1, <2>2, <2>3
<1> QED
    BY <1>2, <1>3 DEF RoundInv

(* A device that did not change. *)
LEMMA DeviceKept ==
    ASSUME UNCHANGED device
    PROVE  wp' = wp /\ blk' = blk /\ \A u \in Zones : Untouched(u)
BY DEF device, Untouched

(***************************************************************************)
(* What a step of thread t does: it keeps its place in the round, leaves   *)
(* the other zones and threads alone, meets no error but a fault, counts   *)
(* itself if it fails, and does not stop the program.                      *)
(***************************************************************************)
Moves(t) ==
    /\ RoundInv(t)'
    /\ \A u \in Zones \ {t} : Untouched(u)
    /\ \A u \in Thread \ {t} : th'[u] = th[u]
    /\ th'[t].ret # 0 => Fault \/ th[t].ret # 0
    /\ \/ th'[t].pc = "done" /\ th'[t].ret # 0 /\ errors' = errors + 1
       \/ ~ (th'[t].pc = "done" /\ th'[t].ret # 0) /\ errors' = errors
    /\ pc' = pc

LEMMA FailMoves ==
    ASSUME TypeOK, NEW t \in Thread, CountError(t), Fault \/ th[t].ret # 0,
           UNCHANGED device, pc' = pc
    PROVE  Moves(t)
<1>1. /\ th'[t] = [th[t] EXCEPT !.pc = "done", !.ret = EIO] /\ errors' = errors + 1
      /\ \A u \in Thread \ {t} : th'[u] = th[u]
    BY DEF CountError, TypeOK, ThreadTypeOK
<1>2. th'[t].pc = "done" /\ th'[t].ret = EIO /\ EIO # 0
    BY <1>1 DEF EIO, TypeOK, ThreadTypeOK
<1>3. \A u \in Zones : Untouched(u)
    BY DeviceKept
<1>4. RoundInv(t)'
    BY <1>2 DEF RoundInv
<1> QED
    BY <1>1, <1>2, <1>3, <1>4 DEF Moves

(* A thread that starts its round, or stops. *)
LEMMA LoopStep ==
    ASSUME TypeOK, NEW t \in Thread, RoundInv(t), ThreadLoop(t)
    PROVE  Moves(t)
<1>0. t \in Zones /\ ZoneOfThread(t) = t /\ th[t].pc = "loop" /\ th[t].ret = 0
      /\ th \in [Thread -> [pc : ThreadPcs, wptr : Offsets, wdata : Payload, rdata : Payload,
                          ret : {0, EIO}, xappend : Int]]
    BY ThreadZone DEF ThreadLoop, Running, RoundInv, TypeOK, ThreadTypeOK
<1>p. pc' = pc
    BY DEF ThreadLoop, MainIdle, mainVars
<1>1. CASE stop_t /\ Goto(t, "done") /\ UNCHANGED device
    <2>1. th'[t] = [th[t] EXCEPT !.pc = "done"] /\ errors' = errors /\ \A u \in Thread \ {t} : th'[u] = th[u]
        BY <1>0, <1>1 DEF Goto
    <2>2. th'[t].pc = "done" /\ th'[t].ret = 0 /\ th'[t].rdata = th[t].rdata
        BY <1>0, <2>1
    <2>3. Untouched(t) /\ \A u \in Zones : Untouched(u)
        BY <1>0, <1>1, DeviceKept
    <2>4. th[t].rdata # Zero => wp'[t] = ZoneCap /\ Filled(t, ZoneCap)'
        BY <1>0, <2>3 DEF RoundInv, Untouched, Filled, Covered, Slba
    <2>5. RoundInv(t)'
        BY <2>2, <2>4 DEF RoundInv
    <2> QED
        BY <1>p, <2>1, <2>2, <2>3, <2>5 DEF Moves
<1>2. CASE /\ nvme_zns_reset({ZoneOfThread(t)})
           /\ th' = [th EXCEPT ![t].pc = "write", ![t].wptr = 0]
           /\ UNCHANGED errors
    <2>1. th'[t] = [th[t] EXCEPT !.pc = "write", !.wptr = 0] /\ \A u \in Thread \ {t} : th'[u] = th[u]
        BY <1>0, <1>2
    <2>2. th'[t].pc = "write" /\ th'[t].ret = 0 /\ th'[t].wptr = 0
        BY <1>0, <2>1
    <2>3. /\ wp' = [wp EXCEPT ![t] = 0]
          /\ \A w \in Zones, j \in Offsets :
                 blk'[Slba(w) + j] = IF w = t THEN Zero ELSE blk[Slba(w) + j]
        BY <1>0, <1>2, ResetEffect DEF TypeOK
    <2>4. \A u \in Zones \ {t} : Untouched(u)
        BY <2>3 DEF Untouched, TypeOK, DeviceTypeOK
    <2>5. wp'[t] = 0 /\ Filled(t, 0)'
        BY <1>0, <2>3, GeometryAssumption DEF Filled, TypeOK, DeviceTypeOK, Offsets
    <2>6. RoundInv(t)'
        BY <2>2, <2>5 DEF RoundInv
    <2> QED
        BY <1>2, <1>p, <2>1, <2>2, <2>4, <2>6 DEF Moves
<1>3. CASE Fault /\ CountError(t) /\ UNCHANGED device
    BY <1>3, <1>p, FailMoves
<1> QED
    BY <1>1, <1>2, <1>3 DEF ThreadLoop

(* The command a thread issues is one the device accepts. *)
LEMMA OpAccepted ==
    ASSUME TypeOK, ModeInv, NEW t \in Thread, RoundInv(t), ThreadNext(t), th[t].pc = "write"
    PROVE  Accepted(ThreadOp(t), Slba(t) + th[t].wptr, 1)
<1>1. mdts = 0 /\ wp[t] = th[t].wptr
    BY ThreadsRun DEF ModeInv, RoundInv
<1>2. WithinMdts(1)
    BY <1>1 DEF WithinMdts
<1>3. /\ Slba(t) + th[t].wptr \in LBAs /\ ZoneOf(Slba(t) + th[t].wptr) = t
      /\ OffsetOf(Slba(t) + th[t].wptr) = th[t].wptr /\ t \in Zones /\ th[t].wptr \in Offsets
    BY ThreadFacts
<1>4. th[t].wptr + 1 <= ZoneCap /\ Slba(t) + th[t].wptr >= 0
    BY <1>3, GeometryAssumption DEF Offsets, LBAs
<1>5. InOneZone(Slba(t) + th[t].wptr, 1) /\ CanAppend(t, 1)
    BY <1>1, <1>3, <1>4 DEF InOneZone, CanAppend
<1> QED
    BY <1>1, <1>2, <1>3, <1>5, ThreadFacts DEF Accepted

(* A write or an append extends what the zone holds by one block. *)
LEMMA OpStep ==
    ASSUME TypeOK, ModeInv, NEW t \in Thread, RoundInv(t), ThreadWrite(t)
    PROVE  Moves(t)
<1> DEFINE lba == Slba(t) + th[t].wptr
           at == IF ThreadOp(t) = "append" THEN "appended" ELSE "written"
           buf == [b \in Offsets |-> Written(t)]
           T(e, x) == th' = [th EXCEPT ![t].pc = at, ![t].wdata = Written(t), ![t].ret = e, ![t].xappend = x]
<1>0. /\ t \in Zones /\ ZoneOfThread(t) = t /\ th[t].pc = "write" /\ th[t].wptr \in Offsets
      /\ th[t].wptr \in Nat /\ th[t].ret = 0 /\ wp[t] = th[t].wptr /\ Filled(t, th[t].wptr)
      /\ Slba(t) \in Int /\ ThreadOp(t) \in {"write", "append"}
      /\ th \in [Thread -> [pc : ThreadPcs, wptr : Offsets, wdata : Payload, rdata : Payload,
                            ret : {0, EIO}, xappend : Int]]
      /\ ZoneOf(lba) = t
    BY ThreadFacts DEF ThreadWrite, Running, RoundInv, TypeOK, ThreadTypeOK
<1>p. pc' = pc /\ errors' = errors
    BY DEF ThreadWrite, MainIdle, mainVars
<1>a. Accepted(ThreadOp(t), lba, 1)
    BY <1>0, OpAccepted DEF ThreadNext
<1>b. \/ Effect(ThreadOp(t), lba, 1, buf) /\ T(0, AppendLba(t))
      \/ Fault /\ UNCHANGED device /\ \E x \in {0, lba} : T(EIO, x)
    BY <1>0, <1>a DEF ThreadWrite
<1>c. at \in {"appended", "written"}
    OBVIOUS
<1>t. ASSUME NEW e, NEW x, T(e, x)
      PROVE  /\ th'[t].pc = at /\ th'[t].ret = e /\ th'[t].xappend = x /\ th'[t].wptr = th[t].wptr
             /\ \A u \in Thread \ {t} : th'[u] = th[u]
    <2>1. th'[t] = [th[t] EXCEPT !.pc = at, !.wdata = Written(t), !.ret = e, !.xappend = x]
        BY <1>0, <1>t
    <2>2. \A u \in Thread \ {t} : th'[u] = th[u]
        BY <1>0, <1>t
    <2> HIDE DEF at
    <2> QED
        BY <1>0, <2>1, <2>2
<1> HIDE DEF at, T
<1>1. CASE Effect(ThreadOp(t), lba, 1, buf) /\ T(0, AppendLba(t))
    <2>1. nvme_write(lba, 1, buf) \/ nvme_zns_append(t, 1, buf)
        BY <1>0, <1>1 DEF Effect
    <2>2. th[t].wptr + 1 <= ZoneCap /\ 1 \in Nat \ {0} /\ DeviceTypeOK
        BY <1>0, GeometryAssumption DEF Offsets, TypeOK
    <2> HIDE DEF buf
    <2>3. /\ wp' = [wp EXCEPT ![t] = th[t].wptr + 1]
          /\ \A w \in Zones, j \in Offsets :
                 blk'[Slba(w) + j] =
                    IF w = t /\ j >= th[t].wptr /\ j < th[t].wptr + 1 THEN buf[j - th[t].wptr] ELSE blk[Slba(w) + j]
        BY <1>0, <2>1, <2>2, WriteEffect
    <2>4. \A u \in Zones \ {t} : Untouched(u)
        BY <2>2, <2>3 DEF Untouched, DeviceTypeOK
    <2>5. wp'[t] = th[t].wptr + 1
        BY <1>0, <2>2, <2>3 DEF DeviceTypeOK
    <2>6. buf[0] = Written(t)
        BY GeometryAssumption DEF Offsets, buf
    <2>7. ASSUME NEW b \in Offsets, b < th[t].wptr + 1, Covered(TidBase + t + b)
          PROVE  blk'[Slba(t) + b] = (TidBase + t + b) % Period
        <3>1. b \in Int
            BY GeometryAssumption DEF Offsets
        <3>2. CASE b < th[t].wptr
            BY <1>0, <2>3, <2>7, <3>1, <3>2 DEF Filled
        <3>3. CASE b = th[t].wptr
            <4>1. blk'[Slba(t) + b] = Written(t)
                BY <1>0, <2>3, <2>6, <3>3
            <4>2. TidBase + t + b = Start(t)
                BY <3>3 DEF Start
            <4> QED
                BY <2>7, <4>1, <4>2 DEF Written
        <3> QED
            BY <1>0, <2>7, <3>1, <3>2, <3>3
    <2>8. /\ th'[t].pc = at /\ th'[t].ret = 0 /\ th'[t].xappend = AppendLba(t) /\ th'[t].wptr = th[t].wptr
          /\ \A u \in Thread \ {t} : th'[u] = th[u]
        BY <1>1, <1>t
    <2>9. Filled(t, th[t].wptr + 1)'
        BY <2>7, <2>8 DEF Filled, Covered, Slba
    <2>10. AppendLba(t) = Slba(t) + th[t].wptr
        BY <1>0 DEF AppendLba
    <2>11. RoundInv(t)'
        BY <1>c, <2>5, <2>8, <2>9, <2>10 DEF RoundInv, Slba
    <2> QED
        BY <1>c, <1>p, <2>4, <2>8, <2>11 DEF Moves
<1>2. CASE Fault /\ UNCHANGED device /\ \E x \in {0, lba} : T(EIO, x)
    <2>1. /\ th'[t].pc = at /\ th'[t].ret = EIO
          /\ \A u \in Thread \ {t} : th'[u] = th[u]
        BY <1>2, <1>t
    <2>2. \A u \in Zones : Untouched(u)
        BY <1>2, DeviceKept
    <2>3. RoundInv(t)'
        BY <1>c, <2>1 DEF RoundInv, EIO
    <2> QED
        BY <1>2, <1>c, <1>p, <2>1, <2>2, <2>3 DEF Moves
<1> QED
    BY <1>b, <1>1, <1>2

(* The two tests that follow a command. *)
LEMMA CheckStep ==
    ASSUME TypeOK, NEW t \in Thread, RoundInv(t), ThreadCheckAppend(t) \/ ThreadCheckStatus(t)
    PROVE  Moves(t)
<1>0. /\ t \in Zones /\ ZoneOfThread(t) = t /\ th[t].wptr \in Offsets /\ th[t].wptr \in Nat
      /\ th \in [Thread -> [pc : ThreadPcs, wptr : Offsets, wdata : Payload, rdata : Payload,
                            ret : {0, EIO}, xappend : Int]]
    BY ThreadFacts DEF TypeOK, ThreadTypeOK
<1>p. pc' = pc /\ UNCHANGED device
    BY DEF ThreadCheckAppend, ThreadCheckStatus, MainIdle, mainVars
<1>u. Untouched(t) /\ \A u \in Zones : Untouched(u)
    BY <1>0, <1>p, DeviceKept
<1>f. \A n : Filled(t, n) => Filled(t, n)'
    BY <1>u DEF Filled, Untouched, Covered, Slba
<1>1. CASE CountError(t)
    <2>1. th[t].ret # 0
        BY <1>0, <1>1 DEF ThreadCheckAppend, ThreadCheckStatus, Running, RoundInv, CountError, Goto
    <2> QED
        BY <1>1, <1>p, <2>1, FailMoves
<1>2. CASE th[t].pc = "appended" /\ Goto(t, "written")
    <2>1. /\ th'[t] = [th[t] EXCEPT !.pc = "written"] /\ errors' = errors
          /\ \A u \in Thread \ {t} : th'[u] = th[u]
        BY <1>0, <1>2 DEF Goto
    <2>2. th'[t].pc = "written" /\ th'[t].ret = th[t].ret /\ th'[t].wptr = th[t].wptr
        BY <1>0, <2>1
    <2>3. th[t].ret = 0 => wp'[t] = th[t].wptr + 1 /\ Filled(t, th[t].wptr + 1)'
        <3>1. th[t].ret = 0 => wp[t] = th[t].wptr + 1 /\ Filled(t, th[t].wptr + 1)
            BY <1>2 DEF RoundInv
        <3>2. Filled(t, th[t].wptr + 1) => Filled(t, th[t].wptr + 1)'
            BY <1>u, <2>2 DEF Filled, Untouched, Covered, Slba
        <3> QED
            BY <1>u, <3>1, <3>2 DEF Untouched
    <2>4. RoundInv(t)'
        BY <2>2, <2>3 DEF RoundInv
    <2> QED
        BY <1>p, <1>u, <2>1, <2>2, <2>4 DEF Moves
<1>3. CASE /\ th[t].pc = "written" /\ th[t].ret = 0 /\ LastBlock(t)
           /\ th' = [th EXCEPT ![t].pc = "read", ![t].wptr = 0] /\ UNCHANGED errors
    <2>1. /\ th'[t] = [th[t] EXCEPT !.pc = "read", !.wptr = 0]
          /\ \A u \in Thread \ {t} : th'[u] = th[u]
        BY <1>0, <1>3
    <2>2. th'[t].pc = "read" /\ th'[t].ret = 0
        BY <1>0, <1>3, <2>1
    <2>3. wp[t] = ZoneCap /\ Filled(t, ZoneCap)
        BY <1>3 DEF RoundInv, LastBlock
    <2>4. wp'[t] = ZoneCap /\ Filled(t, ZoneCap)'
        BY <1>f, <1>u, <2>3 DEF Untouched
    <2>5. RoundInv(t)'
        BY <2>2, <2>4 DEF RoundInv
    <2> QED
        BY <1>3, <1>p, <1>u, <2>1, <2>2, <2>5 DEF Moves
<1>4. CASE /\ th[t].pc = "written" /\ th[t].ret = 0
           /\ th' = [th EXCEPT ![t].pc = "write", ![t].wptr = @ + 1] /\ UNCHANGED errors
    <2>1. /\ th'[t] = [th[t] EXCEPT !.pc = "write", !.wptr = @ + 1]
          /\ \A u \in Thread \ {t} : th'[u] = th[u]
        BY <1>0, <1>4
    <2>2. th'[t].pc = "write" /\ th'[t].ret = 0 /\ th'[t].wptr = th[t].wptr + 1
        BY <1>0, <1>4, <2>1
    <2>3. wp[t] = th[t].wptr + 1 /\ Filled(t, th[t].wptr + 1)
        BY <1>4 DEF RoundInv
    <2>4. wp'[t] = th'[t].wptr
        BY <1>u, <2>2, <2>3 DEF Untouched
    <2>6. Filled(t, th[t].wptr)'
        BY <1>u, <2>2, <2>3 DEF Filled, Untouched, Covered, Slba
    <2>5. RoundInv(t)'
        BY <2>2, <2>4, <2>6 DEF RoundInv
    <2> QED
        BY <1>4, <1>p, <1>u, <2>1, <2>2, <2>5 DEF Moves
<1>5. \/ CountError(t)
      \/ th[t].pc = "appended" /\ Goto(t, "written")
      \/ /\ th[t].pc = "written" /\ th[t].ret = 0 /\ LastBlock(t)
         /\ th' = [th EXCEPT ![t].pc = "read", ![t].wptr = 0] /\ UNCHANGED errors
      \/ /\ th[t].pc = "written" /\ th[t].ret = 0
         /\ th' = [th EXCEPT ![t].pc = "write", ![t].wptr = @ + 1] /\ UNCHANGED errors
    BY DEF ThreadCheckAppend, ThreadCheckStatus, Running
<1> QED
    BY <1>1, <1>2, <1>3, <1>4, <1>5

(* What is read back is what was written: the program does not stop. *)
LEMMA ReadStep ==
    ASSUME TypeOK, NEW t \in Thread, RoundInv(t), ThreadRead(t)
    PROVE  Moves(t)
<1> DEFINE d == blk[Slba(t) + th[t].wptr]
<1>0. /\ t \in Zones /\ ZoneOfThread(t) = t /\ th[t].wptr \in Offsets /\ th[t].wptr \in Nat
      /\ th[t].pc = "read" /\ th[t].ret = 0
      /\ th \in [Thread -> [pc : ThreadPcs, wptr : Offsets, wdata : Payload, rdata : Payload,
                            ret : {0, EIO}, xappend : Int]]
    BY ThreadFacts DEF TypeOK, ThreadTypeOK, ThreadRead, Running, RoundInv
<1>f. wp[t] = ZoneCap /\ Filled(t, ZoneCap)
    BY <1>0 DEF RoundInv
<1>d. UNCHANGED device
    BY DEF ThreadRead
<1>u. Untouched(t) /\ \A u \in Zones : Untouched(u)
    BY <1>0, <1>d, DeviceKept
<1>g. wp'[t] = ZoneCap /\ Filled(t, ZoneCap)'
    BY <1>f, <1>u DEF Filled, Untouched, Covered, Slba
<1>m. ~ (Covered(Start(t)) /\ d # Start(t) % Period)
    <2>1. th[t].wptr < ZoneCap
        BY <1>0, GeometryAssumption DEF Offsets
    <2> QED
        BY <1>0, <1>f, <2>1 DEF Filled, Start
<1> HIDE DEF d
<1>1. CASE th' = [th EXCEPT ![t].rdata = d, ![t].pc = "loop"] /\ UNCHANGED <<pc, errors>>
    <2>1. /\ th'[t] = [th[t] EXCEPT !.rdata = d, !.pc = "loop"]
          /\ \A u \in Thread \ {t} : th'[u] = th[u]
        BY <1>0, <1>1
    <2>2. th'[t].pc = "loop" /\ th'[t].ret = 0
        BY <1>0, <2>1
    <2>3. RoundInv(t)'
        BY <1>g, <2>2 DEF RoundInv
    <2> QED
        BY <1>1, <1>u, <2>1, <2>2, <2>3 DEF Moves
<1>2. CASE th' = [th EXCEPT ![t].rdata = d, ![t].wptr = @ + 1] /\ UNCHANGED <<pc, errors>>
    <2>1. /\ th'[t] = [th[t] EXCEPT !.rdata = d, !.wptr = @ + 1]
          /\ \A u \in Thread \ {t} : th'[u] = th[u]
        BY <1>0, <1>2
    <2>2. th'[t].pc = "read" /\ th'[t].ret = 0
        BY <1>0, <2>1
    <2>3. RoundInv(t)'
        BY <1>g, <2>2 DEF RoundInv
    <2> QED
        BY <1>2, <1>u, <2>1, <2>2, <2>3 DEF Moves
<1>3. CASE Fault /\ CountError(t) /\ UNCHANGED pc
    BY <1>3, <1>d, FailMoves
<1> QED
    BY <1>0, <1>m, <1>1, <1>2, <1>3 DEF ThreadRead, d

LEMMA CallocStep ==
    ASSUME TypeOK, NEW t \in Thread, RoundInv(t), ThreadCalloc(t)
    PROVE  Moves(t)
<1>0. th[t].pc = "calloc" /\ th[t].ret = 0 /\ th[t].rdata = Zero /\ t \in Zones
      /\ th \in [Thread -> [pc : ThreadPcs, wptr : Offsets, wdata : Payload, rdata : Payload,
                            ret : {0, EIO}, xappend : Int]]
    BY ThreadZone DEF ThreadCalloc, Running, RoundInv, TypeOK, ThreadTypeOK
<1>p. pc' = pc /\ UNCHANGED device
    BY DEF ThreadCalloc, MainIdle, mainVars
<1>1. CASE Goto(t, "loop")
    <2>1. /\ th'[t] = [th[t] EXCEPT !.pc = "loop"] /\ errors' = errors
          /\ \A u \in Thread \ {t} : th'[u] = th[u]
        BY <1>0, <1>1 DEF Goto
    <2>2. th'[t].pc = "loop" /\ th'[t].ret = 0 /\ th'[t].rdata = Zero
        BY <1>0, <2>1
    <2>3. RoundInv(t)'
        BY <2>2 DEF RoundInv
    <2> QED
        BY <1>p, <2>1, <2>2, <2>3, DeviceKept DEF Moves
<1>2. CASE Fault /\ CountError(t)
    BY <1>2, <1>p, FailMoves
<1> QED
    BY <1>1, <1>2 DEF ThreadCalloc

LEMMA ThreadMoves ==
    ASSUME TypeOK, ModeInv, NEW t \in Thread, RoundInv(t), ThreadNext(t)
    PROVE  Moves(t)
BY CallocStep, LoopStep, OpStep, CheckStep, ReadStep DEF ThreadNext

RoundsInv == \A t \in Thread : RoundInv(t)

(* Main and tests 1 and 2 disturb no round. *)
LEMMA MainRounds ==
    ASSUME TypeOK, ModeInv, RoundsInv, MainNext \/ Ended
    PROVE  RoundsInv'
<1>0. th \in [Thread -> [pc : ThreadPcs, wptr : Offsets, wdata : Payload, rdata : Payload,
                         ret : {0, EIO}, xappend : Int]]
    BY DEF TypeOK, ThreadTypeOK
<1>1. CASE mode = "tests" /\ UNCHANGED th
    BY <1>1 DEF ModeInv, RoundsInv, RoundInv, Asleep
<1>2. CASE UNCHANGED <<th, wp, blk>>
    <2>1. ASSUME NEW u \in Thread PROVE RoundInv(u)'
        BY <1>2, RoundKept DEF RoundsInv, Untouched
    <2> QED
        BY <2>1 DEF RoundsInv
<1>3. CASE Spawn
    <2>1. PICK t \in Thread : th[t].pc = "none" /\ th' = [th EXCEPT ![t].pc = "calloc"]
        BY <1>3 DEF Spawn
    <2>2. UNCHANGED <<wp, blk>>
        BY <1>3 DEF Spawn, device
    <2>3. th'[t] = [th[t] EXCEPT !.pc = "calloc"] /\ \A u \in Thread \ {t} : th'[u] = th[u]
        BY <1>0, <2>1
    <2>4. th[t].ret = 0 /\ th[t].rdata = Zero
        BY <2>1 DEF RoundsInv, RoundInv
    <2>5. th'[t].pc = "calloc" /\ th'[t].ret = 0 /\ th'[t].rdata = Zero
        BY <1>0, <2>3, <2>4
    <2>6. RoundInv(t)'
        BY <2>5 DEF RoundInv
    <2>7. ASSUME NEW u \in Thread \ {t} PROVE RoundInv(u)'
        BY <2>2, <2>3, RoundKept DEF RoundsInv, Untouched
    <2> QED
        BY <2>6, <2>7 DEF RoundsInv
<1>4. MainNext \/ Ended => \/ mode = "tests" /\ UNCHANGED th
                           \/ UNCHANGED <<th, wp, blk>>
                           \/ Spawn
    <2>1. Setup \/ Sleep \/ StopThreads \/ Join \/ Ended => UNCHANGED <<th, wp, blk>>
        BY DEF Setup, Sleep, StopThreads, Join, Ended, vars, threadVars, device
    <2>2. Test1Step \/ Test1Fails \/ Test2Begin \/ Test2Reset \/ IoCommand \/ IoFails \/ IoDone
            => mode = "tests" /\ UNCHANGED th
        <3>1. pc \in {"test1", "test2", "reset2", "io"} => mode = "tests"
            BY DEF ModeInv, TypeOK
        <3> QED
            BY <3>1 DEF Test1Step, Test1Fails, Test2Begin, Test2Reset, IoCommand, IoFails, IoDone, threadVars
    <2> QED
        BY <2>1, <2>2 DEF MainNext
<1> QED
    BY <1>1, <1>2, <1>3, <1>4

LEMMA RoundsStep == TypeOK /\ ModeInv /\ RoundsInv /\ Next => RoundsInv'
<1> SUFFICES ASSUME TypeOK, ModeInv, RoundsInv, Next PROVE RoundsInv'
    OBVIOUS
<1>1. ASSUME NEW t \in Thread, ThreadNext(t) PROVE RoundsInv'
    <2>1. Moves(t)
        BY <1>1, ThreadMoves DEF RoundsInv
    <2>2. ASSUME NEW u \in Thread, u # t PROVE RoundInv(u)'
        <3>1. th'[u] = th[u] /\ Untouched(u)
            BY <2>1, <2>2, ThreadZone DEF Moves
        <3> QED
            BY <3>1, RoundKept DEF RoundsInv
    <2> QED
        BY <2>1, <2>2 DEF RoundsInv, Moves
<1> QED
    BY <1>1, MainRounds DEF Next

----------------------------------------------------------------------------
(* Errors *)

FailedThreads == {t \in Thread : Failed(t)}

(* main counts the errors when every thread has ended. *)
VerdictInv ==
    /\ errors = Cardinality(FailedThreads)
    /\ mode = "parallel" /\ pc = "verdict" /\ t1 = 0 =>
          t2 = errors /\ \A t \in Thread : th[t].pc = "done"

(* On a device that works no thread meets an error. *)
FaultFree == faults = 0 => t1 = 0 /\ \A t \in Thread : th[t].ret = 0

LEMMA VerdictStep == TypeOK /\ ModeInv /\ RoundsInv /\ VerdictInv /\ Next => VerdictInv'
<1> SUFFICES ASSUME TypeOK, ModeInv, RoundsInv, VerdictInv, Next PROVE VerdictInv'
    OBVIOUS
<1>0. IsFiniteSet(FailedThreads)
    <2>1. IsFiniteSet(Thread)
        BY FS_Interval, M1Assumption DEF Thread
    <2> QED
        BY <2>1, FS_Subset DEF FailedThreads
<1>1. ASSUME NEW t \in Thread, ThreadNext(t) PROVE VerdictInv'
    <2>1. Moves(t) /\ pc' = pc
        BY <1>1, ThreadMoves DEF RoundsInv, Moves
    <2>2. /\ th[t].pc # "done" /\ t \notin FailedThreads
          /\ UNCHANGED <<mode, t1, t2>>
        BY <1>1, ThreadsRun DEF FailedThreads, Failed
    <2>3. CASE th'[t].pc = "done" /\ th'[t].ret # 0 /\ errors' = errors + 1
        <3>1. FailedThreads' = FailedThreads \cup {t}
            BY <2>1, <2>3 DEF FailedThreads, Failed, Moves
        <3> QED
            BY <1>0, <2>1, <2>2, <2>3, <3>1, FS_AddElement DEF VerdictInv
    <2>4. CASE ~ (th'[t].pc = "done" /\ th'[t].ret # 0) /\ errors' = errors
        <3>1. FailedThreads' = FailedThreads
            BY <2>1, <2>2, <2>4 DEF FailedThreads, Failed, Moves
        <3> QED
            BY <2>1, <2>2, <2>4, <3>1 DEF VerdictInv
    <2> QED
        BY <2>1, <2>3, <2>4 DEF Moves
<1>2. CASE Spawn
    <2>0. th \in [Thread -> [pc : ThreadPcs, wptr : Offsets, wdata : Payload, rdata : Payload,
                             ret : {0, EIO}, xappend : Int]]
        BY DEF TypeOK, ThreadTypeOK
    <2>1. PICK t \in Thread : th[t].pc = "none" /\ th' = [th EXCEPT ![t].pc = "calloc"]
        BY <1>2 DEF Spawn
    <2>2. th'[t] = [th[t] EXCEPT !.pc = "calloc"] /\ \A u \in Thread \ {t} : th'[u] = th[u]
        BY <2>0, <2>1
    <2>3. FailedThreads' = FailedThreads
        BY <2>0, <2>1, <2>2 DEF FailedThreads, Failed
    <2>4. errors' = errors /\ pc' # "verdict"
        BY <1>2 DEF Spawn
    <2> QED
        BY <2>3, <2>4 DEF VerdictInv
<1>3. CASE Join
    <2>1. th' = th /\ errors' = errors /\ t2' = errors /\ Joined
        BY <1>3 DEF Join, Test2Returns, threadVars
    <2> QED
        BY <2>1 DEF VerdictInv, FailedThreads, Failed, Joined
<1>4. CASE /\ UNCHANGED <<th, errors, mode>>
           /\ mode = "parallel" /\ pc' = "verdict" => t1' # 0 \/ UNCHANGED <<pc, t1, t2>>
    BY <1>4 DEF VerdictInv, FailedThreads, Failed
<1>5. MainNext \/ Ended => \/ Spawn \/ Join
                           \/ /\ UNCHANGED <<th, errors, mode>>
                              /\ mode = "parallel" /\ pc' = "verdict" => t1' # 0 \/ UNCHANGED <<pc, t1, t2>>
    <2>1. pc \in {"test1", "test2", "reset2", "io"} => mode = "tests"
        BY DEF ModeInv, TypeOK
    <2>2. Setup => UNCHANGED <<th, errors, mode>> /\ (mode = "parallel" /\ pc' = "verdict" => t1' # 0)
        BY DEF Setup, threadVars, EIO
    <2>3. Sleep \/ StopThreads => UNCHANGED <<th, errors, mode>> /\ pc' # "verdict"
        BY DEF Sleep, StopThreads, mainVars
    <2>4. Test1Step \/ Test1Fails \/ Test2Begin \/ Test2Reset \/ IoCommand \/ IoFails \/ IoDone
            => mode = "tests" /\ UNCHANGED <<th, errors, mode>>
        BY <2>1 DEF Test1Step, Test1Fails, Test2Begin, Test2Reset, IoCommand, IoFails, IoDone, threadVars
    <2>5. Ended => UNCHANGED <<th, errors, mode, pc, t1, t2>>
        BY DEF Ended, vars, mainVars, threadVars
    <2>6. mode # "parallel" \/ mode # "tests"
        OBVIOUS
    <2> QED
        BY <2>2, <2>3, <2>4, <2>5, <2>6 DEF MainNext
<1> QED
    BY <1>1, <1>2, <1>3, <1>4, <1>5 DEF Next

LEMMA InitRounds == Init => RoundsInv /\ VerdictInv
<1> SUFFICES ASSUME Init PROVE RoundsInv /\ VerdictInv
    OBVIOUS
<1>1. RoundsInv
    BY DEF Init, RoundsInv, RoundInv, Asleep
<1>2. FailedThreads = {}
    BY DEF Init, FailedThreads, Failed, Asleep
<1>3. VerdictInv
    BY <1>2, FS_EmptySet DEF Init, VerdictInv
<1> QED
    BY <1>1, <1>3

ParallelInv == TypeOK /\ ModeInv /\ RoundsInv /\ VerdictInv

(* The types, the modes, the rounds and the count together are inductive.  *)
THEOREM ThreadsInductive == Spec => []ParallelInv
<1>1. Init => ParallelInv
    BY InitTypes, InitRounds DEF ParallelInv
<1>2. ParallelInv /\ [Next]_vars => ParallelInv'
    <2>1. ParallelInv /\ Next => ParallelInv'
        BY TypeStep, RoundsStep, VerdictStep DEF ParallelInv
    <2>2. ParallelInv /\ UNCHANGED vars => ParallelInv'
        <3>1. UNCHANGED vars /\ pc \in {"verdict", "abort"} => Ended
            BY DEF Ended
        <3> SUFFICES ASSUME ParallelInv, UNCHANGED vars PROVE ParallelInv'
            OBVIOUS
        <3>2. UNCHANGED <<wp, blk, mode, pc, step, returned, lba_size, mdts, identified, stdin, drawn, io,
                          data, t1, t2, th, errors, faults>>
            BY DEF vars, device, mainVars, threadVars
        <3>3. stdin' \in BOOLEAN
            BY <3>2, Zenon DEF ParallelInv, TypeOK
        <3>4. TypeOK'
            BY <3>2, <3>3 DEF ParallelInv, TypeOK, DeviceTypeOK, ThreadTypeOK
        <3>5. ModeInv'
            BY <3>2 DEF ParallelInv, ModeInv
        <3>6. RoundsInv'
            BY <3>2, RoundKept DEF ParallelInv, RoundsInv, Untouched
        <3>7. VerdictInv'
            BY <3>2 DEF ParallelInv, VerdictInv, FailedThreads, Failed
        <3> QED
            BY <3>4, <3>5, <3>6, <3>7 DEF ParallelInv
    <2> QED
        BY <2>1, <2>2
<1> QED
    BY <1>1, <1>2, PTL DEF Spec

(* Every failed thread is in the verdict of test 3, whatever fails. *)
THEOREM ErrorsAllCounted == Spec => []VerdictCountsAll
<1>1. ParallelInv => VerdictCountsAll
    BY DEF ParallelInv, VerdictInv, VerdictCountsAll, ErrorsCounted, FailedThreads
<1> QED
    BY <1>1, ThreadsInductive, PTL

(* A thread that ends without an error leaves a full zone, whatever fails  *)
(* around it.                                                              *)
THEOREM RoundsEndFull == Spec => []RoundsComplete
<1>1. ParallelInv => RoundsComplete
    <2> SUFFICES ASSUME ParallelInv, NEW t \in Thread,
                        th[t].pc = "done", ~ Failed(t), th[t].rdata # Zero
                 PROVE  /\ wp[ZoneOfThread(t)] = ZoneCap
                        /\ \A b \in Offsets : Covered(TidBase + t + b) =>
                               blk[Slba(ZoneOfThread(t)) + b] = (TidBase + t + b) % Period
        BY DEF RoundsComplete
    <2>1. wp[t] = ZoneCap /\ Filled(t, ZoneCap) /\ ZoneOfThread(t) = t
        BY ThreadZone DEF ParallelInv, RoundsInv, RoundInv, Failed
    <2>2. \A b \in Offsets : b < ZoneCap
        BY GeometryAssumption DEF Offsets
    <2> QED
        BY <2>1, <2>2 DEF Filled
<1> QED
    BY <1>1, ThreadsInductive, PTL

----------------------------------------------------------------------------
(* The chunk loop *)

(* A power of two is positive: it counts the subsets of a set. *)
LEMMA PowerPositive ==
    ASSUME NEW m \in Nat
    PROVE  2 ^ m \in Nat \ {0}
<1> DEFINE S == 1 .. m
<1>1. IsFiniteSet(S) /\ Cardinality(S) = m
    BY FS_Interval
<1>2. IsFiniteSet(SUBSET S) /\ Cardinality(SUBSET S) = 2 ^ Cardinality(S)
    BY <1>1, FS_SUBSET
<1>3. SUBSET S # {}
    OBVIOUS
<1>4. Cardinality(SUBSET S) \in Nat /\ Cardinality(SUBSET S) # 0
    BY <1>2, <1>3, FS_CardinalityType, FS_EmptySet
<1> QED
    BY <1>1, <1>2, <1>4

LEMMA WholeBlocks ==
    ASSUME NEW n \in Int, NEW s \in Nat \ {0}
    PROVE  (n * s) \div s = n
OBVIOUS

LEMMA Multiples ==
    ASSUME NEW a \in Int, NEW b \in Int, NEW s \in Nat \ {0}
    PROVE  /\ a * s \in Int /\ b * s \in Int
           /\ a < b <=> a * s < b * s
           /\ a <= b <=> a * s <= b * s
           /\ (a + b) * s = a * s + b * s
           /\ (a - b) * s = a * s - b * s
<1>1. a * s \in Int /\ b * s \in Int /\ (a + b) * s = a * s + b * s /\ (a - b) * s = a * s - b * s
    OBVIOUS
<1>2. a < b => a * s < b * s
    <2> SUFFICES ASSUME a < b PROVE a * s < b * s
        OBVIOUS
    <2>1. (b - a) * s = b * s - a * s /\ (b - a) * s >= s
        OBVIOUS
    <2> QED
        BY <1>1, <2>1
<1>3. b < a => b * s < a * s
    <2> SUFFICES ASSUME b < a PROVE b * s < a * s
        OBVIOUS
    <2>1. (a - b) * s = a * s - b * s /\ (a - b) * s >= s
        OBVIOUS
    <2> QED
        BY <1>1, <2>1
<1>4. (a < b <=> a * s < b * s) /\ (a <= b <=> a * s <= b * s)
    BY <1>1, <1>2, <1>3
<1> QED
    BY <1>1, <1>4

(***************************************************************************)
(* Without a limit, or one that was not read, get_mdts_size is half a      *)
(* page.  With larger blocks a round has numbers = 0, nlb = 2^16 - 1 and   *)
(* advances by half a page.                                                *)
(***************************************************************************)
Unlimited == identified = 0 /\ lba_size > 1

(* q blocks of the request are done. *)
Cut(q) ==
    LET d == Descriptor(drawn) IN
    /\ Unlimited => q = 0 /\ io.dir = "write"
    /\ io.ptr = q * lba_size /\ io.left = (d.zcap - q) * lba_size /\ io.lba = d.zslba + q
    /\ drawn = 0 => io.ret # 0
    /\ drawn # 0 =>
          /\ q = 0 \/ io.ret = 0
          /\ wp[drawn - 1] = IF io.dir = "write" THEN q ELSE ZoneCap
          /\ \A b \in Offsets : (b < q \/ io.dir = "read") => blk[Slba(drawn - 1) + b] = Pattern(b)
          /\ \A b \in Offsets : (b < q \/ io.dir = "write") => data[b] = Pattern(b)

(***************************************************************************)
(* If the zone has room for 2^16 blocks, the device takes one such round.  *)
(* The next starts at the same block, no longer at the write pointer.      *)
(***************************************************************************)
Overrun ==
    /\ Unlimited /\ drawn # 0
    /\ io.dir = "write" /\ io.ptr = 1 /\ io.left > 0 /\ io.lba = Slba(drawn - 1)
    /\ wp[drawn - 1] > 0
    /\ blk[Slba(drawn - 1) + 0] = Pattern(0) /\ data[0] = Pattern(0)

ChunkInv ==
    /\ pc = "io" => Overrun \/ \E q \in 0 .. Descriptor(drawn).zcap : Cut(q)
    /\ pc = "reset2" => \A b \in Offsets : b < Descriptor(drawn).zcap => data[b] = Pattern(b)
    /\ pc = "setup" => drawn = 0
    /\ ZoneMoved

LEMMA DrawnZone ==
    ASSUME TypeOK
    PROVE  /\ drawn = 0 => Descriptor(drawn).zcap = 0 /\ Descriptor(drawn).zslba = 0
           /\ drawn # 0 => /\ Descriptor(drawn).zcap = ZoneCap
                           /\ Descriptor(drawn).zslba = Slba(drawn - 1)
                           /\ drawn - 1 \in Zones
                           /\ ZoneOf(Descriptor(drawn).zslba) = drawn - 1
           /\ drawn \in Int /\ Slba(drawn - 1) \in Int
<1>1. drawn \in Zones /\ drawn \in Int /\ drawn - 1 \in Int
    BY DEF TypeOK, Zones
<1>2. drawn # 0 => drawn - 1 \in Zones
    BY <1>1, GeometryAssumption DEF Zones
<1>3. Slba(drawn - 1) \in Int /\ 0 \in Offsets
    BY <1>1, GeometryAssumption DEF Slba, Offsets
<1>4. ZoneOf(Slba(drawn - 1) + 0) = drawn - 1
    BY <1>1, <1>3, ZoneOfSlba
<1>5. ZoneOf(Slba(drawn - 1)) = drawn - 1
    BY <1>3, <1>4
<1> QED
    BY <1>1, <1>2, <1>3, <1>5 DEF Descriptor

(***************************************************************************)
(* One round of the loop: whole blocks, as many as nlb says, no more than  *)
(* the controller takes -- or 2^16 blocks at once.                         *)
(***************************************************************************)
WholeCommand(rest) ==
    /\ numbers \in 1 .. rest
    /\ CommandBlocks = numbers
    /\ single_io_size = numbers * lba_size
    /\ WithinMdts(CommandBlocks)

Wrapped == Unlimited /\ numbers = 0 /\ single_io_size = 1 /\ CommandBlocks = U16

LEMMA CutFits ==
    ASSUME SizesFit, TypeOK, ModeInv, pc = "io", NEW rest \in 1 .. ZoneCap, io.left = rest * lba_size
    PROVE  (WholeCommand(rest) /\ ~ Unlimited) \/ Wrapped
<1> DEFINE s == lba_size
           g == get_mdts_size
<1>0. /\ s \in Nat \ {0} /\ s \in LbaSizes /\ mdts \in Nat /\ mdts \in Mdts
      /\ identified \in {0, mdts} /\ identified \in Nat
      /\ U16 \in Nat \ {0} /\ rest \in Nat \ {0} /\ rest <= ZoneCap /\ ZoneCap \in Nat
    <2>1. mode = "tests"
        BY DEF TypeOK, ModeInv
    <2> QED
        BY <2>1, CommandType, M1Assumption, GeometryAssumption DEF TypeOK, ModeInv
<1>1. g \in Nat \ {0} /\ g = 2 ^ identified
    BY <1>0, PowerPositive DEF get_mdts_size
<1>2. identified = 0 => g = 1
    <2>1. 2 ^ 0 = 1
        OBVIOUS
    <2> QED
        BY <1>1, <2>1
<1>3. single_io_size = IF g < rest * s THEN g ELSE rest * s
    BY DEF single_io_size
<1>m. ASSUME numbers \in 1 .. rest, numbers * s = single_io_size, numbers <= U16
      PROVE  WholeCommand(rest) /\ ~ Unlimited
    <2>1. (numbers - 1) % U16 = numbers - 1
        BY <1>0, <1>m
    <2>2. CommandBlocks = numbers
        BY <1>0, <1>m, <2>1 DEF CommandBlocks
    <2>3. rest * s \in Int
        BY <1>0
    <2>4. numbers * s <= g
        BY <1>0, <1>1, <1>3, <1>m, <2>3
    <2>5. WithinMdts(CommandBlocks)
        <3>1. CASE identified = mdts
            BY <1>1, <2>2, <2>4, <3>1, CommandType DEF WithinMdts
        <3>2. CASE identified = 0
            <4>1. numbers * s <= 1 /\ 2 ^ mdts \in Nat \ {0} /\ numbers * s \in Int
                BY <1>0, <1>1, <1>2, <1>m, <2>4, <3>2, PowerPositive
            <4>2. numbers * s <= 2 * 2 ^ mdts
                BY <4>1
            <4> QED
                BY <2>2, <4>2 DEF WithinMdts
        <3> QED
            BY <1>0, <3>1, <3>2
    <2>6. ~ Unlimited
        <3>1. numbers * s >= s /\ numbers * s \in Int
            BY <1>0, <1>m
        <3>2. s <= g
            BY <1>0, <1>1, <2>4, <3>1
        <3> QED
            BY <1>0, <1>2, <3>2 DEF Unlimited
    <2> QED
        BY <1>m, <2>2, <2>5, <2>6 DEF WholeCommand
<1> HIDE DEF s, g
<1>4. numbers = single_io_size \div s
    BY DEF numbers, s
<1>f. identified # 0 => g % s = 0 /\ (g \div s <= U16 \/ ZoneCap <= U16)
    BY <1>0, <1>1 DEF SizesFit, s
<1>5. CASE g >= rest * s
    <2>1. single_io_size = rest * s /\ numbers = rest
        <3>1. rest * s \in Int
            BY <1>0
        <3>2. single_io_size = rest * s
            BY <1>1, <1>3, <1>5, <3>1
        <3> QED
            BY <1>0, <1>4, <3>2, WholeBlocks
    <2>2. rest <= U16
        <3>1. CASE identified = 0
            <4>1. rest * s >= rest
                BY <1>0
            <4> QED
                BY <1>0, <1>2, <1>5, <3>1, <4>1
        <3>2. CASE identified # 0
            <4>1. g = (g \div s) * s
                BY <1>0, <1>1, <1>f, <3>2
            <4>2. g \div s \in Int
                BY <1>0, <1>1
            <4>3. rest <= g \div s
                BY <1>0, <1>5, <4>1, <4>2, Multiples
            <4> QED
                BY <1>0, <1>f, <3>2, <4>2, <4>3
        <3> QED
            BY <3>1, <3>2
    <2> QED
        BY <1>0, <1>m, <2>1, <2>2
<1>6. CASE g < rest * s
    <2>1. single_io_size = g /\ numbers = g \div s
        BY <1>3, <1>4, <1>6
    <2>2. CASE identified # 0
        <3>1. g = (g \div s) * s /\ g \div s \in Int
            BY <1>0, <1>1, <1>f, <2>2
        <3>2. g \div s < rest
            BY <1>0, <1>6, <3>1, Multiples
        <3>3. g \div s > 0
            <4>1. 0 * s < (g \div s) * s
                BY <1>0, <1>1, <3>1
            <4> QED
                BY <1>0, <3>1, <4>1, Multiples
        <3>4. g \div s <= U16
            BY <1>0, <1>f, <2>2, <3>1, <3>2
        <3> QED
            BY <1>0, <1>m, <2>1, <3>1, <3>2, <3>3, <3>4
    <2>3. CASE identified = 0 /\ s = 1
        <3>1. numbers = 1 /\ numbers * s = single_io_size
            BY <1>2, <2>1, <2>3
        <3> QED
            BY <1>0, <1>m, <3>1
    <2>4. CASE identified = 0 /\ s # 1
        <3>1. g = 1 /\ s > 1
            BY <1>0, <1>2, <2>4
        <3>2. numbers = 0
            BY <1>0, <2>1, <3>1
        <3>3. (0 - 1) % U16 = U16 - 1
            BY <1>0
        <3>4. CommandBlocks = U16
            BY <1>0, <3>2, <3>3 DEF CommandBlocks
        <3> QED
            BY <2>1, <2>4, <3>1, <3>2, <3>4 DEF Wrapped, Unlimited, s
    <2> QED
        BY <2>2, <2>3, <2>4
<1> QED
    <2>1. g \in Int /\ rest * s \in Int
        BY <1>0, <1>1
    <2> QED
        BY <1>5, <1>6, <2>1

(* Where the loop is: rest blocks are left, in the zone before drawn. *)
LEMMA CutRest ==
    ASSUME TypeOK, pc = "io", NEW q \in 0 .. Descriptor(drawn).zcap, Cut(q)
    PROVE  /\ q \in Nat /\ q <= ZoneCap
           /\ io.left > 0 <=> drawn # 0 /\ q < ZoneCap
           /\ io.left = 0 <=> q = Descriptor(drawn).zcap
           /\ drawn # 0 /\ q < ZoneCap =>
                /\ ZoneCap - q \in 1 .. ZoneCap
                /\ io.left = (ZoneCap - q) * lba_size
                /\ q \in Offsets
           /\ BufferFrom = q
           /\ q * lba_size \in Int
<1>1. lba_size \in Nat \ {0} /\ ZoneCap \in Nat \ {0}
    BY CommandType, GeometryAssumption
<1>2. q \in Nat /\ q <= ZoneCap /\ (drawn = 0 => q = 0) /\ Descriptor(drawn).zcap \in Nat
    BY <1>1, DrawnZone
<1>3. io.left = (Descriptor(drawn).zcap - q) * lba_size
    BY DEF Cut
<1>4. io.left = 0 <=> q = Descriptor(drawn).zcap
    BY <1>1, <1>2, <1>3
<1>5. io.left > 0 <=> q < Descriptor(drawn).zcap
    <2>1. Descriptor(drawn).zcap - q \in Nat
        BY <1>2
    <2>2. 0 < Descriptor(drawn).zcap - q <=> 0 * lba_size < (Descriptor(drawn).zcap - q) * lba_size
        BY <1>1, <2>1, Multiples
    <2> QED
        BY <1>1, <1>2, <1>3, <2>1, <2>2
<1>6. io.left > 0 <=> drawn # 0 /\ q < ZoneCap
    BY <1>2, <1>5, DrawnZone
<1>7. drawn # 0 => io.left = (ZoneCap - q) * lba_size
    BY <1>3, DrawnZone
<1>8. BufferFrom = q
    BY <1>1, <1>2, WholeBlocks DEF Cut, BufferFrom
<1>9. drawn # 0 /\ q < ZoneCap => ZoneCap - q \in 1 .. ZoneCap /\ q \in Offsets
    BY <1>1, <1>2 DEF Offsets
<1>10. q * lba_size \in Int
    BY <1>1, <1>2
<1> QED
    BY <1>2, <1>4, <1>6, <1>7, <1>8, <1>9, <1>10

(* The round after a wrapped one does not start at the write pointer. *)
LEMMA OverrunRefused ==
    ASSUME TypeOK, Overrun
    PROVE  /\ ~ Accepted(io.dir, io.lba, CommandBlocks)
           /\ get_mdts_size < lba_size
<1>1. /\ drawn - 1 \in Zones /\ drawn - 1 \in Int /\ Slba(drawn - 1) \in Int /\ 0 \in Offsets
    BY DrawnZone, GeometryAssumption DEF Overrun, Zones, Offsets
<1>2. ZoneOf(Slba(drawn - 1) + 0) = drawn - 1 /\ OffsetOf(Slba(drawn - 1) + 0) = 0
    BY <1>1, ZoneOfSlba
<1>3. ZoneOf(io.lba) = drawn - 1 /\ OffsetOf(io.lba) = 0
    BY <1>1, <1>2 DEF Overrun
<1>4. 2 ^ 0 = 1
    OBVIOUS
<1>5. get_mdts_size = 1
    BY <1>4 DEF get_mdts_size, Overrun, Unlimited
<1> QED
    BY <1>3, <1>5 DEF Accepted, Overrun, Unlimited

(* A wrapped round that the device takes. *)
LEMMA WrappedStep ==
    ASSUME TypeOK, IoCommand, NEW q \in 0 .. Descriptor(drawn).zcap, Cut(q), Wrapped
    PROVE  Overrun'
<1>1. /\ pc = "io" /\ drawn' = drawn /\ lba_size' = lba_size /\ identified' = identified /\ io.left > 0
      /\ io.dir = "write" /\ q = 0 /\ Unlimited /\ Unlimited'
    BY DEF IoCommand, Wrapped, Cut, Unlimited
<1> DEFINE z == drawn - 1
           buf == [b \in Offsets |-> IF BufferFrom + b \in Offsets THEN data[BufferFrom + b] ELSE Zero]
<1>2. /\ drawn # 0 /\ BufferFrom = 0 /\ ZoneCap \in 1 .. ZoneCap /\ io.left = ZoneCap * lba_size
      /\ lba_size \in Nat \ {0} /\ U16 \in Nat \ {0} /\ 0 \in Offsets /\ ZoneCap \in Nat \ {0}
    BY <1>1, CutRest, CommandType, M1Assumption, GeometryAssumption DEF Offsets
<1>3. /\ z \in Zones /\ z \in Int /\ Slba(z) \in Int /\ io.lba = Slba(z) /\ Slba(z) + 0 = Slba(z)
      /\ wp[z] = 0 /\ io.ptr = 0 /\ \A b \in Offsets : data[b] = Pattern(b)
    BY <1>1, <1>2, DrawnZone DEF Cut, Zones
<1>4. /\ OffsetOf(Slba(z) + 0) = 0
      /\ Accepted("write", Slba(z) + 0, U16) /\ Effect("write", Slba(z) + 0, U16, buf)
    BY <1>1, <1>2, <1>3, ZoneOfSlba DEF IoCommand, Wrapped
<1>5. 0 + U16 <= ZoneCap /\ nvme_write(Slba(z) + 0, U16, buf)
    BY <1>4 DEF Accepted, Effect, InOneZone
<1>b. buf[0] = Pattern(0)
    BY <1>2, <1>3
<1> HIDE DEF z, buf
<1>6. /\ wp' = [wp EXCEPT ![z] = 0 + U16]
      /\ \A w \in Zones, j \in Offsets :
             blk'[Slba(w) + j] = IF w = z /\ j >= 0 /\ j < 0 + U16 THEN buf[j - 0] ELSE blk[Slba(w) + j]
    BY <1>2, <1>3, <1>5, WriteEffect DEF TypeOK
<1>7. wp'[z] > 0 /\ blk'[Slba(z) + 0] = Pattern(0)
    BY <1>2, <1>3, <1>6, <1>b DEF TypeOK, DeviceTypeOK
<1>8. /\ io'.dir = io.dir /\ io'.lba = io.lba + numbers /\ io'.left = io.left - single_io_size
      /\ io'.ptr = io.ptr + single_io_size
    BY DEF IoCommand, TypeOK
<1>9. io'.dir = "write" /\ io'.lba = Slba(z) /\ io'.ptr = 1 /\ io'.left > 0
    <2>1. ZoneCap * lba_size >= lba_size /\ ZoneCap * lba_size \in Int
        BY <1>2
    <2> QED
        BY <1>1, <1>2, <1>3, <1>8, <2>1 DEF Wrapped, Unlimited
<1>10. data'[0] = Pattern(0)
    BY <1>1, <1>2, <1>3 DEF IoCommand
<1> QED
    BY <1>1, <1>2, <1>7, <1>9, <1>10 DEF Overrun, z, Slba, Pattern

(* The round of the loop that the device takes moves its blocks. *)
LEMMA CommandStep ==
    ASSUME SizesFit, TypeOK, ModeInv, ChunkInv, IoCommand
    PROVE  ChunkInv'
<1>1. pc = "io" /\ pc' = "io" /\ drawn' = drawn /\ lba_size' = lba_size /\ io.left > 0
    BY DEF IoCommand
<1>z. ZoneMoved' /\ pc' # "setup"
    BY <1>1 DEF ZoneMoved
<1>2. PICK q \in 0 .. Descriptor(drawn).zcap : Cut(q)
    BY <1>1, OverrunRefused DEF ChunkInv, IoCommand
<1>w. CASE Wrapped
    BY <1>1, <1>2, <1>w, <1>z, WrappedStep DEF ChunkInv
<1> SUFFICES ASSUME ~ Wrapped PROVE ChunkInv'
    BY <1>w
<1> DEFINE z == drawn - 1
           buf == [b \in Offsets |-> IF BufferFrom + b \in Offsets THEN data[BufferFrom + b] ELSE Zero]
<1>3. /\ q \in Nat /\ q < ZoneCap /\ ZoneCap - q \in 1 .. ZoneCap /\ BufferFrom = q /\ drawn # 0
      /\ io.left = (ZoneCap - q) * lba_size /\ q * lba_size \in Int
    BY <1>1, <1>2, CutRest
<1>4. /\ z \in Zones /\ z \in Int /\ Slba(z) \in Int /\ io.lba = Slba(z) + q
      /\ Descriptor(drawn).zcap = ZoneCap /\ Descriptor(drawn).zslba = Slba(z)
    BY <1>2, <1>3, DrawnZone DEF Cut, Zones
<1>5. WholeCommand(ZoneCap - q) /\ ~ Unlimited
    BY <1>1, <1>3, CutFits DEF IoCommand
<1>u. ~ Unlimited'
    BY <1>5 DEF Unlimited, IoCommand
<1>6. PICK n \in Nat \ {0} : /\ n = numbers
                            /\ q + n <= ZoneCap /\ CommandBlocks = n /\ single_io_size = n * lba_size
                            /\ ZoneCap \in Nat
    BY <1>3, <1>5, GeometryAssumption DEF WholeCommand
<1>s. lba_size \in Nat \ {0}
    BY CommandType
<1>7. Accepted(io.dir, io.lba, n) /\ Effect(io.dir, io.lba, n, buf) /\ io.dir \in {"write", "read"}
    BY <1>1, <1>6 DEF IoCommand, TypeOK
<1>8. /\ io'.dir = io.dir /\ io'.lba = io.lba + n /\ io'.left = io.left - single_io_size
      /\ io'.ptr = io.ptr + single_io_size /\ io'.ret = 0
    BY <1>6 DEF IoCommand, TypeOK
<1> HIDE DEF z, buf
<1>9. /\ io'.ptr = (q + n) * lba_size /\ io'.left = (ZoneCap - (q + n)) * lba_size
      /\ io'.lba = Slba(z) + (q + n)
    <2>1. io.ptr = q * lba_size /\ io.left = (ZoneCap - q) * lba_size
        BY <1>2, <1>3 DEF Cut
    <2>2. (q + n) * lba_size = q * lba_size + n * lba_size
        BY <1>3, <1>6, <1>s
    <2>3. (ZoneCap - (q + n)) * lba_size = (ZoneCap - q) * lba_size - n * lba_size
        BY <1>3, <1>6, <1>s
    <2>4. io'.lba = Slba(z) + (q + n)
        BY <1>3, <1>4, <1>6, <1>8
    <2> QED
        BY <1>6, <1>8, <2>1, <2>2, <2>3, <2>4
<1>b. \A b \in Offsets : b \in Int /\ b < ZoneCap /\ b >= 0
    BY GeometryAssumption DEF Offsets
<1>10. CASE io.dir = "write"
    <2>1. nvme_write(Slba(z) + q, n, buf) /\ wp[z] = q
        BY <1>2, <1>3, <1>4, <1>7, <1>10 DEF Effect, Cut, z
    <2>2. /\ wp' = [wp EXCEPT ![z] = q + n]
          /\ \A w \in Zones, j \in Offsets :
                 blk'[Slba(w) + j] = IF w = z /\ j >= q /\ j < q + n THEN buf[j - q] ELSE blk[Slba(w) + j]
        BY <1>3, <1>4, <1>6, <2>1, WriteEffect DEF TypeOK
    <2>3. wp'[z] = q + n
        BY <1>4, <2>2 DEF TypeOK, DeviceTypeOK
    <2>4. \A b \in Offsets : data'[b] = Pattern(b)
        BY <1>2, <1>3, <1>10 DEF IoCommand, Cut
    <2>5. ASSUME NEW b \in Offsets, b < q + n PROVE blk'[Slba(z) + b] = Pattern(b)
        <3>1. CASE b < q
            <4>1. blk[Slba(z) + b] = Pattern(b)
                BY <1>2, <1>3, <3>1 DEF Cut, z
            <4> QED
                BY <1>3, <1>4, <1>b, <2>2, <3>1, <4>1
        <3>2. CASE b >= q
            <4>1. b - q \in Offsets /\ q + (b - q) = b
                BY <1>3, <1>6, <1>b, <3>2 DEF Offsets
            <4>2. buf[b - q] = data[b]
                BY <1>3, <4>1 DEF buf
            <4>3. data[b] = Pattern(b)
                BY <1>2, <1>3, <1>10 DEF Cut
            <4>4. blk'[Slba(z) + b] = buf[b - q]
                BY <1>4, <2>2, <2>5, <3>2
            <4> QED
                BY <4>2, <4>3, <4>4
        <3> QED
            BY <1>3, <1>b, <3>1, <3>2
    <2>6. Cut(q + n)'
        <3>1. Descriptor(drawn)' = Descriptor(drawn) /\ Slba(drawn - 1)' = Slba(z)
            BY <1>1 DEF Descriptor, Slba, z
        <3>2. \A b \in Offsets : Pattern(b)' = Pattern(b)
            BY DEF Pattern
        <3>3. io'.dir = "write" /\ io'.ret = 0 /\ wp'[drawn - 1] = q + n /\ drawn' # 0
            BY <1>1, <1>3, <1>8, <1>10, <2>3 DEF z
        <3>4. \A b \in Offsets : (b < q + n \/ io'.dir = "read") => blk'[Slba(z) + b] = Pattern(b)
            BY <2>5, <3>3
        <3> QED
            BY <1>1, <1>4, <1>9, <1>u, <2>4, <3>1, <3>3, <3>4 DEF Cut, Pattern, z
    <2> QED
        <3>1. q + n \in 0 .. Descriptor(drawn)'.zcap
            BY <1>1, <1>3, <1>4, <1>6 DEF Descriptor
        <3> QED
            BY <1>1, <1>z, <2>6, <3>1 DEF ChunkInv
<1>11. CASE io.dir = "read"
    <2>1. UNCHANGED <<wp, blk>>
        BY <1>7, <1>11 DEF Effect, device
    <2>2. data' = [b \in Offsets |-> IF b >= q /\ b < q + n THEN blk[io.lba + b - q] ELSE data[b]]
        BY <1>3, <1>6, <1>11 DEF IoCommand
    <2>3. ASSUME NEW b \in Offsets PROVE blk[Slba(z) + b] = Pattern(b)
        BY <1>2, <1>3, <1>11 DEF Cut, z
    <2>4. ASSUME NEW b \in Offsets, b < q + n PROVE data'[b] = Pattern(b)
        <3>1. CASE b < q
            BY <1>2, <1>3, <1>b, <2>2, <3>1 DEF Cut
        <3>2. CASE b >= q
            <4>1. io.lba + b - q = Slba(z) + b
                BY <1>3, <1>4, <1>b
            <4> QED
                BY <2>2, <2>3, <2>4, <3>2, <4>1
        <3> QED
            BY <1>3, <1>b, <3>1, <3>2
    <2>6. Cut(q + n)'
        <3>1. Descriptor(drawn)' = Descriptor(drawn) /\ Slba(drawn - 1)' = Slba(z)
            BY <1>1 DEF Descriptor, Slba, z
        <3>3. io'.dir = "read" /\ io'.ret = 0 /\ wp'[drawn - 1] = ZoneCap /\ drawn' # 0
            BY <1>1, <1>2, <1>3, <1>8, <1>11, <2>1 DEF z, Cut
        <3>4. \A b \in Offsets : blk'[Slba(z) + b] = Pattern(b)
            BY <2>1, <2>3
        <3>5. \A b \in Offsets : (b < q + n \/ io'.dir = "write") => data'[b] = Pattern(b)
            BY <2>4, <3>3
        <3> QED
            BY <1>1, <1>4, <1>9, <1>u, <3>1, <3>3, <3>4, <3>5 DEF Cut, Pattern, z
    <2> QED
        <3>1. q + n \in 0 .. Descriptor(drawn)'.zcap
            BY <1>1, <1>3, <1>4, <1>6 DEF Descriptor
        <3> QED
            BY <1>1, <1>z, <2>6, <3>1 DEF ChunkInv
<1> QED
    BY <1>7, <1>10, <1>11

LEMMA ChunkStep == SizesFit /\ TypeOK /\ ModeInv /\ ChunkInv /\ Next => ChunkInv'
<1> SUFFICES ASSUME SizesFit, TypeOK, ModeInv, ChunkInv, Next PROVE ChunkInv'
    OBVIOUS
<1>v. ASSUME pc' \notin {"io", "reset2", "setup"}, ZoneMoved' PROVE ChunkInv'
    BY <1>v DEF ChunkInv
<1>m. pc' # "verdict" \/ t2' # 0 \/ drawn' = 0 \/ mode' # "tests" => ZoneMoved'
    BY DEF ZoneMoved
<1>q. ASSUME pc' \notin {"io", "reset2", "setup", "verdict"} PROVE ChunkInv'
    BY <1>q, <1>v, <1>m
<1>s. lba_size \in Nat \ {0} /\ ZoneCap \in Nat \ {0}
    BY CommandType, GeometryAssumption
<1>1. CASE Test2Begin
    <2>1. ASSUME NEW b \in Offsets, b < Descriptor(drawn').zcap PROVE data'[b] = Pattern(b)
        BY <1>1, <2>1 DEF Test2Begin
    <2>2. Descriptor(drawn)'.zcap = Descriptor(drawn').zcap
        BY DEF Descriptor
    <2>3. pc' \in {"reset2", "abort"}
        BY <1>1 DEF Test2Begin
    <2> QED
        BY <1>m, <2>1, <2>2, <2>3 DEF ChunkInv, Pattern
<1>2. CASE Test2Reset
    <2>1. CASE pc' # "io"
        <3>1. pc' = "verdict" /\ t2' # 0
            BY <1>2, <2>1 DEF Test2Reset, Test2Returns, EIO
        <3> QED
            BY <1>v, <1>m, <3>1
    <2>2. CASE pc' = "io"
        <3>1. /\ nvme_zns_reset({ZoneOf(Descriptor(drawn).zslba)}) /\ io' = Request("write")
              /\ UNCHANGED <<drawn, lba_size, data>> /\ pc = "reset2"
            BY <1>2, <2>2 DEF Test2Reset, Test2Returns
        <3>2. Descriptor(drawn)' = Descriptor(drawn) /\ Slba(drawn - 1)' = Slba(drawn - 1)
            BY <3>1 DEF Descriptor, Slba
        <3>3. /\ io'.dir = "write" /\ io'.ptr = 0 /\ io'.ret = ENOSYS /\ ENOSYS # 0
              /\ io'.lba = Descriptor(drawn).zslba /\ io'.left = Descriptor(drawn).zcap * lba_size
            BY <3>1 DEF Request, ENOSYS
        <3>4. Descriptor(drawn).zcap \in Nat /\ Descriptor(drawn).zslba \in Int
            BY DrawnZone, <1>s
        <3>5. /\ io'.ptr = 0 * lba_size
              /\ io'.left = (Descriptor(drawn).zcap - 0) * lba_size
              /\ io'.lba = Descriptor(drawn).zslba + 0
            BY <1>s, <3>3, <3>4
        <3>6. ASSUME drawn # 0 PROVE wp'[drawn - 1] = 0 /\ \A b \in Offsets : data[b] = Pattern(b)
            <4>1. drawn - 1 \in Zones /\ nvme_zns_reset({drawn - 1}) /\ Descriptor(drawn).zcap = ZoneCap
                BY <3>1, <3>6, DrawnZone
            <4>2. wp' = [wp EXCEPT ![drawn - 1] = 0]
                BY <4>1, ResetEffect DEF TypeOK
            <4>3. \A b \in Offsets : b < ZoneCap
                BY GeometryAssumption DEF Offsets
            <4> QED
                BY <3>1, <4>1, <4>2, <4>3 DEF ChunkInv, TypeOK, DeviceTypeOK
        <3>7. \A b \in Offsets : ~ (b < 0)
            BY GeometryAssumption DEF Offsets
        <3>8. Cut(0)'
            BY <3>1, <3>2, <3>3, <3>5, <3>6, <3>7 DEF Cut, Pattern
        <3>9. 0 \in 0 .. Descriptor(drawn)'.zcap
            BY <3>2, <3>4
        <3> QED
            BY <1>m, <2>2, <3>8, <3>9 DEF ChunkInv
    <2> QED
        BY <2>1, <2>2
<1>3. CASE IoCommand
    BY <1>3, CommandStep
<1>4. CASE IoDone
    <2>1. CASE pc' # "io"
        <3>1. pc = "io" /\ io.left = 0 /\ UNCHANGED <<device, drawn>> /\ pc' \in {"verdict", "abort"}
            BY <1>4, <2>1 DEF IoDone, Test2Returns
        <3>2. PICK q \in 0 .. Descriptor(drawn).zcap : Cut(q)
            BY <3>1 DEF ChunkInv, Overrun
        <3>3. ASSUME pc' = "verdict", t2' = 0, drawn # 0
              PROVE  \A b \in Offsets : blk[Descriptor(drawn).zslba + b] = Pattern(b)
            <4>1. io.dir = "read"
                BY <1>4, <2>1, <3>3 DEF IoDone, Test2Returns, TypeOK
            <4> QED
                BY <3>2, <3>3, <4>1, DrawnZone DEF Cut
        <3>4. /\ blk' = blk /\ drawn' = drawn /\ Descriptor(drawn)' = Descriptor(drawn)
              /\ \A b \in Offsets : Pattern(b)' = Pattern(b)
            BY <3>1 DEF device, Descriptor, Slba, Pattern
        <3>5. ZoneMoved'
            BY <3>3, <3>4 DEF ZoneMoved
        <3> QED
            BY <1>v, <3>1, <3>5
    <2>2. CASE pc' = "io"
        <3>1. /\ pc = "io" /\ io.left = 0 /\ io.ret = 0 /\ io.dir = "write"
              /\ io' = Request("read") /\ UNCHANGED <<device, drawn, lba_size>>
            BY <1>4, <2>2 DEF IoDone, Test2Returns
        <3>2. PICK q \in 0 .. Descriptor(drawn).zcap : Cut(q)
            BY <3>1 DEF ChunkInv, Overrun
        <3>3. q = Descriptor(drawn).zcap /\ drawn # 0
            BY <3>1, <3>2, CutRest DEF Cut
        <3>u. ~ Unlimited'
            <4>1. q # 0
                BY <1>s, <3>3, DrawnZone
            <4> QED
                BY <1>4, <3>2, <4>1 DEF Cut, Unlimited, IoDone
        <3>4. /\ Descriptor(drawn)' = Descriptor(drawn) /\ Slba(drawn - 1)' = Slba(drawn - 1)
              /\ wp' = wp /\ blk' = blk
            BY <3>1 DEF Descriptor, Slba, device
        <3>5. /\ io'.dir = "read" /\ io'.ptr = 0
              /\ io'.lba = Descriptor(drawn).zslba /\ io'.left = Descriptor(drawn).zcap * lba_size
            BY <3>1 DEF Request
        <3>6. Descriptor(drawn).zcap = ZoneCap /\ Descriptor(drawn).zslba \in Int
            BY DrawnZone, <3>3
        <3>7. /\ io'.ptr = 0 * lba_size
              /\ io'.left = (Descriptor(drawn).zcap - 0) * lba_size
              /\ io'.lba = Descriptor(drawn).zslba + 0
            BY <1>s, <3>5, <3>6
        <3>8. \A b \in Offsets : b < ZoneCap /\ ~ (b < 0)
            BY GeometryAssumption DEF Offsets
        <3>9. wp'[drawn - 1] = ZoneCap /\ \A b \in Offsets : blk'[Slba(drawn - 1) + b] = Pattern(b)
            BY <3>1, <3>2, <3>3, <3>4, <3>6, <3>8 DEF Cut
        <3>10. Cut(0)'
            BY <3>1, <3>3, <3>4, <3>5, <3>7, <3>8, <3>9, <3>u DEF Cut, Pattern
        <3>11. 0 \in 0 .. Descriptor(drawn)'.zcap
            BY <1>s, <3>4, <3>6
        <3> QED
            BY <1>m, <2>2, <3>10, <3>11 DEF ChunkInv
    <2> QED
        BY <2>1, <2>2
<1>5. ASSUME NEW t \in Thread, ThreadNext(t) PROVE ChunkInv'
    <2>1. /\ mode' = "parallel" /\ pc' \in {pc, "abort"} /\ drawn' = drawn
          /\ pc \notin {"io", "reset2"}
        BY <1>5, ThreadsRun DEF ModeInv
    <2> QED
        BY <1>m, <2>1 DEF ChunkInv
<1>6. CASE Ended
    <2>1. UNCHANGED <<device, pc, t2, drawn, mode>> /\ pc \in {"verdict", "abort"}
        BY <1>6 DEF Ended, vars, mainVars
    <2>2. ZoneMoved'
        BY <2>1 DEF ChunkInv, ZoneMoved, device, Descriptor, Slba, Pattern
    <2> QED
        BY <1>v, <2>1, <2>2
<1>7. CASE Setup \/ IoFails \/ Join
    <2>1. pc' \notin {"io", "reset2", "setup"} /\ (pc' = "verdict" => t2' # 0 \/ drawn' = 0 \/ mode' # "tests")
        BY <1>7 DEF Setup, IoFails, Join, Test2Returns, EIO, ChunkInv, ModeInv
    <2> QED
        BY <1>v, <1>m, <2>1
<1>8. Test1Step \/ Test1Fails \/ Spawn \/ Sleep \/ StopThreads
        => pc' \notin {"io", "reset2", "setup", "verdict"}
    BY DEF Test1Step, Test1Fails, Test1Returns, Spawn, Sleep, StopThreads, mainVars
<1> QED
    BY <1>q, <1>1, <1>2, <1>3, <1>4, <1>5, <1>6, <1>7, <1>8 DEF Next, MainNext

(***************************************************************************)
(* The request is moved in order, in commands of whole blocks that the     *)
(* controller takes, and all of it if test 2 passes, for every geometry    *)
(* and limit that SizesFit describes and whatever fails: also the identify *)
(* command that was to tell the limit.                                     *)
(***************************************************************************)
THEOREM TransferInPieces == ASSUME SizesFit PROVE Spec => []TransferCut
<1> DEFINE I == ParallelInv /\ ChunkInv
<1>1. Init => ChunkInv
    BY DEF Init, ChunkInv, ZoneMoved
<1>2. ParallelInv /\ ChunkInv /\ [Next]_vars => ChunkInv'
    <2>1. ParallelInv /\ ChunkInv /\ Next => ChunkInv'
        BY ChunkStep DEF ParallelInv
    <2>2. ChunkInv /\ UNCHANGED vars => ChunkInv'
        BY DEF ChunkInv, ZoneMoved, Cut, Overrun, Unlimited, vars, device, mainVars, Descriptor, Slba, Pattern
    <2> QED
        BY <2>1, <2>2
<1>3. ParallelInv /\ ChunkInv => TransferCut
    <2> SUFFICES ASSUME ParallelInv, ChunkInv, pc = "io" PROVE TransferInOrder /\ CommandsFit
        BY DEF TransferCut, TransferInOrder, CommandsFit, ChunkInv
    <2>0. TypeOK /\ ModeInv /\ lba_size \in Nat \ {0}
        BY CommandType DEF ParallelInv
    <2>u. Unlimited /\ io.left > 0 => CommandBlocks * lba_size # single_io_size
        <3>1. Unlimited => get_mdts_size = 1
            <4>1. 2 ^ 0 = 1
                OBVIOUS
            <4> QED
                BY <4>1 DEF get_mdts_size, Unlimited
        <3>2. Unlimited /\ io.left > 0 => single_io_size = 1
            BY <2>0, <3>1 DEF single_io_size, TypeOK
        <3>3. CommandBlocks \in Nat \ {0}
            BY <2>0, CommandType, M1Assumption
        <3>4. CommandBlocks * lba_size >= lba_size
            BY <2>0, <3>3
        <3> QED
            BY <2>0, <3>2, <3>4 DEF Unlimited
    <2>v. CommandsFit <=> (io.left > 0 /\ ~ Unlimited =>
                              CommandBlocks * lba_size = single_io_size /\ WithinMdts(CommandBlocks))
        <3>1. ~ Unlimited <=> identified # 0 \/ lba_size = 1
            BY <2>0 DEF Unlimited
        <3> QED
            BY <2>u, <3>1 DEF CommandsFit
    <2>o. CASE Overrun
        <3>1. CommandsFit
            BY <2>o, <2>v DEF Overrun
        <3>2. ASSUME NEW b \in Offsets, b * lba_size < io.ptr PROVE b = 0
            <4>1. b \in Nat /\ io.ptr = 1
                BY <2>o, GeometryAssumption DEF Offsets, Overrun
            <4>2. b > 0 => b * lba_size >= lba_size
                BY <2>0, <4>1
            <4> QED
                BY <2>0, <3>2, <4>1, <4>2
        <3>3. Descriptor(drawn).zslba = Slba(drawn - 1)
            BY <2>0, <2>o, DrawnZone DEF Overrun
        <3> QED
            BY <2>o, <3>1, <3>2, <3>3 DEF TransferInOrder, Overrun
    <2> SUFFICES ASSUME ~ Overrun PROVE TransferInOrder /\ CommandsFit
        BY <2>o
    <2>1. PICK q \in 0 .. Descriptor(drawn).zcap : Cut(q)
        BY DEF ChunkInv
    <2>2. TransferInOrder
        <3> SUFFICES ASSUME NEW b \in Offsets, b * lba_size < io.ptr
                     PROVE  blk[Descriptor(drawn).zslba + b] = Pattern(b) /\ data[b] = Pattern(b)
            BY DEF TransferInOrder
        <3>1. b \in Int /\ b >= 0 /\ q \in Int
            BY <2>0, <2>1, CutRest, GeometryAssumption DEF Offsets
        <3>2. b < q
            BY <2>0, <2>1, <3>1, Multiples DEF Cut
        <3>3. drawn # 0
            BY <2>0, <3>1, <3>2, DrawnZone
        <3> QED
            BY <2>0, <2>1, <3>2, <3>3, DrawnZone DEF Cut
    <2>3. CommandsFit
        <3> SUFFICES ASSUME io.left > 0, ~ Unlimited
                     PROVE  CommandBlocks * lba_size = single_io_size /\ WithinMdts(CommandBlocks)
            BY <2>v
        <3>1. ZoneCap - q \in 1 .. ZoneCap /\ io.left = (ZoneCap - q) * lba_size
            BY <2>0, <2>1, CutRest
        <3>2. WholeCommand(ZoneCap - q)
            BY <2>0, <3>1, CutFits DEF Wrapped
        <3> QED
            BY <3>2 DEF WholeCommand
    <2> QED
        BY <2>2, <2>3
<1>4. Spec => []ChunkInv
    BY <1>1, <1>2, ThreadsInductive, PTL DEF Spec
<1> QED
    BY <1>3, <1>4, ThreadsInductive, PTL

----------------------------------------------------------------------------
(* No false alarm *)

(* The zone test 1 drew holds w blocks of the pattern. *)
Holds(w) ==
    /\ wp[drawn] = w
    /\ \A b \in Offsets : b < w => blk[Slba(drawn) + b] = Pattern(0)

(* The zone before each line of the script. *)
ScriptInv ==
    /\ step \in {3, 6} => Holds(0)
    /\ step = 4 => Holds(1)
    /\ step = 7 => Holds(2)
    /\ step = 8 => Holds(4) /\ returned = Slba(drawn) + 2
    /\ step = 9 => Holds(5)

Quiet ==
    /\ t1 = 0
    /\ pc # "verdict" => t2 = 0
    /\ t2 # 0 => drawn = 0 \/ 2 ^ mdts < lba_size
    /\ pc \in {"reset2", "io"} => identified = mdts
    /\ pc = "abort" => ~ stdin \/ ~ WithinMdts(5)
    /\ pc = "setup" => step = 1
    /\ pc = "test1" => ScriptInv
    /\ \A t \in Thread : th[t].ret = 0

AlarmInv == faults = 0 => Quiet

(* A command of one or two blocks fits every transfer limit. *)
LEMMA ShortFits ==
    ASSUME SizesFit, TypeOK, ModeInv, mode = "tests", NEW n \in {1, 2}
    PROVE  WithinMdts(n)
<1>1. mdts = 0 \/ mdts \in Mdts \ {0}
    BY DEF ModeInv
<1>2. CASE mdts # 0
    <2>1. 2 ^ mdts \in Nat \ {0} /\ lba_size \in Nat \ {0}
        BY PowerPositive, CommandType DEF TypeOK
    <2>2. 2 ^ mdts % lba_size = 0
        BY <1>1, <1>2 DEF SizesFit, TypeOK
    <2> DEFINE g == 2 ^ mdts
    <2>3. g \in Nat \ {0} /\ g % lba_size = 0
        BY <2>1, <2>2
    <2> HIDE DEF g
    <2>4. lba_size <= g
        <3>1. lba_size > g => g % lba_size = g
            BY <2>1, <2>3
        <3> QED
            BY <2>1, <2>3, <3>1
    <2>5. n * lba_size <= 2 * g
        BY <2>1, <2>3, <2>4
    <2> QED
        BY <2>5 DEF WithinMdts, g
<1> QED
    BY <1>1, <1>2 DEF WithinMdts

(* The device takes a command at the write pointer, and reads anything. *)
LEMMA LineAccepted ==
    ASSUME TypeOK, NEW w \in Nat, NEW n \in Nat \ {0}, w + n <= ZoneCap, WithinMdts(n)
    PROVE  /\ wp[drawn] = w => Accepted("write", Slba(drawn) + w, n)
           /\ wp[drawn] = w => Accepted("append", Slba(drawn) + w, n)
           /\ Accepted("read", Slba(drawn) + w, n)
           /\ ZoneOf(Slba(drawn) + w) = drawn
<1>1. drawn \in Zones /\ drawn \in Int /\ w \in Offsets
    BY GeometryAssumption DEF TypeOK, Zones, Offsets
<1>2. /\ ZoneOf(Slba(drawn) + w) = drawn /\ OffsetOf(Slba(drawn) + w) = w
      /\ Slba(drawn) + w \in LBAs
    BY <1>1, ZoneOfSlba, BlockLba
<1>3. Slba(drawn) + w >= 0
    BY <1>2, GeometryAssumption DEF LBAs
<1>4. InOneZone(Slba(drawn) + w, n) /\ (wp[drawn] = w => CanAppend(drawn, n))
    BY <1>1, <1>2, <1>3 DEF InOneZone, CanAppend
<1> QED
    BY <1>2, <1>4 DEF Accepted

(* What the lines of the script leave in the zone. *)
LEMMA LineWrites ==
    ASSUME TypeOK, drawn' = drawn, NEW w \in Nat, NEW n \in Nat \ {0}, w + n <= ZoneCap, Holds(w),
           nvme_write(Slba(drawn) + w, n, Block) \/ nvme_zns_append(drawn, n, Block)
    PROVE  Holds(w + n)'
<1>0. drawn \in Zones /\ wp[drawn] = w /\ DeviceTypeOK
    BY DEF TypeOK, Holds
<1>z. PICK z \in Zones : z = drawn
    BY <1>0
<1>w. wp[z] = w /\ (nvme_write(Slba(z) + w, n, Block) \/ nvme_zns_append(z, n, Block))
    BY <1>0, <1>z DEF nvme_write, nvme_zns_append, Slba, AppendLba, CanAppend
<1>1. /\ wp' = [wp EXCEPT ![z] = w + n]
      /\ \A y \in Zones, j \in Offsets :
             blk'[Slba(y) + j] =
                IF y = z /\ j >= w /\ j < w + n THEN Block[j - w] ELSE blk[Slba(y) + j]
    <2> DEFINE buf == Block
    <2>1. nvme_write(Slba(z) + w, n, buf) \/ nvme_zns_append(z, n, buf)
        BY <1>w
    <2> HIDE DEF buf
    <2>2. /\ wp' = [wp EXCEPT ![z] = w + n]
          /\ \A y \in Zones, j \in Offsets :
                 blk'[Slba(y) + j] =
                    IF y = z /\ j >= w /\ j < w + n THEN buf[j - w] ELSE blk[Slba(y) + j]
        BY <1>0, <1>w, <2>1, WriteEffect
    <2> QED
        BY <2>2 DEF buf
<1>2. wp'[drawn] = w + n
    BY <1>0, <1>z, <1>1 DEF DeviceTypeOK
<1>3. ASSUME NEW b \in Offsets, b < w + n PROVE blk'[Slba(drawn) + b] = Pattern(0)
    <2>1. b \in Int /\ ZoneCap \in Nat
        BY GeometryAssumption DEF Offsets
    <2>2. CASE b < w
        BY <1>0, <1>z, <1>1, <2>1, <2>2 DEF Holds
    <2>3. CASE b >= w
        <3>1. b - w \in Offsets
            BY <2>1, <2>3, <1>3 DEF Offsets
        <3>2. Block[b - w] = Pattern(0)
            BY <3>1 DEF Block
        <3> QED
            BY <1>0, <1>z, <1>1, <1>3, <2>3, <3>2
    <2> QED
        BY <2>1, <2>2, <2>3
<1> QED
    BY <1>2, <1>3 DEF Holds, Slba, Pattern

LEMMA LineResets ==
    ASSUME TypeOK, drawn' = drawn, nvme_zns_reset({drawn})
    PROVE  Holds(0)'
<1>1. drawn \in Zones /\ wp' = [wp EXCEPT ![drawn] = 0]
    BY ResetEffect DEF TypeOK
<1>2. \A b \in Offsets : ~ (b < 0)
    BY GeometryAssumption DEF Offsets
<1> QED
    BY <1>1, <1>2 DEF Holds, TypeOK, DeviceTypeOK

(* The device takes every line of the script but, perhaps, the long read.  *)
LEMMA ScriptAccepted ==
    ASSUME SizesFit, ZoneCap >= 5, TypeOK, ModeInv, pc = "test1", ScriptInv
    PROVE  \/ Accepted(Script[step].op, Lba(Script[step]), Script[step].n)
           \/ step = 9 /\ ~ WithinMdts(5)
<1>0. step \in {1, 2, 3, 4, 5, 6, 7, 8, 9} /\ mode = "tests" /\ ZoneCap \in Nat
      /\ drawn \in Int /\ Slba(drawn) \in Int
    BY GeometryAssumption DEF TypeOK, ModeInv, Zones, Slba
<1>1. WithinMdts(1) /\ WithinMdts(2)
    BY <1>0, ShortFits
<1>2. CASE step \in {1, 2, 5}
    BY <1>2, ScriptLines DEF Accepted, line
<1>3. CASE step = 3
    <2>1. wp[drawn] = 0
        BY <1>3 DEF ScriptInv, Holds
    <2>2. Accepted("write", Slba(drawn) + 0, 1)
        BY <1>0, <1>1, <2>1, LineAccepted
    <2> QED
        BY <1>3, <2>2, ScriptLines DEF line, Lba
<1>4. CASE step = 4
    <2>2. Accepted("read", Slba(drawn) + 0, 1)
        BY <1>0, <1>1, LineAccepted
    <2> QED
        BY <1>4, <2>2, ScriptLines DEF line, Lba
<1>5. CASE step = 6
    <2>1. wp[drawn] = 0
        BY <1>5 DEF ScriptInv, Holds
    <2>2. Accepted("write", Slba(drawn) + 0, 2)
        BY <1>0, <1>1, <2>1, LineAccepted
    <2> QED
        BY <1>5, <2>2, ScriptLines DEF line, Lba
<1>6. CASE step = 7
    <2>1. wp[drawn] = 2
        BY <1>6 DEF ScriptInv, Holds
    <2>2. Accepted("append", Slba(drawn) + 2, 2)
        BY <1>0, <1>1, <2>1, LineAccepted
    <2> QED
        BY <1>6, <2>2, ScriptLines DEF line, Lba
<1>7. CASE step = 8
    <2>1. wp[drawn] = 4 /\ returned + 2 = Slba(drawn) + 4
        BY <1>0, <1>7 DEF ScriptInv, Holds
    <2>2. Accepted("write", Slba(drawn) + 4, 1)
        BY <1>0, <1>1, <2>1, LineAccepted
    <2> QED
        BY <1>7, <2>1, <2>2, ScriptLines DEF line, Lba
<1>8. CASE step = 9
    <2>2. WithinMdts(5) => Accepted("read", Slba(drawn) + 0, 5)
        BY <1>0, LineAccepted
    <2> QED
        BY <1>8, <2>2, ScriptLines DEF line, Lba
<1> QED
    BY <1>0, <1>2, <1>3, <1>4, <1>5, <1>6, <1>7, <1>8

(* A line the device takes leads to the next, and asserts nothing false. *)
LEMMA ScriptRuns ==
    ASSUME ZoneCap >= 5, TypeOK, ModeInv, ScriptInv, Test1Step, t1 = 0
    PROVE  t1' = 0 /\ pc' # "abort" /\ (pc' = "test1" => ScriptInv')
<1> DEFINE s == Script[step]
<1>0. /\ step \in {1, 2, 3, 4, 5, 6, 7, 8, 9} /\ ZoneCap \in Nat /\ pc = "test1"
      /\ drawn \in Int /\ drawn \in Zones /\ Slba(drawn) \in Int /\ drawn' = drawn /\ step' = step + 1
      /\ ZoneOf(Slba(drawn) + 0) = drawn
    <2>1. step \in 1 .. 9 /\ pc = "test1" /\ drawn' = drawn /\ step' = step + 1
        BY DEF Test1Step, TypeOK
    <2>2. drawn \in Int /\ drawn \in Zones /\ Slba(drawn) \in Int /\ 0 \in Offsets
        BY GeometryAssumption DEF TypeOK, Zones, Slba, Offsets
    <2> QED
        BY <2>1, <2>2, ZoneOfSlba, GeometryAssumption
<1>1. Effect(s.op, Lba(s), s.n, Block) /\ (s.op = "append" => returned' = AppendLba(drawn))
    BY DEF Test1Step
<1>r. ASSUME NEW w \in Nat, Holds(w)
      PROVE  \A b \in 0 .. w - 1 : w <= ZoneCap => blk[Slba(drawn) + 0 + b] = Pattern(0)
    <2> SUFFICES ASSUME NEW b \in 0 .. w - 1, w <= ZoneCap PROVE blk[Slba(drawn) + 0 + b] = Pattern(0)
        OBVIOUS
    <2>1. b \in Offsets /\ b < w /\ Slba(drawn) + 0 + b = Slba(drawn) + b
        BY <1>0 DEF Offsets
    <2> QED
        BY <1>r, <2>1 DEF Holds
<1>2. /\ s.op = "append" => AppendLba(drawn) = Lba(s)
      /\ s.op = "read" => \A b \in 0 .. s.n - 1 : blk[Lba(s) + b] = Pattern(0)
    <2>1. CASE step = 4
        <3>1. Holds(1)
            BY <2>1 DEF ScriptInv
        <3>2. \A b \in 0 .. 1 - 1 : blk[Slba(drawn) + 0 + b] = Pattern(0)
            BY <1>0, <1>r, <3>1
        <3> QED
            BY <2>1, <3>2, ScriptLines DEF line, Lba
    <2>2. CASE step = 9
        <3>1. Holds(5)
            BY <2>2 DEF ScriptInv
        <3>2. \A b \in 0 .. 5 - 1 : blk[Slba(drawn) + 0 + b] = Pattern(0)
            BY <1>0, <1>r, <3>1
        <3> QED
            BY <2>2, <3>2, ScriptLines DEF line, Lba
    <2>3. CASE step = 7
        <3>1. wp[drawn] = 2
            BY <2>3 DEF ScriptInv, Holds
        <3> QED
            BY <2>3, <3>1, ScriptLines DEF line, Lba, AppendLba
    <2>4. CASE step \in {1, 2, 3, 5, 6, 8}
        BY <2>4, ScriptLines DEF line
    <2> QED
        BY <1>0, <2>1, <2>2, <2>3, <2>4
<1>3. t1' = 0 /\ pc' # "abort" /\ (pc' = "test1" => step # 9)
    <2>1. IF step = Len(Script) THEN Test1Returns(0) ELSE UNCHANGED <<pc, t1>>
        <3> HIDE DEF s
        <3> QED
            BY <1>2 DEF Test1Step, s
    <2> QED
        BY <1>0, <2>1, ScriptLines DEF Test1Returns
<1>4. ASSUME pc' = "test1" PROVE ScriptInv'
    <2>0. step # 9
        BY <1>3, <1>4
    <2>1. CASE step = 1
        BY <1>0, <2>1 DEF ScriptInv
    <2>2. CASE step \in {2, 5}
        <3>1. nvme_zns_reset({ZoneOf(Slba(drawn) + 0)})
            BY <1>1, <2>2, ScriptLines DEF line, Lba, Effect
        <3>2. nvme_zns_reset({drawn})
            BY <1>0, <3>1
        <3>3. Holds(0)'
            BY <1>0, <3>2, LineResets
        <3> QED
            BY <1>0, <2>2, <3>3 DEF ScriptInv
    <2>3. CASE step = 3
        <3>1. nvme_write(Slba(drawn) + 0, 1, Block)
            BY <1>1, <2>3, ScriptLines DEF line, Lba, Effect
        <3>2. Holds(0)
            BY <2>3 DEF ScriptInv
        <3>3. Holds(0 + 1)'
            BY <1>0, <3>1, <3>2, LineWrites
        <3> QED
            BY <1>0, <2>3, <3>3 DEF ScriptInv
    <2>4. CASE step = 4
        BY <1>0, <2>4 DEF ScriptInv
    <2>6. CASE step = 6
        <3>1. nvme_write(Slba(drawn) + 0, 2, Block)
            BY <1>1, <2>6, ScriptLines DEF line, Lba, Effect
        <3>2. Holds(0)
            BY <2>6 DEF ScriptInv
        <3>3. Holds(0 + 2)'
            BY <1>0, <3>1, <3>2, LineWrites
        <3> QED
            BY <1>0, <2>6, <3>3 DEF ScriptInv
    <2>7. CASE step = 7
        <3>1. Lba(s) = Slba(drawn) + 2 /\ s.op = "append" /\ s.n = 2
            BY <2>7, ScriptLines DEF line, Lba
        <3>2. Holds(2)
            BY <2>7 DEF ScriptInv
        <3>3. 2 \in Offsets
            BY <1>0 DEF Offsets
        <3>4. ZoneOf(Slba(drawn) + 2) = drawn
            BY <1>0, <3>3, ZoneOfSlba
        <3>5. nvme_zns_append(drawn, 2, Block)
            BY <1>1, <3>1, <3>4 DEF Effect
        <3>6. Holds(2 + 2)'
            BY <1>0, <3>2, <3>5, LineWrites
        <3>7. returned' = Slba(drawn) + 2
            BY <1>1, <3>1, <3>2 DEF AppendLba, Holds
        <3> QED
            BY <1>0, <2>7, <3>6, <3>7 DEF ScriptInv, Slba
    <2>8. CASE step = 8
        <3>1. Holds(4) /\ returned + 2 = Slba(drawn) + 4
            BY <1>0, <2>8 DEF ScriptInv
        <3>2. nvme_write(Slba(drawn) + 4, 1, Block)
            BY <1>1, <2>8, <3>1, ScriptLines DEF line, Lba, Effect
        <3>3. Holds(4 + 1)'
            BY <1>0, <3>1, <3>2, LineWrites
        <3> QED
            BY <1>0, <2>8, <3>3 DEF ScriptInv
    <2> QED
        BY <1>0, <2>0, <2>1, <2>2, <2>3, <2>4, <2>6, <2>7, <2>8
<1> QED
    BY <1>3, <1>4

(* The device takes every command of the loop unless half a page is less   *)
(* than a block.                                                           *)
LEMMA IoAccepted ==
    ASSUME SizesFit, TypeOK, ModeInv, ChunkInv, pc = "io", io.left > 0
    PROVE  Accepted(io.dir, io.lba, CommandBlocks) \/ get_mdts_size < lba_size
<1>o. CASE Overrun
    BY <1>o, OverrunRefused
<1> SUFFICES ASSUME ~ Overrun
             PROVE  Accepted(io.dir, io.lba, CommandBlocks) \/ get_mdts_size < lba_size
    BY <1>o
<1>1. PICK q \in 0 .. Descriptor(drawn).zcap : Cut(q)
    BY DEF ChunkInv
<1>2. /\ q \in Nat /\ q < ZoneCap /\ ZoneCap - q \in 1 .. ZoneCap /\ drawn # 0 /\ q \in Offsets
      /\ io.left = (ZoneCap - q) * lba_size
    BY <1>1, CutRest
<1>3. drawn - 1 \in Zones /\ drawn - 1 \in Int /\ io.lba = Slba(drawn - 1) + q
    BY <1>1, <1>2, DrawnZone DEF Cut, Zones
<1>4. /\ ZoneOf(io.lba) = drawn - 1 /\ OffsetOf(io.lba) = q /\ io.lba \in LBAs
    BY <1>2, <1>3, ZoneOfSlba, BlockLba
<1>5. CASE WholeCommand(ZoneCap - q)
    <2>1. /\ CommandBlocks \in 1 .. ZoneCap - q /\ WithinMdts(CommandBlocks)
        BY <1>5 DEF WholeCommand
    <2>2. io.lba >= 0 /\ q + CommandBlocks <= ZoneCap
        BY <1>2, <1>4, <2>1, GeometryAssumption DEF LBAs
    <2>3. InOneZone(io.lba, CommandBlocks)
        BY <1>3, <1>4, <2>2 DEF InOneZone
    <2>4. io.dir = "write" => wp[ZoneOf(io.lba)] = OffsetOf(io.lba)
        BY <1>1, <1>2, <1>4 DEF Cut
    <2>5. io.dir \in {"write", "read"}
        BY DEF TypeOK
    <2> QED
        BY <2>1, <2>3, <2>4, <2>5 DEF Accepted
<1>6. CASE Wrapped
    <2>1. 2 ^ 0 = 1
        OBVIOUS
    <2> QED
        BY <1>6, <2>1 DEF Wrapped, Unlimited, get_mdts_size
<1> QED
    BY <1>2, <1>5, <1>6, CutFits

LEMMA FaultsGrow == TypeOK /\ Next => faults' = faults \/ faults' = faults + 1
<1> SUFFICES ASSUME TypeOK, Next PROVE faults' = faults \/ faults' = faults + 1
    OBVIOUS
<1>1. ASSUME NEW t \in Thread, ThreadNext(t) PROVE faults' = faults \/ faults' = faults + 1
    BY <1>1 DEF ThreadNext, ThreadCalloc, ThreadLoop, ThreadWrite, ThreadCheckAppend,
                ThreadCheckStatus, ThreadRead, Fault
<1>2. MainNext \/ Ended => faults' = faults \/ faults' = faults + 1
    BY DEF MainNext, Setup, Test1Step, Test1Fails, Test2Begin, Test2Reset, IoCommand, IoFails, IoDone,
           Spawn, Sleep, StopThreads, Join, Ended, vars, Fault
<1> QED
    BY <1>1, <1>2 DEF Next

LEMMA AlarmStep ==
    ASSUME SizesFit, ZoneCap >= 5
    PROVE  ParallelInv /\ ChunkInv /\ AlarmInv /\ Next => AlarmInv'
<1> SUFFICES ASSUME ParallelInv, ChunkInv, AlarmInv, Next, faults' = 0 PROVE Quiet'
    BY DEF AlarmInv
<1>0. TypeOK /\ ModeInv /\ RoundsInv /\ VerdictInv /\ TypeOK' /\ ModeInv'
    BY TypeStep DEF ParallelInv
<1>q. faults = 0 /\ Quiet /\ ~ Fault
    BY <1>0, FaultsGrow DEF AlarmInv, Fault, TypeOK
<1>k. UNCHANGED <<lba_size, mdts>> => (2 ^ mdts)' = 2 ^ mdts /\ WithinMdts(5)' = WithinMdts(5)
    BY DEF WithinMdts
<1>1. CASE Setup
    <2>1. /\ pc' \in {"test1", "spawn"} /\ UNCHANGED <<t1, t2, th, step>> /\ pc = "setup"
        BY <1>1, <1>q DEF Setup, threadVars
    <2>2. step' = 1
        BY <1>q, <2>1 DEF Quiet
    <2> QED
        BY <1>q, <2>1, <2>2 DEF Quiet, ScriptInv
<1>2. CASE Test1Step
    <2>1. t1' = 0 /\ pc' # "abort" /\ (pc' = "test1" => ScriptInv')
        BY <1>0, <1>2, <1>q, ScriptRuns DEF Quiet, Test1Step
    <2>2. /\ pc = "test1" /\ pc' \in {"test1", "test2", "abort"} /\ UNCHANGED <<t2, th>>
        BY <1>2 DEF Test1Step, Test1Returns, threadVars
    <2> QED
        BY <1>q, <2>1, <2>2 DEF Quiet
<1>3. CASE Test1Fails
    <2>1. ~ Accepted(Script[step].op, Lba(Script[step]), Script[step].n) /\ pc = "test1"
        BY <1>3, <1>q DEF Test1Fails
    <2>2. step = 9 /\ ~ WithinMdts(5)
        BY <1>0, <1>q, <2>1, ScriptAccepted DEF Quiet
    <2>3. pc' = "abort" /\ UNCHANGED <<t1, t2, th, lba_size, mdts, stdin>>
        BY <1>3, <2>2, ScriptLines DEF Test1Fails, line, threadVars
    <2> QED
        BY <1>k, <1>q, <2>1, <2>2, <2>3 DEF Quiet
<1>4. CASE Test2Begin
    <2>1. /\ pc = "test2" /\ pc' \in {"reset2", "abort"} /\ UNCHANGED <<t1, t2, th, stdin, mdts>>
          /\ pc' = "reset2" => identified' = mdts
          /\ pc' = "abort" => ~ stdin
        BY <1>4, <1>q DEF Test2Begin, threadVars
    <2>2. t2' = 0 /\ t1' = 0 /\ \A t \in Thread : th'[t].ret = 0
        BY <1>q, <2>1 DEF Quiet
    <2> QED
        BY <1>q, <2>1, <2>2 DEF Quiet
<1>5. CASE Test2Reset
    <2>1. pc = "reset2" /\ pc' = "io" /\ UNCHANGED <<t1, t2, th, mdts, identified>>
        BY <1>5, <1>q DEF Test2Reset, threadVars
    <2> QED
        BY <1>q, <2>1 DEF Quiet
<1>6. CASE IoCommand
    <2>1. pc = "io" /\ pc' = "io" /\ UNCHANGED <<t1, t2, th, mdts, identified>>
        BY <1>6 DEF IoCommand, threadVars
    <2> QED
        BY <1>q, <2>1 DEF Quiet
<1>7. CASE IoFails
    <2>1. /\ pc = "io" /\ pc' = "verdict" /\ UNCHANGED <<t1, th, drawn, lba_size, mdts>>
          /\ ~ Accepted(io.dir, io.lba, CommandBlocks) /\ io.left > 0
        BY <1>7, <1>q DEF IoFails, Test2Returns, threadVars
    <2>2. 2 ^ mdts < lba_size
        BY <1>0, <1>q, <2>1, IoAccepted DEF Quiet, get_mdts_size
    <2>3. 2 ^ mdts' < lba_size'
        BY <2>1, <2>2
    <2> QED
        BY <1>q, <2>1, <2>3 DEF Quiet
<1>8. CASE IoDone
    <2>1. /\ pc = "io" /\ io.left = 0 /\ UNCHANGED <<t1, th, drawn, lba_size, mdts, identified, stdin>>
        BY <1>8 DEF IoDone, threadVars
    <2>2. PICK q \in 0 .. Descriptor(drawn).zcap : Cut(q)
        BY <2>1 DEF ChunkInv, Overrun
    <2>3. q = Descriptor(drawn).zcap
        BY <1>0, <2>1, <2>2, CutRest
    <2>4. drawn # 0 => q = ZoneCap /\ io.ret = 0
        BY <1>0, <2>2, <2>3, DrawnZone, GeometryAssumption DEF Cut
    <2>5. drawn = 0 => io.ret # 0
        BY <2>2 DEF Cut
    <2>6. CASE drawn = 0
        <3>1. pc' = "verdict"
            BY <1>8, <2>5, <2>6 DEF IoDone, Test2Returns
        <3> QED
            BY <1>q, <2>1, <2>6, <3>1 DEF Quiet
    <2>7. CASE drawn # 0 /\ io.dir = "write"
        <3>1. pc' = "io" /\ t2' = t2
            BY <1>8, <2>1, <2>4, <2>7 DEF IoDone
        <3> QED
            BY <1>q, <2>1, <3>1 DEF Quiet
    <2>8. CASE drawn # 0 /\ io.dir # "write"
        <3>1. \A b \in Offsets : data[b] = Pattern(b)
            <4>1. \A b \in Offsets : b < ZoneCap
                BY GeometryAssumption DEF Offsets
            <4> QED
                BY <2>2, <2>4, <2>8, <4>1 DEF Cut
        <3>2. pc' = "verdict" /\ t2' = 0
            BY <1>8, <2>4, <2>8, <3>1 DEF IoDone, Test2Returns
        <3> QED
            BY <1>q, <2>1, <3>2 DEF Quiet
    <2> QED
        BY <2>6, <2>7, <2>8
<1>9. CASE Spawn
    <2>1. PICK t \in Thread : th' = [th EXCEPT ![t].pc = "calloc"]
        BY <1>9 DEF Spawn
    <2>2. \A u \in Thread : th'[u].ret = th[u].ret
        BY <1>0, <2>1 DEF TypeOK, ThreadTypeOK
    <2>3. pc = "spawn" /\ pc' \in {"wait", "spawn"} /\ UNCHANGED <<t1, t2>>
        BY <1>9 DEF Spawn
    <2> QED
        BY <1>q, <2>2, <2>3 DEF Quiet
<1>10. CASE Sleep \/ StopThreads
    <2>1. pc = "wait" /\ pc' \in {"wait", "join"} /\ UNCHANGED <<t1, t2, th>>
        BY <1>10 DEF Sleep, StopThreads, mainVars
    <2> QED
        BY <1>q, <2>1 DEF Quiet
<1>11. CASE Join
    <2>1. pc' = "verdict" /\ t2' = errors /\ UNCHANGED <<t1, th>>
        BY <1>11 DEF Join, Test2Returns, threadVars
    <2>2. FailedThreads = {}
        BY <1>q DEF Quiet, FailedThreads, Failed
    <2>3. errors = 0
        BY <1>0, <2>2, FS_EmptySet DEF VerdictInv
    <2> QED
        BY <1>q, <2>1, <2>3 DEF Quiet
<1>12. CASE Ended
    <2>1. UNCHANGED <<pc, t1, t2, th, drawn, lba_size, mdts, identified, stdin>> /\ pc \in {"verdict", "abort"}
        BY <1>12 DEF Ended, vars, mainVars, threadVars
    <2>2. (2 ^ mdts)' = 2 ^ mdts /\ WithinMdts(5)' = WithinMdts(5)
        BY <1>k, <2>1
    <2> QED
        BY <1>q, <2>1, <2>2 DEF Quiet
<1>13. ASSUME NEW t \in Thread, ThreadNext(t) PROVE Quiet'
    <2>1. Moves(t)
        BY <1>0, <1>13, ThreadMoves DEF RoundsInv
    <2>2. /\ mode = "parallel" /\ pc # "abort"
          /\ UNCHANGED <<step, lba_size, mdts, identified, stdin, drawn, t1, t2>>
        BY <1>0, <1>13, ThreadsRun
    <2>4. pc # "test1" /\ pc' = pc
        BY <1>0, <2>1, <2>2 DEF ModeInv, Moves
    <2>5. \A u \in Thread : th'[u].ret = 0
        <3>1. \A u \in Thread \ {t} : th'[u] = th[u]
            BY <2>1 DEF Moves
        <3>2. th'[t].ret = 0
            BY <1>q, <2>1 DEF Moves, Quiet
        <3> QED
            BY <1>q, <3>1, <3>2 DEF Quiet
    <2>6. (2 ^ mdts)' = 2 ^ mdts
        BY <1>k, <2>2
    <2> QED
        BY <1>q, <2>2, <2>4, <2>5, <2>6 DEF Quiet
<1> QED
    BY <1>1, <1>2, <1>3, <1>4, <1>5, <1>6, <1>7, <1>8, <1>9, <1>10, <1>11, <1>12, <1>13 DEF Next, MainNext

(***************************************************************************)
(* On a device that works no test fails, for every geometry with zones of  *)
(* at least the five blocks that test 1 uses and every limit that SizesFit *)
(* describes, but for the exceptions NoFalseAlarm names.                   *)
(***************************************************************************)
THEOREM NoAlarm == ASSUME SizesFit, ZoneCap >= 5 PROVE Spec => []NoFalseAlarm
<1>1. Init => ChunkInv /\ AlarmInv
    BY DEF Init, ChunkInv, ZoneMoved, AlarmInv, Quiet, Asleep
<1>2. ParallelInv /\ ChunkInv /\ AlarmInv /\ [Next]_vars => (ChunkInv /\ AlarmInv)'
    <2>1. ParallelInv /\ ChunkInv /\ AlarmInv /\ Next => (ChunkInv /\ AlarmInv)'
        BY ChunkStep, AlarmStep DEF ParallelInv
    <2>2. ChunkInv /\ UNCHANGED vars => ChunkInv'
        BY DEF ChunkInv, ZoneMoved, Cut, Overrun, Unlimited, vars, device, mainVars, Descriptor, Slba, Pattern
    <2>3. AlarmInv /\ UNCHANGED vars => AlarmInv'
        BY DEF AlarmInv, Quiet, ScriptInv, Holds, vars, device, mainVars, threadVars, Slba, Pattern,
               WithinMdts
    <2> QED
        BY <2>1, <2>2, <2>3
<1>3. ParallelInv /\ AlarmInv => NoFalseAlarm
    <2> SUFFICES ASSUME ParallelInv, AlarmInv, faults = 0
                 PROVE  /\ t1 = 0 /\ errors = 0
                        /\ pc = "abort" => ~ stdin \/ ~ WithinMdts(5)
                        /\ t2 # 0 => drawn = 0 \/ 2 ^ mdts < lba_size
        BY DEF NoFalseAlarm
    <2>1. Quiet
        BY DEF AlarmInv
    <2>2. FailedThreads = {}
        BY <2>1 DEF Quiet, FailedThreads, Failed
    <2>3. errors = 0
        BY <2>2, FS_EmptySet DEF ParallelInv, VerdictInv
    <2> QED
        BY <2>1, <2>3 DEF Quiet
<1>4. Spec => [](ChunkInv /\ AlarmInv)
    BY <1>1, <1>2, ThreadsInductive, PTL DEF Spec
<1> QED
    BY <1>3, <1>4, ThreadsInductive, PTL

----------------------------------------------------------------------------
(* What ThreadsQuit rests on *)

(* main joins after it has raised the flag, and threads that it created. *)
StopInv ==
    /\ stop_t => pc \in {"join", "verdict", "abort"}
    /\ pc = "join" => stop_t
    /\ pc = "wait" \/ stop_t => \A t \in Thread : th[t].pc # "none"

(* The steps that a thread has left when the flag is up, by where it is:   *)
(* three for each block still to be written, one for each to be read.      *)
RoundWork(t) ==
    LET at == th[t].pc  left == ZoneCap - th[t].wptr IN
    IF at = "calloc" THEN 2
    ELSE IF at = "loop" THEN 1
    ELSE IF at = "read" THEN left + 1
    ELSE IF at = "write" THEN ZoneCap + 3 * left + 1
    ELSE IF at = "appended" THEN ZoneCap + 3 * left
    ELSE IF at = "written" THEN ZoneCap + 3 * left - 1
    ELSE 0

(* What one step does to the work of each thread. *)
RoundShrinks ==
    stop_t => \A t \in Thread :
        /\ th[t].pc # "done" => RoundWork(t) \in 1 .. 4 * ZoneCap + 1
        /\ ThreadNext(t) => pc' = "abort" \/ RoundWork(t)' \in 0 .. RoundWork(t) - 1
        /\ th'[t] = th[t] \/ RoundWork(t)' \in 0 .. RoundWork(t) - 1

LEMMA ThreadsKnown ==
    TypeOK => th \in [Thread -> [pc : ThreadPcs, wptr : Offsets, wdata : Payload, rdata : Payload,
                                 ret : {0, EIO}, xappend : Int]]
BY DEF TypeOK, ThreadTypeOK

(* Each step of a thread moves it on, and only it. *)
LEMMA ThreadGoes ==
    ASSUME TypeOK, NEW t \in Thread, ThreadNext(t)
    PROVE  /\ \A u \in Thread \ {t} : th'[u] = th[u]
           /\ pc' = "abort" => th' = th
           /\ \/ pc' = "abort"
              \/ th'[t].pc = "done"
              \/ th[t].pc = "calloc" /\ th'[t].pc = "loop"
              \/ th[t].pc = "loop" /\ th'[t].pc = "write" /\ ~ stop_t
              \/ th[t].pc = "write" /\ th'[t].pc \in {"appended", "written"} /\ th'[t].wptr = th[t].wptr
              \/ th[t].pc = "appended" /\ th'[t].pc = "written" /\ th'[t].wptr = th[t].wptr
              \/ th[t].pc = "written" /\ th'[t].pc = "read" /\ th'[t].wptr = 0
              \/ th[t].pc = "written" /\ th'[t].pc = "write" /\ th'[t].wptr = th[t].wptr + 1
              \/ th[t].pc = "read" /\ th'[t].pc = "loop"
              \/ th[t].pc = "read" /\ th'[t].pc = "read" /\ th'[t].wptr = th[t].wptr + 1
<1>0. th \in [Thread -> [pc : ThreadPcs, wptr : Offsets, wdata : Payload, rdata : Payload,
                         ret : {0, EIO}, xappend : Int]]
    BY ThreadsKnown
<1> USE DEF Running, CountError, Goto, MainIdle, mainVars
<1>1. CASE ThreadCalloc(t)
    BY <1>0, <1>1 DEF ThreadCalloc
<1>2. CASE ThreadLoop(t)
    BY <1>0, <1>2 DEF ThreadLoop
<1>3. CASE ThreadWrite(t)
    <2> DEFINE lba == Slba(ZoneOfThread(t)) + th[t].wptr
               at == IF ThreadOp(t) = "append" THEN "appended" ELSE "written"
    <2>1. /\ th[t].pc = "write" /\ pc # "abort" /\ pc' = pc
          /\ \/ th' = [th EXCEPT ![t].pc = at, ![t].wdata = Written(t), ![t].ret = 0,
                                 ![t].xappend = AppendLba(ZoneOfThread(t))]
             \/ \E x \in {0, lba} :
                   th' = [th EXCEPT ![t].pc = at, ![t].wdata = Written(t), ![t].ret = EIO,
                                    ![t].xappend = x]
        BY <1>3 DEF ThreadWrite
    <2>2. at \in {"appended", "written"}
        OBVIOUS
    <2> HIDE DEF at, lba
    <2> QED
        BY <1>0, <2>1, <2>2
<1>4. CASE ThreadCheckAppend(t)
    BY <1>0, <1>4 DEF ThreadCheckAppend
<1>5. CASE ThreadCheckStatus(t)
    BY <1>0, <1>5 DEF ThreadCheckStatus
<1>6. CASE ThreadRead(t)
    <2> DEFINE d == blk[Slba(ZoneOfThread(t)) + th[t].wptr]
    <2>1. /\ th[t].pc = "read" /\ pc # "abort"
          /\ \/ pc' = "abort" /\ th' = th
             \/ pc' = pc /\ th' = [th EXCEPT ![t].rdata = d, ![t].pc = "loop"]
             \/ pc' = pc /\ th' = [th EXCEPT ![t].rdata = d, ![t].wptr = @ + 1]
             \/ pc' = pc /\ CountError(t)
        BY <1>6 DEF ThreadRead
    <2> QED
        BY <1>0, <2>1
<1> QED
    BY <1>1, <1>2, <1>3, <1>4, <1>5, <1>6 DEF ThreadNext

LEMMA StopStep == TypeOK /\ ModeInv /\ StopInv /\ [Next]_vars => StopInv'
<1> SUFFICES ASSUME TypeOK, ModeInv, StopInv, [Next]_vars PROVE StopInv'
    OBVIOUS
<1>0. th \in [Thread -> [pc : ThreadPcs, wptr : Offsets, wdata : Payload, rdata : Payload,
                         ret : {0, EIO}, xappend : Int]]
    BY ThreadsKnown
<1>1. CASE UNCHANGED <<th, stop_t>> /\ (pc' = pc \/ pc' \in {"verdict", "abort"})
    BY <1>1 DEF StopInv
<1>2. CASE UNCHANGED <<th, stop_t>> /\ pc \in {"setup", "test1", "test2", "reset2", "io"}
           /\ pc' \in {"test1", "spawn", "test2", "reset2", "io", "verdict", "abort"}
    BY <1>2 DEF StopInv
<1>3. CASE Spawn
    <2>1. PICK t \in Thread : /\ th[t].pc = "none" /\ \A u \in 0 .. t - 1 : th[u].pc # "none"
                              /\ th' = [th EXCEPT ![t].pc = "calloc"]
                              /\ pc' = IF t = Threads - 1 THEN "wait" ELSE "spawn"
        BY <1>3 DEF Spawn
    <2>2. UNCHANGED stop_t /\ ~ stop_t
        BY <1>3 DEF Spawn, StopInv
    <2>3. t = Threads - 1 => \A u \in Thread : u = t \/ u \in 0 .. t - 1
        BY M1Assumption DEF Thread
    <2>4. t = Threads - 1 => \A u \in Thread : th'[u].pc # "none"
        BY <1>0, <2>1, <2>3
    <2> QED
        BY <2>1, <2>2, <2>4 DEF StopInv
<1>4. CASE StopThreads
    BY <1>4 DEF StopThreads, RaiseStop, StopInv
<1>5. ASSUME NEW t \in Thread, ThreadNext(t) PROVE StopInv'
    <2>1. /\ pc' \in {pc, "abort"} /\ UNCHANGED stop_t
          /\ \A u \in Thread : th'[u].pc = "none" => th[u].pc = "none"
        <3>1. pc' \in {pc, "abort"} /\ UNCHANGED stop_t
            BY <1>5, ThreadsRun
        <3>2. \A u \in Thread : th'[u] = th[u] \/ th'[u].pc # "none"
            BY <1>5, ThreadGoes
        <3> QED
            BY <3>1, <3>2
    <2> QED
        BY <2>1 DEF StopInv
<1>6. Setup \/ Test1Step \/ Test1Fails \/ Test2Begin \/ Test2Reset \/ IoCommand \/ IoFails \/ IoDone
      \/ Sleep \/ Join \/ Ended \/ UNCHANGED vars
      => \/ UNCHANGED <<th, stop_t>> /\ (pc' = pc \/ pc' \in {"verdict", "abort"})
         \/ /\ UNCHANGED <<th, stop_t>> /\ pc \in {"setup", "test1", "test2", "reset2", "io"}
            /\ pc' \in {"test1", "spawn", "test2", "reset2", "io", "verdict", "abort"}
    <2> USE DEF threadVars, mainVars
    <2>1. Setup => \/ UNCHANGED <<th, stop_t>> /\ (pc' = pc \/ pc' \in {"verdict", "abort"})
                   \/ UNCHANGED <<th, stop_t>> /\ pc = "setup" /\ pc' \in {"test1", "spawn"}
        BY DEF Setup
    <2>2. Test1Step \/ Test1Fails => UNCHANGED <<th, stop_t>> /\ pc = "test1"
                                     /\ pc' \in {pc, "test2", "abort"}
        BY DEF Test1Step, Test1Fails, Test1Returns
    <2>3. Test2Begin \/ Test2Reset \/ IoCommand \/ IoFails \/ IoDone
          => UNCHANGED <<th, stop_t>> /\ pc \in {"test2", "reset2", "io"}
             /\ pc' \in {pc, "reset2", "io", "verdict", "abort"}
        BY DEF Test2Begin, Test2Reset, IoCommand, IoFails, IoDone, Test2Returns
    <2>4. Sleep \/ Join \/ Ended \/ UNCHANGED vars
          => UNCHANGED <<th, stop_t>> /\ (pc' = pc \/ pc' \in {"verdict", "abort"})
        BY DEF Sleep, Join, Ended, vars, Test2Returns
    <2> QED
        BY <2>1, <2>2, <2>3, <2>4
<1> QED
    BY <1>1, <1>2, <1>3, <1>4, <1>5, <1>6 DEF Next, MainNext

LEMMA WorkStep == TypeOK /\ ModeInv /\ StopInv /\ [Next]_vars => RoundShrinks
<1> SUFFICES ASSUME TypeOK, ModeInv, StopInv, [Next]_vars, stop_t, NEW u \in Thread
             PROVE  /\ th[u].pc # "done" => RoundWork(u) \in 1 .. 4 * ZoneCap + 1
                    /\ ThreadNext(u) => pc' = "abort" \/ RoundWork(u)' \in 0 .. RoundWork(u) - 1
                    /\ th'[u] = th[u] \/ RoundWork(u)' \in 0 .. RoundWork(u) - 1
    BY DEF RoundShrinks
<1>1. RoundWork(u) \in 0 .. 4 * ZoneCap + 1 /\ (th[u].pc # "done" => RoundWork(u) > 0)
    <2>1. th[u].pc \in ThreadPcs \ {"none"} /\ th[u].wptr \in 0 .. ZoneCap - 1 /\ ZoneCap \in Nat
        BY ThreadFacts, GeometryAssumption DEF StopInv, Offsets
    <2> QED
        BY <2>1 DEF RoundWork, ThreadPcs
<1>2. ASSUME ThreadNext(u), pc' # "abort" PROVE RoundWork(u)' \in 0 .. RoundWork(u) - 1
    <2>1. th[u].wptr \in 0 .. ZoneCap - 1 /\ ZoneCap \in Nat
        BY ThreadFacts, GeometryAssumption DEF Offsets
    <2>2. th'[u].pc \in ThreadPcs /\ th'[u].wptr \in 0 .. ZoneCap - 1
        <3>1. TypeOK'
            BY <1>2, TypeStep DEF Next
        <3> QED
            BY <3>1, GeometryAssumption DEF TypeOK, ThreadTypeOK, Offsets
    <2>3. RoundWork(u) \in Int
        BY <1>1, GeometryAssumption
    <2>4. th'[u].pc = "done" => RoundWork(u)' = 0 /\ RoundWork(u) > 0
        BY <1>1, <1>2, ThreadsRun DEF RoundWork
    <2> QED
        BY <1>2, <2>1, <2>2, <2>4, ThreadGoes DEF RoundWork
<1>3. ASSUME NEW t \in Thread, ThreadNext(t)
      PROVE  th'[u] = th[u] \/ RoundWork(u)' \in 0 .. RoundWork(u) - 1
    BY <1>2, <1>3, ThreadGoes
<1>4. MainNext \/ Ended \/ UNCHANGED vars => UNCHANGED th
    <2>1. ~ Spawn
        BY DEF Spawn, StopInv
    <2> QED
        BY <2>1 DEF MainNext, Setup, Test1Step, Test1Fails, Test2Begin, Test2Reset, IoCommand, IoFails,
                    IoDone, Sleep, StopThreads, Join, Ended, vars, threadVars
<1> QED
    BY <1>1, <1>2, <1>3, <1>4 DEF Next

(* Once the flag is up every thread that main joins ends after at most     *)
(* four steps for each block of its zone and one more, whatever fails and  *)
(* wherever it stood, and nothing it does depends on another (ThreadsQuit  *)
(* with fairness).                                                         *)
THEOREM ThreadsEnd == Spec => []StopInv /\ [][RoundShrinks]_vars
<1>1. Init => StopInv
    BY DEF Init, StopInv
<1>2. StopInv /\ ParallelInv /\ [Next]_vars => StopInv'
    BY StopStep DEF ParallelInv
<1>3. StopInv /\ ParallelInv /\ [Next]_vars => RoundShrinks
    BY WorkStep DEF ParallelInv
<1> QED
    BY <1>1, <1>2, <1>3, ThreadsInductive, PTL DEF Spec

=============================================================================
