----------------------------- MODULE ZNSProofs -----------------------------
(***************************************************************************)
(* Facts about the geometry of the zoned device and about io_with_mdts,    *)
(* for every number and size of zones.                                     *)
(***************************************************************************)
EXTENDS ZNS, TLAPS

(* Zones do not overlap: each begins behind the one before it. *)
LEMMA SlbaMono ==
    ASSUME NEW z \in Int, NEW w \in Int, z < w
    PROVE  Slba(z) + ZoneCap <= Slba(w)
<1>1. PICK k \in Nat : w = z + 1 + k
    <2>1. w - z - 1 \in Nat  OBVIOUS
    <2>2. QED  BY <2>1
<1>2. w * ZoneCap = z * ZoneCap + ZoneCap + k * ZoneCap
    BY <1>1, GeometryAssumption
<1>3. k * ZoneCap >= 0
    BY GeometryAssumption
<1>4. QED
    BY <1>2, <1>3, GeometryAssumption DEF Slba

(* An LBA is its zone's start plus its offset there. *)
LEMMA SplitLba ==
    ASSUME NEW l \in Int
    PROVE  /\ ZoneOf(l) \in Int
           /\ OffsetOf(l) \in Offsets
           /\ l = Slba(ZoneOf(l)) + OffsetOf(l)
BY GeometryAssumption DEF ZoneOf, OffsetOf, Slba, Offsets

(* An LBA put together from zone and offset comes apart again. *)
LEMMA ZoneOfSlba ==
    ASSUME NEW z \in Int, NEW k \in Offsets
    PROVE  ZoneOf(Slba(z) + k) = z /\ OffsetOf(Slba(z) + k) = k
<1> DEFINE l == Slba(z) + k
<1>0. l \in Int /\ Slba(z) \in Int /\ k \in Int /\ 0 <= k /\ k < ZoneCap
    BY GeometryAssumption DEF Slba, Offsets
<1>1. /\ ZoneOf(l) \in Int
      /\ OffsetOf(l) \in Offsets
      /\ l = Slba(ZoneOf(l)) + OffsetOf(l)
    BY <1>0, SplitLba
<1>2. ASSUME ZoneOf(l) < z PROVE FALSE
    <2>1. Slba(ZoneOf(l)) + ZoneCap <= Slba(z)
        BY <1>1, <1>2, SlbaMono
    <2>2. QED
        BY <1>0, <1>1, <2>1, GeometryAssumption DEF Offsets, Slba
<1>3. ASSUME z < ZoneOf(l) PROVE FALSE
    <2>1. Slba(z) + ZoneCap <= Slba(ZoneOf(l))
        BY <1>1, <1>3, SlbaMono
    <2>2. QED
        BY <1>0, <1>1, <2>1, GeometryAssumption DEF Offsets, Slba
<1>4. ZoneOf(l) = z
    BY <1>1, <1>2, <1>3
<1>5. QED
    BY <1>0, <1>1, <1>4 DEF Offsets

(* The LBAs of the device are those of its zones. *)
LEMMA LbaInZone ==
    ASSUME NEW l \in Int
    PROVE  l \in LBAs <=> ZoneOf(l) \in Zones
<1> DEFINE z == ZoneOf(l)
<1>1. z \in Int /\ OffsetOf(l) \in Offsets /\ l = Slba(z) + OffsetOf(l)
    BY SplitLba
<1>2. Slba(0) = 0 /\ Slba(NumZones) = NumZones * ZoneCap /\ Slba(z) \in Int
    BY <1>1, GeometryAssumption DEF Slba
<1>3. ASSUME z < 0 PROVE l < 0
    BY <1>1, <1>2, <1>3, SlbaMono, GeometryAssumption DEF Offsets
<1>4. ASSUME z >= 0 PROVE l >= 0
    <2>1. Slba(z) >= 0
        <3>1. CASE z = 0  BY <3>1, <1>2
        <3>2. CASE z > 0  
            <4>1. Slba(0) + ZoneCap <= Slba(z)
                BY <3>2, <1>1, SlbaMono
            <4>2. QED  BY <4>1, <1>2, GeometryAssumption
        <3>3. QED  BY <1>1, <1>4, <3>1, <3>2
    <2>2. QED  BY <2>1, <1>1, <1>2 DEF Offsets
<1>5. ASSUME z < NumZones PROVE l < NumZones * ZoneCap
    <2>1. Slba(z) + ZoneCap <= Slba(NumZones)
        BY <1>1, <1>5, SlbaMono, GeometryAssumption
    <2>2. QED  BY <2>1, <1>1, <1>2, GeometryAssumption DEF Offsets
<1>6. ASSUME z >= NumZones PROVE l >= NumZones * ZoneCap
    <2>1. Slba(z) >= Slba(NumZones)
        <3>1. CASE z = NumZones  BY <3>1, <1>2
        <3>2. CASE z > NumZones
            <4>1. Slba(NumZones) + ZoneCap <= Slba(z)
                BY <3>2, <1>1, SlbaMono, GeometryAssumption
            <4>2. QED  BY <4>1, <1>2, GeometryAssumption
        <3>3. QED  BY <1>1, <1>6, <3>1, <3>2, GeometryAssumption
    <2>2. QED  BY <2>1, <1>1, <1>2, GeometryAssumption DEF Offsets
<1>7. NumZones * ZoneCap \in Int /\ NumZones \in Int
    BY GeometryAssumption
<1>8. l \in LBAs <=> l >= 0 /\ l < NumZones * ZoneCap
    BY <1>7 DEF LBAs
<1>9. z \in Zones <=> z >= 0 /\ z < NumZones
    BY <1>1, <1>7 DEF Zones
<1>10. QED
    <2>1. CASE z \in Zones  BY <2>1, <1>4, <1>5, <1>8, <1>9
    <2>2. CASE z < 0
        <3>1. l < 0  BY <2>2, <1>3
        <3>2. QED  BY <3>1, <2>2, <1>1, <1>7, <1>8, <1>9
    <2>3. CASE z >= NumZones
        <3>1. l >= NumZones * ZoneCap  BY <2>3, <1>6
        <3>2. QED  BY <3>1, <2>3, <1>1, <1>7, <1>8, <1>9
    <2>4. QED  BY <2>1, <2>2, <2>3, <1>1, <1>7, <1>9

LEMMA BlockLba ==
    ASSUME NEW z \in Zones, NEW k \in Offsets
    PROVE  Slba(z) + k \in LBAs
<1>1. z \in Int /\ Slba(z) + k \in Int
    BY GeometryAssumption DEF Zones, Offsets, Slba
<1>2. QED
    BY <1>1, ZoneOfSlba, LbaInZone

(* Every block of a command inside one zone is on the device. *)
LEMMA InOneZoneLbas ==
    ASSUME NEW l \in Int, NEW n \in Nat, InOneZone(l, n), NEW i \in 0 .. n - 1
    PROVE  l + i \in LBAs /\ ZoneOf(l + i) = ZoneOf(l)
<1>1. /\ ZoneOf(l) \in Zones /\ OffsetOf(l) \in Offsets
      /\ l = Slba(ZoneOf(l)) + OffsetOf(l)
      /\ OffsetOf(l) + n <= ZoneCap
    BY SplitLba DEF InOneZone
<1>2. OffsetOf(l) + i \in Offsets
    BY <1>1, GeometryAssumption DEF Offsets
<1>3. l + i = Slba(ZoneOf(l)) + (OffsetOf(l) + i)
    BY <1>1, GeometryAssumption DEF Slba, Zones, Offsets
<1>4. ZoneOf(l) \in Int
    BY <1>1, GeometryAssumption DEF Zones
<1>5. QED
    BY <1>1, <1>2, <1>3, <1>4, BlockLba, ZoneOfSlba

(* The chunks of a transfer cover it ... *)
LEMMA ChunkCover ==
    ASSUME NEW n \in Nat \ {0}, NEW j \in 0 .. n - 1
    PROVE  \E k \in Chunks(n) : k * MDTS <= j /\ j - k * MDTS < ChunkLen(n, k)
<1> DEFINE k == j \div MDTS
           q == (n + MDTS - 1) \div MDTS
<1>1. k \in Nat /\ k * MDTS <= j /\ j < k * MDTS + MDTS
    BY GeometryAssumption
<1>2. q \in Nat /\ q * MDTS <= n + MDTS - 1 /\ n + MDTS - 1 < q * MDTS + MDTS
    BY GeometryAssumption
<1>3. k * MDTS < q * MDTS
    BY <1>1, <1>2, GeometryAssumption
<1>4. k < q
    BY <1>1, <1>2, <1>3, GeometryAssumption
<1>5. k \in Chunks(n)
    BY <1>1, <1>2, <1>4 DEF Chunks
<1>6. j - k * MDTS < ChunkLen(n, k)
    BY <1>1, GeometryAssumption DEF ChunkLen
<1>7. QED
    BY <1>1, <1>5, <1>6

(* ... and none is empty, too long, or begins outside it. *)
LEMMA ChunkBounds ==
    ASSUME NEW n \in Nat \ {0}, NEW k \in Chunks(n)
    PROVE  /\ k \in Nat
           /\ k * MDTS \in Nat
           /\ k * MDTS < n
           /\ ChunkLen(n, k) \in 1 .. MDTS
           /\ k * MDTS + ChunkLen(n, k) <= n
           /\ k > 0 => k * MDTS >= MDTS
<1> DEFINE q == (n + MDTS - 1) \div MDTS
<1>1. q \in Nat /\ q * MDTS <= n + MDTS - 1
    BY GeometryAssumption
<1>2. k \in Nat /\ k <= q - 1
    BY <1>1 DEF Chunks
<1>3. PICK r \in Nat : q = k + 1 + r
    <2>1. q - 1 - k \in Nat  BY <1>1, <1>2
    <2>2. q = k + 1 + (q - 1 - k)  BY <1>1, <1>2
    <2> HIDE DEF q
    <2>3. QED  BY <2>1, <2>2
<1>4. q * MDTS = k * MDTS + MDTS + r * MDTS
    BY <1>1, <1>2, <1>3, GeometryAssumption
<1>5. r * MDTS >= 0 /\ k * MDTS \in Nat /\ r * MDTS \in Int
    BY <1>2, <1>3, GeometryAssumption
<1>6. k * MDTS < n
    BY <1>1, <1>4, <1>5, GeometryAssumption
<1>7. k > 0 => k * MDTS >= MDTS
    BY <1>2, GeometryAssumption
<1>8. QED
    BY <1>2, <1>5, <1>6, <1>7, GeometryAssumption DEF ChunkLen

(* A read the device takes stays on the device. *)
LEMMA ReadRange ==
    ASSUME NEW l \in Int, NEW n \in Nat \ {0}, CanRead(l, n), NEW j \in 0 .. n - 1
    PROVE  l + j \in LBAs
<1>1. PICK k \in Chunks(n) : k * MDTS <= j /\ j - k * MDTS < ChunkLen(n, k)
    BY ChunkCover
<1>2. InOneZone(ChunkLba(l, k), ChunkLen(n, k))
    BY <1>1 DEF CanRead
<1>3. k * MDTS \in Nat /\ ChunkLen(n, k) \in 1 .. MDTS
    BY <1>1, ChunkBounds
<1>4. j - k * MDTS \in 0 .. ChunkLen(n, k) - 1 /\ ChunkLen(n, k) \in Nat
    BY <1>1, <1>3, GeometryAssumption
<1>5. ChunkLba(l, k) \in Int /\ ChunkLba(l, k) + (j - k * MDTS) = l + j
    BY <1>3 DEF ChunkLba
<1>6. ChunkLba(l, k) + (j - k * MDTS) \in LBAs
    BY <1>2, <1>4, <1>5, InOneZoneLbas
<1>7. QED
    BY <1>5, <1>6

(* So does a write, and it can only begin at its zone's write pointer. *)
LEMMA WriteRange ==
    ASSUME NEW l \in Int, NEW n \in Nat \ {0}, CanWrite(l, n), NEW j \in 0 .. n - 1
    PROVE  l + j \in LBAs
<1>1. CanRead(l, n)
    BY DEF CanRead, CanWrite, ChunkAccepted
<1>2. QED
    BY <1>1, ReadRange

LEMMA FirstChunk ==
    ASSUME NEW l \in Int, NEW n \in Nat \ {0}
    PROVE  /\ 0 \in Chunks(n)
           /\ ChunkAccepted(l, n, 0) =>
                 l \in LBAs /\ ZoneOf(l) \in Zones /\ wp[ZoneOf(l)] = OffsetOf(l)
<1>1. PICK k \in Chunks(n) : k * MDTS <= 0
    BY ChunkCover
<1>2. k \in Nat /\ (k > 0 => k * MDTS >= MDTS) /\ k * MDTS \in Nat
    BY <1>1, ChunkBounds
<1>3. 0 \in Chunks(n)
    BY <1>1, <1>2, GeometryAssumption
<1>4. 0 * MDTS = 0 /\ ChunkLba(l, 0) = l
    BY GeometryAssumption DEF ChunkLba
<1>5. ASSUME ChunkAccepted(l, n, 0)
      PROVE  ZoneOf(l) \in Zones /\ wp[ZoneOf(l)] = OffsetOf(l)
    BY <1>4, <1>5 DEF ChunkAccepted, InOneZone
<1>6. QED
    BY <1>3, <1>5, LbaInZone

(* What lands of a write that is refused or fails is a true prefix of it,  *)
(* and nothing lands unless the first chunk was taken.                     *)
LEMMA Prefixes ==
    ASSUME NEW l \in Int, NEW n \in Nat \ {0},
           NEW m \in LandedBlocks(l, n) \cup CutBlocks(l, n)
    PROVE  m \in Nat /\ m < n /\ (m > 0 => ChunkAccepted(l, n, 0))
<1>1. PICK k \in Chunks(n) :
        m = k * MDTS /\ \A i \in 0 .. k - 1 : ChunkAccepted(l, n, i)
    BY DEF LandedBlocks, CutBlocks
<1>2. k \in Nat /\ k * MDTS \in Nat /\ k * MDTS < n
    BY <1>1, ChunkBounds
<1>3. ASSUME m > 0 PROVE 0 \in 0 .. k - 1
    BY <1>1, <1>2, <1>3, GeometryAssumption
<1>4. QED
    BY <1>1, <1>2, <1>3

----------------------------------------------------------------------------
(* The commands keep the device well formed. *)

LEMMA StoredType ==
    ASSUME DeviceTypeOK, NEW l \in Int, NEW n \in Nat, NEW b,
           \A j \in 0 .. n - 1 : b[j] \in Payload
    PROVE  Stored(l, n, b) \in [LBAs -> Payload]
<1>1. ASSUME NEW x \in LBAs, x >= l, x < l + n PROVE b[x - l] \in Payload
    <2>1. x \in Int
        BY GeometryAssumption DEF LBAs
    <2>2. x - l \in 0 .. n - 1
        BY <2>1, <1>1
    <2>3. QED
        BY <2>2
<1>2. QED
    BY <1>1 DEF Stored, DeviceTypeOK

LEMMA AppendType ==
    ASSUME DeviceTypeOK, NEW z, NEW n \in Nat, NEW b,
           \A j \in 0 .. n - 1 : b[j] \in Payload,
           nvme_zns_append(z, n, b)
    PROVE  DeviceTypeOK'
<1>1. z \in Zones /\ wp[z] \in 0 .. ZoneCap /\ wp[z] + n <= ZoneCap /\ z \in Int
    BY GeometryAssumption DEF nvme_zns_append, CanAppend, DeviceTypeOK, Zones
<1>2. AppendLba(z) \in Int
    BY <1>1, GeometryAssumption DEF AppendLba, Slba
<1>3. blk' \in [LBAs -> Payload]
    BY <1>2, StoredType DEF nvme_zns_append
<1>4. wp[z] + n \in 0 .. ZoneCap
    BY <1>1, GeometryAssumption
<1>5. wp' \in [Zones -> 0 .. ZoneCap]
    BY <1>1, <1>4 DEF nvme_zns_append, DeviceTypeOK
<1>6. QED
    BY <1>3, <1>5 DEF DeviceTypeOK, LBAs, Zones, Payload

LEMMA WriteType ==
    ASSUME DeviceTypeOK, NEW l \in Int, NEW m \in Nat, NEW b,
           \A j \in 0 .. m - 1 : b[j] \in Payload,
           nvme_write(l, m, b)
    PROVE  DeviceTypeOK'
<1>1. blk' \in [LBAs -> Payload]
    BY StoredType DEF nvme_write
<1>2. ASSUME NEW z \in Zones, Slba(z) < l + m, l + m < Slba(z + 1)
      PROVE  l + m - Slba(z) \in 0 .. ZoneCap
    BY <1>2, GeometryAssumption DEF Zones, Slba
<1>3. ZoneCap \in 0 .. ZoneCap
    BY GeometryAssumption
<1>4. wp' \in [Zones -> 0 .. ZoneCap]
    BY <1>2, <1>3 DEF nvme_write, DeviceTypeOK
<1>5. QED
    BY <1>1, <1>4 DEF DeviceTypeOK, LBAs, Zones, Payload

LEMMA ResetType ==
    ASSUME DeviceTypeOK, NEW zs, nvme_zns_reset(zs)
    PROVE  DeviceTypeOK'
BY GeometryAssumption DEF DeviceTypeOK, nvme_zns_reset, Payload

============================================================================
