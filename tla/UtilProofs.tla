------------------------------ MODULE UtilProofs ------------------------------
(***************************************************************************)
(* Theorems about NvmeUtil, for every length of log, size of transfer,     *)
(* piece of firmware, size of block and number of changes, faults and      *)
(* calls: a log fetch stays inside its buffer, returns one log as a whole, *)
(* and treats the event as its caller asked; firmware and bytes arrive     *)
(* where they belong under exactly the conditions that the properties      *)
(* name; and every status, of the 2048 there are, is told for what it is.  *)
(***************************************************************************)
EXTENDS NvmeUtil, TLAPS

(* Pages and generations, and the buffer of the call. *)
DeviceTypes ==
    /\ page \in {"ctrl", "host", "lba", "none"}
    /\ lens \in Seq(0 .. MaxLen) /\ Len(lens) >= 1
    /\ page # "lba" => \A g \in 1 .. Len(lens) : lens[g] > 0
    /\ event \in BOOLEAN
BufferTypes ==
    /\ DOMAIN buf = 0 .. MaxLen - 1
    /\ size \in 0 .. MaxLen /\ off \in 0 .. MaxLen
    /\ avail \in BOOLEAN /\ interfered \in BOOLEAN

(* Only a fetch of a log is at its header or its body. *)
CallInv ==
    /\ pc \in {"header", "body"} => call.kind = "log"
    /\ pc \in {"cmd", "io", "fw"} => call.kind # "log"
    /\ pc = "header" => off = 0 /\ ~ interfered
    /\ out = "ok" => pc = "idle"

(* While nobody interferes, the log that the header told of is the current *)
(* one; a controller-initiated one is kept by its event.                   *)
Latched == lens[gen] = size /\ (page = "ctrl" => event)
BodyInv ==
    pc = "body" =>
        /\ avail /\ off < size
        /\ ~ interfered => Latched /\ \A u \in 0 .. off - 1 : buf[u] = gen

IInv == DeviceTypes /\ BufferTypes /\ CallInv /\ BodyInv /\ WholeLog

----------------------------------------------------------------------------
(* What is in an interval, and in a sequence. *)
LEMMA IndexBelow ==
    ASSUME NEW n \in Nat, NEW u \in 0 .. n - 1
    PROVE  u \in Nat /\ u < n
  OBVIOUS
LEMMA ElementOf ==
    ASSUME NEW S, NEW s \in Seq(S), NEW i \in 1 .. Len(s)
    PROVE  s[i] \in S
  OBVIOUS

(* A transfer moves at least a unit, and none beyond the end. *)
LEMMA XferBounds ==
    ASSUME BufferTypes, off < size
    PROVE  Xfer \in Nat \ {0} /\ off + Xfer \in 1 .. size /\ off + Xfer > off
  BY UtilAssumption DEF Xfer, BufferTypes

(* A new generation is appended to those there were. *)
LEMMA RenewedFacts ==
    ASSUME DeviceTypes, Renewed, page' = page
    PROVE  /\ lens' \in Seq(0 .. MaxLen) /\ Len(lens') = Len(lens) + 1 /\ Len(lens') >= 1
           /\ \A g \in 1 .. Len(lens) : lens'[g] = lens[g]
           /\ page' # "lba" => \A g \in 1 .. Len(lens') : lens'[g] > 0
<1>1. PICK n \in Lengths : lens' = Append(lens, n)
  BY DEF Renewed
<1>2. n \in 0 .. MaxLen /\ (page # "lba" => n > 0)
  BY UtilAssumption DEF Lengths
<1> QED BY <1>1, <1>2 DEF DeviceTypes

(* A log that was returned stays the log of a generation. *)
LEMMA ReturnedStays ==
    ASSUME IInv, UNCHANGED <<call, out, buf, size, avail>>,
           interfered => interfered',
           Len(lens') >= Len(lens), \A g \in 1 .. Len(lens) : lens'[g] = lens[g],
           Len(lens) \in Nat, Len(lens') \in Nat
    PROVE  WholeLog'
<1>1. gen = Len(lens) /\ gen' = Len(lens')
  BY DEF gen
<1> QED BY <1>1 DEF IInv, WholeLog

----------------------------------------------------------------------------
(* At the start there is no call. *)
LEMMA InitInv == Init => IInv
<1> SUFFICES ASSUME Init PROVE IInv
  OBVIOUS
<1>1. PICK n \in Lengths : lens = <<n>>
  BY DEF Init
<1>2. n \in 0 .. MaxLen /\ (page # "lba" => n > 0)
  BY UtilAssumption DEF Lengths
<1>3. DeviceTypes
  <2>1. lens \in Seq(0 .. MaxLen) /\ Len(lens) = 1 /\ lens[1] = n
    BY <1>1, <1>2
  <2>2. page \in {"ctrl", "host", "lba", "none"} /\ event = FALSE
    BY DEF Init
  <2>3. Len(lens) >= 1 /\ \A g \in 1 .. Len(lens) : lens[g] = n
    BY <2>1
  <2>4. event \in BOOLEAN
    BY <2>2
  <2> QED BY <1>2, <2>1, <2>2, <2>3, <2>4 DEF DeviceTypes
<1>4. BufferTypes
  <2>1. buf = [u \in 0 .. MaxLen - 1 |-> 0] /\ size = 0 /\ off = 0 /\ avail = FALSE /\ interfered = FALSE
    BY DEF Init
  <2>2. avail \in BOOLEAN /\ interfered \in BOOLEAN
    BY <2>1
  <2>3. DOMAIN buf = 0 .. MaxLen - 1
    BY <2>1
  <2>4. size \in 0 .. MaxLen /\ off \in 0 .. MaxLen
    BY <2>1, UtilAssumption
  <2> QED BY <2>2, <2>3, <2>4 DEF BufferTypes
<1>5. CallInv /\ BodyInv /\ WholeLog
  BY DEF Init, CallInv, BodyInv, WholeLog
<1> QED BY <1>3, <1>4, <1>5 DEF IInv

(* The log changes: where that is possible in the middle of a fetch, it is *)
(* noted.                                                                  *)
LEMMA ChangeInv ==
    ASSUME IInv, Change \/ OtherCreates
    PROVE  IInv'
<1>1. /\ Renewed /\ page' = page /\ UNCHANGED <<pc, call, out, buf, size, off, avail>>
      /\ event' \in BOOLEAN /\ interfered' \in BOOLEAN
      /\ interfered => interfered'
      /\ pc = "header" => interfered' = interfered
      /\ (pc = "body" /\ ~ interfered') => (~ interfered /\ page = "ctrl" /\ ~ event)
  BY DEF Change, OtherCreates, IInv, DeviceTypes, BufferTypes, logVars
<1>2. DeviceTypes' /\ BufferTypes' /\ CallInv'
  BY <1>1, RenewedFacts DEF IInv, DeviceTypes, BufferTypes, CallInv
<1>3. BodyInv'
  BY <1>1 DEF IInv, BodyInv, Latched
<1>4. WholeLog'
  BY <1>1, RenewedFacts, ReturnedStays DEF IInv, DeviceTypes
<1> QED BY <1>2, <1>3, <1>4 DEF IInv

(* Another host's read may let the event go, and the log with it. *)
LEMMA OtherReadsInv ==
    ASSUME IInv, OtherReads
    PROVE  IInv'
<1>1. /\ UNCHANGED <<page, lens, pc, call, out, buf, size, off, avail>>
      /\ event' \in BOOLEAN /\ interfered' \in BOOLEAN
      /\ interfered => interfered'
      /\ pc = "header" => interfered' = interfered
      /\ (pc = "body" /\ ~ interfered') => (~ interfered /\ page # "ctrl")
  BY DEF OtherReads, IInv, BufferTypes, logVars
<1>2. DeviceTypes' /\ BufferTypes' /\ CallInv'
  BY <1>1 DEF IInv, DeviceTypes, BufferTypes, CallInv
<1>3. BodyInv'
  BY <1>1 DEF IInv, BodyInv, Latched, gen
<1>4. WholeLog'
  BY <1>1 DEF IInv, WholeLog, gen
<1> QED BY <1>2, <1>3, <1>4 DEF IInv

----------------------------------------------------------------------------
(* The calls that are no fetch of a log. *)
LEMMA OtherCallsInv ==
    ASSUME IInv, Invoke \/ Explain \/ SpaceIo \/ Download
    PROVE  IInv'
<1>1. /\ UNCHANGED <<page, lens, event, buf, size, off, avail, interfered>>
      /\ call'.kind \in {"cmd", "status", "io", "fw"}
      /\ pc' \in {"cmd", "idle", "io", "fw"} /\ (out' = "ok" => pc' = "idle")
  <2>1. CASE Invoke
    BY <2>1 DEF Invoke, Begin, CommandCalls, deviceVars, logVars
  <2>2. CASE Explain
    BY <2>2 DEF Explain, Return, StatusCalls, deviceVars, logVars
  <2>3. CASE SpaceIo
    BY <2>3 DEF SpaceIo, Return, SpaceCalls, deviceVars, logVars
  <2>4. CASE Download
    BY <2>4 DEF Download, Begin, FirmwareCalls, logVars
  <2> QED BY <2>1, <2>2, <2>3, <2>4
<1> QED BY <1>1 DEF IInv, DeviceTypes, BufferTypes, CallInv, BodyInv, WholeLog

(* The steps of those calls, of which none ends in a fetch of a log. *)
LEMMA OtherStepsInv ==
    ASSUME IInv, Complete \/ SendPart \/ PartFails \/ Downloaded
    PROVE  IInv'
<1>1. /\ UNCHANGED <<page, lens, event, call, buf, size, off, avail, interfered>>
      /\ pc \in {"cmd", "io", "fw"} /\ pc' \in {pc, "idle"} /\ (pc' = pc => out' = out)
  BY DEF Complete, SendPart, PartFails, Downloaded, Return, deviceVars, logVars
<1> QED BY <1>1 DEF IInv, DeviceTypes, BufferTypes, CallInv, BodyInv, WholeLog

----------------------------------------------------------------------------
(* A fetch begins: its buffer holds the header. *)
LEMMA FetchInv ==
    ASSUME IInv, Fetch
    PROVE  IInv'
<1>1. PICK c \in LogFetches : Begin(c, "header")
  BY DEF Fetch
<1>2. c.kind = "log"
  BY DEF LogFetches
<1>3. /\ call' = c /\ pc' = "header" /\ out' = "none"
      /\ UNCHANGED <<page, lens, event>>
  BY <1>1 DEF Begin, Fetch, deviceVars
<1>4. /\ buf' = [u \in DOMAIN buf |-> 0] /\ size' = 1 /\ off' = 0
      /\ avail' = FALSE /\ interfered' = FALSE
  BY DEF Fetch
<1>5. BufferTypes'
  <2>1. avail' \in BOOLEAN /\ interfered' \in BOOLEAN
    BY <1>4
  <2>2. DOMAIN buf' = 0 .. MaxLen - 1 /\ size' \in 0 .. MaxLen /\ off' \in 0 .. MaxLen
    BY <1>4, UtilAssumption DEF IInv, BufferTypes
  <2> QED BY <2>1, <2>2 DEF BufferTypes
<1>6. DeviceTypes' /\ CallInv' /\ BodyInv' /\ WholeLog'
  BY <1>2, <1>3, <1>4 DEF IInv, DeviceTypes, CallInv, BodyInv, WholeLog
<1> QED BY <1>5, <1>6 DEF IInv

(* The header of the newest log is read: the body begins, unless there is  *)
(* none.                                                                   *)
LEMMA HeaderInv ==
    ASSUME IInv, ReadHeader \/ CreateHeader
    PROVE  IInv'
<1> DEFINE g == Len(lens')
<1>1. /\ UNCHANGED <<page, event, call, off, interfered>> /\ pc = "header"
      /\ HeaderOf(g)
      /\ lens' = lens \/ Renewed
  <2>1. CASE ReadHeader
    BY <2>1 DEF ReadHeader, gen
  <2>2. CASE CreateHeader
    <3>1. Len(lens') = gen + 1
      BY <2>2, RenewedFacts DEF CreateHeader, IInv, gen
    <3> QED BY <2>2, <3>1 DEF CreateHeader
  <2> QED BY <2>1, <2>2
<1>2. DeviceTypes'
  BY <1>1, RenewedFacts DEF IInv, DeviceTypes
<1>3. lens'[g] \in 0 .. MaxLen /\ (page # "lba" => lens'[g] > 0) /\ g = gen'
  <2>1. lens' \in Seq(0 .. MaxLen) /\ Len(lens') >= 1 /\ page' = page
    BY <1>1, <1>2 DEF DeviceTypes
  <2>2. g \in 1 .. Len(lens')
    BY <2>1
  <2>5. lens'[g] \in 0 .. MaxLen
    BY <2>1, <2>2, ElementOf
  <2>3. page # "lba" => lens'[g] > 0
    BY <1>2, <2>1, <2>2 DEF DeviceTypes
  <2>4. g = gen'
    BY DEF gen
  <2> QED BY <2>3, <2>4, <2>5
<1>4. off = 0 /\ ~ interfered /\ call.kind = "log"
  BY <1>1 DEF IInv, CallInv
<1>5. /\ DOMAIN buf' = DOMAIN buf /\ avail' = More(lens'[g]) /\ avail' \in BOOLEAN
  BY <1>1 DEF HeaderOf, More
<1>6. CASE avail'
  <2>1. pc' = "body" /\ size' = lens'[g] /\ out' = out
    BY <1>1, <1>6 DEF HeaderOf, BufferSize
  <2>2. size' > 0 /\ (page = "ctrl" => event)
    BY <1>3, <1>5, <1>6, <2>1 DEF More
  <2>3. out # "ok"
    BY <1>1 DEF IInv, CallInv
  <2>4. BufferTypes' /\ CallInv' /\ WholeLog'
    BY <1>1, <1>3, <1>4, <1>5, <2>1, <2>3 DEF IInv, BufferTypes, CallInv, WholeLog
  <2>5. BodyInv'
    BY <1>1, <1>3, <1>4, <1>6, <2>1, <2>2 DEF BodyInv, Latched
  <2> QED BY <1>2, <2>4, <2>5 DEF IInv
<1>7. CASE ~ avail'
  <2>1. pc' = "idle" /\ size' = size
    BY <1>1, <1>7 DEF HeaderOf, Return
  <2>2. BufferTypes' /\ CallInv' /\ WholeLog' /\ BodyInv'
    BY <1>1, <1>5, <1>7, <2>1 DEF IInv, BufferTypes, CallInv, WholeLog, BodyInv
  <2> QED BY <1>2, <2>2 DEF IInv
<1> QED BY <1>6, <1>7

(* What a transfer does to buffer and event. *)
LEMMA TransferInv ==
    ASSUME IInv, Transfer
    PROVE  IInv'
<1>1. /\ UNCHANGED <<page, lens, call, size, avail, interfered>> /\ pc = "body"
      /\ off' = off + Xfer
      /\ IF off' < size THEN pc' = pc /\ out' = out ELSE pc' = "idle" /\ out' = "ok"
      /\ event' = (event /\ Retain(off + Xfer = size))
      /\ buf' = [u \in DOMAIN buf |->
                    IF u \in off .. off + Xfer - 1 THEN IF u < lens[gen] THEN gen ELSE 0 ELSE buf[u]]
      /\ gen' = gen
  BY DEF Transfer, Return, gen
<1>2. avail /\ off < size /\ call.kind = "log"
  BY <1>1 DEF IInv, BodyInv, CallInv
<1>3. Xfer \in Nat \ {0} /\ off + Xfer \in 1 .. size /\ off + Xfer > off
  BY <1>2, XferBounds DEF IInv
<1>4. off' \in 1 .. size /\ off' > off /\ off \in Nat /\ size \in 0 .. MaxLen
  BY <1>1, <1>3 DEF IInv, BufferTypes
<1>5. DeviceTypes'
  <2>1. event' \in BOOLEAN
    BY <1>1, Zenon
  <2> QED BY <1>1, <2>1 DEF IInv, DeviceTypes
<1>6. BufferTypes'
  <2>1. DOMAIN buf' = 0 .. MaxLen - 1 /\ size' \in 0 .. MaxLen
    BY <1>1 DEF IInv, BufferTypes
  <2>2. off' \in 0 .. MaxLen
    BY <1>4, UtilAssumption
  <2>3. avail' = avail /\ interfered' = interfered
    BY <1>1
  <2>4. avail' \in BOOLEAN /\ interfered' \in BOOLEAN
    BY <2>3 DEF IInv, BufferTypes
  <2> QED BY <2>1, <2>2, <2>4 DEF BufferTypes
<1>7. ~ interfered => lens[gen] = size /\ \A u \in 0 .. off' - 1 : buf'[u] = gen
  <2> SUFFICES ASSUME ~ interfered, NEW u \in 0 .. off' - 1
               PROVE  lens[gen] = size /\ buf'[u] = gen
    <3>1. lens[gen] = size \/ interfered
      BY <1>1 DEF IInv, BodyInv, Latched
    <3> QED BY <3>1
  <2>1. lens[gen] = size /\ \A v \in 0 .. off - 1 : buf[v] = gen
    BY <1>1 DEF IInv, BodyInv, Latched
  <2>2. u \in DOMAIN buf /\ u < size
    <3>1. DOMAIN buf = 0 .. MaxLen - 1
      BY DEF IInv, BufferTypes
    <3>2. off' \in Nat /\ size \in Nat /\ MaxLen \in Nat /\ off' <= size /\ size <= MaxLen
      BY <1>4, UtilAssumption
    <3>3. u \in Nat /\ u < off'
      BY <3>2, IndexBelow, Zenon
    <3> QED BY <3>1, <3>2, <3>3
  <2>3. u \in 0 .. off - 1 \/ u \in off .. off + Xfer - 1
    BY <1>1, <1>3, <1>4
  <2> QED BY <1>1, <1>4, <2>1, <2>2, <2>3
<1>8. CASE off' < size
  <2>1. pc' = "body" /\ out' = out /\ out # "ok"
    BY <1>1, <1>8 DEF IInv, CallInv
  <2>2. Retain(off + Xfer = size)
    BY <1>1, <1>8 DEF Retain, IInv, BufferTypes
  <2>3. event' = event
    BY <1>1, <2>2 DEF IInv, DeviceTypes
  <2>4. ~ interfered' => Latched'
    BY <1>1, <1>7, <2>3 DEF IInv, BodyInv, Latched
  <2>5. BodyInv' /\ CallInv' /\ WholeLog'
    BY <1>1, <1>2, <1>7, <1>8, <2>1, <2>4 DEF BodyInv, CallInv, WholeLog
  <2> QED BY <1>5, <1>6, <2>5 DEF IInv
<1>9. CASE ~ (off' < size)
  <2>1. pc' = "idle" /\ out' = "ok" /\ off' = size
    BY <1>1, <1>4, <1>9
  <2>2. gen \in 1 .. gen
    BY DEF IInv, DeviceTypes, gen
  <2>3. BodyInv' /\ CallInv' /\ WholeLog'
    BY <1>1, <1>2, <1>7, <2>1, <2>2 DEF BodyInv, CallInv, WholeLog
  <2> QED BY <1>5, <1>6, <2>3 DEF IInv
<1> QED BY <1>8, <1>9

(* The buffer is given back. *)
LEMMA FetchFailsInv ==
    ASSUME IInv, FetchFails
    PROVE  IInv'
<1>1. /\ UNCHANGED <<page, lens, event, call, avail, interfered>> /\ pc' = "idle" /\ out' = "err"
      /\ size' = 0 /\ off' = 0 /\ DOMAIN buf' = DOMAIN buf
  BY DEF FetchFails, Return, deviceVars
<1> QED BY <1>1, UtilAssumption DEF IInv, DeviceTypes, BufferTypes, CallInv, BodyInv, WholeLog

(* A step that leaves every variable as it is. *)
LEMMA StutterInv ==
    ASSUME IInv, UNCHANGED vars
    PROVE  IInv'
  BY DEF vars, deviceVars, logVars, IInv, DeviceTypes, BufferTypes, CallInv, BodyInv, Latched, WholeLog, gen

----------------------------------------------------------------------------
(***************************************************************************)
(* The inductive invariant holds in every state, for all lengths of log,   *)
(* sizes of transfer, changes, faults and calls.                           *)
(***************************************************************************)
THEOREM UtilInductive == Spec => []IInv
<1>1. IInv /\ [Next]_vars => IInv'
  <2> SUFFICES ASSUME IInv, Next PROVE IInv'
    BY StutterInv
  <2>1. CASE Environment
    BY <2>1, ChangeInv, OtherReadsInv DEF Environment
  <2>2. CASE Library
    BY <2>2, OtherStepsInv, HeaderInv, TransferInv DEF Library
  <2>3. CASE Invoke \/ Explain \/ SpaceIo \/ Fetch \/ Download
    BY <2>3, OtherCallsInv, FetchInv
  <2>4. CASE FetchFails \/ PartFails
    BY <2>4, FetchFailsInv, OtherStepsInv
  <2> QED BY <2>1, <2>2, <2>3, <2>4 DEF Next
<1> QED BY InitInv, <1>1, PTL DEF Spec

(* util.c:445: no transfer reaches beyond the buffer. *)
THEOREM TransfersFit == Spec => []BufferSafe
<1>1. IInv => BufferSafe
  <2> SUFFICES ASSUME IInv, pc = "body" PROVE off + Xfer <= size
    BY DEF BufferSafe
  <2>1. off + Xfer \in 1 .. size
    BY XferBounds DEF IInv, BodyInv
  <2> QED BY <2>1 DEF IInv, BufferTypes
<1> QED BY UtilInductive, <1>1, PTL

(* util.c:451: a log that a fetch returns is one log, and all of it. *)
THEOREM LogsAreWhole == Spec => []WholeLog
<1>1. IInv => WholeLog
  BY DEF IInv
<1> QED BY UtilInductive, <1>1, PTL

(* No step of a fetch lets an event go that its caller retains, and the    *)
(* last one acknowledges the event of a caller who does not.               *)
THEOREM EventsAsAsked == Spec => EventAsAsked
<1> DEFINE A == /\ (call.kind = "log" /\ call.rae /\ event /\ (pc' # pc \/ off' # off)) => event'
                /\ (pc = "body" /\ pc' = "idle" /\ out' = "ok" /\ ~ call.rae) => ~ event'
<1>1. IInv /\ [Next]_vars => [A]_vars
  <2> SUFFICES ASSUME IInv, Next PROVE A
    OBVIOUS
  <2>1. CASE Transfer
    <3>1. event' = (event /\ Retain(off + Xfer = size)) /\ off' = off + Xfer /\ pc = "body"
          /\ (off' < size => pc' = pc)
      BY <2>1 DEF Transfer
    <3>2. off + Xfer \in 1 .. size /\ size \in Nat
      BY <3>1, XferBounds DEF IInv, BodyInv, BufferTypes
    <3>3. pc' = "idle" => off + Xfer = size
      BY <3>1, <3>2
    <3> QED BY <3>1, <3>3, Zenon DEF Retain
  <2>2. CASE Environment
    BY <2>2 DEF Environment, Change, OtherCreates, OtherReads, logVars
  <2>3. CASE Complete \/ ReadHeader \/ CreateHeader \/ SendPart \/ Downloaded
    BY <2>3 DEF Complete, ReadHeader, CreateHeader, SendPart, Downloaded, deviceVars
  <2>4. CASE Invoke \/ Explain \/ SpaceIo \/ Fetch \/ Download
    BY <2>4 DEF Invoke, Explain, SpaceIo, Fetch, Download, Begin, deviceVars
  <2>5. CASE FetchFails \/ PartFails
    BY <2>5 DEF FetchFails, PartFails, Return, deviceVars
  <2> QED BY <2>1, <2>2, <2>3, <2>4, <2>5 DEF Next, Library
<1> QED BY UtilInductive, <1>1, PTL DEF EventAsAsked, Spec
----------------------------------------------------------------------------
(* Firmware *)

(* A download is under way or has succeeded. *)
InDownload == pc = "fw" \/ (out = "ok" /\ call.kind = "fw")

(* What has been sent is nothing, the first part, at least two of them, or *)
(* the image.                                                              *)
PartsInv ==
    InDownload =>
        /\ call \in FirmwareCalls
        /\ done \in 0 .. call.size
        /\ done \in {0, call.xfer, call.size} \/ done >= 2 * call.xfer
        /\ call.xfer % 4 = 0 => done % 4 = 0 \/ done = call.size
        /\ pc # "fw" => done = call.size

ImageType == image \in [Dwords -> Int]

(* While the parts are whole dwords, those sent are in their place. *)
InPlace == \A d \in Dwords :
    (call.offset \div 4 <= d /\ 4 * (d - call.offset \div 4) < done) =>
        image[d] = 4 * (d - call.offset \div 4)
(* If the image does not end with a dword, its last dword is not written.  *)
TailMissing == image[(call.offset + call.size) \div 4] < 0
(* If the parts do not, the dword that the second one begins in holds its  *)
(* first byte, where an earlier one belongs.                               *)
SecondMisplaced == image[(call.offset + call.xfer) \div 4] \in {Junk, call.xfer}

ImageInv ==
    (InDownload /\ call.offset % 4 = 0) =>
        /\ (call.xfer % 4 = 0 \/ call.size <= call.xfer) =>
              IF call.size % 4 = 0 THEN InPlace ELSE TailMissing
        /\ (call.xfer % 4 # 0 /\ done > call.xfer) => SecondMisplaced

FwInv == ImageType /\ PartsInv /\ ImageInv

(* The dwords that a byte of the image may lie in. *)
LEMMA DwordOf ==
    ASSUME NEW c \in FirmwareCalls, NEW b \in 0 .. c.size
    PROVE  (c.offset + b) \div 4 \in Dwords
<1>1. PICK o \in Offsets, s \in Sizes : o = c.offset /\ s = c.size
  BY DEF FirmwareCalls
<1>2. o \in Nat /\ s \in Nat
  BY UtilAssumption
<1>3. (o + b) \div 4 \in (o \div 4) .. ((o + s) \div 4)
  BY <1>1, <1>2
<1> DEFINE Spans == {(p \div 4) .. ((p + t) \div 4) : p \in Offsets, t \in Sizes}
<1>4. (o \div 4) .. ((o + s) \div 4) \in Spans
  OBVIOUS
<1>5. Dwords = UNION Spans
  BY DEF Dwords
<1> HIDE DEF Spans
<1> QED BY <1>1, <1>3, <1>4, <1>5
LEMMA DwordsInt == Dwords \subseteq Nat
<1> SUFFICES ASSUME NEW d \in Dwords PROVE d \in Nat
  OBVIOUS
<1> DEFINE Spans == {(o \div 4) .. ((o + s) \div 4) : o \in Offsets, s \in Sizes}
<1>1. Dwords = UNION Spans
  BY DEF Dwords
<1>2. PICK span \in Spans : d \in span
  <2> HIDE DEF Spans
  <2> QED BY <1>1
<1>3. PICK o \in Offsets, s \in Sizes : span = (o \div 4) .. ((o + s) \div 4)
  OBVIOUS
<1> QED BY <1>2, <1>3, UtilAssumption

(* A part is as long as asked, or all that is left. *)
LEMMA PartBounds ==
    ASSUME call \in FirmwareCalls, done \in 0 .. call.size, done < call.size
    PROVE  /\ call.offset \in Nat /\ call.size \in Nat /\ call.xfer \in Nat \ {0} /\ done \in Nat
           /\ Part \in Nat \ {0}
           /\ \/ Part = call.xfer /\ done + Part < call.size
              \/ Part <= call.xfer /\ done + Part = call.size
<1>1. call.offset \in Nat /\ call.size \in Nat /\ call.xfer \in Nat \ {0}
  BY UtilAssumption DEF FirmwareCalls
<1> QED BY <1>1 DEF Part

(* What a part makes of a dword. *)
LEMMA PlacedAt ==
    ASSUME ImageType, NEW o \in Nat, NEW n \in Nat, NEW f \in Nat,
           image' = Placed(o, n, f), NEW d \in Dwords
    PROVE  /\ d < o \div 4 => image'[d] = image[d]
           /\ (d >= o \div 4 /\ n < 4) => image'[d] = Junk
           /\ (d >= o \div 4 /\ n >= 4 /\ d < o \div 4 + n \div 4) => image'[d] = f + 4 * (d - o \div 4)
           /\ (n >= 4 /\ d >= o \div 4 + n \div 4) => image'[d] = image[d]
<1>1. d \in Nat
  BY DwordsInt
<1>2. o \div 4 \in Nat /\ n \div 4 \in Nat
  OBVIOUS
<1>3. image'[d] = IF d < o \div 4 THEN image[d]
                  ELSE IF n < 4 THEN Junk
                  ELSE IF d < o \div 4 + n \div 4 THEN f + 4 * (d - o \div 4) ELSE image[d]
  BY DEF Placed
<1> QED BY <1>1, <1>2, <1>3

LEMMA PlacedType ==
    ASSUME ImageType, NEW o \in Nat, NEW n \in Nat, NEW f \in Nat, image' = Placed(o, n, f)
    PROVE  ImageType'
<1>1. ASSUME NEW d \in Dwords PROVE image'[d] \in Int
  <2>1. d \in Nat /\ image[d] \in Int /\ o \div 4 \in Nat /\ Junk \in Int
    BY DwordsInt DEF ImageType, Junk
  <2>2. image'[d] \in {image[d], Junk, f + 4 * (d - o \div 4)}
    BY DEF Placed
  <2> QED BY <2>1, <2>2
<1>2. image' = [d \in Dwords |-> image'[d]]
  BY DEF Placed
<1> QED BY <1>1, <1>2 DEF ImageType

(* The download begins with nothing sent and the firmware area untouched,   *)
(* before any call.                                                        *)
LEMMA FwInit == Init => FwInv
<1> SUFFICES ASSUME Init PROVE FwInv
  OBVIOUS
<1>1. image = [d \in Dwords |-> Old] /\ Old \in Int /\ ~ InDownload
  BY DEF Init, Old, InDownload
<1> QED BY <1>1 DEF FwInv, ImageType, PartsInv, ImageInv

(* Steps that have nothing to do with a download. *)
LEMMA FwElsewhere ==
    ASSUME FwInv, image' = image,
           \/ UNCHANGED <<call, done, pc, out>>
           \/ pc' # "fw" /\ (out' # "ok" \/ call'.kind # "fw")
    PROVE  FwInv'
<1>1. CASE UNCHANGED <<call, done, pc, out>>
  BY <1>1 DEF FwInv, ImageType, PartsInv, ImageInv, InDownload, InPlace, TailMissing, SecondMisplaced
<1>2. CASE pc' # "fw" /\ (out' # "ok" \/ call'.kind # "fw")
  BY <1>2 DEF FwInv, ImageType, PartsInv, ImageInv, InDownload
<1> QED BY <1>1, <1>2

LEMMA FwDownload ==
    ASSUME Download
    PROVE  FwInv'
<1>1. PICK c \in FirmwareCalls : Begin(c, "fw")
  BY DEF Download
<1>2. call' = c /\ pc' = "fw" /\ done' = 0 /\ image' = [d \in Dwords |-> Old]
  BY <1>1 DEF Begin, Download
<1>3. c.size \in Nat /\ c.offset \in Nat /\ c.xfer \in Nat \ {0} /\ Old \in Int /\ Old < 0
  <2>1. c.size \in Sizes /\ c.offset \in Offsets /\ c.xfer \in Xfers
    BY DEF FirmwareCalls
  <2>2. Old \in Int /\ Old < 0
    BY DEF Old
  <2>3. c.size \in Nat /\ c.offset \in Nat
    BY <2>1, UtilAssumption
  <2>4. c.xfer \in Nat \ {0}
    BY <2>1, UtilAssumption
  <2> QED BY <2>2, <2>3, <2>4
<1>4. ImageType' /\ PartsInv'
  BY <1>2, <1>3 DEF ImageType, PartsInv
<1>5. InPlace'
  <2> SUFFICES ASSUME NEW d \in Dwords, c.offset \div 4 <= d, 4 * (d - c.offset \div 4) < 0
               PROVE  FALSE
    BY <1>2 DEF InPlace
  <2>1. d \in Nat /\ c.offset \div 4 \in Nat
    BY <1>3, DwordsInt
  <2> QED BY <2>1
<1>6. TailMissing'
  <2>1. (c.offset + c.size) \div 4 \in Dwords
    BY <1>3, DwordOf
  <2> QED BY <1>2, <1>3, <2>1 DEF TailMissing
<1>7. ~ (done' > c.xfer)
  BY <1>2, <1>3
<1> QED BY <1>2, <1>4, <1>5, <1>6, <1>7 DEF FwInv, ImageInv

(* A part is sent. *)
LEMMA FwSendPart ==
    ASSUME FwInv, SendPart
    PROVE  FwInv'
<1>1. /\ UNCHANGED <<pc, call, out>> /\ pc = "fw" /\ done < call.size
      /\ image' = Placed(call.offset + done, Part, done) /\ done' = done + Part
  BY DEF SendPart, PartOffset
<1>2. InDownload /\ call \in FirmwareCalls /\ done \in 0 .. call.size /\ ImageType
  BY <1>1 DEF FwInv, InDownload, PartsInv
<1> DEFINE o == call.offset
           n == call.size
           x == call.xfer
           p == Part
<1>3. /\ o \in Nat /\ n \in Nat /\ x \in Nat \ {0} /\ done \in Nat /\ p \in Nat \ {0}
      /\ \/ p = x /\ done + p < n
         \/ p <= x /\ done + p = n
  BY <1>1, <1>2, PartBounds
<1>4. ImageType'
  BY <1>1, <1>2, <1>3, PlacedType
<1>5. done \in {0, x} \/ done >= 2 * x
  BY <1>1, <1>2 DEF FwInv, PartsInv
<1>6. x % 4 = 0 => done % 4 = 0
  BY <1>1, <1>2 DEF FwInv, PartsInv
<1> HIDE DEF o, n, x, p
<1>7. PartsInv'
  <2>1. done' = done + p /\ call' = call /\ pc' = pc
    BY <1>1 DEF p
  <2>2. done' \in 0 .. n
    BY <1>3, <2>1
  <2>3. done' \in {0, x, n} \/ done' >= 2 * x
    BY <1>3, <1>5, <2>1
  <2>4. x % 4 = 0 => done' % 4 = 0 \/ done' = n
    BY <1>3, <1>6, <2>1
  <2> QED BY <1>1, <1>2, <2>1, <2>2, <2>3, <2>4 DEF PartsInv, o, n, x
<1>8. ASSUME x % 4 = 0 \/ n <= x
      PROVE  done % 4 = 0 /\ (p % 4 = 0 \/ done + p = n)
  <2>1. CASE x % 4 = 0
    BY <1>3, <1>6, <2>1
  <2>2. CASE n <= x
    <3>1. done = 0
      BY <1>1, <1>3, <1>5, <2>2 DEF n
    <3> QED BY <1>3, <2>2, <3>1
  <2> QED BY <1>8, <2>1, <2>2
<1>9. ASSUME o % 4 = 0, x % 4 = 0 \/ n <= x, n % 4 = 0
      PROVE  InPlace'
  <2>1. done % 4 = 0 /\ p % 4 = 0
    BY <1>3, <1>8, <1>9
  <2>2. PICK q \in Nat, e \in Nat, k \in Nat : o = 4 * q /\ done = 4 * e /\ p = 4 * k
    <3>1. o = 4 * (o \div 4) /\ done = 4 * (done \div 4) /\ p = 4 * (p \div 4)
      BY <1>3, <1>9, <2>1
    <3>2. o \div 4 \in Nat /\ done \div 4 \in Nat /\ p \div 4 \in Nat
      BY <1>3
    <3> QED BY <3>1, <3>2
  <2>3. o \div 4 = q /\ (o + done) \div 4 = q + e /\ p \div 4 = k /\ p >= 4
    BY <1>3, <2>2
  <2> SUFFICES ASSUME NEW d \in Dwords, q <= d, 4 * (d - q) < done + p
               PROVE  image'[d] = 4 * (d - q)
    BY <1>1, <2>3 DEF InPlace, o, p
  <2>4. d \in Nat /\ o + done \in Nat
    BY <1>3, DwordsInt
  <2>5. CASE d < q + e
    <3>1. image'[d] = image[d]
      BY <1>1, <1>2, <1>3, <2>3, <2>4, <2>5, PlacedAt DEF o, p
    <3>2. 4 * (d - q) < done
      BY <2>2, <2>4, <2>5
    <3>3. InPlace
      BY <1>1, <1>2, <1>9 DEF FwInv, ImageInv, o, n, x
    <3> QED BY <2>3, <3>1, <3>2, <3>3 DEF InPlace, o
  <2>6. CASE d >= q + e
    <3>1. d < q + e + k
      BY <2>2, <2>4
    <3>2. image'[d] = done + 4 * (d - (q + e))
      BY <1>1, <1>2, <1>3, <2>3, <2>4, <2>6, <3>1, PlacedAt DEF o, p
    <3> QED BY <2>2, <2>4, <3>2
  <2> QED BY <2>2, <2>4, <2>5, <2>6
<1>10. ASSUME o % 4 = 0, x % 4 = 0 \/ n <= x, n % 4 # 0
      PROVE  TailMissing'
  <2>1. PICK q \in Nat, e \in Nat : o = 4 * q /\ done = 4 * e
    BY <1>3, <1>8, <1>10
  <2> DEFINE D == (o + n) \div 4
  <2>2. D \in Dwords
    BY <1>2, <1>3, DwordOf DEF o, n
  <2>3. D \in Nat /\ (o + done) \div 4 = q + e /\ D >= q + e /\ D >= q + e + p \div 4
    <3>1. done + p <= n
      BY <1>3
    <3> QED BY <1>3, <2>1, <3>1
  <2>4. image[D] < 0 /\ image[D] \in Int
    <3>1. TailMissing
      BY <1>1, <1>2, <1>10 DEF FwInv, ImageInv, o, n, x
    <3> QED BY <1>2, <2>2, <3>1 DEF TailMissing, ImageType, o, n
  <2> HIDE DEF D
  <2>5. image'[D] = image[D] \/ image'[D] = Junk
    BY <1>1, <1>2, <1>3, <2>2, <2>3, PlacedAt DEF o, p
  <2>6. image'[D] < 0
    BY <2>4, <2>5 DEF Junk
  <2> QED BY <1>1, <2>6 DEF TailMissing, D, o, n
<1>11. ASSUME o % 4 = 0, x % 4 # 0, done' > x
       PROVE  SecondMisplaced'
  <2>1. PICK q \in Nat : o = 4 * q
    BY <1>3, <1>11
  <2> DEFINE D == (o + x) \div 4
  <2>2. done + p > x /\ done >= x
    BY <1>1, <1>3, <1>5, <1>11 DEF p
  <2>3. D \in Dwords /\ D \in Nat /\ (o + done) \div 4 \in Nat
    <3>1. x \in 0 .. call.size
      BY <1>1, <1>3, <2>2 DEF n
    <3>2. D \in Dwords
      BY <1>2, <3>1, DwordOf DEF o
    <3> QED BY <1>3, <3>2, DwordsInt
  <2>4. CASE done = x
    <3>1. D = (o + done) \div 4
      BY <2>4
    <3>2. image'[D] \in {Junk, done}
      <4>1. CASE p < 4
        BY <1>1, <1>2, <1>3, <2>3, <3>1, <4>1, PlacedAt DEF o, p
      <4>2. CASE p >= 4
        <5>1. p \div 4 >= 1 /\ p \div 4 \in Nat
          BY <1>3, <4>2
        <5>2. D >= (o + done) \div 4 /\ D < (o + done) \div 4 + p \div 4
          BY <2>3, <3>1, <5>1
        <5> HIDE DEF D
        <5>3. image'[D] = done + 4 * (D - (o + done) \div 4)
          BY <1>1, <1>2, <1>3, <2>3, <4>2, <5>2, PlacedAt DEF o, p
        <5>4. D - (o + done) \div 4 = 0
          BY <2>3, <3>1
        <5> QED BY <1>3, <5>3, <5>4
      <4> QED BY <1>3, <4>1, <4>2
    <3> QED BY <1>1, <2>4, <3>2 DEF SecondMisplaced, o, x
  <2>5. CASE done > x
    <3>1. done >= 2 * x
      BY <1>3, <1>5, <2>5
    <3>2. image[D] \in {Junk, x}
      <4>1. SecondMisplaced
        BY <1>1, <1>2, <1>11, <2>5 DEF FwInv, ImageInv, o, n, x
      <4> QED BY <4>1 DEF SecondMisplaced, o, x
    <3>3. image'[D] \in {Junk, image[D]}
      <4>1. CASE p < 4
        BY <1>1, <1>2, <1>3, <2>3, <4>1, PlacedAt DEF o, p
      <4>2. CASE p >= 4
        <5>1. D < (o + done) \div 4
          BY <1>3, <2>1, <3>1, <4>2
        <5> QED BY <1>1, <1>2, <1>3, <2>3, <5>1, PlacedAt DEF o, p
      <4> QED BY <1>3, <4>1, <4>2
    <3> QED BY <1>1, <3>2, <3>3 DEF SecondMisplaced, o, x
  <2> QED BY <1>3, <2>2, <2>4, <2>5
<1>12. ImageInv'
  <2>1. call' = call
    BY <1>1
  <2> QED BY <2>1, <1>9, <1>10, <1>11 DEF ImageInv, o, n, x
<1> QED BY <1>4, <1>7, <1>12 DEF FwInv

----------------------------------------------------------------------------
(* Types *)

(* Which call is under way. *)
CallKinds ==
    /\ pc = "cmd" => call \in CommandCalls
    /\ pc = "io" => call \in SpaceCalls
    /\ pc \in {"header", "body"} => call \in LogFetches
    /\ pc = "fw" => call \in FirmwareCalls

(* The calls are told apart by their kind. *)
LEMMA Kinds ==
    /\ \A c \in CommandCalls : c.kind = "cmd"
    /\ \A c \in StatusCalls : c.kind = "status"
    /\ \A c \in SpaceCalls : c.kind = "io"
    /\ \A c \in LogFetches : c.kind = "log"
    /\ \A c \in FirmwareCalls : c.kind = "fw"
    /\ None.kind = "none"
<1>1. \A c \in LogFetches : c.kind = "log"
  BY DEF LogFetches
<1> QED BY <1>1 DEF CommandCalls, StatusCalls, SpaceCalls, FirmwareCalls, None

AllCalls == {None} \cup CommandCalls \cup StatusCalls \cup SpaceCalls \cup LogFetches \cup FirmwareCalls

(* The types of the variables of a call. *)
ProgressTypes ==
    /\ pc \in {"idle", "cmd", "io", "header", "body", "fw"}
    /\ call \in AllCalls
    /\ out \in {"none", "ok", "err"}
    /\ done \in Nat /\ calls \in 0 .. MaxCalls /\ faults \in 0 .. MaxFaults

BufType == buf \in [0 .. MaxLen - 1 -> 0 .. gen]

TypeInv == ProgressTypes /\ BufType /\ CallKinds

LEMMA TypeInit == Init => TypeInv
<1> SUFFICES ASSUME Init PROVE TypeInv
  OBVIOUS
<1>1. ProgressTypes /\ CallKinds
  BY UtilAssumption DEF Init, ProgressTypes, CallKinds, AllCalls
<1>2. gen = 1
  BY DEF Init, gen
<1>3. BufType
  BY <1>2 DEF Init, BufType
<1> QED BY <1>1, <1>3 DEF TypeInv

(* The generations grow, so that the buffer's stay among them. *)
LEMMA BufKept ==
    ASSUME TypeInv, buf' = buf, gen \in Nat, gen' \in Nat, gen' >= gen
    PROVE  BufType'
BY DEF TypeInv, BufType

LEMMA GenNat == ASSUME DeviceTypes PROVE gen \in Nat \ {0}
BY DEF DeviceTypes, gen

LEMMA TypeStepDevice ==
    ASSUME TypeInv, IInv, Environment
    PROVE  TypeInv'
<1>1. UNCHANGED <<page, pc, call, out, buf, done, calls, faults>>
  BY DEF Environment, Change, OtherCreates, OtherReads, logVars
<1>2. gen \in Nat /\ gen' \in Nat /\ gen' >= gen
  <2>1. lens' = lens \/ Renewed
    BY DEF Environment, Change, OtherCreates, OtherReads
  <2>2. CASE Renewed
    BY <1>1, <2>2, RenewedFacts, GenNat DEF IInv, DeviceTypes, gen
  <2> QED BY <2>1, <2>2, GenNat DEF IInv, gen
<1>3. BufType'
  BY <1>1, <1>2, BufKept
<1>4. ProgressTypes' /\ CallKinds'
  BY <1>1 DEF TypeInv, ProgressTypes, CallKinds, AllCalls, LogFetches
<1> QED BY <1>3, <1>4 DEF TypeInv

(* A call begins. *)
LEMMA TypeStepBegin ==
    ASSUME TypeInv, IInv, Invoke \/ Explain \/ SpaceIo \/ Fetch \/ Download
    PROVE  TypeInv'
<1>1. page' = page /\ faults' = faults /\ lens' = lens
  BY DEF Invoke, Explain, SpaceIo, Fetch, Download, deviceVars
<1>2. LogFetches' = LogFetches /\ gen' = gen
  BY <1>1 DEF LogFetches, gen
<1>3. BufType'
  <2>1. buf' = buf \/ buf' = [u \in DOMAIN buf |-> 0]
    BY DEF Invoke, Explain, SpaceIo, Fetch, Download, logVars
  <2>2. gen \in Nat
    BY GenNat DEF IInv
  <2> QED BY <1>2, <2>1, <2>2 DEF TypeInv, BufType
<1>4. calls < MaxCalls /\ calls' = calls + 1 /\ done' \in {done, 0}
  BY DEF Invoke, Explain, SpaceIo, Fetch, Download, Begin
<1>5. calls' \in 0 .. MaxCalls /\ done' \in Nat
  BY <1>4, UtilAssumption DEF TypeInv, ProgressTypes
<1>6. \/ pc' = "cmd" /\ call' \in CommandCalls /\ out' = "none"
      \/ pc' = "io" /\ call' \in SpaceCalls /\ out' = "none"
      \/ pc' = "header" /\ call' \in LogFetches /\ out' = "none"
      \/ pc' = "fw" /\ call' \in FirmwareCalls /\ out' = "none"
      \/ pc' = "idle" /\ call' \in StatusCalls \cup SpaceCalls /\ out' \in {"ok", "err"}
  <2>1. CASE Invoke
    BY <2>1 DEF Invoke, Begin
  <2>2. CASE Explain
    BY <2>2 DEF Explain, Return
  <2>3. CASE SpaceIo
    BY <2>3 DEF SpaceIo, Return
  <2>4. CASE Fetch
    BY <2>4 DEF Fetch, Begin
  <2>5. CASE Download
    BY <2>5 DEF Download, Begin
  <2> QED BY <2>1, <2>2, <2>3, <2>4, <2>5
<1>7. ProgressTypes' /\ CallKinds'
  BY <1>1, <1>2, <1>5, <1>6 DEF TypeInv, ProgressTypes, CallKinds, AllCalls
<1> QED BY <1>3, <1>7 DEF TypeInv

(* A call goes on, or ends. *)
LEMMA TypeStepOn ==
    ASSUME TypeInv, IInv, FwInv, Library \/ FetchFails \/ PartFails
    PROVE  TypeInv'
<1>1. /\ page' = page /\ call' = call /\ calls' = calls
      /\ \/ pc' = pc /\ out' = out
         \/ pc = "header" /\ pc' = "body" /\ out' = out
         \/ pc' = "idle" /\ out' \in {"ok", "err"}
  BY DEF Library, Complete, ReadHeader, CreateHeader, Transfer, SendPart, Downloaded, FetchFails, PartFails,
         HeaderOf, Return, deviceVars
<1>2. LogFetches' = LogFetches
  BY <1>1 DEF LogFetches
<1>3. faults' \in 0 .. MaxFaults
  <2>1. faults' = faults \/ (faults < MaxFaults /\ faults' = faults + 1)
    BY DEF Library, Complete, ReadHeader, CreateHeader, Transfer, SendPart, Downloaded, FetchFails, PartFails
  <2> QED BY <2>1, UtilAssumption DEF TypeInv, ProgressTypes
<1>4. done' \in Nat
  <2>1. CASE SendPart
    <3>1. done' = done + Part /\ pc = "fw" /\ done < call.size
      BY <2>1 DEF SendPart
    <3>2. call \in FirmwareCalls /\ done \in 0 .. call.size
      BY <3>1 DEF FwInv, PartsInv, InDownload
    <3> QED BY <3>1, <3>2, PartBounds
  <2>2. CASE ~ SendPart
    <3>1. done' = done
      BY <2>2 DEF Library, Complete, ReadHeader, CreateHeader, Transfer, Downloaded, FetchFails, PartFails
    <3> QED BY <3>1 DEF TypeInv, ProgressTypes
  <2> QED BY <2>1, <2>2
<1>5. ProgressTypes' /\ CallKinds'
  BY <1>1, <1>2, <1>3, <1>4 DEF TypeInv, ProgressTypes, CallKinds, AllCalls
<1>6. gen \in Nat \ {0} /\ gen' \in Nat \ {0} /\ gen' >= gen
  <2>1. lens' = lens \/ Renewed
    BY DEF Library, Complete, ReadHeader, CreateHeader, Transfer, SendPart, Downloaded, FetchFails, PartFails,
           deviceVars
  <2>2. CASE Renewed
    BY <1>1, <2>2, RenewedFacts, GenNat DEF IInv, gen
  <2> QED BY <2>1, <2>2, GenNat DEF IInv, gen
<1>7. BufType'
  <2>1. CASE ReadHeader \/ CreateHeader
    <3>1. PICK g \in {gen, gen'} : buf' = [buf EXCEPT ![0] = IF lens'[g] > 0 THEN g ELSE 0]
      <4>1. CASE ReadHeader
        BY <4>1 DEF ReadHeader, HeaderOf
      <4>2. CASE CreateHeader
        <5>1. gen' = gen + 1
          BY <1>1, <4>2, RenewedFacts DEF CreateHeader, IInv, gen
        <5> QED BY <4>2, <5>1 DEF CreateHeader, HeaderOf
      <4> QED BY <2>1, <4>1, <4>2
    <3>2. buf \in [0 .. MaxLen - 1 -> 0 .. gen']
      BY <1>6 DEF TypeInv, BufType
    <3>3. (IF lens'[g] > 0 THEN g ELSE 0) \in 0 .. gen'
      BY <1>6
    <3> QED BY <3>1, <3>2, <3>3 DEF BufType
  <2>2. CASE Transfer
    <3>1. gen' = gen /\ buf \in [0 .. MaxLen - 1 -> 0 .. gen]
      BY <2>2 DEF Transfer, gen, TypeInv, BufType
    <3>2. buf' = [u \in DOMAIN buf |->
                     IF u \in off .. off + Xfer - 1 THEN IF u < lens[gen] THEN gen ELSE 0 ELSE buf[u]]
      BY <2>2 DEF Transfer
    <3> HIDE DEF gen
    <3>3. gen \in 0 .. gen /\ 0 \in 0 .. gen
      BY <1>6
    <3>4. \A u \in DOMAIN buf : buf'[u] \in 0 .. gen
      BY <3>1, <3>2, <3>3
    <3> QED BY <3>1, <3>2, <3>4 DEF BufType
  <2>3. CASE ~ (ReadHeader \/ CreateHeader \/ Transfer)
    <3>1. buf' = buf \/ buf' = [u \in DOMAIN buf |-> 0]
      BY <2>3 DEF Library, Complete, SendPart, Downloaded, FetchFails, PartFails, logVars
    <3> QED BY <1>6, <3>1 DEF TypeInv, BufType
  <2> QED BY <2>1, <2>2, <2>3
<1> QED BY <1>5, <1>7 DEF TypeInv

(* What the firmware area holds does not change but by a download. *)
LEMMA FwStep ==
    ASSUME TypeInv, FwInv, Next
    PROVE  FwInv'
<1>1. CASE Environment
  BY <1>1, FwElsewhere DEF Environment, Change, OtherCreates, OtherReads
<1>2. CASE Invoke \/ Explain \/ SpaceIo \/ Fetch
  <2>1. image' = image /\ pc' # "fw" /\ (out' # "ok" \/ call'.kind # "fw")
    BY <1>2, Kinds DEF Invoke, Explain, SpaceIo, Fetch, Begin, Return, deviceVars
  <2> QED BY <2>1, FwElsewhere
<1>3. CASE Download
  BY <1>3, FwDownload
<1>4. CASE SendPart
  BY <1>4, FwSendPart
<1>5. CASE Downloaded
  <2>1. UNCHANGED <<image, call, done>> /\ pc = "fw" /\ done = call.size /\ pc' = "idle"
    BY <1>5 DEF Downloaded, Return, deviceVars
  <2> QED BY <2>1 DEF FwInv, ImageType, PartsInv, ImageInv, InDownload, InPlace, TailMissing, SecondMisplaced
<1>6. CASE Complete \/ ReadHeader \/ CreateHeader \/ Transfer \/ FetchFails \/ PartFails
  <2>1. image' = image /\ call' = call /\ pc' # "fw"
    BY <1>6 DEF Complete, ReadHeader, CreateHeader, Transfer, FetchFails, PartFails, HeaderOf, Return, deviceVars
  <2>2. CASE PartFails
    BY <2>1, <2>2, FwElsewhere DEF PartFails, Return
  <2>3. CASE ~ PartFails
    <3>1. pc \in {"cmd", "io", "header", "body"}
      BY <1>6, <2>3 DEF Complete, ReadHeader, CreateHeader, Transfer, FetchFails
    <3>2. call.kind # "fw"
      BY <3>1, Kinds DEF TypeInv, CallKinds
    <3> QED BY <2>1, <3>2, FwElsewhere
  <2> QED BY <2>2, <2>3
<1> QED BY <1>1, <1>2, <1>3, <1>4, <1>5, <1>6 DEF Next, Library

CallsInv == IInv /\ TypeInv /\ FwInv

(* A step that leaves every variable as it is. *)
LEMMA CallsStutter ==
    ASSUME CallsInv, UNCHANGED vars
    PROVE  CallsInv'
<1>1. UNCHANGED <<page, lens, image, pc, call, out, buf, done, calls, faults>>
  BY DEF vars, deviceVars, logVars
<1>2. TypeInv'
  <2>1. LogFetches' = LogFetches /\ gen' = gen
    BY <1>1 DEF LogFetches, gen
  <2> QED BY <1>1, <2>1 DEF CallsInv, TypeInv, ProgressTypes, BufType, CallKinds, AllCalls
<1>3. FwInv'
  BY <1>1, FwElsewhere DEF CallsInv
<1> QED BY <1>2, <1>3, StutterInv DEF CallsInv

(***************************************************************************)
(* What the calls of several commands rely on at each of their points, for *)
(* all of them together: types, the log that is fetched, the firmware that *)
(* is sent.                                                                *)
(***************************************************************************)
THEOREM CallsInductive == Spec => []CallsInv
<1>1. Init => TypeInv /\ FwInv
  BY TypeInit, FwInit
<1>2. IInv /\ IInv' /\ TypeInv /\ FwInv /\ [Next]_vars => TypeInv' /\ FwInv'
  <2> SUFFICES ASSUME IInv, TypeInv, FwInv, Next PROVE TypeInv' /\ FwInv'
    BY CallsStutter DEF CallsInv
  <2>1. TypeInv'
    BY TypeStepDevice, TypeStepBegin, TypeStepOn DEF Next
  <2> QED BY <2>1, FwStep
<1>3. IInv /\ TypeInv /\ FwInv <=> CallsInv
  BY DEF CallsInv
<1> QED BY <1>1, <1>2, <1>3, UtilInductive, PTL DEF Spec

(* Every variable of the calls keeps its range.                            *)
THEOREM UtilTypes == Spec => []TypeOK
<1>1. CallsInv => TypeOK
  <2> SUFFICES ASSUME CallsInv PROVE TypeOK
    OBVIOUS
  <2>1. image \in [Dwords -> Int]
    BY DEF CallsInv, FwInv, ImageType
  <2>2. BufType /\ ProgressTypes
    BY DEF CallsInv, TypeInv
  <2>3. DeviceTypes /\ BufferTypes
    BY DEF CallsInv, IInv
  <2>4. event \in BOOLEAN /\ avail \in BOOLEAN /\ interfered \in BOOLEAN
    BY <2>3 DEF DeviceTypes, BufferTypes
  <2> QED BY <2>1, <2>2, <2>3, <2>4 DEF TypeOK, BufType, ProgressTypes, DeviceTypes, BufferTypes, AllCalls
<1> QED BY CallsInductive, <1>1, PTL

(* WellFormed: whatever lengths the headers tell and however the logs      *)
(* change in between, every state of a call is a legal one and no transfer *)
(* goes past the end of the buffer that was allocated for it.              *)
THEOREM UtilWellFormed == Spec => []WellFormed
BY UtilTypes, TransfersFit, PTL DEF WellFormed

----------------------------------------------------------------------------
(* Bytes *)

(* What the parts have left in the firmware area is the image, byte by     *)
(* byte, exactly if its offset and all its parts are whole dwords.         *)
LEMMA ImageWhole == ASSUME CallsInv PROVE FirmwareWhole
<1> SUFFICES ASSUME out = "ok", call.kind = "fw", call.size > 0
             PROVE  (\A b \in 0 .. call.size - 1 : ByteAt(call.offset + b) = b)
                    <=> (call.offset % 4 = 0 /\ call.size % 4 = 0
                            /\ (call.xfer % 4 = 0 \/ call.size <= call.xfer))
  BY DEF FirmwareWhole
<1> DEFINE o == call.offset
           n == call.size
           x == call.xfer
<1>1. pc = "idle" /\ InDownload /\ call \in FirmwareCalls /\ done = n /\ ImageType
  BY DEF CallsInv, IInv, CallInv, FwInv, PartsInv, InDownload
<1>2. o \in Nat /\ n \in Nat /\ x \in Nat \ {0} /\ n > 0
  BY <1>1, UtilAssumption DEF FirmwareCalls
<1>3. ASSUME NEW b \in 0 .. n
      PROVE  (o + b) \div 4 \in Dwords /\ image[(o + b) \div 4] \in Int
  BY <1>1, <1>3, DwordOf DEF ImageType
<1>4. ASSUME NEW b \in Nat
      PROVE  ByteAt(o + b) = LET w == image[(o + b) \div 4] IN IF w < 0 THEN w ELSE w + ((o + b) % 4)
  BY DEF ByteAt
<1> HIDE DEF o, n, x
<1>5. ASSUME o % 4 = 0, n % 4 = 0, x % 4 = 0 \/ n <= x, NEW b \in 0 .. n - 1
      PROVE  ByteAt(o + b) = b
  <2>1. PICK q \in Nat : o = 4 * q
    BY <1>2, <1>5
  <2>2. b \in Nat /\ b < n /\ b \in 0 .. n
    BY <1>2
  <2> DEFINE d == (o + b) \div 4
  <2>3. d = q + b \div 4 /\ o \div 4 = q /\ (o + b) % 4 = b % 4 /\ d \in Dwords /\ d \in Nat
    BY <1>2, <1>3, <2>1, <2>2
  <2>4. InPlace
    BY <1>1, <1>5 DEF CallsInv, FwInv, ImageInv, o, n, x
  <2>5. o \div 4 <= d /\ 4 * (d - o \div 4) < done
    <3>1. b \div 4 \in Nat /\ 4 * (b \div 4) <= b
      BY <2>2
    <3>2. d - o \div 4 = b \div 4
      BY <1>2, <2>1, <2>3, <3>1
    <3>3. o \div 4 <= d
      BY <1>2, <2>1, <2>3, <3>1
    <3>4. 4 * (d - o \div 4) = 4 * (b \div 4)
      BY <3>2
    <3> HIDE DEF d
    <3> QED BY <1>1, <1>2, <2>2, <3>1, <3>3, <3>4
  <2> HIDE DEF d
  <2>6. image[d] = 4 * (d - o \div 4)
    BY <2>3, <2>4, <2>5 DEF InPlace, o
  <2>7. image[d] = 4 * (b \div 4) /\ b \div 4 \in Nat
    BY <2>2, <2>3, <2>6
  <2>8. ByteAt(o + b) = 4 * (b \div 4) + (b % 4)
    BY <1>4, <2>2, <2>3, <2>7 DEF d
  <2> QED BY <2>2, <2>8
<1>6. ASSUME o % 4 # 0, NEW b \in 0 .. n, b = 0
      PROVE  b \in 0 .. n - 1 /\ ByteAt(o + b) # b
  <2>1. image[(o + b) \div 4] \in Int
    BY <1>3
  <2>2. (o + b) % 4 > 0 /\ (o + b) % 4 \in Nat /\ b \in Nat
    BY <1>2, <1>6
  <2>3. ByteAt(o + b) # 0
    BY <1>4, <2>1, <2>2
  <2> QED BY <1>2, <1>6, <2>3
<1>7. ASSUME o % 4 = 0, x % 4 # 0, n > x
      PROVE  x \in 0 .. n - 1 /\ ByteAt(o + x) # x
  <2>1. image[(o + x) \div 4] \in {Junk, x}
    <3>1. SecondMisplaced
      BY <1>1, <1>7 DEF CallsInv, FwInv, ImageInv, o, n, x
    <3> QED BY <3>1 DEF SecondMisplaced, o, x
  <2>2. (o + x) % 4 > 0
    BY <1>2, <1>7
  <2>3. ByteAt(o + x) = IF image[(o + x) \div 4] < 0 THEN image[(o + x) \div 4]
                        ELSE image[(o + x) \div 4] + ((o + x) % 4)
    BY <1>2, <1>4
  <2>4. ByteAt(o + x) # x
    BY <1>2, <2>1, <2>2, <2>3 DEF Junk
  <2> QED BY <1>2, <1>7, <2>4
<1>8. ASSUME o % 4 = 0, n % 4 # 0, x % 4 = 0 \/ n <= x
      PROVE  n - 1 \in 0 .. n - 1 /\ ByteAt(o + (n - 1)) # n - 1
  <2>1. (o + (n - 1)) \div 4 = (o + n) \div 4
    BY <1>2, <1>8
  <2>2. image[(o + n) \div 4] < 0
    <3>1. TailMissing
      BY <1>1, <1>8 DEF CallsInv, FwInv, ImageInv, o, n, x
    <3> QED BY <3>1 DEF TailMissing, o, n
  <2>3. image[(o + n) \div 4] \in Int
    BY <1>2, <1>3
  <2>4. ByteAt(o + (n - 1)) = image[(o + n) \div 4]
    BY <1>2, <1>4, <2>1, <2>2
  <2> QED BY <1>2, <2>2, <2>3, <2>4
<1>9. (\A b \in 0 .. n - 1 : ByteAt(o + b) = b)
      <=> (o % 4 = 0 /\ n % 4 = 0 /\ (x % 4 = 0 \/ n <= x))
  BY <1>2, <1>5, <1>6, <1>7, <1>8
<1> QED BY <1>9 DEF o, n, x

(* util.c:403: a download that succeeds has put every byte where it        *)
(* belongs if offset and lengths are whole dwords, and only then, for all  *)
(* sizes of image, part and offset, whatever was in the firmware area.     *)
THEOREM FirmwareInPlace == Spec => []FirmwareWhole
BY CallsInductive, ImageWhole, PTL

(* A number of bytes, in blocks. *)
LEMMA BytesInBlocks ==
    ASSUME NEW bytes \in Nat, NEW s \in Nat \ {0}
    PROVE  /\ bytes \div s \in Nat /\ bytes % s \in 0 .. s - 1
           /\ bytes = (bytes \div s) * s + (bytes % s)
           /\ (bytes \div s) * s = bytes <=> bytes % s = 0
OBVIOUS
LEMMA WholeBlocks ==
    ASSUME NEW n \in Int, NEW s \in Nat \ {0}
    PROVE  (n * s) \div s = n
OBVIOUS

(* An even number of blocks is not taken for an odd one. *)
LEMMA EvenBlocks ==
    ASSUME NEW bytes \in Nat, bytes % (2 * BlockSize) = 0
    PROVE  ~ Odd(bytes)
<1> DEFINE s == BlockSize
           m == bytes \div (2 * s)
<1>1. s \in Nat \ {0} /\ 2 * s \in Nat \ {0}
  BY UtilAssumption
<1>2. bytes = m * (2 * s) /\ m \in Nat
  BY <1>1, BytesInBlocks
<1> HIDE DEF m
<1>3. m * (2 * s) = (2 * m) * s
  BY <1>1, <1>2
<1>4. bytes \div s = 2 * m
  BY <1>1, <1>2, <1>3, WholeBlocks
<1>5. (2 * m) % 2 = 0
  BY <1>2
<1> QED BY <1>4, <1>5 DEF Odd

(* One less than no blocks is all that 16 bits can count. *)
LEMMA Divided16 ==
    ASSUME NEW k \in Int
    PROVE  /\ k \div 65536 \in Int /\ k % 65536 \in Int
           /\ k = 65536 * (k \div 65536) + (k % 65536)
           /\ 0 <= k % 65536 /\ k % 65536 < 65536
OBVIOUS
LEMMA Wrap16 ==
    ASSUME NEW k \in Int, k + 1 = 0
    PROVE  k % 65536 = 65535
<1> DEFINE q == k \div 65536
           r == k % 65536
<1>1. q \in Int /\ r \in Int /\ k = 65536 * q + r /\ 0 <= r /\ r < 65536
  BY Divided16
<1> HIDE DEF q, r
<1>2. q + 1 = 0
  BY <1>1
<1>3. r = 65535
  BY <1>1, <1>2
<1> QED BY <1>3 DEF r

LEMMA SpaceCallTypes ==
    ASSUME NEW c \in SpaceCalls
    PROVE  c.offset \in Nat /\ c.count \in Nat /\ c.count \in Counts
<1>1. c.offset \in Offsets /\ c.count \in Counts
  BY DEF SpaceCalls
<1> QED BY <1>1, UtilAssumption

(* The command names the bytes that were asked for. *)
LEMMA CommandExact ==
    ASSUME NEW c \in SpaceCalls, c.count > 0, c.count \div BlockSize <= 65536
    PROVE  (FirstBlock(c) * BlockSize = c.offset /\ Blocks(c) * BlockSize = c.count)
           <=> (c.offset % BlockSize = 0 /\ c.count % BlockSize = 0)
<1> DEFINE s == BlockSize
           k == c.count \div s
<1>1. s \in Nat \ {0} /\ c.offset \in Nat /\ c.count \in Nat
  BY UtilAssumption, SpaceCallTypes
<1>2. FirstBlock(c) * s = c.offset <=> c.offset % s = 0
  <2>1. PICK a \in Nat, t \in Nat \ {0} : a = c.offset /\ t = BlockSize
    BY <1>1
  <2>2. (a \div t) * t = a <=> a % t = 0
    BY BytesInBlocks
  <2> QED BY <2>1, <2>2 DEF FirstBlock
<1>3. k \in Nat /\ c.count % s \in 0 .. s - 1 /\ c.count = k * s + (c.count % s) /\ (k * s = c.count <=> c.count % s = 0)
  <2>1. PICK a \in Nat, t \in Nat \ {0} : a = c.count /\ t = BlockSize
    BY <1>1
  <2>2. a \div t \in Nat /\ a % t \in 0 .. t - 1
    OBVIOUS
  <2>3. a = (a \div t) * t + (a % t)
    BY BytesInBlocks
  <2>4. (a \div t) * t = a <=> a % t = 0
    BY BytesInBlocks
  <2> QED BY <2>1, <2>2, <2>3, <2>4
<1>4. Blocks(c) = ((k - 1) % 65536) + 1 /\ k <= 65536
  BY DEF Blocks
<1> HIDE DEF k
<1>5. CASE k = 0
  <2>1. Blocks(c) = 65536
    <3>1. PICK j \in Int : j = k - 1
      BY <1>3
    <3>0. j + 1 = 0
      BY <1>5, <3>1
    <3>2. j % 65536 = 65535
      BY <3>0, Wrap16
    <3> QED BY <1>4, <3>1, <3>2
  <2>2. c.count < s /\ c.count % s # 0
    BY <1>1, <1>3, <1>5
  <2>3. 65536 * s > c.count
    BY <1>1, <2>2
  <2> QED BY <1>1, <2>1, <2>2, <2>3
<1>6. CASE k # 0
  <2>1. Blocks(c) = k
    BY <1>3, <1>4, <1>6
  <2> QED BY <1>2, <1>3, <2>1
<1> QED BY <1>5, <1>6

(* Downloads, and reads and writes on a namespace, move the bytes asked    *)
(* for if their blocks can be counted in 16 bits (tree.c:1242).            *)
THEOREM BytesMoved ==
    ASSUME \A n \in Counts : n \div BlockSize <= 65536
    PROVE  Spec => []BytesExact
<1>1. CallsInv => BytesExact
  <2> SUFFICES ASSUME CallsInv PROVE SpaceIoExact
    BY ImageWhole DEF BytesExact
  <2> SUFFICES ASSUME call.kind = "io", call.count > 0
               PROVE  /\ (FirstBlock(call) * BlockSize = call.offset /\ Blocks(call) * BlockSize = call.count)
                         <=> (call.offset % BlockSize = 0 /\ call.count % BlockSize = 0)
                      /\ (\A x \in {call.offset, call.count} : x % (2 * BlockSize) = 0) => ~ BytesRefused(call)
    BY DEF SpaceIoExact
  <2>1. call \in SpaceCalls
    BY Kinds DEF CallsInv, TypeInv, ProgressTypes, AllCalls
  <2>2. PICK c \in SpaceCalls : c = call
    BY <2>1
  <2>3. c.offset \in Nat /\ c.count \in Nat /\ c.count \in Counts
    BY SpaceCallTypes
  <2>4. (\A x \in {c.offset, c.count} : x % (2 * BlockSize) = 0) => ~ BytesRefused(c)
    BY <2>2, <2>3, EvenBlocks DEF BytesRefused
  <2>5. (FirstBlock(c) * BlockSize = c.offset /\ Blocks(c) * BlockSize = c.count)
        <=> (c.offset % BlockSize = 0 /\ c.count % BlockSize = 0)
    BY <2>2, <2>3, CommandExact
  <2> QED BY <2>2, <2>4, <2>5
<1> QED BY CallsInductive, <1>1, PTL
----------------------------------------------------------------------------
(* Statuses *)

(* A status is a type and a code, under flags that do not change them. *)
Types == {0, 256, 512, 768, 1024, 1280, 1536, 1792}
AllStatuses == 0 .. 2047
LEMMA Decoded ==
    ASSUME NEW s \in AllStatuses
    PROVE  /\ nvme_status_code_type(s) \in Types /\ nvme_status_code(s) \in 0 .. 255
           /\ s = nvme_status_code_type(s) + nvme_status_code(s)
<1> DEFINE k == s \div 256
           c == s % 256
<1>1. k \in 0 .. 7 /\ c \in 0 .. 255 /\ s = k * 256 + c
  BY DEF AllStatuses
<1>2. k % 8 = k
  BY <1>1
<1>3. nvme_status_code_type(s) = k * 256 /\ nvme_status_code(s) = c
  BY <1>1, <1>2 DEF nvme_status_code_type, nvme_status_code
<1> HIDE DEF k, c
<1> QED BY <1>1, <1>3 DEF Types

LEMMA FlagsDoNotMatter ==
    ASSUME NEW s \in AllStatuses, NEW flags \in {2048, 8192, 16384}
    PROVE  /\ s + flags # 0
           /\ nvme_status_code_type(s + flags) = nvme_status_code_type(s)
           /\ nvme_status_code(s + flags) = nvme_status_code(s)
<1>1. PICK j \in Nat : flags = 2048 * j
  BY 2048 = 2048 * 1, 8192 = 2048 * 4, 16384 = 2048 * 8
<1>2. PICK k \in 0 .. 7, c \in 0 .. 255 : s = k * 256 + c
  <2>1. s \div 256 \in 0 .. 7 /\ s % 256 \in 0 .. 255 /\ s = (s \div 256) * 256 + (s % 256)
    BY DEF AllStatuses
  <2> QED BY <2>1
<1>3. s + flags = (8 * j + k) * 256 + c
  BY <1>1, <1>2
<1>4. (s + flags) \div 256 = 8 * j + k /\ (s + flags) % 256 = c
  BY <1>1, <1>2, <1>3
<1>5. s \div 256 = k /\ s % 256 = c
  BY <1>2
<1>6. (8 * j + k) % 8 = k % 8
  BY <1>1, <1>2
<1>7. s + flags # 0
  BY <1>1, <1>2
<1> QED BY <1>4, <1>5, <1>6, <1>7 DEF nvme_status_code_type, nvme_status_code

(* No error becomes the number of a success. *)
LEMMA ErrorsStay ==
    ASSUME NEW s, NEW fabrics \in BOOLEAN
    PROVE  nvme_status_to_errno(s, fabrics) = "0" <=> s = 0
<1>1. \A sc : nvme_generic_status_to_errno(sc) # "0"
  BY DEF nvme_generic_status_to_errno
<1>2. \A sc : nvme_cmd_specific_status_to_errno(sc) # "0" /\ nvme_fabrics_status_to_errno(sc) # "0"
  BY DEF nvme_cmd_specific_status_to_errno, nvme_fabrics_status_to_errno
<1> QED BY <1>1, <1>2 DEF nvme_status_to_errno

(* The table that a text is in. *)
Table(s, fabrics) ==
    LET t == nvme_status_code_type(s) IN
    CASE t = 0 -> "generic"
      [] t = 256 -> IF nvme_status_code(s) <= 45 THEN "command" ELSE IF fabrics THEN "fabrics" ELSE "nvm"
      [] t = 512 -> "media"
      [] t = 768 -> "path"
      [] OTHER -> "none"
LEMMA TextOf ==
    ASSUME NEW s \in AllStatuses, NEW fabrics \in BOOLEAN, nvme_status_code_type(s) # NVME_SCT_VS
    PROVE  nvme_status_to_string(s, fabrics)
              = IF Declared(s, fabrics) THEN <<Table(s, fabrics), nvme_status_code(s)>> ELSE Unknown
<1> DEFINE t == nvme_status_code_type(s)
           sc == nvme_status_code(s)
<1>1. t \in Types \ {1792} /\ sc \in 0 .. 255
  BY Decoded DEF NVME_SCT_VS
<1>2. (\E last \in cmd_spec_status : sc <= last) <=> sc <= 45
  <2>1. 45 \in cmd_spec_status /\ \A last \in cmd_spec_status : last <= 45 /\ last \in Int
    BY DEF cmd_spec_status
  <2> QED BY <1>1, <2>1
<1>3. CASE t = 0
  BY <1>3 DEF nvme_status_to_string, Declared, Table, arg_str, generic_status, GenericCodes,
              NVME_SCT_GENERIC, NVME_SCT_CMD_SPECIFIC, NVME_SCT_MEDIA, NVME_SCT_PATH, NVME_SCT_VS
<1>4. CASE t = 256
  <2>1. Declared(s, fabrics) <=> sc \in CommandCodes \cup (IF fabrics THEN FabricsCodes ELSE NvmCodes)
    BY <1>4 DEF Declared, NVME_SCT_GENERIC, NVME_SCT_CMD_SPECIFIC, NVME_SCT_MEDIA, NVME_SCT_PATH
  <2>2. nvme_status_to_string(s, fabrics)
           = IF sc <= 45 THEN arg_str("command", cmd_spec_status, sc)
             ELSE IF fabrics THEN arg_str("fabrics", nvmf_status, sc) ELSE arg_str("nvm", nvm_status, sc)
    BY <1>2, <1>4 DEF nvme_status_to_string, NVME_SCT_GENERIC, NVME_SCT_CMD_SPECIFIC, NVME_SCT_MEDIA,
                      NVME_SCT_PATH, NVME_SCT_VS
  <2>3. Table(s, fabrics) = IF sc <= 45 THEN "command" ELSE IF fabrics THEN "fabrics" ELSE "nvm"
    BY <1>4 DEF Table
  <2>4. CommandCodes = cmd_spec_status /\ FabricsCodes = nvmf_status /\ NvmCodes = nvm_status
    BY DEF CommandCodes, cmd_spec_status, FabricsCodes, nvmf_status, NvmCodes, nvm_status
  <2>5. /\ \A x \in cmd_spec_status : x <= 45
        /\ \A x \in nvmf_status \cup nvm_status : ~ (x <= 45)
    BY DEF cmd_spec_status, nvmf_status, nvm_status
  <2> HIDE DEF sc
  <2> QED BY <2>1, <2>2, <2>3, <2>4, <2>5 DEF arg_str, sc
<1>5. CASE t = 512
  BY <1>5 DEF nvme_status_to_string, Declared, Table, arg_str, media_status, MediaCodes,
              NVME_SCT_GENERIC, NVME_SCT_CMD_SPECIFIC, NVME_SCT_MEDIA, NVME_SCT_PATH, NVME_SCT_VS
<1>6. CASE t = 768
  BY <1>6 DEF nvme_status_to_string, Declared, Table, arg_str, path_status, PathCodes,
              NVME_SCT_GENERIC, NVME_SCT_CMD_SPECIFIC, NVME_SCT_MEDIA, NVME_SCT_PATH, NVME_SCT_VS
<1>7. CASE t \in {1024, 1280, 1536}
  BY <1>7 DEF nvme_status_to_string, Declared,
              NVME_SCT_GENERIC, NVME_SCT_CMD_SPECIFIC, NVME_SCT_MEDIA, NVME_SCT_PATH, NVME_SCT_VS
<1> QED BY <1>1, <1>3, <1>4, <1>5, <1>6, <1>7 DEF Types

(* Two statuses of one table and one code are the same one. *)
LEMMA TextsApart ==
    ASSUME NEW s \in AllStatuses, NEW t \in AllStatuses, NEW fabrics \in BOOLEAN,
           Declared(s, fabrics), Declared(t, fabrics),
           nvme_status_to_string(s, fabrics) = nvme_status_to_string(t, fabrics)
    PROVE  s = t
<1>1. \A x : Declared(x, fabrics) => nvme_status_code_type(x) \in {0, 256, 512, 768}
  BY DEF Declared, NVME_SCT_GENERIC, NVME_SCT_CMD_SPECIFIC, NVME_SCT_MEDIA, NVME_SCT_PATH
<1>2. Table(s, fabrics) = Table(t, fabrics) /\ nvme_status_code(s) = nvme_status_code(t)
  BY <1>1, TextOf DEF NVME_SCT_VS
<1>3. nvme_status_code_type(s) = nvme_status_code_type(t)
  BY <1>1, <1>2 DEF Table
<1> QED BY <1>2, <1>3, Decoded

(* The decoder of this repository. *)
LEMMA IsShifted ==
    ASSUME NEW type \in Int, NEW codes, codes \subseteq Int, NEW s \in Int
    PROVE  s \in Shifted(type, codes) <=> s - type \in codes
<1>1. ASSUME NEW code \in codes PROVE type + code = s <=> s - type = code
  OBVIOUS
<1> QED BY <1>1 DEF Shifted

Silent(s) == ss_nvme_status_to_string(s) = -1
DeclaredHere(s) == Declared(s, FALSE)
LEMMA DecodersAgree ==
    ASSUME NEW s \in AllStatuses
    PROVE  Silent(s) <=> (~ DeclaredHere(s) \/ s \in Unexplained)
<1> DEFINE G == (0 .. 22) \cup (24 .. 29) \cup (32 .. 34) \cup (128 .. 132)
           C == (0 .. 22) \cup (24 .. 37) \cup (41 .. 44) \cup (128 .. 131) \cup {132, 144, 145} \cup (184 .. 191)
           Twice == {132, 144, 145}
           M == 128 .. 135
           P == {0, 1, 2, 3, 96, 112, 113}
<1>1. PICK t \in Types, sc \in 0 .. 255 :
         nvme_status_code_type(s) = t /\ nvme_status_code(s) = sc /\ s = t + sc
  BY Decoded
<1>2. s % 2048 = s /\ s \in Int
  BY DEF AllStatuses
<1>3. Silent(s) <=> ~ (s \in NVMEx_SC /\ s \notin Shifted(256, Twice))
  <2> DEFINE R == NVMEx_SC \ Shifted(256, Twice)
  <2>1. ss_nvme_status_to_string(s) = IF s \in R THEN s ELSE -1
    BY <1>2 DEF ss_nvme_status_to_string, NVME_SCT_CMD_SPECIFIC
  <2>2. s # -1
    BY DEF AllStatuses
  <2> HIDE DEF R
  <2>3. Silent(s) <=> s \notin R
    BY <2>1, <2>2 DEF Silent
  <2> QED BY <2>3 DEF R
<1>4. s \in Shifted(256, Twice) <=> s - 256 \in Twice
  BY <1>2, IsShifted
<1>5. s \in NVMEx_SC <=> (s \in G \/ s - 256 \in C \/ s - 512 \in M \/ s - 768 \in P)
  <2>1. s \in Shifted(0, G) <=> s - 0 \in G
    BY <1>2, IsShifted
  <2>2. s \in Shifted(256, C) <=> s - 256 \in C
    BY <1>2, IsShifted
  <2>3. s \in Shifted(512, M) <=> s - 512 \in M
    BY <1>2, IsShifted
  <2>4. s \in Shifted(768, P) <=> s - 768 \in P
    BY <1>2, IsShifted
  <2>5. NVMEx_SC = Shifted(0, G) \cup Shifted(256, C) \cup Shifted(512, M) \cup Shifted(768, P)
    BY DEF NVMEx_SC, NVME_SCT_GENERIC, NVME_SCT_CMD_SPECIFIC, NVME_SCT_MEDIA, NVME_SCT_PATH
  <2>6. s - 0 = s
    BY <1>2
  <2> HIDE DEF G, C, M, P
  <2> QED BY <2>1, <2>2, <2>3, <2>4, <2>5, <2>6
<1>6. DeclaredHere(s) <=> \/ t = 0 /\ sc \in GenericCodes
                          \/ t = 256 /\ sc \in CommandCodes \cup NvmCodes
                          \/ t = 512 /\ sc \in MediaCodes
                          \/ t = 768 /\ sc \in PathCodes
  BY <1>1 DEF DeclaredHere, Declared, NVME_SCT_GENERIC, NVME_SCT_CMD_SPECIFIC, NVME_SCT_MEDIA, NVME_SCT_PATH
<1>12. s = t + sc /\ sc \in 0 .. 255
  BY <1>1
<1>7. CASE t = 0
  <2>1. s - 256 \notin C \cup Twice /\ s - 512 \notin M /\ s - 768 \notin P
    BY <1>12, <1>7
  <2>2. s \in G <=> (sc \in GenericCodes /\ s \notin Unexplained)
    BY <1>12, <1>7 DEF GenericCodes, Unexplained
  <2>3. DeclaredHere(s) <=> sc \in GenericCodes
    BY <1>6, <1>7
  <2> HIDE DEF G, C, Twice, M, P
  <2>4. Silent(s) <=> ~ (s \in G)
    BY <1>3, <1>4, <1>5, <2>1
  <2> QED BY <2>2, <2>3, <2>4
<1>8. CASE t = 256
  <2>1. s \notin G /\ s - 512 \notin M /\ s - 768 \notin P
    BY <1>12, <1>8
  <2>2. (s - 256 \in C /\ s - 256 \notin Twice) <=> (sc \in CommandCodes \cup NvmCodes /\ s \notin Unexplained)
    BY <1>12, <1>8 DEF CommandCodes, NvmCodes, Unexplained
  <2> HIDE DEF G, C, Twice, M, P
  <2>3. DeclaredHere(s) <=> sc \in CommandCodes \cup NvmCodes
    BY <1>6, <1>8
  <2>4. Silent(s) <=> ~ (s - 256 \in C /\ s - 256 \notin Twice)
    BY <1>3, <1>4, <1>5, <2>1
  <2> QED BY <2>2, <2>3, <2>4
<1>9. CASE t = 512
  <2>1. s \notin G /\ s - 256 \notin C \cup Twice /\ s - 768 \notin P
    BY <1>12, <1>9
  <2>2. s - 512 \in M <=> (sc \in MediaCodes /\ s \notin Unexplained)
    BY <1>12, <1>9 DEF MediaCodes, Unexplained
  <2> HIDE DEF G, C, Twice, M, P
  <2>3. DeclaredHere(s) <=> sc \in MediaCodes
    BY <1>6, <1>9
  <2>4. Silent(s) <=> ~ (s - 512 \in M)
    BY <1>3, <1>4, <1>5, <2>1
  <2> QED BY <2>2, <2>3, <2>4
<1>10. CASE t = 768
  <2>1. s \notin G /\ s - 256 \notin C \cup Twice /\ s - 512 \notin M
    BY <1>12, <1>10
  <2>2. s - 768 \in P <=> (sc \in PathCodes /\ s \notin Unexplained)
    BY <1>12, <1>10 DEF PathCodes, Unexplained
  <2> HIDE DEF G, C, Twice, M, P
  <2> QED BY <1>3, <1>4, <1>5, <1>6, <1>10, <2>1, <2>2
<1>11. CASE t \in {1024, 1280, 1536, 1792}
  BY <1>3, <1>4, <1>5, <1>6, <1>12, <1>11 DEF Unexplained
<1>13. t \in {0, 256, 512, 768} \/ t \in {1024, 1280, 1536, 1792}
  BY <1>1 DEF Types
<1> QED BY <1>7, <1>8, <1>9, <1>10, <1>11, <1>13

(* What Explain returns is what the status says. *)
StatusInv == call.kind = "status" => (out = "ok" <=> call.status = 0)
LEMMA StatusStep ==
    ASSUME CallsInv, StatusInv, [Next]_vars
    PROVE  StatusInv'
<1>1. CASE Explain
  <2>1. PICK c \in StatusCalls :
           call' = c /\ out' = IF nvme_status_to_errno(c.status, c.fabrics) = "0" THEN "ok" ELSE "err"
    BY <1>1 DEF Explain, Return
  <2>2. c.fabrics \in BOOLEAN
    BY DEF StatusCalls
  <2>3. out' = "ok" <=> c.status = 0
    BY <2>1, <2>2, ErrorsStay
  <2> QED BY <2>1, <2>3 DEF StatusInv
<1>2. CASE Invoke \/ SpaceIo \/ Fetch \/ Download
  <2>1. call' \in CommandCalls \cup SpaceCalls \cup LogFetches \cup FirmwareCalls
    BY <1>2 DEF Invoke, SpaceIo, Fetch, Download, Begin
  <2> QED BY <2>1, Kinds DEF StatusInv
<1>3. CASE Library \/ FetchFails \/ PartFails
  <2>1. call' = call /\ pc \in {"cmd", "io", "header", "body", "fw"}
    BY <1>3 DEF Library, Complete, ReadHeader, CreateHeader, Transfer, SendPart, Downloaded, FetchFails, PartFails
  <2>2. call.kind # "status"
    BY <2>1, Kinds DEF CallsInv, TypeInv, CallKinds
  <2> QED BY <2>1, <2>2 DEF StatusInv
<1>4. CASE Environment \/ UNCHANGED vars
  <2>1. call' = call /\ out' = out
    BY <1>4 DEF Environment, Change, OtherCreates, OtherReads, vars
  <2> QED BY <2>1 DEF StatusInv
<1> QED BY <1>1, <1>2, <1>3, <1>4 DEF Next

LEMMA StatusesAre == Statuses \subseteq AllStatuses
BY DEF AllStatuses, Statuses, NVME_SCT_GENERIC, NVME_SCT_CMD_SPECIFIC, NVME_SCT_MEDIA, NVME_SCT_PATH, NVME_SCT_VS

(* ErrorsTold: no failed command is taken for a success, each declared     *)
(* status has a text of its own, and the two decoders tell the same errors *)
(* apart (util.c:133, :305, nvmeprint.cpp:97).  The lemmas say so of every *)
(* status there can be, the property of those that the calls explain.      *)
THEOREM EveryErrorTold == Spec => []ErrorsTold
<1>1. CallsInv /\ StatusInv => ErrorsTold
  <2> SUFFICES ASSUME CallsInv, StatusInv, call.kind = "status" PROVE ErrorsTold
    <3>1. call.kind # "status" => ErrorsTold
      BY DEF ErrorsTold
    <3> QED BY <3>1
  <2>1. PICK c \in StatusCalls : c = call
    BY Kinds DEF CallsInv, TypeInv, ProgressTypes, AllCalls
  <2>2. PICK s \in Statuses : s = c.status
    BY DEF StatusCalls
  <2>3. PICK fabrics \in BOOLEAN : fabrics = c.fabrics
    BY DEF StatusCalls
  <2>4. s \in AllStatuses
    BY StatusesAre
  <2>5. out = "ok" <=> s = NVME_SCT_GENERIC
    BY <2>1, <2>2 DEF StatusInv, NVME_SCT_GENERIC
  <2>6. \A flags \in {2048, 8192, 16384} :
           /\ nvme_status_to_errno(s + flags, fabrics) # "0"
           /\ nvme_status_to_string(s + flags, fabrics) = nvme_status_to_string(s, fabrics)
    BY <2>4, FlagsDoNotMatter, ErrorsStay DEF nvme_status_to_string
  <2>7. nvme_status_code_type(s) # NVME_SCT_VS =>
           (Declared(s, fabrics) <=> nvme_status_to_string(s, fabrics) # Unknown)
    BY <2>4, TextOf DEF Unknown, Table
  <2>8. \A t \in Statuses :
           (Declared(s, fabrics) /\ Declared(t, fabrics) /\ s # t) =>
               nvme_status_to_string(s, fabrics) # nvme_status_to_string(t, fabrics)
    BY <2>4, StatusesAre, TextsApart
  <2>9. Silent(s) <=> (~ DeclaredHere(s) \/ s \in Unexplained)
    BY <2>4, DecodersAgree
  <2>10. ~ fabrics => (ss_nvme_status_to_string(s) = -1 <=> (~ Declared(s, fabrics) \/ s \in Unexplained))
    <3>1. ASSUME ~ fabrics PROVE fabrics = FALSE
      BY <3>1
    <3> QED BY <2>9, <3>1, Zenon DEF Silent, DeclaredHere
  <2>11. call.status = s /\ call.fabrics = fabrics
    BY <2>1, <2>2, <2>3
  <2>12. out = "ok" <=> call.status = NVME_SCT_GENERIC
    BY <2>5, <2>11
  <2>13. \A flags \in {2048, 8192, 16384} :
            /\ nvme_status_to_errno(call.status + flags, call.fabrics) # "0"
            /\ nvme_status_to_string(call.status + flags, call.fabrics)
                  = nvme_status_to_string(call.status, call.fabrics)
    BY <2>6, <2>11
  <2>14. nvme_status_code_type(call.status) # NVME_SCT_VS =>
            (Declared(call.status, call.fabrics) <=> nvme_status_to_string(call.status, call.fabrics) # Unknown)
    BY <2>7, <2>11
  <2>15. \A t \in Statuses :
            (Declared(call.status, call.fabrics) /\ Declared(t, call.fabrics) /\ call.status # t) =>
                nvme_status_to_string(call.status, call.fabrics) # nvme_status_to_string(t, call.fabrics)
    BY <2>8, <2>11
  <2>16. ~ call.fabrics =>
            (ss_nvme_status_to_string(call.status) = -1
                <=> (~ Declared(call.status, call.fabrics) \/ call.status \in Unexplained))
    BY <2>10, <2>11
  <2> QED BY <2>12, <2>13, <2>14, <2>15, <2>16 DEF ErrorsTold
<1>2. Init => StatusInv
  BY DEF Init, StatusInv, None
<1>3. CallsInv /\ StatusInv /\ [Next]_vars => StatusInv'
  BY StatusStep
<1> QED BY <1>1, <1>2, <1>3, CallsInductive, PTL DEF Spec
=============================================================================
