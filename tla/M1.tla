--------------------------------- MODULE M1 ---------------------------------
(***************************************************************************)
(* Milestone 1: src/m1/m1_assignment.cpp (commands cut to the largest      *)
(* transfer) and the tests of src/m1/m1.cpp that run on them, over the     *)
(* zoned namespace of ZNS.tla.                                             *)
(*                                                                         *)
(* main runs test 1 and test 2 one after the other.  Test 3, written but   *)
(* commented out at m1.cpp:412, has a thread per zone; mode tells which of *)
(* the two is looked at.                                                   *)
(***************************************************************************)
EXTENDS ZNS, Sequences, FiniteSets

CONSTANTS
    Threads,        \* max_parallel threads are 0 .. Threads - 1
    LbaSizes,       \* the sizes a block may have, in units of half a memory page
    Mdts,           \* the values the field mdts of Identify Controller may have
    U16,            \* 2^16: the width of nlb
    Bytes,          \* lba_size as the pattern functions count it
    Period,         \* 93: the period of the test pattern
    TidBase,        \* thread i has the thread id TidBase + i
    Timeout,        \* time_out
    MaxFaults       \* bound on failing device commands and allocations

Thread == 0 .. Threads - 1

ASSUME M1Assumption ==
    /\ Threads \in Nat /\ Threads <= NumZones
    /\ LbaSizes \subseteq Nat \ {0}
    /\ Mdts \subseteq Nat
    /\ U16 \in Nat \ {0}
    /\ Bytes \in Nat \ {0} /\ Period \in Nat \ {0}
    /\ Data = 0 .. Period - 1
    /\ TidBase \in Nat /\ Timeout \in Nat /\ MaxFaults \in Nat

VARIABLES
    mode,       \* "tests" or "parallel"
    pc,         \* where main is
    step,       \* test 1: the next line of its script
    returned,   \* returned_slba
    lba_size,   \* lba_size_in_use
    mdts,       \* the controller's mdts
    identified, \* ctrl.mdts of get_mdts_size: 0 if its identify command failed
    stdin,      \* file descriptor 0 is the device under test
    drawn,      \* target_zone_index of test 2
    io,         \* ss_nvme_device_io_with_mdts: what it has left to do
    data,       \* test 2's buffer, one payload per block
    t1, t2,     \* results of the tests; what test 3 returns is t2
    th,         \* th[t]: thread t: pc, wptr, wdata, rdata, ret, xappend
    stop_t,     \* the flag the threads poll
    errors,     \* multithreaded_error_counter
    waited,     \* seconds main has slept
    faults      \* faults so far

mainVars == <<mode, pc, step, returned, lba_size, mdts, identified, stdin, drawn, io, data, t1, t2>>
threadVars == <<th, stop_t, errors, waited>>
vars == <<device, mainVars, threadVars, faults>>

ENOSYS == 38
EIO == 5

(* Block b of a buffer filled with write_pattern: i % 93, from byte 0 on.  *)
Pattern(b) == (b * Bytes) % Period

(* get_zns_zone_status fills the report; its entries are the zones.        *)
(* Test 2 indexes the report, not its entries: the first "descriptor" is   *)
(* the report's header, whose zcap and zslba are reserved bytes, zero.     *)
Descriptor(i) ==
    IF i = 0 THEN [zslba |-> 0, zcap |-> 0]
    ELSE [zslba |-> Slba(i - 1), zcap |-> ZoneCap]

(* pow(2, ctrl.mdts - 1) * mps_min, with a page of two units. *)
get_mdts_size == 2 ^ identified

(* What the controller takes: 2^mdts pages, any size for 0. *)
WithinMdts(n) == mdts = 0 \/ n * lba_size <= 2 * 2 ^ mdts

(***************************************************************************)
(* Test 1 (read, write, append, reset): each line is a command on the      *)
(* drawn zone, at block "at" of it or, for at = -1, at the block after the *)
(* append; a strict line asserts that it succeeds, another returns.        *)
(***************************************************************************)
line(op, at, n, strict) == [op |-> op, at |-> at, n |-> n, strict |-> strict]

Script == <<
    line("identify", 0, 0, FALSE), line("reset", 0, 0, FALSE),
    line("write", 0, 1, FALSE), line("read", 0, 1, FALSE),
    line("reset", 0, 0, TRUE), line("write", 0, 2, TRUE), line("append", 2, 2, TRUE),
    line("write", -1, 1, TRUE), line("read", 0, 5, TRUE) >>

Idle == [dir |-> "none", lba |-> 0, left |-> 0, ptr |-> 0, ret |-> 0]
Asleep == [pc |-> "none", wptr |-> 0, wdata |-> Zero, rdata |-> Zero, ret |-> 0, xappend |-> 0]

Init ==
    /\ wp \in [Zones -> {0, ZoneCap}]
    /\ blk = [l \in LBAs |-> Zero]
    /\ mode \in {"tests", "parallel"}
    /\ pc = "setup"
    /\ step = 1 /\ returned = 0
    /\ lba_size \in LbaSizes
    /\ mdts \in IF mode = "tests" THEN Mdts ELSE {0}
    /\ stdin \in IF mode = "tests" THEN BOOLEAN ELSE {TRUE}
    /\ identified = 0 /\ drawn = 0
    /\ io = Idle
    /\ data = [b \in Offsets |-> Zero]
    /\ t1 = 0 /\ t2 = 0
    /\ th = [t \in Thread |-> Asleep]
    /\ stop_t = FALSE
    /\ errors = 0 /\ waited = 0 /\ faults = 0

Fault ==
    /\ faults < MaxFaults
    /\ faults' = faults + 1

----------------------------------------------------------------------------
(* main opens the device, identifies it, has its zones reported and draws  *)
(* one; if a call fails it returns its error.                              *)
Setup ==
    /\ pc = "setup"
    /\ \/ /\ drawn' \in IF mode = "tests" THEN Zones ELSE {0}
          /\ pc' = IF mode = "tests" THEN "test1" ELSE "spawn"
          /\ UNCHANGED <<t1, faults>>
       \/ Fault /\ pc' = "verdict" /\ t1' = EIO /\ UNCHANGED drawn
    /\ UNCHANGED <<device, mode, step, returned, lba_size, mdts, identified, stdin, io, data, t2, threadVars>>

(* Test 1.  Every block it writes holds the pattern from byte 0 on. *)
Lba(s) == IF s.at = -1 THEN returned + 2 ELSE Slba(drawn) + s.at
Block == [b \in Offsets |-> Pattern(0)]

(* What device_write, device_read, zone_append and zone_reset accept. *)
Accepted(op, lba, n) ==
    CASE op = "write" -> InOneZone(lba, n) /\ WithinMdts(n) /\ wp[ZoneOf(lba)] = OffsetOf(lba)
      [] op = "read" -> InOneZone(lba, n) /\ WithinMdts(n)
      [] op = "append" -> CanAppend(ZoneOf(lba), n) /\ WithinMdts(n)
      [] OTHER -> TRUE

Effect(op, lba, n, buf) ==
    CASE op = "write" -> nvme_write(lba, n, buf)
      [] op = "append" -> nvme_zns_append(ZoneOf(lba), n, buf)
      [] op = "reset" -> nvme_zns_reset({ZoneOf(lba)})
      [] OTHER -> UNCHANGED device

Test1Returns(r) == pc' = "test2" /\ t1' = r

Test1Step ==
    /\ pc = "test1"
    /\ LET s == Script[step] IN
       /\ Accepted(s.op, Lba(s), s.n)
       /\ Effect(s.op, Lba(s), s.n, Block)
       /\ returned' = IF s.op = "append" THEN AppendLba(drawn) ELSE returned
       /\ step' = step + 1
       /\ \/ s.op = "append" /\ AppendLba(drawn) # Lba(s) /\ pc' = "abort" /\ UNCHANGED t1
          \/ /\ s.op = "read"
             /\ \E b \in 0 .. s.n - 1 : blk[Lba(s) + b] # Pattern(0)
             /\ pc' = "abort" /\ UNCHANGED t1
          \/ /\ s.op = "append" => AppendLba(drawn) = Lba(s)
             /\ s.op = "read" => \A b \in 0 .. s.n - 1 : blk[Lba(s) + b] = Pattern(0)
             /\ IF step = Len(Script) THEN Test1Returns(0) ELSE UNCHANGED <<pc, t1>>
    /\ UNCHANGED <<mode, lba_size, mdts, identified, stdin, drawn, io, data, t2, threadVars, faults>>

(* A line fails: the device refuses the command, or a fault. *)
Test1Fails ==
    /\ pc = "test1"
    /\ LET s == Script[step] IN
       /\ IF Accepted(s.op, Lba(s), s.n) THEN Fault ELSE UNCHANGED faults
       /\ IF s.strict THEN pc' = "abort" /\ UNCHANGED t1 ELSE Test1Returns(EIO)
    /\ UNCHANGED <<device, mode, step, returned, lba_size, mdts, identified, stdin, drawn, io, data, t2, threadVars>>

----------------------------------------------------------------------------
(***************************************************************************)
(* Test 2.  It draws a zone, asks for the largest transfer -- of file      *)
(* descriptor 0, not of the device it opened -- fills its buffer and       *)
(* resets the zone.  get_mdts_size only prints that its identify command   *)
(* failed and goes on with mdts = 0; if the registers cannot be mapped,    *)
(* for another file or a failing call, it reads through a null pointer.    *)
(***************************************************************************)
Request(dir) ==
    LET d == Descriptor(drawn) IN
    [dir |-> dir, lba |-> d.zslba, left |-> d.zcap * lba_size, ptr |-> 0, ret |-> ENOSYS]

Test2Returns(r) == pc' = "verdict" /\ t2' = r

Test2Begin ==
    /\ pc = "test2"
    /\ drawn' \in Zones
    /\ \/ stdin /\ pc' = "reset2" /\ identified' = mdts /\ UNCHANGED faults
       \/ stdin /\ pc' = "reset2" /\ identified' = 0 /\ Fault
       \/ /\ pc' = "abort" /\ UNCHANGED identified
          /\ IF stdin THEN Fault ELSE UNCHANGED faults
    /\ data' = [b \in Offsets |-> IF b < Descriptor(drawn').zcap THEN Pattern(b) ELSE Zero]
    /\ UNCHANGED <<device, mode, step, returned, lba_size, mdts, stdin, io, t1, t2, threadVars>>

Test2Reset ==
    /\ pc = "reset2"
    /\ \/ /\ nvme_zns_reset({ZoneOf(Descriptor(drawn).zslba)})
          /\ pc' = "io" /\ io' = Request("write")
          /\ UNCHANGED <<t2, faults>>
       \/ Fault /\ Test2Returns(EIO) /\ UNCHANGED <<device, io>>
    /\ UNCHANGED <<mode, step, returned, lba_size, mdts, identified, stdin, drawn, data, t1, threadVars>>

----------------------------------------------------------------------------
(* ss_nvme_device_io_with_mdts: one round of its loop is one command. *)
(* Mutant: the larger of the two. *)
single_io_size_Swapped == IF get_mdts_size < io.left THEN io.left ELSE get_mdts_size
single_io_size == IF get_mdts_size < io.left THEN get_mdts_size ELSE io.left

(* numbers, and the blocks a command with nlb = numbers - 1 stands for. *)
numbers == single_io_size \div lba_size
CommandBlocks == ((numbers - 1) % U16) + 1

BufferFrom == io.ptr \div lba_size

IoCommand ==
    /\ pc = "io"
    /\ io.left > 0
    /\ Accepted(io.dir, io.lba, CommandBlocks)
    /\ Effect(io.dir, io.lba, CommandBlocks, [b \in Offsets |->
            IF BufferFrom + b \in Offsets THEN data[BufferFrom + b] ELSE Zero])
    /\ data' = IF io.dir = "write" THEN data
               ELSE [b \in Offsets |->
                        IF b >= BufferFrom /\ b < BufferFrom + CommandBlocks
                        THEN blk[io.lba + b - BufferFrom] ELSE data[b]]
    /\ io' = [io EXCEPT !.lba = @ + numbers, !.left = @ - single_io_size,
                        !.ptr = @ + single_io_size, !.ret = 0]
    /\ UNCHANGED <<mode, pc, step, returned, lba_size, mdts, identified, stdin, drawn, t1, t2, threadVars, faults>>

IoFails ==
    /\ pc = "io"
    /\ io.left > 0
    /\ IF Accepted(io.dir, io.lba, CommandBlocks) THEN Fault ELSE UNCHANGED faults
    /\ Test2Returns(EIO)
    /\ UNCHANGED <<device, mode, step, returned, lba_size, mdts, identified, stdin, drawn, io, data, t1, threadVars>>

(* The write is followed by bzero and the read of the zone, the read by    *)
(* match_pattern, which stops the program at the first difference.  A      *)
(* request of no bytes returns -ENOSYS: no round of the loop sets ret.     *)
IoDone ==
    /\ pc = "io"
    /\ io.left = 0
    /\ IF io.ret # 0
       THEN Test2Returns(io.ret) /\ UNCHANGED <<io, data>>
       ELSE IF io.dir = "write"
       THEN /\ io' = Request("read")
            /\ data' = [b \in Offsets |-> Zero]
            /\ UNCHANGED <<pc, t2>>
       ELSE /\ IF \A b \in Offsets : data[b] = Pattern(b)
               THEN Test2Returns(0) ELSE pc' = "abort" /\ UNCHANGED t2
            /\ UNCHANGED <<io, data>>
    /\ UNCHANGED <<device, mode, step, returned, lba_size, mdts, identified, stdin, drawn, t1, threadVars, faults>>

----------------------------------------------------------------------------
(* Test 3, main: test3_threaded_parallel.  It creates the threads ... *)
Spawn ==
    /\ pc = "spawn"
    /\ \E t \in Thread :
          /\ th[t].pc = "none" /\ \A u \in 0 .. t - 1 : th[u].pc # "none"
          /\ th' = [th EXCEPT ![t].pc = "calloc"]
          /\ pc' = IF t = Threads - 1 THEN "wait" ELSE "spawn"
    /\ UNCHANGED <<device, mode, step, returned, lba_size, mdts, identified, stdin, drawn, io, data, t1, t2,
                   stop_t, errors, waited, faults>>

(* ... sleeps until the time is over or an error was counted ... *)
Sleep ==
    /\ pc = "wait"
    /\ waited < Timeout /\ errors = 0
    /\ waited' = waited + 1
    /\ UNCHANGED <<device, mainVars, th, stop_t, errors, faults>>

(* ... tells the threads to stop ... *)
(* Mutant: the flag stays down. *)
RaiseStop_Never == UNCHANGED stop_t
RaiseStop == stop_t' = TRUE

StopThreads ==
    /\ pc = "wait"
    /\ waited = Timeout \/ errors # 0
    /\ RaiseStop
    /\ pc' = "join"
    /\ UNCHANGED <<device, mode, step, returned, lba_size, mdts, identified, stdin, drawn, io, data, t1, t2,
                   th, errors, waited, faults>>

(* ... waits for each of them and returns the number of errors.            *)
(* Mutant: only the first is joined. *)
Joined_One == th[0].pc = "done"
Joined == \A t \in Thread : th[t].pc = "done"

Join ==
    /\ pc = "join"
    /\ Joined
    /\ Test2Returns(errors)
    /\ UNCHANGED <<device, mode, step, returned, lba_size, mdts, identified, stdin, drawn, io, data, t1, threadVars, faults>>

----------------------------------------------------------------------------
(* Test 3, a thread: test3_zoneX_full_io_test on zone entries[t]. *)
Running(t, at) == th[t].pc = at /\ pc # "abort"

(* Mutant: every thread is given the same zone. *)
ZoneOfThread_First(t) == 0
ZoneOfThread(t) == t

Start(t) == TidBase + t + th[t].wptr

(* write_pattern_with_start counts bytes from s up to len: nothing is      *)
(* written, and nothing compared, for s >= len.                            *)
Covered(s) == s < Bytes
Written(t) == IF Covered(Start(t)) THEN Start(t) % Period ELSE th[t].wdata

(* fetch_add and goto done *)
CountError(t) ==
    /\ errors' = errors + 1
    /\ th' = [th EXCEPT ![t].pc = "done", ![t].ret = EIO]
Goto(t, at) == th' = [th EXCEPT ![t].pc = at] /\ UNCHANGED errors

MainIdle == UNCHANGED <<mainVars, stop_t, waited>>

(* wptr + 1 = zcap ends a loop.  Mutant: one block early. *)
LastBlock_Early(t) == th[t].wptr + 2 >= ZoneCap
LastBlock(t) == th[t].wptr + 1 = ZoneCap

ThreadCalloc(t) ==
    /\ Running(t, "calloc")
    /\ \/ Goto(t, "loop") /\ UNCHANGED faults
       \/ Fault /\ CountError(t)
    /\ UNCHANGED device /\ MainIdle

(* while (!stop_t), and the reset *)
ThreadLoop(t) ==
    /\ Running(t, "loop")
    /\ IF stop_t
       THEN Goto(t, "done") /\ UNCHANGED <<device, faults>>
       ELSE \/ /\ nvme_zns_reset({ZoneOfThread(t)})
               /\ th' = [th EXCEPT ![t].pc = "write", ![t].wptr = 0]
               /\ UNCHANGED <<errors, faults>>
            \/ Fault /\ CountError(t) /\ UNCHANGED device
    /\ MainIdle

(* An even block is written, an odd one appended. *)
ThreadOp(t) == IF th[t].wptr % 2 = 0 THEN "write" ELSE "append"

ThreadWrite(t) ==
    /\ Running(t, "write")
    /\ LET z == ZoneOfThread(t)
           lba == Slba(z) + th[t].wptr
           at == IF ThreadOp(t) = "append" THEN "appended" ELSE "written" IN
       \/ /\ Accepted(ThreadOp(t), lba, 1)
          /\ Effect(ThreadOp(t), lba, 1, [b \in Offsets |-> Written(t)])
          /\ th' = [th EXCEPT ![t].pc = at, ![t].wdata = Written(t), ![t].ret = 0,
                              ![t].xappend = AppendLba(z)]
          /\ UNCHANGED faults
       \/ /\ IF Accepted(ThreadOp(t), lba, 1) THEN Fault ELSE UNCHANGED faults
          /\ \E x \in {0, lba} :
                th' = [th EXCEPT ![t].pc = at, ![t].wdata = Written(t), ![t].ret = EIO,
                                 ![t].xappend = x]
          /\ UNCHANGED device
    /\ UNCHANGED errors /\ MainIdle

(* if(_xappend != zslba + wptr): after a failed append _xappend is what    *)
(* the stack held.                                                         *)

ThreadCheckAppend(t) ==
    /\ Running(t, "appended")
    /\ IF th[t].xappend # Slba(ZoneOfThread(t)) + th[t].wptr
       THEN CountError(t) ELSE Goto(t, "written")
    /\ UNCHANGED <<device, faults>> /\ MainIdle

(* if(ret != 0), and the loop over wptr *)
ThreadCheckStatus(t) ==
    /\ Running(t, "written")
    /\ IF th[t].ret # 0 THEN CountError(t)
       ELSE /\ th' = IF LastBlock(t)
                     THEN [th EXCEPT ![t].pc = "read", ![t].wptr = 0]
                     ELSE [th EXCEPT ![t].pc = "write", ![t].wptr = @ + 1]
            /\ UNCHANGED errors
    /\ UNCHANGED <<device, faults>> /\ MainIdle

(* The read, its check and match_pattern_with_start of one block. *)
ThreadRead(t) ==
    /\ Running(t, "read")
    /\ \/ LET d == blk[Slba(ZoneOfThread(t)) + th[t].wptr] IN
          /\ IF Covered(Start(t)) /\ d # Start(t) % Period
             THEN pc' = "abort" /\ UNCHANGED th
             ELSE /\ th' = IF LastBlock(t)
                           THEN [th EXCEPT ![t].rdata = d, ![t].pc = "loop"]
                           ELSE [th EXCEPT ![t].rdata = d, ![t].wptr = @ + 1]
                  /\ UNCHANGED pc
          /\ UNCHANGED <<errors, faults>>
       \/ Fault /\ CountError(t) /\ UNCHANGED pc
    /\ UNCHANGED <<device, mode, step, returned, lba_size, mdts, identified, stdin, drawn, io, data, t1, t2, stop_t, waited>>

----------------------------------------------------------------------------
Ended == pc \in {"verdict", "abort"} /\ UNCHANGED vars

MainNext ==
    \/ Setup \/ Test1Step \/ Test1Fails
    \/ Test2Begin \/ Test2Reset \/ IoCommand \/ IoFails \/ IoDone
    \/ Spawn \/ Sleep \/ StopThreads \/ Join

ThreadNext(t) ==
    \/ ThreadCalloc(t) \/ ThreadLoop(t) \/ ThreadWrite(t)
    \/ ThreadCheckAppend(t) \/ ThreadCheckStatus(t) \/ ThreadRead(t)

Next == MainNext \/ Ended \/ \E t \in Thread : ThreadNext(t)

Spec ==
    /\ Init /\ [][Next]_vars
    /\ WF_vars(MainNext)
    /\ \A t \in Thread : WF_vars(ThreadNext(t))

----------------------------------------------------------------------------
(* Properties *)

Failed(t) == th[t].pc = "done" /\ th[t].ret # 0

(***************************************************************************)
(* The chunk loop moves the request's blocks in order and each once: what  *)
(* lies before ptr is on the device, and has been read back into the same  *)
(* place of the buffer, wherever MDTS cuts the request.                    *)
(***************************************************************************)
TransferInOrder ==
    pc = "io" => \A b \in Offsets :
        b * lba_size < io.ptr =>
            /\ blk[Descriptor(drawn).zslba + b] = Pattern(b)
            /\ data[b] = Pattern(b)

(***************************************************************************)
(* "For every IO, calculate required size" (m1_assignment.cpp:52): each    *)
(* command carries whole blocks, as many as nlb says, and no more than the *)
(* controller takes -- exactly when test 2 has read a limit or the blocks  *)
(* fit the half page it takes for none.  Larger blocks make nlb wrap.      *)
(***************************************************************************)
CommandsFit ==
    pc = "io" /\ io.left > 0 =>
        (identified # 0 \/ lba_size = 1 <=>
            /\ CommandBlocks * lba_size = single_io_size
            /\ WithinMdts(CommandBlocks))

(***************************************************************************)
(* Test 2 passes only with the whole of its zone on the device, also when  *)
(* it did not read the limit and nlb wrapped (m1_assignment.cpp:213).      *)
(***************************************************************************)
ZoneMoved ==
    mode = "tests" /\ pc = "verdict" /\ t2 = 0 /\ drawn # 0 =>
        \A b \in Offsets : blk[Descriptor(drawn).zslba + b] = Pattern(b)

(* However a request is cut, all three: m1_assignment.cpp:50-79.           *)
TransferCut == TransferInOrder /\ CommandsFit /\ ZoneMoved

(***************************************************************************)
(* No false alarm: on a device that works no test fails, with the          *)
(* exceptions the code has.  Test 1 reads five blocks in one command and   *)
(* asserts; the program crashes in get_mdts_size(0) unless descriptor 0 is *)
(* the device; test 2 fails if it drew 0, the header of the report, and on *)
(* a controller without a limit (mdts = 0) whose blocks are larger than    *)
(* the half page get_mdts_size then returns: nlb wraps.                    *)
(***************************************************************************)
NoFalseAlarm ==
    faults = 0 =>
        /\ t1 = 0 /\ errors = 0
        /\ pc = "abort" => ~ stdin \/ ~ WithinMdts(5)
        /\ t2 # 0 => drawn = 0 \/ 2 ^ mdts < lba_size

(***************************************************************************)
(* Each thread that fails is counted once (m1.cpp:70-99), though a failed  *)
(* append meets two tests, the first on an address nobody wrote.           *)
(***************************************************************************)
ErrorsCounted == errors = Cardinality({t \in Thread : Failed(t)})

(***************************************************************************)
(* What test 3 returns (m1.cpp:282) counts every thread that failed, also  *)
(* those that fail after main has raised the flag.                         *)
(***************************************************************************)
VerdictCountsAll ==
    /\ ErrorsCounted
    /\ mode = "parallel" /\ pc = "verdict" /\ t1 = 0 => t2 = Cardinality({t \in Thread : Failed(t)})

(***************************************************************************)
(* A thread stops between rounds, never in one: if it did any and did not  *)
(* fail, its zone is full and holds the patterns of its last round.        *)
(***************************************************************************)
RoundsComplete ==
    \A t \in Thread :
        th[t].pc = "done" /\ ~ Failed(t) /\ th[t].rdata # Zero =>
            /\ wp[ZoneOfThread(t)] = ZoneCap
            /\ \A b \in Offsets : Covered(TidBase + t + b) =>
                   blk[Slba(ZoneOfThread(t)) + b] = (TidBase + t + b) % Period

(***************************************************************************)
(* "let all threads know to quit" (m1.cpp:275): they do, and main joins    *)
(* them, from wherever they are when the flag is raised.                   *)
(***************************************************************************)
ThreadsQuit == pc = "join" ~> pc \in {"verdict", "abort"}
=============================================================================
