------------------------------- MODULE M3Verify -------------------------------
(***************************************************************************)
(* The programs that judge the FTL: src/m23-ftl/m3.cpp and                 *)
(* m3_persistency_check.cpp.  Each calls wr_full_device_verify several     *)
(* times: it writes every block of the device and of a side file, hammers  *)
(* random blocks of both, reads the device back and compares.  The second  *)
(* program closes the device and opens it again between its calls.         *)
(*                                                                         *)
(* The device under test is any block device: its calls may fail, and it   *)
(* may return a block it was never given.                                  *)
(***************************************************************************)
EXTENDS Integers, Sequences

CONSTANTS
    Blocks,         \* max_lba_entries: the LBAs of the device are 0 .. Blocks - 1
    Data,           \* what b1 may hold
    Zero,           \* what a fresh file and a reset device hold
    HammerIO,       \* to_hammer_lba
    MaxFaults       \* bound on the faults of the device and the side file

LBA == 0 .. Blocks - 1
Content == Data \cup {Zero}

ASSUME M3Assumption ==
    /\ Blocks \in Nat \ {0}
    /\ Zero \notin Data
    /\ HammerIO \in Nat
    /\ MaxFaults \in Nat

(* One call of wr_full_device_verify; reopen is a deinit and an init. *)
verify(w, h, r) == [op |-> "verify", is_write |-> w, max_hammer_io |-> h, is_read |-> r]
reopen == [op |-> "reopen", is_write |-> FALSE, max_hammer_io |-> 0, is_read |-> FALSE]

(* main of either program: its calls, in order. *)
m3 == <<verify(TRUE, 0, TRUE), verify(TRUE, 0, TRUE), verify(TRUE, HammerIO, TRUE)>>
m3_persistency_check ==
    <<verify(TRUE, 0, FALSE), reopen, verify(FALSE, 0, TRUE),
      verify(TRUE, 0, FALSE), reopen, verify(FALSE, 0, TRUE)>>

VARIABLES
    program,    \* the program that runs
    pc,         \* where it is
    call,       \* the number of the call it is in
    left,       \* the blocks the loop has still to visit: addr_list is any order
    hammered,   \* rounds of the hammer loop done
    dev,        \* the device: what it would return
    exists,     \* the side file exists ...
    side,       \* ... and holds this
    ret,        \* what done returns, before remove
    res,        \* res[k]: what call k returned: t1, t2, t3
    faults,     \* faults so far
    written,    \* history: the block last written to each LBA, if the device took it
    compared    \* history: the LBAs found equal in this call

vars == <<program, pc, call, left, hammered, dev, exists, side, ret, res, faults, written, compared>>

Pcs == {"call", "write", "hammer", "read", "done", "reopen", "verdict", "abort"}

TypeOK ==
    /\ program \in {m3, m3_persistency_check}
    /\ pc \in Pcs
    /\ call \in 1 .. Len(program) + 1
    /\ left \subseteq LBA
    /\ hammered \in 0 .. HammerIO
    /\ dev \in [LBA -> Content]
    /\ exists \in BOOLEAN
    /\ side \in [LBA -> Content]
    /\ ret \in {0, -1}
    /\ res \in [1 .. Len(program) -> {0, -1}]
    /\ faults \in 0 .. MaxFaults
    /\ written \in [LBA -> Content]
    /\ compared \subseteq LBA

(* init_ss_zns_device with force_reset has been called: the device is empty. *)
Init ==
    /\ program \in {m3, m3_persistency_check}
    /\ pc = "call"
    /\ call = 1
    /\ left = {}
    /\ hammered = 0
    /\ dev = [a \in LBA |-> Zero]
    /\ exists = FALSE
    /\ side = [a \in LBA |-> Zero]
    /\ ret = 0
    /\ res = [k \in 1 .. Len(program) |-> 0]
    /\ faults = 0
    /\ written = [a \in LBA |-> Zero]
    /\ compared = {}

Fault ==
    /\ faults < MaxFaults
    /\ faults' = faults + 1

This == program[call]

Finish(r) == pc' = "done" /\ ret' = r

----------------------------------------------------------------------------
(* open and posix_fallocate: a new file reads as zeros, an old one keeps   *)
(* what it has.                                                            *)
Begin ==
    /\ pc = "call"
    /\ call <= Len(program) /\ This.op = "verify"
    /\ exists' = TRUE
    /\ side' = IF exists THEN side ELSE [a \in LBA |-> Zero]
    /\ pc' = IF This.is_write THEN "write" ELSE "hammer"
    /\ left' = LBA
    /\ hammered' = 0
    /\ compared' = {}
    /\ UNCHANGED <<program, call, dev, ret, res, faults, written>>

(* open or posix_fallocate fails: the call returns at once. *)
BeginFails ==
    /\ pc = "call"
    /\ call <= Len(program) /\ This.op = "verify"
    /\ Fault
    /\ res' = [res EXCEPT ![call] = -1]
    /\ call' = call + 1
    /\ UNCHANGED <<program, pc, left, hammered, dev, exists, side, ret, written, compared>>

(* Mutant: the side file is not written. *)
BothWritten_DeviceOnly(a, d) ==
    /\ dev' = [dev EXCEPT ![a] = d]
    /\ written' = [written EXCEPT ![a] = d]
    /\ UNCHANGED side
BothWritten(a, d) ==
    /\ dev' = [dev EXCEPT ![a] = d]
    /\ written' = [written EXCEPT ![a] = d]
    /\ side' = [side EXCEPT ![a] = d]

(* The device write fails, with or without an effect, or it succeeds and   *)
(* the file write after it fails.                                          *)
WriteFails(a, d) ==
    /\ Fault
    /\ \/ UNCHANGED <<dev, written>>
       \/ dev' = [dev EXCEPT ![a] = d] /\ UNCHANGED written
       \/ dev' = [dev EXCEPT ![a] = d] /\ written' = [written EXCEPT ![a] = d]
    /\ Finish(-1)
    /\ UNCHANGED side

WriteOnce(a, d) ==
    /\ pc = "write"
    /\ a \in left
    /\ \/ /\ BothWritten(a, d)
          /\ left' = left \ {a}
          /\ pc' = IF left' = {} THEN "hammer" ELSE "write"
          /\ UNCHANGED <<ret, faults>>
       \/ WriteFails(a, d) /\ UNCHANGED left
    /\ UNCHANGED <<program, call, hammered, exists, res, compared>>

HammerLeft == hammered < This.max_hammer_io

Hammer(a, d) ==
    /\ pc = "hammer"
    /\ HammerLeft
    /\ \/ /\ BothWritten(a, d)
          /\ hammered' = hammered + 1
          /\ UNCHANGED <<pc, ret, faults>>
       \/ WriteFails(a, d) /\ UNCHANGED hammered
    /\ UNCHANGED <<program, call, left, exists, res, compared>>

(* The last loop: all blocks, if the call is to read. *)
HammerDone ==
    /\ pc = "hammer"
    /\ hammered = This.max_hammer_io
    /\ left' = LBA
    /\ IF This.is_read THEN pc' = "read" /\ UNCHANGED ret ELSE Finish(0)
    /\ UNCHANGED <<program, call, hammered, dev, exists, side, res, faults, written, compared>>

(* What a mismatch does.  Mutant: the loop goes on. *)
Mismatch_GoesOn(a) ==
    /\ left' = left \ {a}
    /\ IF left' = {} THEN Finish(0) ELSE UNCHANGED <<pc, ret>>
Mismatch(a) == Finish(-1) /\ UNCHANGED left

(* The device returns what it has, or something else. *)
Compare(a) ==
    /\ pc = "read"
    /\ a \in left
    /\ \E d \in Content :
          /\ IF d = dev[a] THEN UNCHANGED faults ELSE Fault
          /\ IF d = side[a]
             THEN /\ left' = left \ {a}
                  /\ compared' = compared \cup {a}
                  /\ IF left' = {} THEN Finish(0) ELSE UNCHANGED <<pc, ret>>
             ELSE Mismatch(a) /\ UNCHANGED compared
    /\ UNCHANGED <<program, call, hammered, dev, exists, side, res, written>>

(* assert(ret == 0) after either read *)
ReadFails ==
    /\ pc = "read"
    /\ Fault
    /\ pc' = "abort"
    /\ UNCHANGED <<program, call, left, hammered, dev, exists, side, ret, res, written, compared>>

(* done: the result is that of remove(), whatever ret was. *)
Done ==
    /\ pc = "done"
    /\ \/ exists' = FALSE /\ res' = [res EXCEPT ![call] = 0] /\ UNCHANGED faults
       \/ Fault /\ res' = [res EXCEPT ![call] = -1] /\ UNCHANGED exists
    /\ call' = call + 1
    /\ pc' = "call"
    /\ UNCHANGED <<program, left, hammered, dev, side, ret, written, compared>>

(* deinit_ss_zns_device and init_ss_zns_device with the same parameters,   *)
(* force_reset among them.  Neither result is looked at: what the program  *)
(* does with a device that did not open is not modelled.                   *)
Reopen ==
    /\ pc = "call"
    /\ call <= Len(program) /\ This.op = "reopen"
    /\ dev' = [a \in LBA |-> Zero]
    /\ call' = call + 1
    /\ UNCHANGED <<program, pc, left, hammered, exists, side, ret, res, faults, written, compared>>

Verdict ==
    /\ pc = "call"
    /\ call > Len(program)
    /\ pc' = "verdict"
    /\ UNCHANGED <<program, call, left, hammered, dev, exists, side, ret, res, faults, written, compared>>

Ended == pc \in {"verdict", "abort"} /\ UNCHANGED vars

Next ==
    \/ Begin \/ BeginFails \/ HammerDone \/ ReadFails \/ Done \/ Reopen \/ Verdict \/ Ended
    \/ \E a \in LBA : Compare(a) \/ \E d \in Data : WriteOnce(a, d) \/ Hammer(a, d)

Spec == Init /\ [][Next]_vars

----------------------------------------------------------------------------
(* Properties *)

(***************************************************************************)
(* "The ZNS device content should match with this file" (m3.cpp:93-94): a  *)
(* call that wrote before it reads compares with what the device was last  *)
(* given, whatever failed in the calls before it and was left in the file. *)
(***************************************************************************)
SideFileIsTruth ==
    pc = "read" /\ This.is_write => side = written

(***************************************************************************)
(* A call that reads and comes to its end has found every block of the     *)
(* device equal to the side file.                                          *)
(***************************************************************************)
EveryBlockCompared ==
    pc = "done" /\ ret = 0 /\ This.is_read => compared = LBA

(***************************************************************************)
(* No false alarm: on a device that returns what it was given and a file   *)
(* system that works, no call fails and no assertion stops the program.    *)
(***************************************************************************)
NoFalseAlarm ==
    faults = 0 => ret = 0 /\ pc # "abort" /\ \A k \in DOMAIN res : res[k] = 0
=============================================================================
