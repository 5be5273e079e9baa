------------------------------- MODULE M3Proofs -------------------------------
(***************************************************************************)
(* Theorems about M3Verify: for every number of blocks, payloads, hammer   *)
(* rounds and faults, the verification compares with what the device was   *)
(* given, compares everything, and raises no false alarm.                  *)
(***************************************************************************)
EXTENDS M3Verify, TLAPS

Zeros == [a \in LBA |-> Zero]

InCall == pc \in {"write", "hammer", "read", "done"}

(* Inside a call the entry of the program is that of a verification. *)
CallInv ==
    /\ InCall => call \in 1 .. Len(program) /\ This.op = "verify"
    /\ pc = "read" => This.is_read

(* The file follows the device: on the blocks written so far, then on all. *)
SideInv ==
    /\ pc = "write" => \A a \in LBA \ left : side[a] = written[a]
    /\ pc \in {"hammer", "read"} /\ This.is_write => side = written

(* The blocks that the last loop has visited were equal. *)
CompareInv ==
    /\ pc \in {"write", "hammer"} => compared = {}
    /\ pc = "read" => compared = LBA \ left
    /\ EveryBlockCompared

(***************************************************************************)
(* As long as nothing has failed, the side file is removed after each call *)
(* and agrees with the device inside it.  A call that does not write comes *)
(* after a re-opening, when both hold zeros.                               *)
(***************************************************************************)
QuietInv ==
    faults = 0 =>
        /\ pc = "call" => /\ ~ exists
                          /\ call \in 1 .. Len(program) /\ This.op = "verify" /\ ~ This.is_write
                                => dev = Zeros
        /\ pc = "write" => \A a \in LBA \ left : side[a] = dev[a]
        /\ pc \in {"hammer", "read"} => side = dev
        /\ NoFalseAlarm

IInv == TypeOK /\ CallInv /\ SideInv /\ CompareInv /\ QuietInv

----------------------------------------------------------------------------
(* What main calls: no verification without writes follows another one. *)
LEMMA Calls ==
    ASSUME NEW p \in {m3, m3_persistency_check}
    PROVE  /\ Len(p) \in Nat \ {0}
           /\ \A k \in 1 .. Len(p) :
                /\ p[k].op \in {"verify", "reopen"}
                /\ p[k].max_hammer_io \in 0 .. HammerIO
           /\ p[1].op = "verify" /\ p[1].is_write
           /\ \A k \in 1 .. Len(p) :
                k + 1 <= Len(p) /\ p[k].op = "verify" /\ p[k + 1].op = "verify"
                    => p[k + 1].is_write
<1>0. 0 \in 0 .. HammerIO /\ HammerIO \in 0 .. HammerIO
  BY M3Assumption
<1>1. CASE p = m3
  <2>1. Len(p) = 3
    BY <1>1 DEF m3
  <2>2. /\ p[1].op = "verify" /\ p[2].op = "verify" /\ p[3].op = "verify"
        /\ p[1].max_hammer_io = 0 /\ p[2].max_hammer_io = 0
        /\ p[3].max_hammer_io = HammerIO
    BY <1>1 DEF m3, verify
  <2>3. p[1].is_write /\ p[2].is_write /\ p[3].is_write
    BY <1>1 DEF m3, verify
  <2>4. \A k \in 1 .. Len(p) : k \in {1, 2, 3}
    BY <2>1
  <2>5. \A k \in 1 .. Len(p) : p[k].op \in {"verify", "reopen"} /\ p[k].max_hammer_io \in 0 .. HammerIO
    BY <1>0, <2>2, <2>4
  <2>6. \A k \in 1 .. Len(p) : k + 1 <= Len(p) => p[k + 1].is_write
    <3>1. \A k \in 1 .. Len(p) : k + 1 <= Len(p) => k + 1 \in {2, 3}
      BY <2>1
    <3> QED BY <3>1, <2>3
  <2> QED BY <2>1, <2>2, <2>3, <2>5, <2>6
<1>2. CASE p = m3_persistency_check
  <2>1. Len(p) = 6
    BY <1>2 DEF m3_persistency_check
  <2>2. /\ p[1].op = "verify" /\ p[2].op = "reopen" /\ p[3].op = "verify"
        /\ p[4].op = "verify" /\ p[5].op = "reopen" /\ p[6].op = "verify"
        /\ p[1].max_hammer_io = 0 /\ p[2].max_hammer_io = 0 /\ p[3].max_hammer_io = 0
        /\ p[4].max_hammer_io = 0 /\ p[5].max_hammer_io = 0 /\ p[6].max_hammer_io = 0
    BY <1>2 DEF m3_persistency_check, verify, reopen
  <2>3. p[1].is_write /\ p[4].is_write
    BY <1>2 DEF m3_persistency_check, verify
  <2>4. \A k \in 1 .. Len(p) : k \in {1, 2, 3, 4, 5, 6}
    BY <2>1
  <2>5. \A k \in 1 .. Len(p) : p[k].op \in {"verify", "reopen"} /\ p[k].max_hammer_io \in 0 .. HammerIO
    BY <1>0, <2>2, <2>4
  <2>6. ASSUME NEW k \in 1 .. Len(p), k + 1 <= Len(p), p[k].op = "verify", p[k + 1].op = "verify"
        PROVE  p[k + 1].is_write
    <3>1. k \in {1, 2, 3, 4, 5} /\ k # 2 /\ k # 5
      BY <2>1, <2>2, <2>6
    <3>2. k = 3
      BY <3>1, <2>2, <2>6
    <3> QED BY <3>2, <2>3
  <2> QED BY <2>1, <2>2, <2>3, <2>5, <2>6
<1> QED BY <1>1, <1>2

LEMMA InitInv == Init => IInv
<1> SUFFICES ASSUME Init PROVE IInv
  OBVIOUS
<1> USE M3Assumption DEF Init
<1>p. program \in {m3, m3_persistency_check} /\ Len(program) \in Nat \ {0}
  BY Calls
<1>1. TypeOK
  <2>1. call \in 1 .. Len(program) + 1
    BY <1>p
  <2>2. hammered \in 0 .. HammerIO /\ faults \in 0 .. MaxFaults
    OBVIOUS
  <2>3. /\ pc \in Pcs /\ left \subseteq LBA /\ compared \subseteq LBA
        /\ exists \in BOOLEAN /\ ret \in {0, -1}
    BY DEF Pcs
  <2>4. /\ dev \in [LBA -> Content] /\ side \in [LBA -> Content]
        /\ written \in [LBA -> Content]
    BY DEF Content
  <2>5. res \in [1 .. Len(program) -> {0, -1}]
    OBVIOUS
  <2> QED BY <1>p, <2>1, <2>2, <2>3, <2>4, <2>5 DEF TypeOK
<1>2. CallInv /\ SideInv /\ CompareInv
  BY DEF CallInv, InCall, SideInv, CompareInv, EveryBlockCompared
<1>3. QuietInv
  BY DEF QuietInv, Zeros, NoFalseAlarm
<1> QED BY <1>1, <1>2, <1>3 DEF IInv

----------------------------------------------------------------------------
(* Types *)

LEMMA TypeStep == TypeOK /\ CallInv /\ Next => TypeOK'
<1> SUFFICES ASSUME TypeOK, CallInv, Next PROVE TypeOK'
  OBVIOUS
<1> USE DEF TypeOK, Pcs
<1>p. /\ Len(program) \in Nat \ {0}
      /\ \A k \in 1 .. Len(program) : This = program[call]
      /\ call \in 1 .. Len(program) => This.max_hammer_io \in 0 .. HammerIO
  BY Calls DEF This
<1>z. Zero \in Content /\ Data \subseteq Content
  BY DEF Content
<1>1. CASE Begin
  BY <1>1, <1>z, M3Assumption DEF Begin
<1>2. CASE BeginFails
  BY <1>2, <1>p, M3Assumption DEF BeginFails, Fault
<1>3. CASE HammerDone
  BY <1>3, M3Assumption DEF HammerDone, Finish
<1>4. CASE ReadFails
  BY <1>4, M3Assumption DEF ReadFails, Fault
<1>5. CASE Done
  <2>1. call \in 1 .. Len(program) /\ program' = program
    BY <1>5 DEF Done, CallInv, InCall
  <2>2. res' \in [1 .. Len(program) -> {0, -1}]
    BY <1>5, <2>1 DEF Done
  <2>3. call' \in 1 .. Len(program) + 1
    BY <1>5, <1>p, <2>1 DEF Done
  <2>5. faults' \in 0 .. MaxFaults /\ exists' \in BOOLEAN
    <3>1. CASE exists' = FALSE /\ UNCHANGED faults
      BY <3>1
    <3>2. CASE Fault /\ UNCHANGED exists
      BY <3>2, M3Assumption DEF Fault
    <3> QED BY <1>5, <3>1, <3>2 DEF Done
  <2>4. /\ pc' = "call"
        /\ UNCHANGED <<program, left, hammered, dev, side, ret, written, compared>>
    BY <1>5 DEF Done
  <2> QED BY <2>1, <2>2, <2>3, <2>4, <2>5
<1>6. CASE Reopen
  BY <1>6, <1>p, <1>z DEF Reopen
<1>7. CASE Verdict
  BY <1>7 DEF Verdict
<1>8. CASE Ended
  BY <1>8 DEF Ended, vars
<1>9. ASSUME NEW a \in LBA, Compare(a) PROVE TypeOK'
  BY <1>9, M3Assumption DEF Compare, Mismatch, Finish, Fault
<1>10. ASSUME NEW a \in LBA, NEW d \in Data, WriteOnce(a, d) PROVE TypeOK'
  BY <1>10, <1>z, M3Assumption DEF WriteOnce, BothWritten, WriteFails, Finish, Fault
<1>11. ASSUME NEW a \in LBA, NEW d \in Data, Hammer(a, d) PROVE TypeOK'
  <2>1. hammered + 1 \in 0 .. HammerIO \/ ~ HammerLeft
    BY <1>11, <1>p, M3Assumption DEF Hammer, HammerLeft, CallInv, InCall
  <2> QED BY <2>1, <1>11, <1>z, M3Assumption DEF Hammer, BothWritten, WriteFails, Finish, Fault
<1> QED BY <1>1, <1>2, <1>3, <1>4, <1>5, <1>6, <1>7, <1>8, <1>9, <1>10, <1>11 DEF Next

----------------------------------------------------------------------------
(* Where in the program a call is *)

LEMMA CallStep == TypeOK /\ CallInv /\ Next => CallInv'
<1> SUFFICES ASSUME TypeOK, CallInv, Next PROVE CallInv'
  OBVIOUS
<1> USE DEF TypeOK, CallInv, InCall, This
<1>p. Len(program) \in Nat \ {0}
  BY Calls
<1>1. CASE Begin
  BY <1>1, <1>p DEF Begin
<1>2. CASE BeginFails
  BY <1>2 DEF BeginFails
<1>3. CASE HammerDone
  BY <1>3 DEF HammerDone, Finish
<1>4. CASE ReadFails \/ Done \/ Reopen \/ Verdict
  BY <1>4 DEF ReadFails, Done, Reopen, Verdict
<1>5. CASE Ended
  BY <1>5 DEF Ended, vars
<1>6. ASSUME NEW a \in LBA, Compare(a) PROVE CallInv'
  BY <1>6 DEF Compare, Mismatch, Finish
<1>7. ASSUME NEW a \in LBA, NEW d \in Data, WriteOnce(a, d) PROVE CallInv'
  BY <1>7 DEF WriteOnce, WriteFails, Finish
<1>8. ASSUME NEW a \in LBA, NEW d \in Data, Hammer(a, d) PROVE CallInv'
  BY <1>8 DEF Hammer, WriteFails, Finish
<1> QED BY <1>1, <1>2, <1>3, <1>4, <1>5, <1>6, <1>7, <1>8 DEF Next

----------------------------------------------------------------------------
(* The side file *)

LEMMA SideStep == TypeOK /\ CallInv /\ SideInv /\ Next => SideInv'
<1> SUFFICES ASSUME TypeOK, CallInv, SideInv, Next PROVE SideInv'
  OBVIOUS
<1> USE DEF TypeOK, SideInv, This
<1>1. CASE Begin
  BY <1>1 DEF Begin
<1>2. CASE BeginFails \/ ReadFails \/ Done \/ Reopen \/ Verdict
  BY <1>2 DEF BeginFails, ReadFails, Done, Reopen, Verdict
<1>3. CASE HammerDone
  BY <1>3 DEF HammerDone, Finish
<1>4. CASE Ended
  BY <1>4 DEF Ended, vars
<1>5. ASSUME NEW a \in LBA, Compare(a) PROVE SideInv'
  BY <1>5 DEF Compare, Mismatch, Finish
<1>6. ASSUME NEW a \in LBA, NEW d \in Data, WriteOnce(a, d) PROVE SideInv'
  <2>1. CASE BothWritten(a, d) /\ left' = left \ {a}
    <3>1. \A b \in LBA \ left' : side'[b] = written'[b]
      BY <1>6, <2>1 DEF WriteOnce, BothWritten
    <3>2. left' = {} => side' = written'
      BY <3>1, <2>1 DEF BothWritten
    <3>3. pc' = IF left' = {} THEN "hammer" ELSE "write"
      BY <1>6, <2>1 DEF WriteOnce, WriteFails
    <3> QED BY <3>1, <3>2, <3>3
  <2>2. CASE WriteFails(a, d)
    BY <2>2 DEF WriteFails, Finish
  <2> QED BY <1>6, <2>1, <2>2 DEF WriteOnce
<1>7. ASSUME NEW a \in LBA, NEW d \in Data, Hammer(a, d) PROVE SideInv'
  BY <1>7 DEF Hammer, BothWritten, WriteFails, Finish
<1> QED BY <1>1, <1>2, <1>3, <1>4, <1>5, <1>6, <1>7 DEF Next

----------------------------------------------------------------------------
(* What was compared *)

LEMMA CompareStep == TypeOK /\ CallInv /\ CompareInv /\ Next => CompareInv'
<1> SUFFICES ASSUME TypeOK, CallInv, CompareInv, Next PROVE CompareInv'
  OBVIOUS
<1> USE DEF TypeOK, CompareInv, EveryBlockCompared, This
<1>1. CASE Begin \/ BeginFails \/ ReadFails \/ Done \/ Reopen \/ Verdict
  BY <1>1 DEF Begin, BeginFails, ReadFails, Done, Reopen, Verdict
<1>2. CASE HammerDone
  BY <1>2 DEF HammerDone, Finish
<1>3. CASE Ended
  BY <1>3 DEF Ended, vars
<1>4. ASSUME NEW a \in LBA, Compare(a) PROVE CompareInv'
  <2>1. pc = "read" /\ a \in left /\ compared = LBA \ left /\ call' = call /\ program' = program
    BY <1>4 DEF Compare
  <2>2. CASE Mismatch(a)  /\ UNCHANGED compared
    BY <2>1, <2>2 DEF Mismatch, Finish
  <2>3. CASE /\ left' = left \ {a} /\ compared' = compared \cup {a}
             /\ IF left' = {} THEN Finish(0) ELSE UNCHANGED <<pc, ret>>
    <3>1. compared' = LBA \ left'
      BY <2>1, <2>3
    <3>2. left' = {} => compared' = LBA
      BY <3>1
    <3> QED BY <2>1, <2>3, <3>1, <3>2 DEF Finish
  <2> QED BY <1>4, <2>2, <2>3 DEF Compare
<1>5. ASSUME NEW a \in LBA, NEW d \in Data, WriteOnce(a, d) PROVE CompareInv'
  BY <1>5 DEF WriteOnce, WriteFails, Finish
<1>6. ASSUME NEW a \in LBA, NEW d \in Data, Hammer(a, d) PROVE CompareInv'
  BY <1>6 DEF Hammer, WriteFails, Finish
<1> QED BY <1>1, <1>2, <1>3, <1>4, <1>5, <1>6 DEF Next

----------------------------------------------------------------------------
(* As long as nothing has failed *)

LEMMA QuietStep == TypeOK /\ CallInv /\ QuietInv /\ Next => QuietInv'
<1> SUFFICES ASSUME TypeOK, CallInv, QuietInv, Next, faults' = 0 PROVE QuietInv'
  BY DEF QuietInv
<1> USE DEF TypeOK, QuietInv, NoFalseAlarm
<1>p. Len(program) \in Nat \ {0}
  BY Calls
<1>f. ~ Fault /\ faults = 0
  <2>1. ~ Fault
    BY DEF Fault
  <2>2. faults' = faults
    BY <2>1 DEF Next, Begin, BeginFails, HammerDone, ReadFails, Done, Reopen, Verdict, Ended, vars,
                Compare, WriteOnce, WriteFails, Hammer
  <2> QED BY <2>1, <2>2
<1>1. CASE Begin
  <2>1. ~ exists /\ side' = Zeros /\ dev' = dev
    BY <1>1, <1>f DEF Begin, Zeros
  <2>2. pc' = "hammer" => dev = Zeros
    BY <1>1, <1>f, <1>p DEF Begin
  <2>3. pc' = "write" => left' = LBA
    BY <1>1 DEF Begin
  <2> QED BY <1>1, <1>f, <2>1, <2>2, <2>3 DEF Begin
<1>2. CASE HammerDone
  BY <1>2, <1>f DEF HammerDone, Finish
<1>3. CASE Done
  <2>1. call \in 1 .. Len(program) /\ This.op = "verify"
    BY <1>3 DEF Done, CallInv, InCall
  <2>2. pc' = "call" /\ ~ exists' /\ program' = program /\ call' = call + 1
    BY <1>3, <1>f DEF Done
  <2>3. call' \in 1 .. Len(program) /\ This'.op = "verify" => This'.is_write
    BY <2>1, <2>2, Calls DEF This
  <2>4. ret' = 0 /\ \A k \in DOMAIN res' : res'[k] = 0
    BY <1>3, <1>f DEF Done
  <2> QED BY <2>2, <2>3, <2>4
<1>4. CASE Reopen
  BY <1>4, <1>f DEF Reopen, Zeros
<1>5. CASE Verdict
  BY <1>5, <1>f DEF Verdict
<1>6. CASE Ended
  BY <1>6, <1>f DEF Ended, vars
<1>7. ASSUME NEW a \in LBA, Compare(a) PROVE QuietInv'
  <2>1. side = dev
    BY <1>7, <1>f DEF Compare
  <2>2. left' = left \ {a} /\ IF left' = {} THEN Finish(0) ELSE UNCHANGED <<pc, ret>>
    BY <1>7, <1>f, <2>1 DEF Compare
  <2> QED BY <1>7, <1>f, <2>1, <2>2 DEF Compare, Finish
<1>8. ASSUME NEW a \in LBA, NEW d \in Data, WriteOnce(a, d) PROVE QuietInv'
  <2>1. BothWritten(a, d) /\ left' = left \ {a} /\ pc' = IF left' = {} THEN "hammer" ELSE "write"
    BY <1>8, <1>f DEF WriteOnce, WriteFails
  <2>2. \A b \in LBA \ left' : side'[b] = dev'[b]
    BY <1>8, <1>f, <2>1 DEF WriteOnce, BothWritten
  <2>3. left' = {} => side' = dev'
    BY <2>1, <2>2 DEF BothWritten
  <2>4. UNCHANGED <<ret, res, faults>>
    BY <1>8, <1>f DEF WriteOnce, WriteFails
  <2> QED BY <1>f, <2>1, <2>2, <2>3, <2>4
<1>9. ASSUME NEW a \in LBA, NEW d \in Data, Hammer(a, d) PROVE QuietInv'
  <2>1. BothWritten(a, d) /\ UNCHANGED <<pc, ret, res, faults>> /\ side = dev
    BY <1>9, <1>f DEF Hammer, WriteFails
  <2> QED BY <1>9, <1>f, <2>1 DEF Hammer, BothWritten
<1> QED BY <1>f, <1>1, <1>2, <1>3, <1>4, <1>5, <1>6, <1>7, <1>8, <1>9 DEF Next, BeginFails, ReadFails

----------------------------------------------------------------------------
(* The conjunction is preserved by every step of the program. *)
THEOREM VerifyInductive == Spec => []IInv
<1>1. IInv /\ Next => IInv'
  BY TypeStep, CallStep, SideStep, CompareStep, QuietStep DEF IInv
<1>2. IInv /\ UNCHANGED vars => IInv'
  BY DEF IInv, TypeOK, CallInv, InCall, SideInv, CompareInv, EveryBlockCompared, QuietInv,
         NoFalseAlarm, This, vars
<1>3. IInv /\ [Next]_vars => IInv'
  BY <1>1, <1>2
<1> QED BY InitInv, <1>3, PTL DEF Spec

(* The variables of wr_full_device_verify and main keep their types. *)
THEOREM VerifyTypes == Spec => []TypeOK
<1>1. IInv => TypeOK
  BY DEF IInv
<1> QED BY <1>1, VerifyInductive, PTL

(***************************************************************************)
(* A call that writes before it reads compares the device with what it was *)
(* last given, whatever failed in the calls before (m3.cpp:93-94).         *)
(***************************************************************************)
THEOREM FileIsTruth == Spec => []SideFileIsTruth
<1>1. IInv => SideFileIsTruth
  BY DEF IInv, SideInv, SideFileIsTruth
<1> QED BY <1>1, VerifyInductive, PTL

(* A call that reads and is content has compared every block. *)
THEOREM AllCompared == Spec => []EveryBlockCompared
<1>1. IInv => EveryBlockCompared
  BY DEF IInv, CompareInv
<1> QED BY <1>1, VerifyInductive, PTL

(* With a correct device and file system both programs pass. *)
THEOREM NoAlarm == Spec => []NoFalseAlarm
<1>1. IInv => NoFalseAlarm
  BY DEF IInv, QuietInv, NoFalseAlarm
<1> QED BY <1>1, VerifyInductive, PTL

=============================================================================
