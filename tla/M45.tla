-------------------------------- MODULE M45 --------------------------------
(***************************************************************************)
(* The program of milestones 4 and 5, src/m45-rocksdb/m45_main.cc: it      *)
(* writes the same entries to a test database, on the file system under    *)
(* test, and to a shadow database on a file system that works, and         *)
(* compares the two.  It is run again and again with different options on  *)
(* the same two databases, and may be killed at any point.                 *)
(*                                                                         *)
(* RocksDB is external: a database is a map from keys to values that a     *)
(* kill of the process does not harm.  The test database may be on         *)
(* S2FileSystem, whose operations all return IOError, or on a file system  *)
(* that works but for MaxFaults of its puts.                               *)
(***************************************************************************)
EXTENDS Integers, Sequences, FiniteSets

CONSTANTS
    Keys, Values,
    Missing,        \* no value
    MaxRuns,        \* bound on the runs of the program
    MaxKills,       \* bound on the runs that are killed
    MaxFaults       \* bound on the failing calls of RocksDB

ASSUME M45Assumption ==
    /\ IsFiniteSet(Keys) /\ Keys # {} /\ Missing \notin Values
    /\ MaxRuns \in Nat /\ MaxKills \in Nat /\ MaxFaults \in Nat

VARIABLES
    db,         \* db[d]: does it exist, and what does it hold
    fs,         \* the file system of the test database
    pc,         \* where the program is; "shell" if it is not running
    opt,        \* its options
    testdata,   \* the entries of this run, as far as they are drawn
    todo,       \* the keys the loop has still to visit
    key,        \* the key between the two puts
    code,       \* what the last run returned; ABORT if an assertion failed
    runs, kills, faults,
    singles,    \* history: a run with -S put or deleted something
    deletes     \* history: a run with -D deleted something

vars == <<db, fs, pc, opt, testdata, todo, key, code, runs, kills, faults, singles, deletes>>

Databases == {"test", "shadow"}
Map == [Keys -> Values \cup {Missing}]
Empty == [k \in Keys |-> Missing]
KeysOf(f) == {k \in Keys : f[k] # Missing}

ABORT == 134
Options == [single : BOOLEAN, roverify : BOOLEAN, deleteall : BOOLEAN, vsize : {0, 1}]
NoOptions == [single |-> FALSE, roverify |-> FALSE, deleteall |-> FALSE, vsize |-> 1]

Init ==
    /\ db = [d \in Databases |-> [exists |-> FALSE, map |-> Empty]]
    /\ fs \in {"posix", "s2fs"}
    /\ pc = "shell"
    /\ opt = NoOptions
    /\ testdata = Empty /\ todo = {}
    /\ key \in {CHOOSE k \in Keys : TRUE}
    /\ code = 0
    /\ runs = 0 /\ kills = 0 /\ faults = 0
    /\ singles = FALSE /\ deletes = FALSE

Fault == faults < MaxFaults /\ faults' = faults + 1

(* The process ends; its databases stay as they are. *)
Exit(c) == pc' = "shell" /\ code' = c
Goto(at) == pc' = at /\ UNCHANGED code
History == <<runs, kills, singles, deletes>>

----------------------------------------------------------------------------
(* main: the options, and the two pairs of them it refuses. *)
Start(o) ==
    /\ pc = "shell" /\ runs < MaxRuns
    /\ runs' = runs + 1
    /\ opt' = o
    /\ testdata' = Empty /\ todo' = {}
    /\ IF o.roverify /\ (o.deleteall \/ o.single) THEN Exit(-22)
       ELSE Goto(IF o.deleteall THEN "delete_test" ELSE IF o.single THEN "open_test" ELSE "open_shadow")
    /\ UNCHANGED <<db, fs, key, kills, faults, singles, deletes>>

(* Mutant: the shadow database stays. *)
Deleted_TestOnly(d) ==
    IF d = "shadow" THEN UNCHANGED db
    ELSE db' = [db EXCEPT ![d] = [exists |-> FALSE, map |-> Empty]]
Deleted(d) == db' = [db EXCEPT ![d] = [exists |-> FALSE, map |-> Empty]]

(* delete_rocksdb: a failing DestroyDB may have deleted some of it. *)
Delete(d, next) ==
    /\ deletes' = TRUE
    /\ \/ Deleted(d) /\ Goto(next) /\ UNCHANGED faults
       \/ /\ Fault
          /\ \E S \in SUBSET Keys :
                db' = [db EXCEPT ![d].map = [k \in Keys |-> IF k \in S THEN @[k] ELSE Missing]]
          /\ Exit(-1)
    /\ UNCHANGED <<fs, opt, testdata, todo, key, runs, kills>>

DeleteTest ==
    /\ pc = "delete_test"
    /\ Delete("test", IF opt.single THEN "open_test" ELSE "delete_shadow")
    /\ singles' = (singles \/ opt.single)

DeleteShadow ==
    /\ pc = "delete_shadow"
    /\ Delete("shadow", "open_shadow")
    /\ UNCHANGED singles

(* open_rocksdb, under assert(ret == 0).  With -r the shadow database is   *)
(* not created, after -D neither may exist.                                *)
CanOpen(d) ==
    /\ db[d].exists => ~ opt.deleteall
    /\ db[d].exists \/ d = "test" \/ ~ opt.roverify
    /\ d = "test" => fs = "posix"

Open(d, next) ==
    /\ \/ CanOpen(d) /\ db' = [db EXCEPT ![d].exists = TRUE] /\ Goto(next) /\ UNCHANGED faults
       \/ (IF CanOpen(d) THEN Fault ELSE UNCHANGED faults) /\ Exit(ABORT) /\ UNCHANGED db
    /\ UNCHANGED <<fs, opt, testdata, key, History>>

OpenShadow == pc = "open_shadow" /\ Open("shadow", "open_test") /\ UNCHANGED todo

OpenTest ==
    /\ pc = "open_test"
    /\ Open("test", IF opt.roverify THEN "compare" ELSE "fill")
    /\ todo' = KeysOf(db["shadow"].map)

(***************************************************************************)
(* fill_up_map draws random entries.  A key has ksize characters and its   *)
(* number; the value is as much shorter, and for vsize smaller than the    *)
(* number's digits its length is negative: reserve throws.                 *)
(***************************************************************************)
Fill(f) ==
    /\ pc = "fill"
    /\ testdata' = f
    /\ todo' = KeysOf(f)
    /\ IF opt.vsize = 0 /\ todo' # {} THEN Exit(ABORT) ELSE Goto("put_test")
    /\ UNCHANGED <<db, fs, opt, key, faults, History>>

Stored(d, k) == db' = [db EXCEPT ![d].map[k] = testdata[k]]

(* The loop over testdata: Put into the test database -- which may lose or *)
(* garble what it says it took -- then into the shadow database.  Mutant:  *)
(* the other way round.                                                    *)
PutOrder_ShadowFirst == <<"shadow", "test">>
PutOrder == <<"test", "shadow">>
FirstPut == IF opt.single THEN "test" ELSE PutOrder[1]

PutTest(k) ==
    /\ pc = "put_test"
    /\ k \in todo
    /\ \/ Stored(FirstPut, k) /\ UNCHANGED faults /\ Goto(IF opt.single THEN "put_test" ELSE "put_shadow")
       \/ /\ Fault
          /\ \/ /\ \E v \in Values \cup {db["test"].map[k]} : db' = [db EXCEPT !["test"].map[k] = v]
                /\ Goto(IF opt.single THEN "put_test" ELSE "put_shadow")
             \/ Exit(ABORT) /\ UNCHANGED db
    /\ key' = k
    /\ todo' = IF opt.single THEN todo \ {k} ELSE todo
    /\ singles' = (singles \/ opt.single)
    /\ UNCHANGED <<fs, opt, testdata, runs, kills, deletes>>

PutShadow ==
    /\ pc = "put_shadow"
    /\ \/ Stored(PutOrder[2], key) /\ todo' = todo \ {key} /\ Goto("put_test") /\ UNCHANGED faults
       \/ Fault /\ Exit(ABORT) /\ UNCHANGED <<db, todo>>
    /\ UNCHANGED <<fs, opt, testdata, key, History>>

(* The iterator runs over the shadow database.  Mutant: over what both have. *)
Compared_InBoth == KeysOf(db["shadow"].map) \cap KeysOf(db["test"].map)
Compared == KeysOf(db["shadow"].map)

PutDone ==
    /\ pc = "put_test"
    /\ todo = {}
    /\ todo' = IF opt.single THEN KeysOf(testdata) ELSE Compared
    /\ Goto("compare")
    /\ UNCHANGED <<db, fs, opt, testdata, key, faults, History>>

(***************************************************************************)
(* Each entry of the shadow database is looked up in the test database and *)
(* must be the same; the shadow database's own extra entries too.  With -S *)
(* the entries of this run are, and a difference is only printed.          *)
(***************************************************************************)
Expected(k) == IF opt.single THEN testdata[k] ELSE db["shadow"].map[k]
Matches(k) == db["test"].map[k] = Expected(k)

Compare(k) ==
    /\ pc = "compare"
    /\ k \in todo
    /\ \/ /\ IF Matches(k) \/ (opt.single /\ db["test"].map[k] # Missing)
             THEN todo' = todo \ {k} /\ UNCHANGED <<pc, code>>
             ELSE Exit(ABORT) /\ UNCHANGED todo
          /\ UNCHANGED faults
       \/ Fault /\ Exit(ABORT) /\ UNCHANGED todo
    /\ UNCHANGED <<db, fs, opt, testdata, key, History>>

(* destroy_myrocks_context of both, and ret, which open_rocksdb set last. *)
Close ==
    /\ pc = "compare"
    /\ todo = {}
    /\ \/ Exit(0) /\ UNCHANGED faults
       \/ Fault /\ Exit(ABORT)
    /\ UNCHANGED <<db, fs, opt, testdata, todo, key, History>>

Kill ==
    /\ pc # "shell" /\ kills < MaxKills
    /\ kills' = kills + 1
    /\ Exit(137)
    /\ UNCHANGED <<db, fs, opt, testdata, todo, key, runs, faults, singles, deletes>>

Next ==
    \/ \E o \in Options : Start(o)
    \/ DeleteTest \/ DeleteShadow \/ OpenShadow \/ OpenTest
    \/ \E f \in Map : Fill(f)
    \/ \E k \in Keys : PutTest(k) \/ Compare(k)
    \/ PutShadow \/ PutDone \/ Close \/ Kill

Spec == Init /\ [][Next]_vars

----------------------------------------------------------------------------
(* Properties *)

(* The databases hold entries of the keys; the program is somewhere in it. *)
TypeOK ==
    /\ db \in [Databases -> [exists : BOOLEAN, map : Map]]
    /\ fs \in {"posix", "s2fs"}
    /\ pc \in {"shell", "delete_test", "delete_shadow", "open_shadow", "open_test", "fill",
               "put_test", "put_shadow", "compare"}
    /\ opt \in Options
    /\ testdata \in Map /\ todo \subseteq Keys /\ key \in Keys
    /\ code \in {0, -1, -22, ABORT, 137}
    /\ runs \in 0 .. MaxRuns /\ kills \in 0 .. MaxKills /\ faults \in 0 .. MaxFaults
    /\ singles \in BOOLEAN /\ deletes \in BOOLEAN

(* Entries of the shadow database the test database has not or has otherwise. *)
Torn == {k \in KeysOf(db["shadow"].map) : db["test"].map[k] # db["shadow"].map[k]}

(***************************************************************************)
(* What the program says of the test database is true: a run that wrote,   *)
(* compared and returned 0 leaves each of its entries there, whatever the  *)
(* test database did with its puts and whatever earlier runs left behind.  *)
(***************************************************************************)
PassMeansStored ==
    pc = "shell" /\ runs > 0 /\ code = 0 /\ ~ opt.single /\ ~ opt.roverify =>
        \A k \in KeysOf(testdata) : db["test"].map[k] = testdata[k]

(***************************************************************************)
(* No false alarm: on databases that work, as long as no run was killed    *)
(* and none wrote to the test database alone (-S), there is nothing for    *)
(* the comparison to find, in this run or in a later one with -r.          *)
(***************************************************************************)
NoFalseAlarm ==
    faults = 0 /\ kills = 0 /\ ~ singles /\ pc \in {"compare", "shell"} => Torn = {}

(***************************************************************************)
(* A kill hurts at most the entry being written, and only if it was there  *)
(* before: the test database is written first, so a later run with -r      *)
(* misses no key.  (A run that deletes and is killed between the two       *)
(* databases leaves all entries torn.)                                     *)
(***************************************************************************)
KillTearsOne ==
    faults = 0 /\ ~ singles /\ ~ deletes =>
        /\ KeysOf(db["shadow"].map) \subseteq KeysOf(db["test"].map)
        /\ Cardinality(Torn) <= kills + (IF pc = "put_shadow" THEN 1 ELSE 0)
=============================================================================
