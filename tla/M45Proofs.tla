------------------------------ MODULE M45Proofs ------------------------------
(***************************************************************************)
(* Theorems about M45: for every number of keys, values, runs, kills and   *)
(* faults, the verdict of the program is true of the test database, there  *)
(* is no false alarm, and a kill tears at most one entry.                  *)
(***************************************************************************)
EXTENDS M45, FiniteSetTheorems, TLAPS

T == db["test"].map
S == db["shadow"].map
TornOf(t, s) == {k \in KeysOf(s) : t[k] # s[k]}

(* This run writes and compares: what it wrote so far is in the shadow     *)
(* database, and what it compared so far in the test database.             *)
Judging == ~ opt.single /\ ~ opt.roverify
PassInv ==
    Judging =>
        /\ pc = "put_shadow" => key \in todo
        /\ pc \in {"put_test", "put_shadow"} =>
              /\ todo \subseteq KeysOf(testdata)
              /\ \A k \in KeysOf(testdata) \ todo : S[k] = testdata[k]
        /\ pc = "compare" =>
              /\ \A k \in KeysOf(testdata) : S[k] = testdata[k]
              /\ \A k \in KeysOf(S) \ todo : T[k] = S[k]
        /\ (pc = "shell" /\ runs > 0 /\ code = 0) => \A k \in KeysOf(testdata) : T[k] = testdata[k]

(* The second put is that of a run that writes both databases, and the     *)
(* first one of it has stored the entry.                                   *)
PutInv ==
    /\ pc = "put_test" => todo \subseteq KeysOf(testdata)
    /\ pc = "put_shadow" => /\ key \in KeysOf(testdata) /\ todo \subseteq KeysOf(testdata)
                            /\ faults = 0 => T[key] = testdata[key]

(* Without faults, kills and runs with -S the two databases differ only    *)
(* between the two puts of an entry and between the two deletions.         *)
QuietInv ==
    faults = 0 /\ kills = 0 /\ ~ singles =>
        /\ pc \notin {"put_shadow", "delete_shadow"} => Torn = {}
        /\ pc = "put_shadow" => Torn \subseteq {key}

(* Only kills leave torn entries behind. *)
TornInv ==
    faults = 0 /\ ~ singles /\ ~ deletes =>
        /\ KeysOf(S) \subseteq KeysOf(T)
        /\ Cardinality(IF pc = "put_shadow" THEN Torn \ {key} ELSE Torn) <= kills

IInv == TypeOK /\ PassInv /\ PutInv /\ QuietInv /\ TornInv

----------------------------------------------------------------------------
(* The two databases as maps, and the torn entries as a finite set. *)
LEMMA Maps ==
    ASSUME TypeOK
    PROVE  /\ T \in Map /\ S \in Map /\ Torn = TornOf(T, S)
           /\ Torn \subseteq Keys /\ IsFiniteSet(Torn) /\ Cardinality(Torn) \in Nat
           /\ \A X \in SUBSET Torn : IsFiniteSet(X) /\ Cardinality(X) \in Nat
<1>1. T \in Map /\ S \in Map /\ Torn = TornOf(T, S) /\ Torn \subseteq Keys
  BY DEF TypeOK, T, S, Torn, TornOf, KeysOf, Databases
<1>2. \A X \in SUBSET Keys : IsFiniteSet(X) /\ Cardinality(X) \in Nat
  BY M45Assumption, FS_Subset, FS_CardinalityType
<1> QED BY <1>1, <1>2

(* What a step does that leaves the databases' contents alone. *)
LEMMA SameMaps ==
    ASSUME T' = T, S' = S
    PROVE  Torn' = Torn
  BY DEF Torn, T, S, KeysOf

(* A kill or a failure adds nothing but the entry being written. *)
LEMMA TornCard ==
    ASSUME TypeOK, TornInv, faults = 0, ~ singles, ~ deletes
    PROVE  Cardinality(Torn) <= kills + (IF pc = "put_shadow" THEN 1 ELSE 0)
<1>1. CASE pc # "put_shadow"
  BY <1>1, Maps DEF TornInv, TypeOK
<1>2. CASE pc = "put_shadow"
  <2>1. Cardinality(Torn \ {key}) <= kills /\ Cardinality(Torn \ {key}) \in Nat
    BY <1>2, Maps DEF TornInv
  <2>2. Cardinality(Torn \ {key}) = (IF key \in Torn THEN Cardinality(Torn) - 1 ELSE Cardinality(Torn))
    BY Maps, FS_RemoveElement
  <2> QED BY <1>2, <2>1, <2>2, Maps DEF TypeOK
<1> QED BY <1>1, <1>2

----------------------------------------------------------------------------
(* Before the first run both databases are empty. *)
LEMMA InitInv == Init => IInv
<1> SUFFICES ASSUME Init PROVE IInv
  OBVIOUS
<1>1. TypeOK
  <2>1. db \in [Databases -> [exists : BOOLEAN, map : Map]]
    BY DEF Init, Empty, Map
  <2>2. opt \in Options /\ testdata \in Map
    BY DEF Init, Options, NoOptions, Empty, Map
  <2>3. key \in Keys
    BY M45Assumption DEF Init
  <2>4. runs \in 0 .. MaxRuns /\ kills \in 0 .. MaxKills /\ faults \in 0 .. MaxFaults
    BY M45Assumption DEF Init
  <2>5. singles \in BOOLEAN /\ deletes \in BOOLEAN /\ todo \subseteq Keys
    BY Zenon DEF Init
  <2>6. fs \in {"posix", "s2fs"} /\ pc = "shell" /\ code = 0
    BY DEF Init
  <2> QED BY <2>1, <2>2, <2>3, <2>4, <2>5, <2>6 DEF TypeOK
<1>2. T = Empty /\ S = Empty
  BY DEF Init, T, S, Databases
<1>3. KeysOf(Empty) = {}
  BY DEF KeysOf, Empty
<1>4. Torn = {}
  BY <1>2, <1>3, Maps, <1>1 DEF TornOf
<1>5. Cardinality({}) = 0
  BY FS_EmptySet
<1> QED BY <1>1, <1>2, <1>3, <1>4, <1>5 DEF Init, IInv, PassInv, PutInv, QuietInv, TornInv

----------------------------------------------------------------------------
(* A step at which the contents of both databases and the entries of the   *)
(* run stay what they are.                                                 *)
LEMMA QuietStep ==
    ASSUME IInv, TypeOK', T' = T, S' = S
    PROVE  /\ Torn' = Torn
           /\ Cardinality(Torn) \in Nat
           /\ (faults = 0 /\ ~ singles /\ ~ deletes) =>
                 Cardinality(Torn) <= kills + (IF pc = "put_shadow" THEN 1 ELSE 0)
  BY SameMaps, Maps, TornCard DEF IInv

(* Opening a database, or writing to it, leaves a database behind. *)
LEMMA DbTypes ==
    ASSUME TypeOK, NEW d \in Databases
    PROVE  /\ [db EXCEPT ![d].exists = TRUE] \in [Databases -> [exists : BOOLEAN, map : Map]]
           /\ \A f \in Map : [db EXCEPT ![d].map = f] \in [Databases -> [exists : BOOLEAN, map : Map]]
<1> DEFINE Rec == [exists : BOOLEAN, map : Map]
<1>1. db \in [Databases -> Rec] /\ db[d] \in Rec
  BY DEF TypeOK
<1>2. [db[d] EXCEPT !.exists = TRUE] \in Rec
  BY <1>1
<1>3. ASSUME NEW f \in Map PROVE [db[d] EXCEPT !.map = f] \in Rec
  BY <1>1
<1> HIDE DEF Rec
<1>4. \A r \in Rec : [db EXCEPT ![d] = r] \in [Databases -> Rec]
  BY <1>1
<1>5. /\ [db EXCEPT ![d].exists = TRUE] \in [Databases -> Rec]
      /\ \A f \in Map : [db EXCEPT ![d].map = f] \in [Databases -> Rec]
  BY <1>2, <1>3, <1>4
<1> QED BY <1>5 DEF Rec

(* The steps that leave the contents of the databases alone. *)
LEMMA StartInv ==
    ASSUME IInv, NEW o \in Options, Start(o)
    PROVE  IInv'
<1>1. TypeOK'
  <2>1. opt' \in Options /\ testdata' \in Map
    BY DEF Start, Empty, Map
  <2>2. pc' \in {"shell", "delete_test", "open_test", "open_shadow"} /\ code' \in {code, -22}
    BY DEF Start, Exit, Goto
  <2>3. runs' \in 0 .. MaxRuns
    BY M45Assumption DEF Start, IInv, TypeOK
  <2> QED BY <2>1, <2>2, <2>3 DEF Start, IInv, TypeOK
<1>2. T' = T /\ S' = S
  BY DEF Start, T, S
<1>3. pc = "shell" /\ pc' \in {"shell", "delete_test", "open_test", "open_shadow"}
      /\ UNCHANGED <<faults, kills, singles, deletes>>
  BY DEF Start, Exit, Goto
<1>4. PassInv'
  <2>1. Judging' => pc' # "shell"
    BY DEF Judging, Start, Exit, Goto
  <2> QED BY <1>3, <2>1 DEF PassInv
<1>5. QuietInv' /\ TornInv' /\ PutInv'
  BY <1>1, <1>2, <1>3, QuietStep DEF IInv, QuietInv, TornInv, PutInv
<1> QED BY <1>1, <1>4, <1>5 DEF IInv

LEMMA KillInv ==
    ASSUME IInv, Kill
    PROVE  IInv'
<1>1. TypeOK'
  BY M45Assumption DEF Kill, IInv, TypeOK, Exit
<1>2. T' = T /\ S' = S
  BY DEF Kill, T, S
<1>3. Torn' = Torn /\ (faults = 0 /\ ~ singles /\ ~ deletes => Cardinality(Torn) <= kills + 1)
  BY <1>1, <1>2, QuietStep DEF IInv, TypeOK
<1> QED BY <1>1, <1>2, <1>3 DEF Kill, Exit, IInv, TypeOK, PassInv, PutInv, QuietInv, TornInv

LEMMA OpenInv ==
    ASSUME IInv, OpenShadow \/ OpenTest
    PROVE  IInv'
<1>0. todo' \in SUBSET Keys
  BY DEF OpenShadow, OpenTest, IInv, TypeOK, KeysOf
<1>1. PICK d \in Databases, next \in {"open_test", "compare", "fill"} :
        /\ Open(d, next) /\ pc \in {"open_shadow", "open_test"}
        /\ next = "compare" => opt.roverify
  BY DEF OpenShadow, OpenTest, Databases
<1>2. TypeOK'
  <2>1. db' \in [Databases -> [exists : BOOLEAN, map : Map]]
    BY <1>1, DbTypes DEF Open, IInv, TypeOK
  <2>2. pc' \in {next, "shell"} /\ code' \in {code, ABORT}
    BY <1>1 DEF Open, Goto, Exit
  <2>3. faults' \in 0 .. MaxFaults
    BY <1>1, M45Assumption DEF Open, Fault, IInv, TypeOK
  <2>4. UNCHANGED <<fs, opt, testdata, key, runs, kills, singles, deletes>>
    BY <1>1 DEF Open, History
  <2> QED BY <1>0, <2>1, <2>2, <2>3, <2>4 DEF IInv, TypeOK
<1>3. T' = T /\ S' = S
  BY <1>1 DEF Open, T, S, Databases, IInv, TypeOK
<1>4. /\ pc' \in {next, "shell"} /\ (pc' = "shell" => code' = ABORT)
      /\ faults' = 0 => faults = 0
      /\ UNCHANGED <<opt, kills, singles, deletes>>
  BY <1>1, M45Assumption DEF Open, Goto, Exit, Fault, History, IInv, TypeOK
<1>5. Torn' = Torn /\ (faults = 0 /\ ~ singles /\ ~ deletes => Cardinality(Torn) <= kills)
  BY <1>1, <1>2, <1>3, QuietStep, Maps DEF IInv, TypeOK
<1>6. PassInv' /\ PutInv'
  BY <1>1, <1>4 DEF PassInv, PutInv, Judging, ABORT
<1>7. QuietInv' /\ TornInv'
  BY <1>1, <1>3, <1>4, <1>5 DEF IInv, QuietInv, TornInv
<1> QED BY <1>2, <1>6, <1>7 DEF IInv

LEMMA FillInv ==
    ASSUME IInv, NEW f \in Map, Fill(f)
    PROVE  IInv'
<1>1. TypeOK'
  <2>1. testdata' \in Map /\ todo' \subseteq Keys
    BY DEF Fill, KeysOf
  <2>2. pc' \in {"shell", "put_test"} /\ code' \in {code, ABORT}
    BY DEF Fill, Exit, Goto
  <2> QED BY <2>1, <2>2 DEF Fill, History, IInv, TypeOK
<1>2. T' = T /\ S' = S
  BY DEF Fill, T, S
<1>3. /\ pc' \in {"shell", "put_test"} /\ (pc' = "shell" => code' = ABORT) /\ pc = "fill"
      /\ todo' = KeysOf(testdata') /\ UNCHANGED <<opt, faults, kills, singles, deletes>>
  BY DEF Fill, Exit, Goto, KeysOf, History
<1>4. Torn' = Torn /\ (faults = 0 /\ ~ singles /\ ~ deletes => Cardinality(Torn) <= kills)
  BY <1>1, <1>2, <1>3, QuietStep, Maps DEF IInv, TypeOK
<1>5. PassInv' /\ PutInv'
  <2>1. KeysOf(testdata)' = KeysOf(testdata')
    BY DEF KeysOf
  <2> QED BY <1>3, <2>1 DEF PassInv, PutInv, Judging, ABORT
<1>6. QuietInv' /\ TornInv'
  BY <1>2, <1>3, <1>4 DEF IInv, QuietInv, TornInv, KeysOf
<1> QED BY <1>1, <1>5, <1>6 DEF IInv

LEMMA PutDoneInv ==
    ASSUME IInv, PutDone
    PROVE  IInv'
<1>1. TypeOK'
  BY DEF PutDone, Compared, KeysOf, Goto, History, IInv, TypeOK
<1>2. T' = T /\ S' = S /\ KeysOf(testdata)' = KeysOf(testdata) /\ KeysOf(S)' = KeysOf(S)
  BY DEF PutDone, T, S, KeysOf
<1>3. /\ pc = "put_test" /\ pc' = "compare" /\ todo = {} /\ (Judging => todo' = KeysOf(S))
      /\ UNCHANGED <<opt, testdata, faults, kills, singles, deletes>>
  BY DEF PutDone, Compared, Goto, History, Judging, S
<1>4. Torn' = Torn /\ (faults = 0 /\ ~ singles /\ ~ deletes => Cardinality(Torn) <= kills)
  BY <1>1, <1>2, <1>3, QuietStep, Maps DEF IInv, TypeOK
<1>5. PassInv' /\ PutInv'
  BY <1>2, <1>3 DEF IInv, PassInv, PutInv, Judging
<1>6. QuietInv' /\ TornInv'
  BY <1>2, <1>3, <1>4 DEF IInv, QuietInv, TornInv
<1> QED BY <1>1, <1>5, <1>6 DEF IInv

LEMMA CompareInv ==
    ASSUME IInv, NEW k \in Keys, Compare(k)
    PROVE  IInv'
<1>1. TypeOK'
  <2>1. pc' \in {"shell", "compare"} /\ code' \in {code, ABORT} /\ todo' \subseteq Keys
    BY DEF Compare, Exit, IInv, TypeOK
  <2>2. faults' \in 0 .. MaxFaults
    BY M45Assumption DEF Compare, Fault, IInv, TypeOK
  <2> QED BY <2>1, <2>2 DEF Compare, History, IInv, TypeOK
<1>2. T' = T /\ S' = S /\ KeysOf(testdata)' = KeysOf(testdata) /\ KeysOf(S)' = KeysOf(S)
  BY DEF Compare, T, S, KeysOf
<1>3. /\ pc = "compare" /\ pc' \in {"compare", "shell"} /\ (pc' = "shell" => code' = ABORT)
      /\ faults' = 0 => faults = 0
      /\ UNCHANGED <<opt, testdata, kills, singles, deletes>>
  BY M45Assumption DEF Compare, Exit, Fault, History, IInv, TypeOK
<1>4. Torn' = Torn /\ (faults = 0 /\ ~ singles /\ ~ deletes => Cardinality(Torn) <= kills)
  BY <1>1, <1>2, <1>3, QuietStep, Maps DEF IInv, TypeOK
<1>5. (Judging /\ pc' = "compare") => (T[k] = S[k] /\ todo' = todo \ {k})
  BY <1>3 DEF Compare, Judging, Exit, Matches, Expected, T, S
<1>6. PassInv'
  BY <1>2, <1>3, <1>5 DEF IInv, PassInv, Judging, ABORT
<1>7. QuietInv' /\ TornInv' /\ PutInv'
  BY <1>2, <1>3, <1>4 DEF IInv, QuietInv, TornInv, PutInv
<1> QED BY <1>1, <1>6, <1>7 DEF IInv

LEMMA CloseInv ==
    ASSUME IInv, Close
    PROVE  IInv'
<1>1. TypeOK'
  <2>1. pc' = "shell" /\ code' \in {0, ABORT} /\ faults' \in 0 .. MaxFaults
    BY M45Assumption DEF Close, Exit, Fault, IInv, TypeOK
  <2> QED BY <2>1 DEF Close, History, IInv, TypeOK
<1>2. T' = T /\ S' = S /\ KeysOf(testdata)' = KeysOf(testdata) /\ KeysOf(S)' = KeysOf(S)
  BY DEF Close, T, S, KeysOf
<1>3. /\ pc = "compare" /\ pc' = "shell" /\ todo = {}
      /\ faults' = 0 => faults = 0
      /\ UNCHANGED <<opt, testdata, kills, singles, deletes>>
  BY M45Assumption DEF Close, Exit, Fault, History, IInv, TypeOK
<1>4. Torn' = Torn /\ (faults = 0 /\ ~ singles /\ ~ deletes => Cardinality(Torn) <= kills)
  BY <1>1, <1>2, <1>3, QuietStep, Maps DEF IInv, TypeOK
<1>5. Judging => \A k \in KeysOf(testdata) : T[k] = testdata[k]
  <2> SUFFICES ASSUME Judging, NEW k \in KeysOf(testdata) PROVE T[k] = testdata[k]
    OBVIOUS
  <2>1. S[k] = testdata[k] /\ k \in Keys /\ testdata[k] # Missing
    BY <1>3 DEF IInv, PassInv, KeysOf
  <2>2. k \in KeysOf(S)
    BY <2>1 DEF KeysOf
  <2> QED BY <1>3, <2>1, <2>2 DEF IInv, PassInv
<1>6. PassInv' /\ PutInv'
  BY <1>2, <1>3, <1>5 DEF PassInv, PutInv, Judging
<1>7. QuietInv' /\ TornInv'
  BY <1>2, <1>3, <1>4 DEF IInv, QuietInv, TornInv
<1> QED BY <1>1, <1>6, <1>7 DEF IInv

----------------------------------------------------------------------------
(* DestroyDB, whether it succeeds or not. *)
LEMMA DeleteFacts ==
    ASSUME TypeOK, NEW d \in Databases, NEW next \in {"open_test", "delete_shadow", "open_shadow"}, Delete(d, next)
    PROVE  /\ db' \in [Databases -> [exists : BOOLEAN, map : Map]]
           /\ pc' \in {next, "shell"} /\ code' \in {code, -1} /\ faults' \in 0 .. MaxFaults
           /\ faults' = 0 => faults = 0 /\ Deleted(d) /\ pc' = next
           /\ pc' = "shell" => code' = -1 /\ faults' # 0
           /\ deletes' /\ UNCHANGED <<fs, opt, testdata, todo, key, runs, kills>>
<1>1. CASE Deleted(d) /\ Goto(next) /\ UNCHANGED faults
  <2>1. Empty \in Map
    BY DEF Empty, Map
  <2>2. [exists |-> FALSE, map |-> Empty] \in [exists : BOOLEAN, map : Map]
    BY <2>1
  <2>3. db' \in [Databases -> [exists : BOOLEAN, map : Map]]
    BY <1>1, <2>2 DEF Deleted, TypeOK
  <2> QED BY <1>1, <2>3 DEF Goto, Delete, TypeOK
<1>2. CASE Fault /\ Exit(-1) /\ (\E X \in SUBSET Keys :
                db' = [db EXCEPT ![d].map = [k \in Keys |-> IF k \in X THEN @[k] ELSE Missing]])
  <2>1. PICK X \in SUBSET Keys :
                db' = [db EXCEPT ![d].map = [k \in Keys |-> IF k \in X THEN @[k] ELSE Missing]]
    BY <1>2
  <2>2. db[d].map \in Map
    BY DEF TypeOK
  <2>3. [k \in Keys |-> IF k \in X THEN db[d].map[k] ELSE Missing] \in Map
    BY <2>2 DEF Map
  <2>4. db' \in [Databases -> [exists : BOOLEAN, map : Map]]
    BY <2>1, <2>3, DbTypes
  <2> QED BY <1>2, <2>4, M45Assumption DEF Fault, Exit, Delete, TypeOK
<1> QED BY <1>1, <1>2 DEF Delete

LEMMA DeleteInv ==
    ASSUME IInv, DeleteTest \/ DeleteShadow
    PROVE  IInv'
<1>1. PICK d \in Databases, next \in {"open_test", "delete_shadow", "open_shadow"} :
        /\ Delete(d, next) /\ pc \in {"delete_test", "delete_shadow"}
        /\ d = "shadow" => pc = "delete_shadow" /\ next = "open_shadow" /\ singles' = singles
        /\ d = "test" => /\ pc = "delete_test" /\ next \in {"open_test", "delete_shadow"}
                         /\ next = "open_test" => singles'
  BY DEF DeleteTest, DeleteShadow, Databases
<1>2. singles' \in BOOLEAN
  BY DEF DeleteTest, DeleteShadow, IInv, TypeOK, Options
<1>3. /\ db' \in [Databases -> [exists : BOOLEAN, map : Map]]
      /\ pc' \in {next, "shell"} /\ code' \in {code, -1} /\ faults' \in 0 .. MaxFaults
      /\ faults' = 0 => faults = 0 /\ Deleted(d) /\ pc' = next
      /\ pc' = "shell" => code' = -1 /\ faults' # 0
      /\ deletes' /\ UNCHANGED <<fs, opt, testdata, todo, key, runs, kills>>
  BY <1>1, DeleteFacts DEF IInv
<1>4. TypeOK'
  <2>1. deletes' \in BOOLEAN
    BY DEF DeleteTest, DeleteShadow, Delete
  <2>2. pc' \in {"shell", "open_test", "delete_shadow", "open_shadow"} /\ code' \in {0, -1, -22, ABORT, 137}
    BY <1>3 DEF IInv, TypeOK
  <2> QED BY <1>2, <1>3, <2>1, <2>2 DEF IInv, TypeOK
<1>5. PassInv' /\ PutInv'
  BY <1>1, <1>3 DEF PassInv, PutInv
<1>6. QuietInv'
  <2> SUFFICES ASSUME faults' = 0, kills' = 0, ~ singles', pc' # "delete_shadow" PROVE Torn' = {}
    BY <1>1, <1>3 DEF QuietInv
  <2>0. pc' = next
    BY <1>3
  <2>1. d = "shadow" /\ Deleted(d)
    <3>1. d = "test" => next = "open_test" /\ singles'
      BY <1>1, <2>0
    <3> QED BY <1>3, <3>1 DEF Databases
  <2>2. S' = Empty
    BY <2>1 DEF Deleted, S, Databases, IInv, TypeOK
  <2> QED BY <2>2 DEF Torn, S, KeysOf, Empty
<1> QED BY <1>3, <1>4, <1>5, <1>6 DEF IInv, TornInv

----------------------------------------------------------------------------
(* Put into the test database. *)
LEMMA PutTestFacts ==
    ASSUME IInv, NEW k \in Keys, PutTest(k)
    PROVE  /\ db' \in [Databases -> [exists : BOOLEAN, map : Map]]
           /\ k \in todo /\ key' = k /\ S' = S
           /\ \/ /\ pc' = (IF opt.single THEN "put_test" ELSE "put_shadow") /\ code' = code
                 /\ \E v \in Values \cup {Missing} :
                       /\ T' = [T EXCEPT ![k] = v]
                       /\ faults' = 0 => v = testdata[k]
              \/ pc' = "shell" /\ code' = ABORT /\ faults' # 0 /\ T' = T
           /\ faults' \in 0 .. MaxFaults
           /\ faults' = 0 => faults = 0
<1> DEFINE Values0 == Values \cup {Missing}
<1>1. /\ T \in [Keys -> Values0] /\ testdata[k] \in Values0
      /\ "test" \in Databases /\ "shadow" \in Databases
      /\ k \in todo /\ key' = k
  BY DEF PutTest, IInv, TypeOK, Map, T, Databases
<1>2. ASSUME NEW v \in Values0, db' = [db EXCEPT !["test"].map[k] = v]
      PROVE  /\ db' \in [Databases -> [exists : BOOLEAN, map : Map]]
             /\ T' = [T EXCEPT ![k] = v] /\ S' = S
  <2>1. [T EXCEPT ![k] = v] \in Map
    BY <1>1 DEF Map
  <2>2. db' = [db EXCEPT !["test"].map = [T EXCEPT ![k] = v]]
    BY <1>2 DEF T, IInv, TypeOK, Databases
  <2>3. db' \in [Databases -> [exists : BOOLEAN, map : Map]]
    BY <1>1, <2>1, <2>2, DbTypes DEF IInv
  <2> QED BY <2>2, <2>3 DEF T, S, IInv, TypeOK, Databases
<1>3. CASE Stored(FirstPut, k) /\ UNCHANGED faults /\ Goto(IF opt.single THEN "put_test" ELSE "put_shadow")
  <2>1. db' = [db EXCEPT !["test"].map[k] = testdata[k]]
    BY <1>3 DEF Stored, FirstPut, PutOrder
  <2>2. /\ db' \in [Databases -> [exists : BOOLEAN, map : Map]]
        /\ T' = [T EXCEPT ![k] = testdata[k]] /\ S' = S
    BY <1>1, <1>2, <2>1
  <2>3. faults' \in 0 .. MaxFaults /\ faults' = faults
    BY <1>3 DEF IInv, TypeOK
  <2>4. pc' = (IF opt.single THEN "put_test" ELSE "put_shadow") /\ code' = code
    BY <1>3 DEF Goto
  <2> QED BY <1>1, <2>2, <2>3, <2>4
<1>4. CASE Fault /\ Exit(ABORT) /\ UNCHANGED db
  BY <1>1, <1>4, M45Assumption DEF Fault, Exit, T, S, IInv, TypeOK
<1>5. CASE /\ Fault /\ Goto(IF opt.single THEN "put_test" ELSE "put_shadow")
           /\ \E v \in Values \cup {db["test"].map[k]} : db' = [db EXCEPT !["test"].map[k] = v]
  <2>1. PICK v \in Values0 : db' = [db EXCEPT !["test"].map[k] = v]
    BY <1>1, <1>5 DEF T
  <2>2. faults' \in 0 .. MaxFaults /\ faults' # 0
    BY <1>5, M45Assumption DEF Fault, IInv, TypeOK
  <2> QED BY <1>1, <1>2, <1>5, <2>1, <2>2 DEF Goto
<1> QED BY <1>3, <1>4, <1>5 DEF PutTest

LEMMA PutTestInv ==
    ASSUME IInv, NEW k \in Keys, PutTest(k)
    PROVE  IInv'
<1>1. /\ pc = "put_test" /\ todo' = (IF opt.single THEN todo \ {k} ELSE todo)
      /\ UNCHANGED <<fs, opt, testdata, runs, kills, deletes>>
      /\ ~ singles' => ~ singles /\ ~ opt.single
  BY DEF PutTest
<1>2. TypeOK'
  <2>1. pc' \in {"put_test", "put_shadow", "shell"} /\ code' \in {code, ABORT}
    BY PutTestFacts
  <2>2. singles' \in BOOLEAN
    BY DEF PutTest, IInv, TypeOK, Options
  <2> QED BY <1>1, <2>1, <2>2, PutTestFacts DEF IInv, TypeOK
<1>3. S' = S /\ KeysOf(S)' = KeysOf(S) /\ KeysOf(testdata)' = KeysOf(testdata)
  BY <1>1, PutTestFacts DEF KeysOf
<1>4. k \in todo /\ k \in KeysOf(testdata) /\ testdata[k] # Missing
  BY <1>1, PutTestFacts DEF IInv, PutInv, KeysOf
<1>5. PassInv'
  <2> SUFFICES ASSUME Judging' PROVE PassInv'
    BY DEF PassInv
  <2>1. Judging
    BY <1>1 DEF Judging
  <2>2. \/ pc' = "put_shadow" /\ todo' = todo /\ key' = k
        \/ pc' = "shell" /\ code' = ABORT
    BY <1>1, <2>1, PutTestFacts DEF Judging
  <2> QED BY <1>1, <1>3, <1>4, <2>1, <2>2 DEF IInv, PassInv, ABORT
<1>6. PutInv'
  <2>1. CASE pc' = "put_shadow"
    <3>1. faults' = 0 => T'[k] = testdata[k]
      <4>1. PICK v \in Values \cup {Missing} :
               T' = [T EXCEPT ![k] = v] /\ (faults' = 0 => v = testdata[k])
        BY <2>1, PutTestFacts
      <4> QED BY <4>1, Maps DEF IInv, Map
    <3>2. key' = k /\ todo' \subseteq todo /\ testdata' = testdata
      BY <1>1, PutTestFacts
    <3> QED BY <1>1, <1>3, <1>4, <2>1, <3>1, <3>2 DEF IInv, PutInv
  <2>2. CASE pc' # "put_shadow"
    BY <1>1, <1>3, <2>2 DEF IInv, PutInv
  <2> QED BY <2>1, <2>2
<1>7. ASSUME faults' = 0, ~ singles'
      PROVE  /\ faults = 0 /\ ~ singles /\ pc' = "put_shadow" /\ key' = k
             /\ T' = [T EXCEPT ![k] = testdata[k]]
             /\ Torn' \subseteq Torn \cup {k}
             /\ KeysOf(S) \subseteq KeysOf(T) => KeysOf(S)' \subseteq KeysOf(T)'
  <2>1. ~ opt.single
    BY <1>1, <1>7
  <2>2. /\ faults = 0 /\ ~ singles /\ pc' = "put_shadow" /\ key' = k
        /\ T' = [T EXCEPT ![k] = testdata[k]]
    BY <1>1, <1>7, <2>1, PutTestFacts
  <2>3. Torn = TornOf(T, S) /\ Torn' = TornOf(T', S) /\ T \in Map
    <3>1. Torn' = TornOf(T', S')
      BY <1>2, Maps DEF Torn, TornOf, T, S, KeysOf
    <3> QED BY <1>3, <3>1, Maps DEF IInv
  <2>4. \A j \in Keys : j # k => T'[j] = T[j]
    BY <2>2, <2>3 DEF Map
  <2>5. T'[k] # Missing
    BY <1>4, <2>2, <2>3 DEF Map
  <2>6. Torn' \subseteq Torn \cup {k}
    BY <2>3, <2>4 DEF TornOf, KeysOf
  <2>7. KeysOf(S) \subseteq KeysOf(T) => KeysOf(S)' \subseteq KeysOf(T)'
    BY <1>3, <2>4, <2>5 DEF KeysOf
  <2> QED BY <2>2, <2>6, <2>7
<1>8. QuietInv'
  BY <1>1, <1>7 DEF IInv, QuietInv
<1>9. TornInv'
  <2> SUFFICES ASSUME faults' = 0, ~ singles', ~ deletes'
               PROVE  /\ KeysOf(S)' \subseteq KeysOf(T)'
                      /\ Cardinality(IF pc' = "put_shadow" THEN Torn' \ {key'} ELSE Torn') <= kills'
    BY DEF TornInv
  <2>1. KeysOf(S) \subseteq KeysOf(T) /\ Cardinality(Torn) <= kills
    BY <1>1, <1>7 DEF IInv, TornInv
  <2>2. Torn' \ {k} \subseteq Torn
    BY <1>7
  <2>3. Cardinality(Torn' \ {k}) <= Cardinality(Torn) /\ Cardinality(Torn' \ {k}) \in Nat
    BY <2>2, Maps, FS_Subset DEF IInv
  <2> QED BY <1>1, <1>7, <2>1, <2>3, Maps DEF IInv, TypeOK
<1> QED BY <1>2, <1>5, <1>6, <1>8, <1>9 DEF IInv

----------------------------------------------------------------------------
(* Put into the shadow database. *)
LEMMA PutShadowInv ==
    ASSUME IInv, PutShadow
    PROVE  IInv'
<1>1. /\ pc = "put_shadow" /\ UNCHANGED <<fs, opt, testdata, key, runs, kills, singles, deletes>>
      /\ key \in KeysOf(testdata) /\ key \in Keys /\ testdata[key] # Missing /\ testdata[key] \in Values \cup {Missing}
      /\ T \in Map /\ S \in Map
      /\ "test" \in Databases /\ "shadow" \in Databases
  BY Maps DEF PutShadow, History, IInv, PutInv, KeysOf, TypeOK, Map, Databases
<1>2. CASE Stored("shadow", key) /\ todo' = todo \ {key} /\ Goto("put_test") /\ UNCHANGED faults
  <2>1. [S EXCEPT ![key] = testdata[key]] \in Map
    BY <1>1 DEF Map
  <2>2. db' = [db EXCEPT !["shadow"].map = [S EXCEPT ![key] = testdata[key]]]
    BY <1>2 DEF Stored, S, IInv, TypeOK, Databases
  <2>3. db' \in [Databases -> [exists : BOOLEAN, map : Map]]
    BY <1>1, <2>1, <2>2, DbTypes DEF IInv
  <2>4. T' = T /\ S' = [S EXCEPT ![key] = testdata[key]]
    BY <2>2 DEF T, S, IInv, TypeOK, Databases
  <2>5. pc' = "put_test" /\ code' = code /\ faults' = faults /\ todo' = todo \ {key}
    BY <1>2 DEF Goto
  <2>6. TypeOK'
    BY <1>1, <2>3, <2>5 DEF IInv, TypeOK
  <2>7. \A j \in Keys : S'[j] = IF j = key THEN testdata[key] ELSE S[j]
    BY <1>1, <2>4 DEF Map
  <2>8. KeysOf(testdata)' = KeysOf(testdata)
    BY <1>1 DEF KeysOf
  <2>9. PassInv'
    <3> SUFFICES ASSUME Judging' PROVE \A k \in KeysOf(testdata) \ (todo \ {key}) : S'[k] = testdata[k]
      BY <1>1, <2>5, <2>8 DEF PassInv, Judging, IInv, PutInv
    <3>1. Judging
      BY <1>1 DEF Judging
    <3> QED BY <1>1, <2>7, <3>1 DEF IInv, PassInv, KeysOf
  <2>10. PutInv'
    BY <1>1, <2>5, <2>8 DEF IInv, PutInv
  <2>11. KeysOf(S') = KeysOf(S) \cup {key} /\ KeysOf(S)' = KeysOf(S') /\ KeysOf(T)' = KeysOf(T)
    BY <1>1, <2>4, <2>7 DEF KeysOf
  <2>12. faults = 0 => Torn' = Torn \ {key} /\ T[key] = testdata[key] /\ key \in KeysOf(T)
    <3>1. faults = 0 => T[key] = testdata[key] /\ key \in KeysOf(T)
      BY <1>1 DEF IInv, PutInv, KeysOf
    <3>2. Torn = TornOf(T, S) /\ Torn' = TornOf(T, S')
      <4>1. Torn' = TornOf(T', S')
        BY DEF Torn, TornOf, T, S, KeysOf
      <4> QED BY <2>4, <4>1, Maps DEF IInv
    <3>3. ASSUME faults = 0 PROVE TornOf(T, S') = TornOf(T, S) \ {key}
      BY <2>7, <3>1, <3>3 DEF TornOf, KeysOf
    <3> QED BY <3>1, <3>2, <3>3
  <2>13. QuietInv'
    BY <1>1, <2>5, <2>12 DEF IInv, QuietInv
  <2>14. TornInv'
    BY <1>1, <2>5, <2>11, <2>12 DEF IInv, TornInv
  <2> QED BY <2>6, <2>9, <2>10, <2>13, <2>14 DEF IInv
<1>3. CASE Fault /\ Exit(ABORT) /\ UNCHANGED <<db, todo>>
  <2>1. faults' \in 0 .. MaxFaults /\ faults' # 0 /\ pc' = "shell" /\ code' = ABORT
    BY <1>3, M45Assumption DEF Fault, Exit, IInv, TypeOK
  <2>2. TypeOK'
    BY <1>1, <1>3, <2>1 DEF IInv, TypeOK
  <2> QED BY <1>1, <2>1, <2>2 DEF IInv, PassInv, PutInv, QuietInv, TornInv, ABORT
<1> QED BY <1>2, <1>3 DEF PutShadow, PutOrder

----------------------------------------------------------------------------
(* A step that leaves every variable as it is. *)
LEMMA StutterInv ==
    ASSUME IInv, UNCHANGED vars
    PROVE  IInv'
  BY DEF vars, IInv, TypeOK, PassInv, PutInv, QuietInv, TornInv, Judging, Torn, T, S, KeysOf

(***************************************************************************)
(* The inductive invariant holds in every state, for all keys, values and  *)
(* numbers of runs, kills and faults.                                      *)
(***************************************************************************)
THEOREM DriverInductive == Spec => []IInv
<1>1. IInv /\ [Next]_vars => IInv'
  <2> SUFFICES ASSUME IInv, Next PROVE IInv'
    BY StutterInv
  <2>1. CASE \E o \in Options : Start(o)
    BY <2>1, StartInv
  <2>2. CASE DeleteTest \/ DeleteShadow
    BY <2>2, DeleteInv
  <2>3. CASE OpenShadow \/ OpenTest
    BY <2>3, OpenInv
  <2>4. CASE \E f \in Map : Fill(f)
    BY <2>4, FillInv
  <2>5. CASE \E k \in Keys : PutTest(k) \/ Compare(k)
    BY <2>5, PutTestInv, CompareInv
  <2>6. CASE PutShadow \/ PutDone \/ Close \/ Kill
    BY <2>6, PutShadowInv, PutDoneInv, CloseInv, KillInv
  <2> QED BY <2>1, <2>2, <2>3, <2>4, <2>5, <2>6 DEF Next
<1> QED BY InitInv, <1>1, PTL DEF Spec

(* Every variable keeps its range: the databases hold entries of the keys. *)
THEOREM DriverTypes == Spec => []TypeOK
<1>1. IInv => TypeOK
  BY DEF IInv
<1> QED BY DriverInductive, <1>1, PTL

(* A run of m45_main.cc that wrote, compared and returned 0 has put each   *)
(* of its entries into the test database.                                  *)
THEOREM VerdictTrue == Spec => []PassMeansStored
<1>1. IInv => PassMeansStored
  BY DEF IInv, PassInv, PassMeansStored, Judging, T
<1> QED BY DriverInductive, <1>1, PTL

(* Databases that work and are not written alone are never found to        *)
(* differ.                                                                 *)
THEOREM NoAlarm == Spec => []NoFalseAlarm
<1>1. IInv => NoFalseAlarm
  BY DEF IInv, QuietInv, NoFalseAlarm
<1> QED BY DriverInductive, <1>1, PTL

(* Each kill leaves at most one torn entry, and no key is missing.         *)
THEOREM KillsTearOneEach == Spec => []KillTearsOne
<1>1. IInv => KillTearsOne
  BY TornCard DEF IInv, TornInv, KillTearsOne, T, S
<1> QED BY DriverInductive, <1>1, PTL
=============================================================================
