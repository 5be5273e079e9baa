---------------------------- MODULE DiscoveryProofs ----------------------------
(***************************************************************************)
(* Theorems about NvmeDiscovery: for every size of the log, number of      *)
(* changes, faults, fetches and retries, what a fetch of the discovery log *)
(* hands out, why it gives up, and what the kernel is asked for.           *)
(***************************************************************************)
EXTENDS NvmeDiscovery, TLAPS

USE DiscoveryAssumption

CountersInv ==
    /\ known \in Nat /\ late \in Nat
    /\ faults \in Nat /\ before \in 0 .. faults

(***************************************************************************)
(* While the records are read, the header's generation is the oldest in    *)
(* the buffer and each round has met at least one change.                  *)
(***************************************************************************)
BodyInv ==
    pc = "body" =>
        /\ numrec > 0 /\ off <= 2 * numrec + 1
        /\ genctr >= 1 /\ genctr >= since + retries
        /\ numrec = recs[genctr]
        /\ \A u \in 0 .. off - 1 : genctr <= log[0] /\ log[0] <= log[u]

(***************************************************************************)
(* When the header is read again genctr is the generation of the first     *)
(* unit, the oldest of the records; once that unit is read again, it is    *)
(* the newest, and the current one unless an event is pending.             *)
(***************************************************************************)
RereadInv ==
    pc = "reread" =>
        /\ numrec > 0 /\ off <= 1
        /\ genctr >= 1 /\ genctr >= since + retries
        /\ \E h \in since .. genctr : numrec = recs[h]
        /\ \A u \in 2 .. 2 * numrec + 1 : genctr <= log[u]
        /\ off = 0 => log[0] = genctr
        /\ off = 1 => /\ genctr <= log[0]
                      /\ \A u \in 2 .. 2 * numrec + 1 : log[u] <= log[0]
                      /\ log[0] = gen \/ event

HeaderInv == pc = "header" => off = 0 /\ retries = 0

FetchInv == HeaderInv /\ BodyInv /\ RereadInv

ResultInv == SnapshotOfOneGeneration /\ FreshOrNotified /\ ErrorsExplained

(***************************************************************************)
(* The options in the controller object are the user's but for two, also   *)
(* when the connect is repeated on an object already configured.           *)
(***************************************************************************)
ConnectInv ==
    /\ pc \in {"write", "read"} =>
        /\ cfg \ {"disable_sqflow"} = user \ {"ctrl_loss_tmo", "disable_sqflow"}
        /\ ("disable_sqflow" \in cfg) <=> sqflow
        /\ args = build_options(entry, cfg)
    /\ kernel.conns <= known + late + (IF pc = "read" THEN 1 ELSE 0)

IInv == TypeOK /\ CountersInv /\ FetchInv /\ ResultInv /\ ConnectInv /\ QuietConnects

----------------------------------------------------------------------------
LEMMA InitInv == Init => IInv
<1> SUFFICES ASSUME Init PROVE IInv
  OBVIOUS
<1>1. PICK n \in 0 .. MaxNumrec : recs = <<n>>
  BY DEF Init
<1>2. recs \in Seq(0 .. MaxNumrec) /\ gen = 1
  BY <1>1 DEF gen
<1>3. log \in [Units -> 0 .. gen] /\ off \in Units
  BY <1>2 DEF Init, Cleared, Units
<1>4. kernel \in [old : BOOLEAN, conns : Nat] /\ kernel.conns = 0
  BY DEF Init
<1>5. entry \in Entries
  BY DEF Init, DiscoveryCtrl, Entries
<1>6. TypeOK
  BY <1>2, <1>3, <1>4, <1>5 DEF Init, TypeOK
<1>7. CountersInv /\ FetchInv /\ QuietConnects
  BY DEF Init, CountersInv, FetchInv, HeaderInv, BodyInv, RereadInv, QuietConnects
<1>8. ResultInv
  BY DEF Init, ResultInv, SnapshotOfOneGeneration, FreshOrNotified, ErrorsExplained, QuietConnects, Fetched
<1>9. ConnectInv
  BY <1>4 DEF Init, ConnectInv
<1> QED BY <1>6, <1>7, <1>8, <1>9 DEF IInv

----------------------------------------------------------------------------
(* The log changes: older generations keep their number of records. *)
LEMMA ChangeInv == IInv /\ Change => IInv'
<1> SUFFICES ASSUME IInv, Change PROVE IInv'
  OBVIOUS
<1> USE DEF IInv, Change, fetchVars, connectVars, objectVars
<1>1. /\ recs' \in Seq(0 .. MaxNumrec) /\ gen' = gen + 1 /\ gen' \in 1 .. MaxChanges + 1
      /\ \A g \in 1 .. gen : recs'[g] = recs[g]
  BY DEF TypeOK, gen
<1>2. log' \in [Units -> 0 .. gen'] /\ genctr' \in 0 .. gen' /\ since' \in 1 .. gen'
  BY <1>1 DEF TypeOK
<1>3. TypeOK'
  BY <1>1, <1>2 DEF TypeOK
<1>4. CountersInv' /\ QuietConnects' /\ HeaderInv'
  BY DEF CountersInv, QuietConnects, FetchInv, HeaderInv
<1>g. gen \in Nat /\ genctr \in 0 .. gen /\ since \in 1 .. gen
  BY DEF TypeOK
<1>5. BodyInv'
  <2> SUFFICES ASSUME pc' = "body" PROVE BodyInv'
    BY DEF BodyInv
  <2>1. BodyInv /\ pc = "body"
    BY DEF FetchInv
  <2>2. recs'[genctr] = recs[genctr]
    <3> HIDE DEF IInv, Change
    <3>1. genctr \in 1 .. gen
      BY <1>g, <2>1 DEF BodyInv
    <3> QED BY <1>1, <3>1
  <2> QED BY <2>1, <2>2 DEF BodyInv
<1>6. RereadInv'
  <2> SUFFICES ASSUME pc' = "reread" PROVE RereadInv'
    BY DEF RereadInv
  <2>1. RereadInv /\ pc = "reread"
    BY DEF FetchInv
  <2>2. PICK h \in since .. genctr : numrec = recs[h]
    BY <2>1 DEF RereadInv
  <2>3. numrec = recs'[h]
    <3> HIDE DEF IInv, Change
    <3>1. h \in 1 .. gen
      BY <1>g, <2>2
    <3> QED BY <1>1, <2>2, <3>1
  <2>4. \E k \in since' .. genctr' : numrec' = recs'[k]
    BY <2>2, <2>3
  <2>5. event'
    OBVIOUS
  <2> QED BY <2>1, <2>4, <2>5 DEF RereadInv
<1>7. SnapshotOfOneGeneration'
  <2> SUFFICES ASSUME Fetched PROVE SnapshotOfOneGeneration'
    BY DEF SnapshotOfOneGeneration, Fetched
  <2>1. 0 \in Units /\ log[0] \in 0 .. gen
    BY DEF TypeOK, Units
  <2>2. SnapshotOfOneGeneration
    BY DEF ResultInv
  <2>3. recs'[log[0]] = recs[log[0]]
    <3> HIDE DEF IInv, Change
    <3>1. log[0] \in 1 .. gen
      BY <1>g, <2>1, <2>2 DEF SnapshotOfOneGeneration
    <3> QED BY <1>1, <3>1
  <2> QED BY <2>2, <2>3 DEF SnapshotOfOneGeneration
<1>8. FreshOrNotified' /\ ErrorsExplained'
  BY <1>1 DEF TypeOK, ResultInv, FreshOrNotified, ErrorsExplained, QuietConnects, Fetched
<1>9. ConnectInv'
  BY DEF ConnectInv, build_options
<1> QED BY <1>3, <1>4, <1>5, <1>6, <1>7, <1>8, <1>9 DEF FetchInv, ResultInv

(* What the steps of a fetch have in common. *)
LEMMA ConnectionAlone ==
    ASSUME IInv, connectVars' = connectVars, pc \notin {"write", "read"}, pc' \notin {"write", "read"}
    PROVE  ConnectInv' /\ kernel' \in [old : BOOLEAN, conns : Nat]
           /\ user' \subseteq Options /\ cfg' \subseteq Options /\ args' \subseteq Options
           /\ entry' \in Entries /\ sqflow' \in BOOLEAN
BY DEF IInv, TypeOK, ConnectInv, connectVars, objectVars, build_options

LEMMA GetLogInv == IInv /\ GetLog => IInv'
<1> SUFFICES ASSUME IInv, GetLog PROVE IInv'
  OBVIOUS
<1> USE DEF GetLog, ctrlVars
<1>1. /\ ConnectInv' /\ kernel' \in [old : BOOLEAN, conns : Nat]
      /\ user' \subseteq Options /\ cfg' \subseteq Options /\ args' \subseteq Options
      /\ entry' \in Entries /\ sqflow' \in BOOLEAN
  BY ConnectionAlone
<1>2. gen' = gen /\ gen \in 1 .. MaxChanges + 1
  BY DEF gen, IInv, TypeOK
<1>3. log' \in [Units -> 0 .. gen'] /\ off' \in Units /\ since' \in 1 .. gen'
  BY <1>2 DEF Cleared, Units
<1>4. TypeOK'
  BY <1>1, <1>2, <1>3 DEF IInv, TypeOK
<1>5. CountersInv' /\ QuietConnects'
  BY DEF IInv, CountersInv, QuietConnects, connectVars
<1>6. FetchInv'
  BY DEF FetchInv, HeaderInv, BodyInv, RereadInv
<1>7. ResultInv'
  BY DEF ResultInv, SnapshotOfOneGeneration, FreshOrNotified, ErrorsExplained, QuietConnects, Fetched
<1> QED BY <1>1, <1>4, <1>5, <1>6, <1>7 DEF IInv

(* What the steps of a fetch keep: the log, and the other half of IInv. *)
LEMMA FetchStep ==
    ASSUME IInv, recs' = recs, connectVars' = connectVars, since' = since, before' = before,
           faults' = faults \/ faults' = faults + 1,
           pc \in {"header", "body", "reread"},
           pc' \in {"idle", "header", "body", "reread"}, out' = out \/ out' # "failed",
           event' \in BOOLEAN, fd' = fd, calls' = calls,
           log' \in [Units -> 0 .. gen], off' \in Units,
           numrec' \in 0 .. MaxNumrec, genctr' \in 0 .. gen, retries' \in Nat
    PROVE  /\ TypeOK' /\ CountersInv' /\ ConnectInv' /\ QuietConnects'
           /\ gen' = gen /\ gen \in 1 .. MaxChanges + 1 /\ since \in 1 .. gen
<1>1. /\ ConnectInv' /\ kernel' \in [old : BOOLEAN, conns : Nat]
      /\ user' \subseteq Options /\ cfg' \subseteq Options /\ args' \subseteq Options
      /\ entry' \in Entries /\ sqflow' \in BOOLEAN
  BY ConnectionAlone
<1>2. gen' = gen /\ gen \in 1 .. MaxChanges + 1 /\ since \in 1 .. gen
  BY DEF gen, IInv, TypeOK
<1>3. TypeOK'
  BY <1>1, <1>2 DEF IInv, TypeOK
<1>4. CountersInv' /\ QuietConnects'
  BY DEF IInv, CountersInv, QuietConnects, connectVars
<1> QED BY <1>1, <1>2, <1>3, <1>4

(* The buffer after a transfer into the unit `off'. *)
LEMMA Buffer ==
    ASSUME IInv, NEW b, b = [log EXCEPT ![off] = gen]
    PROVE  /\ b \in [Units -> 0 .. gen] /\ b[off] = gen
           /\ \A u \in Units : u # off => b[u] = log[u]
           /\ \A u \in Units : log[u] \in 0 .. gen
           /\ off \in Nat /\ \A n \in 0 .. MaxNumrec : 0 .. 2 * n + 1 \subseteq Units
           /\ gen \in Nat \ {0}
<1>1. /\ gen \in Nat \ {0} /\ off \in Units /\ off \in Nat
      /\ log \in [Units -> 0 .. gen]
  BY DEF IInv, TypeOK, Units
<1>2. \A n \in 0 .. MaxNumrec : 0 .. 2 * n + 1 \subseteq Units
  BY DEF Units
<1> QED BY <1>1, <1>2

LEMMA NextUnitInv == IInv /\ NextUnit => IInv'
<1> SUFFICES ASSUME IInv, NextUnit PROVE IInv'
  OBVIOUS
<1> DEFINE b == [log EXCEPT ![off] = gen]
<1>b. /\ b \in [Units -> 0 .. gen] /\ b[off] = gen
      /\ \A u \in Units : u # off => b[u] = log[u]
      /\ \A u \in Units : log[u] \in 0 .. gen
      /\ off \in Nat /\ \A n \in 0 .. MaxNumrec : 0 .. 2 * n + 1 \subseteq Units
      /\ gen \in Nat \ {0}
  BY Buffer
<1>1. /\ pc \in {"body", "reread"} /\ pc' = pc /\ log' = b /\ off' = off + 1
      /\ recs' = recs /\ connectVars' = connectVars /\ since' = since /\ before' = before
      /\ faults' = faults /\ numrec' = numrec /\ genctr' = genctr /\ retries' = retries
      /\ out' = out /\ fd' = fd /\ calls' = calls
      /\ event' = event
      /\ off + 1 # Transfers(pc)
  BY DEF NextUnit, Transfer, Last, Transfers, IInv, FetchInv, HeaderInv, Rae, TypeOK
<1>2. numrec \in 0 .. MaxNumrec /\ genctr \in 0 .. gen /\ retries \in Nat /\ event \in BOOLEAN
  BY DEF IInv, TypeOK
<1>3. pc = "body" => off + 1 <= 2 * numrec + 1
  BY <1>1, <1>2, <1>b DEF IInv, FetchInv, BodyInv, Transfers
<1>4. pc = "reread" => off = 0
  BY <1>1, <1>b DEF IInv, FetchInv, RereadInv, Transfers
<1>5. off' \in Units
  <2>1. off + 1 \in 0 .. 2 * numrec + 1
    BY <1>1, <1>2, <1>3, <1>4, <1>b DEF IInv, FetchInv, RereadInv
  <2> QED BY <1>1, <1>2, <1>b, <2>1
<1>6. /\ TypeOK' /\ CountersInv' /\ ConnectInv' /\ QuietConnects'
      /\ gen' = gen /\ gen \in 1 .. MaxChanges + 1 /\ since \in 1 .. gen
  BY <1>b, <1>1, <1>2, <1>5, FetchStep
<1>7. HeaderInv'
  BY <1>1 DEF HeaderInv
<1>8. BodyInv'
  <2> SUFFICES ASSUME pc = "body" PROVE BodyInv'
    BY <1>1 DEF BodyInv
  <2>1. BodyInv
    BY DEF IInv, FetchInv
  <2>2. genctr \in 1 .. gen /\ off <= 2 * numrec + 1 /\ 0 \in Units /\ off \in Units
    BY <1>b, <1>2, <2>1 DEF BodyInv
  <2>3. \A u \in 0 .. off : genctr <= b[0] /\ b[0] <= b[u]
    <3>1. CASE off = 0
      BY <1>b, <2>2, <3>1
    <3>2. CASE off > 0
      <4>1. genctr <= log[0] /\ log[0] \in 0 .. gen /\ b[0] = log[0]
        BY <1>b, <2>1, <2>2, <3>2 DEF BodyInv
      <4>2. \A u \in 0 .. off - 1 : u \in Units /\ u # off /\ b[u] = log[u] /\ log[0] <= log[u]
        BY <1>b, <1>2, <2>1, <2>2 DEF BodyInv
      <4>3. \A u \in 0 .. off : u = off \/ u \in 0 .. off - 1
        BY <1>b
      <4> HIDE DEF b
      <4> QED BY <1>b, <4>1, <4>2, <4>3
    <3> QED BY <1>b, <3>1, <3>2
  <2>4. off' - 1 = off
    BY <1>1, <1>b
  <2> QED BY <1>1, <1>3, <2>1, <2>3, <2>4 DEF BodyInv
<1>9. RereadInv'
  <2> SUFFICES ASSUME pc = "reread" PROVE RereadInv'
    BY <1>1 DEF RereadInv
  <2>1. RereadInv /\ off = 0
    BY <1>4 DEF IInv, FetchInv
  <2>2. \A u \in 2 .. 2 * numrec + 1 : u \in Units /\ u # off /\ b[u] = log[u] /\ log[u] \in 0 .. gen
    BY <1>b, <1>2, <2>1
  <2>3. b[0] = gen /\ off' = 1
    BY <1>1, <1>b, <2>1
  <2> HIDE DEF b
  <2> QED BY <1>1, <1>2, <1>6, <2>1, <2>2, <2>3 DEF RereadInv
<1>10. ResultInv'
  BY <1>1, <1>6 DEF IInv, ResultInv, SnapshotOfOneGeneration, FreshOrNotified, ErrorsExplained, Fetched
<1> QED BY <1>6, <1>7, <1>8, <1>9, <1>10 DEF IInv, FetchInv

(***************************************************************************)
(* The head of the loop: the header in the buffer is that of generation g, *)
(* which is at least as many generations after the call as there were      *)
(* rounds.                                                                 *)
(***************************************************************************)
LEMMA RoundInv ==
    ASSUME IInv, NEW g \in 1 .. gen, NEW b \in [Units -> 0 .. gen], Round(g, b),
           recs' = recs, since' = since, b[0] = g, g = gen \/ event', g >= since + retries'
    PROVE  /\ HeaderInv' /\ BodyInv' /\ RereadInv'
           /\ SnapshotOfOneGeneration' /\ FreshOrNotified'
           /\ out' = out \/ out' = "ok"
           /\ pc' \in {"idle", "body"} /\ off' = 0 /\ numrec' = recs[g] /\ genctr' = g
           /\ log' \in [Units -> 0 .. gen]
<1>1. recs[g] \in 0 .. MaxNumrec /\ gen' = gen /\ gen \in Nat
  BY DEF IInv, TypeOK, gen
<1>2. Cleared \in [Units -> 0 .. gen]
  BY <1>1 DEF Cleared
<1>3. CASE recs[g] = 0
  BY <1>1, <1>3 DEF Round, Return, HeaderInv, BodyInv, RereadInv, SnapshotOfOneGeneration, FreshOrNotified, Fetched
<1>4. CASE recs[g] # 0
  BY <1>1, <1>2, <1>4 DEF Round, HeaderInv, BodyInv, RereadInv, SnapshotOfOneGeneration, FreshOrNotified, Fetched
<1> QED BY <1>3, <1>4

LEMMA HeaderReadInv == IInv /\ HeaderRead => IInv'
<1> SUFFICES ASSUME IInv, HeaderRead PROVE IInv'
  OBVIOUS
<1> DEFINE b == [log EXCEPT ![off] = gen]
<1>b. /\ b \in [Units -> 0 .. gen] /\ b[off] = gen
      /\ \A u \in Units : u # off => b[u] = log[u]
      /\ \A u \in Units : log[u] \in 0 .. gen
      /\ off \in Nat /\ \A n \in 0 .. MaxNumrec : 0 .. 2 * n + 1 \subseteq Units
      /\ gen \in Nat \ {0}
  BY Buffer
<1>t. /\ numrec \in 0 .. MaxNumrec /\ genctr \in 0 .. gen /\ retries \in Nat /\ event \in BOOLEAN
      /\ \A g \in 1 .. gen : recs[g] \in 0 .. MaxNumrec
      /\ 0 \in Units
  BY <1>b DEF IInv, TypeOK, gen, Units
<1>1. /\ pc = "header" /\ off = 0 /\ retries = 0 /\ Round(gen, b)
      /\ recs' = recs /\ connectVars' = connectVars /\ since' = since /\ before' = before
      /\ faults' = faults /\ retries' = retries /\ fd' = fd /\ calls' = calls
      /\ event' = event
  BY <1>t DEF HeaderRead, IInv, FetchInv, HeaderInv, Rae
<1>2. since \in 1 .. gen
  BY DEF IInv, TypeOK
<1>3. gen \in 1 .. gen /\ gen >= since + retries' /\ b[0] = gen
  BY <1>b, <1>1, <1>2
<1>4. /\ HeaderInv' /\ BodyInv' /\ RereadInv'
      /\ SnapshotOfOneGeneration' /\ FreshOrNotified'
      /\ out' = out \/ out' = "ok"
      /\ pc' \in {"idle", "body"} /\ off' = 0 /\ numrec' = recs[gen] /\ genctr' = gen
      /\ log' \in [Units -> 0 .. gen]
  <2> HIDE DEF b
  <2> QED BY <1>b, <1>1, <1>3, RoundInv
<1>5. /\ TypeOK' /\ CountersInv' /\ ConnectInv' /\ QuietConnects' /\ gen' = gen
  BY <1>b, <1>t, <1>1, <1>3, <1>4, FetchStep
<1>6. ErrorsExplained'
  BY <1>1, <1>4, <1>5 DEF IInv, ResultInv, ErrorsExplained
<1> QED BY <1>4, <1>5, <1>6 DEF IInv, FetchInv, ResultInv

LEMMA BodyReadInv == IInv /\ BodyRead => IInv'
<1> SUFFICES ASSUME IInv, BodyRead PROVE IInv'
  OBVIOUS
<1> DEFINE b == [log EXCEPT ![off] = gen]
<1>b. /\ b \in [Units -> 0 .. gen] /\ b[off] = gen
      /\ \A u \in Units : u # off => b[u] = log[u]
      /\ \A u \in Units : log[u] \in 0 .. gen
      /\ off \in Nat /\ \A n \in 0 .. MaxNumrec : 0 .. 2 * n + 1 \subseteq Units
      /\ gen \in Nat \ {0}
  BY Buffer
<1>t. /\ numrec \in 0 .. MaxNumrec /\ genctr \in 0 .. gen /\ retries \in Nat /\ event \in BOOLEAN
      /\ \A g \in 1 .. gen : recs[g] \in 0 .. MaxNumrec
      /\ 0 \in Units
  BY <1>b DEF IInv, TypeOK, gen, Units
<1>1. /\ pc = "body" /\ pc' = "reread" /\ log' = b /\ off' = 0 /\ genctr' = log[0]
      /\ recs' = recs /\ connectVars' = connectVars /\ since' = since /\ before' = before
      /\ faults' = faults /\ numrec' = numrec /\ retries' = retries
      /\ out' = out /\ fd' = fd /\ calls' = calls /\ event' \in BOOLEAN
      /\ off + 1 = 2 * numrec + 2
  BY DEF BodyRead, Transfer, Last, Transfers
<1>2. BodyInv /\ since \in 1 .. gen
  BY DEF IInv, TypeOK, FetchInv
<1>3. /\ numrec \in Nat \ {0} /\ off = 2 * numrec + 1 /\ genctr \in 1 .. gen
      /\ log[0] \in 0 .. gen /\ genctr <= log[0] /\ b[0] = log[0]
  BY <1>b, <1>t, <1>1, <1>2 DEF BodyInv
<1>4. /\ TypeOK' /\ CountersInv' /\ ConnectInv' /\ QuietConnects' /\ gen' = gen
  BY <1>b, <1>t, <1>1, <1>3, FetchStep
<1>5. \A u \in 2 .. 2 * numrec + 1 : genctr' <= b[u]
  <2>1. \A u \in 2 .. off - 1 : u \in Units /\ u # off /\ b[u] = log[u] /\ log[0] <= log[u]
    BY <1>b, <1>t, <1>1, <1>2, <1>3 DEF BodyInv
  <2>2. \A u \in 2 .. 2 * numrec + 1 : u = off \/ u \in 2 .. off - 1
    BY <1>3
  <2>3. genctr' <= b[off]
    BY <1>b, <1>1, <1>3
  <2> HIDE DEF b
  <2> QED BY <1>1, <2>1, <2>2, <2>3
<1>6. \E h \in since' .. genctr' : numrec' = recs'[h]
  BY <1>1, <1>2, <1>3, <1>t DEF BodyInv
<1>7. genctr' >= since' + retries' /\ genctr' >= 1
  BY <1>1, <1>2, <1>3, <1>t DEF BodyInv
<1>8. RereadInv' /\ HeaderInv' /\ BodyInv'
  <2> HIDE DEF b
  <2> QED BY <1>1, <1>3, <1>5, <1>6, <1>7 DEF RereadInv, HeaderInv, BodyInv
<1>9. ResultInv'
  BY <1>1, <1>4 DEF IInv, ResultInv, SnapshotOfOneGeneration, FreshOrNotified, ErrorsExplained, Fetched
<1> QED BY <1>4, <1>8, <1>9 DEF IInv, FetchInv

(***************************************************************************)
(* The header was read again: its generation is genctr, and then the       *)
(* records are of that generation too, or it is a later one, and the round *)
(* met a change.                                                           *)
(***************************************************************************)
LEMMA RereadStep == IInv /\ Reread => IInv'
<1> SUFFICES ASSUME IInv, Reread PROVE IInv'
  OBVIOUS
<1> DEFINE b == [log EXCEPT ![off] = gen]
<1>b. /\ b \in [Units -> 0 .. gen] /\ b[off] = gen
      /\ \A u \in Units : u # off => b[u] = log[u]
      /\ \A u \in Units : log[u] \in 0 .. gen
      /\ off \in Nat /\ \A n \in 0 .. MaxNumrec : 0 .. 2 * n + 1 \subseteq Units
      /\ gen \in Nat \ {0}
  BY Buffer
<1>t. /\ numrec \in 0 .. MaxNumrec /\ genctr \in 0 .. gen /\ retries \in Nat /\ event \in BOOLEAN
      /\ \A g \in 1 .. gen : recs[g] \in 0 .. MaxNumrec
      /\ 0 \in Units
  BY <1>b DEF IInv, TypeOK, gen, Units
<1>1. /\ pc = "reread" /\ off + 1 = 2
      /\ recs' = recs /\ connectVars' = connectVars /\ since' = since /\ before' = before
      /\ faults' = faults /\ fd' = fd /\ calls' = calls
      /\ event' = event
  BY <1>t DEF Reread, Last, Transfers, Rae
<1>2. RereadInv /\ since \in 1 .. gen /\ off = 1 /\ 1 \in Units
  BY <1>b, <1>t, <1>1 DEF IInv, TypeOK, FetchInv, Units
<1>3. /\ numrec \in Nat \ {0} /\ genctr \in 1 .. gen /\ genctr >= since + retries
      /\ log[0] \in 1 .. gen /\ genctr <= log[0] /\ b[0] = log[0]
      /\ log[0] = gen \/ event
      /\ \A u \in 2 .. 2 * numrec + 1 :
            u \in Units /\ u # off /\ b[u] = log[u] /\ genctr <= log[u] /\ log[u] <= log[0]
            /\ log[u] \in 0 .. gen
  BY <1>b, <1>t, <1>1, <1>2 DEF RereadInv
<1>4. CASE TryAgain(log[0])
  <2>1. Round(log[0], b) /\ retries' = retries + 1
    BY <1>4 DEF Reread
  <2>2. log[0] >= since + retries'
    BY <1>t, <1>2, <1>3, <1>4, <2>1 DEF TryAgain
  <2>3. /\ HeaderInv' /\ BodyInv' /\ RereadInv'
        /\ SnapshotOfOneGeneration' /\ FreshOrNotified'
        /\ out' = out \/ out' = "ok"
        /\ pc' \in {"idle", "body"} /\ off' = 0 /\ numrec' = recs[log[0]] /\ genctr' = log[0]
        /\ log' \in [Units -> 0 .. gen]
    <3> HIDE DEF b
    <3> QED BY <1>b, <1>1, <1>3, <2>1, <2>2, RoundInv
  <2>4. /\ TypeOK' /\ CountersInv' /\ ConnectInv' /\ QuietConnects' /\ gen' = gen
    BY <1>b, <1>t, <1>1, <1>3, <2>1, <2>3, FetchStep
  <2>5. ErrorsExplained'
    BY <1>1, <2>3, <2>4 DEF IInv, ResultInv, ErrorsExplained
  <2> QED BY <2>3, <2>4, <2>5 DEF IInv, FetchInv, ResultInv
<1>5. CASE ~ TryAgain(log[0])
  <2>1. /\ pc' = "idle" /\ out' = Verdict(log[0]) /\ log' = b
        /\ off' = off /\ numrec' = numrec /\ genctr' = genctr /\ retries' = retries
    BY <1>5 DEF Reread, Return
  <2>2. out' \in {"EAGAIN", "EBADSLT", "ok"}
    BY <2>1 DEF Verdict
  <2>3. /\ TypeOK' /\ CountersInv' /\ ConnectInv' /\ QuietConnects' /\ gen' = gen
    BY <1>b, <1>t, <1>1, <1>2, <2>1, <2>2, FetchStep
  <2>4. FetchInv'
    BY <2>1 DEF FetchInv, HeaderInv, BodyInv, RereadInv
  <2>5. ErrorsExplained'
    <3>1. CASE out' = "EAGAIN"
      <4>1. genctr # log[0]
        BY <2>1, <3>1 DEF Verdict
      <4>2. gen >= since + retries + 1 /\ retries + 1 >= MaxRetries
        <5>1. ~ (retries + 1 < MaxRetries)
          BY <1>5, <4>1 DEF TryAgain
        <5>2. log[0] >= genctr + 1 /\ gen >= log[0]
          BY <1>b, <1>3, <4>1
        <5> HIDE DEF b
        <5> QED BY <1>b, <1>t, <1>2, <1>3, <5>1, <5>2
      <4>3. gen - since >= 1 /\ gen - since >= MaxRetries
        BY <1>b, <1>t, <1>2, <4>2
      <4> QED BY <1>1, <2>3, <3>1, <4>3 DEF ErrorsExplained
    <3>2. CASE out' = "EBADSLT"
      <4>1. genctr = log[0] /\ numrec # recs[log[0]]
        BY <2>1, <3>2 DEF Verdict
      <4>2. PICK h \in since .. genctr : numrec = recs[h]
        BY <1>1, <1>2 DEF RereadInv
      <4>3. gen > since
        <5>1. h # genctr
          BY <4>1, <4>2
        <5> HIDE DEF b
        <5> QED BY <1>b, <1>2, <1>3, <4>2, <5>1
      <4> QED BY <1>1, <2>3, <3>2, <4>3 DEF ErrorsExplained
    <3>3. CASE out' = "ok"
      BY <2>3, <3>3 DEF ErrorsExplained
    <3> QED BY <2>2, <3>1, <3>2, <3>3
  <2>6. SnapshotOfOneGeneration' /\ FreshOrNotified'
    <3> SUFFICES ASSUME out' = "ok" PROVE SnapshotOfOneGeneration' /\ FreshOrNotified'
      BY DEF SnapshotOfOneGeneration, FreshOrNotified, Fetched
    <3>1. genctr = log[0] /\ numrec = recs[log[0]]
      BY <2>1 DEF Verdict
    <3>2. \A u \in (0 .. 2 * numrec + 1) \ {1} : b[u] = b[0]
      <4>1. \A u \in (0 .. 2 * numrec + 1) \ {1} : u = 0 \/ u \in 2 .. 2 * numrec + 1
        BY <1>3
      <4>2. \A u \in 2 .. 2 * numrec + 1 : b[u] = log[0]
        BY <1>3, <3>1
      <4> HIDE DEF b
      <4> QED BY <1>3, <4>1, <4>2
    <3> HIDE DEF b
    <3> QED BY <1>1, <1>3, <2>1, <2>3, <3>1, <3>2 DEF SnapshotOfOneGeneration, FreshOrNotified, Fetched
  <2> QED BY <2>3, <2>4, <2>5, <2>6 DEF IInv, ResultInv
<1> QED BY <1>4, <1>5

(* A read beyond the end of the log fails only after a change. *)
LEMMA TransferFailsInv == IInv /\ TransferFails => IInv'
<1> SUFFICES ASSUME IInv, TransferFails PROVE IInv'
  OBVIOUS
<1> DEFINE b == [log EXCEPT ![off] = gen]
<1>b. /\ b \in [Units -> 0 .. gen] /\ b[off] = gen
      /\ \A u \in Units : u # off => b[u] = log[u]
      /\ \A u \in Units : log[u] \in 0 .. gen
      /\ off \in Nat /\ \A n \in 0 .. MaxNumrec : 0 .. 2 * n + 1 \subseteq Units
      /\ gen \in Nat \ {0}
  BY Buffer
<1>t. /\ numrec \in 0 .. MaxNumrec /\ genctr \in 0 .. gen /\ retries \in Nat /\ event \in BOOLEAN
      /\ \A g \in 1 .. gen : recs[g] \in 0 .. MaxNumrec
      /\ 0 \in Units
  BY <1>b DEF IInv, TypeOK, gen, Units
<1>1. /\ pc \in {"header", "body", "reread"} /\ pc' = "idle" /\ out' = "EIO"
      /\ recs' = recs /\ connectVars' = connectVars /\ since' = since /\ before' = before
      /\ event' = event /\ fd' = fd /\ calls' = calls
      /\ log' = log /\ off' = off /\ numrec' = numrec /\ genctr' = genctr /\ retries' = retries
      /\ \/ faults' = faults + 1
         \/ off >= 2 * recs[gen] + 2 /\ faults' = faults
  BY DEF TransferFails, Fault, Return, ctrlVars, fetchVars
<1>2. off \in Units /\ log \in [Units -> 0 .. gen] /\ since \in 1 .. gen
      /\ recs[gen] \in Nat
  BY <1>b, <1>t DEF IInv, TypeOK
<1>3. /\ TypeOK' /\ CountersInv' /\ ConnectInv' /\ QuietConnects' /\ gen' = gen
  BY <1>t, <1>1, <1>2, FetchStep
<1>4. FetchInv'
  BY <1>1 DEF FetchInv, HeaderInv, BodyInv, RereadInv
<1>5. SnapshotOfOneGeneration' /\ FreshOrNotified'
  BY <1>1 DEF SnapshotOfOneGeneration, FreshOrNotified, Fetched
<1>6. gen > since \/ faults' > before
  <2>1. CASE faults' = faults + 1
    BY <2>1 DEF IInv, CountersInv
  <2>2. CASE off >= 2 * recs[gen] + 2
    <3>1. pc = "body"
      BY <1>b, <1>1, <1>2, <2>2 DEF IInv, FetchInv, HeaderInv, RereadInv
    <3>2. /\ numrec = recs[genctr] /\ off <= 2 * numrec + 1
          /\ genctr >= since + retries
      BY <3>1 DEF IInv, FetchInv, BodyInv
    <3>3. genctr # gen
      BY <1>b, <1>t, <1>2, <2>2, <3>2
    <3> QED BY <1>b, <1>t, <1>2, <3>2, <3>3
  <2> QED BY <1>1, <2>1, <2>2
<1>7. ErrorsExplained'
  BY <1>1, <1>3, <1>6 DEF ErrorsExplained
<1> QED BY <1>3, <1>4, <1>5, <1>7 DEF IInv, ResultInv

----------------------------------------------------------------------------
(* Connecting.  The objects a connect works on, as they have to be. *)
ObjectsOK ==
    /\ entry \in Entries /\ sqflow \in BOOLEAN
    /\ user \subseteq Options /\ cfg \subseteq Options /\ args \subseteq Options

ObjectsMatch ==
    /\ cfg \ {"disable_sqflow"} = user \ {"ctrl_loss_tmo", "disable_sqflow"}
    /\ ("disable_sqflow" \in cfg) <=> sqflow
    /\ args = build_options(entry, cfg)

(* merge_config, a second time too, leaves the user's options. *)
LEMMA AddCtrlObjects ==
    ASSUME NEW e \in Entries, NEW c \in SUBSET Options, NEW u \in SUBSET Options,
           NEW disable \in BOOLEAN, AddCtrl(e, c, u, disable),
           c \ {"disable_sqflow"} \subseteq u \ {"ctrl_loss_tmo", "disable_sqflow"}
    PROVE  ObjectsOK' /\ ObjectsMatch' /\ pc' = "write"
<1>1. /\ entry' = e /\ user' = u /\ sqflow' = disable /\ pc' = "write"
      /\ cfg' = Configured(c, u, disable) /\ args' = build_options(entry', cfg')
  BY DEF AddCtrl
<1>2. "disable_sqflow" \in Options /\ "disable_sqflow" # "ctrl_loss_tmo"
  BY DEF Options, Switches
<1>3. cfg' \subseteq Options
  BY <1>1, <1>2 DEF Configured, merge_config
<1>4. args' \subseteq Options
  BY <1>1, <1>3 DEF build_options
<1>5. cfg' \ {"disable_sqflow"} = user' \ {"ctrl_loss_tmo", "disable_sqflow"}
  BY <1>1 DEF Configured, merge_config
<1>6. ("disable_sqflow" \in cfg') <=> sqflow'
  BY <1>1 DEF Configured
<1> QED BY <1>1, <1>3, <1>4, <1>5, <1>6 DEF ObjectsOK, ObjectsMatch

LEMMA ReturnObjects ==
    ASSUME NEW r, ConnectReturn(r)
    PROVE  ObjectsOK' /\ pc' = "idle" /\ out' = r
BY DEF ConnectReturn, Return, ObjectsOK, DiscoveryCtrl, Entries

(* A connect that fails is over, or is being repeated. *)
LEMMA FailedObjects ==
    ASSUME IInv, pc \in {"write", "read"}, NEW errno, ConnectFailed(errno)
    PROVE  /\ ObjectsOK'
           /\ \/ pc' = "write" /\ out' = out /\ ObjectsMatch'
              \/ pc' = "idle" /\ out' = "failed" /\ ~ (errno = "EINVAL" /\ sqflow)
<1>1. ObjectsOK /\ ObjectsMatch
  BY DEF IInv, TypeOK, ConnectInv, ObjectsOK, ObjectsMatch
<1>2. CASE errno = "EINVAL" /\ sqflow
  <2>1. AddCtrl(entry, cfg, user, FALSE) /\ out' = out
    BY <1>2 DEF ConnectFailed
  <2>2. ObjectsOK' /\ ObjectsMatch' /\ pc' = "write"
    BY <1>1, <2>1, AddCtrlObjects DEF ObjectsOK, ObjectsMatch
  <2> QED BY <2>1, <2>2
<1>3. CASE ~ (errno = "EINVAL" /\ sqflow)
  BY <1>3, ReturnObjects DEF ConnectFailed
<1> QED BY <1>2, <1>3

(* What the steps of a connect have in common: they leave the log as it is *)
(* or drop it, they count their faults, late answers and connections, and  *)
(* they move on or return.                                                 *)
LogSame ==
    /\ recs' = recs /\ event' = event /\ since' = since /\ calls' = calls /\ off' = off
    /\ log' = log \/ log' = Cleared
    /\ numrec' = numrec \/ numrec' = 0
    /\ genctr' = genctr \/ genctr' = 0
    /\ retries' = retries \/ retries' = 0

Counted ==
    /\ before' = before \/ (before' = faults /\ out' \in {"none", "ok", "unsupported"})
    /\ faults' = faults \/ faults' = faults + 1
    /\ late' = late \/ late' = late + 1
    /\ known' = known \/ known' = known + 1

KernelMoved ==
    /\ fd' \in BOOLEAN /\ kernel' \in [old : BOOLEAN, conns : Nat]
    /\ kernel'.conns <= known' + late' + (IF pc' = "read" THEN 1 ELSE 0)

MovedOn ==
    /\ ObjectsOK'
    /\ pc' \in {"write", "read"} => ObjectsMatch'
    /\ pc' \in {"write", "read"} \/ (pc' = "idle" /\ out' # "ok")
    /\ out' = out \/ out' \in {"connected", "failed", "unsupported"}

FailedForCause == out' = "failed" => (faults' > before' \/ late' > 0)

LEMMA ConnectStep ==
    ASSUME IInv, LogSame, Counted, KernelMoved, MovedOn, FailedForCause
    PROVE  IInv'
<1> USE DEF LogSame, Counted, KernelMoved, MovedOn, FailedForCause
<1>1. gen' = gen /\ gen \in 1 .. MaxChanges + 1 /\ recs' \in Seq(0 .. MaxNumrec)
  BY DEF gen, IInv, TypeOK
<1>2. log' \in [Units -> 0 .. gen']
  BY <1>1 DEF IInv, TypeOK, Cleared
<1>3. /\ numrec' \in 0 .. MaxNumrec /\ genctr' \in 0 .. gen' /\ retries' \in Nat
      /\ off' \in Units /\ event' \in BOOLEAN /\ since' \in 1 .. gen'
  BY <1>1 DEF IInv, TypeOK
<1>4. TypeOK'
  BY <1>1, <1>2, <1>3 DEF TypeOK, ObjectsOK
<1>5. CountersInv'
  BY DEF IInv, CountersInv
<1>6. FetchInv'
  BY DEF FetchInv, HeaderInv, BodyInv, RereadInv
<1>7. SnapshotOfOneGeneration' /\ FreshOrNotified'
  BY DEF SnapshotOfOneGeneration, FreshOrNotified, Fetched
<1>8. QuietConnects'
  BY DEF QuietConnects
<1>9. ErrorsExplained'
  <2>1. ErrorsExplained /\ faults \in Nat
    BY DEF IInv, ResultInv, CountersInv
  <2> QED BY <1>1, <1>8, <2>1 DEF ErrorsExplained, IInv, CountersInv
<1>10. ConnectInv'
  BY DEF ConnectInv, ObjectsMatch
<1> QED BY <1>4, <1>5, <1>6, <1>7, <1>8, <1>9, <1>10 DEF IInv, ResultInv

LEMMA ChoicesAreOptions == Choices \subseteq SUBSET Options
BY DEF Choices, Options

LEMMA Kernel ==
    ASSUME IInv
    PROVE  /\ kernel \in [old : BOOLEAN, conns : Nat] /\ kernel.conns \in Nat
           /\ known \in Nat /\ late \in Nat /\ faults \in Nat /\ before \in 0 .. faults
           /\ kernel.conns <= known + late + (IF pc = "read" THEN 1 ELSE 0)
           /\ fd \in BOOLEAN
           /\ ObjectsOK
           /\ pc \in {"write", "read"} => ObjectsMatch
BY DEF IInv, TypeOK, CountersInv, ConnectInv, ObjectsOK, ObjectsMatch

LEMMA DiscoverInv == IInv /\ Discover => IInv'
<1> SUFFICES ASSUME IInv, Discover PROVE IInv'
  OBVIOUS
<1>1. PICK u \in Choices : AddCtrl(DiscoveryCtrl, {}, u, FALSE)
  BY DEF Discover
<1>2. DiscoveryCtrl \in Entries
  BY DEF DiscoveryCtrl, Entries
<1>3. ObjectsOK' /\ ObjectsMatch' /\ pc' = "write"
  BY <1>1, <1>2, AddCtrlObjects, ChoicesAreOptions
<1>4. /\ pc = "idle" /\ out = "none" /\ out' = out /\ before' = faults
      /\ recs' = recs /\ event' = event /\ since' = since /\ calls' = calls /\ off' = off
      /\ log' = log /\ numrec' = numrec /\ genctr' = genctr /\ retries' = retries
      /\ fd' = fd /\ faults' = faults /\ kernel' = kernel /\ known' = known /\ late' = late
  BY DEF Discover, ctrlVars, fetchVars
<1>5. LogSame /\ Counted /\ KernelMoved /\ MovedOn /\ FailedForCause
  BY <1>3, <1>4, Kernel DEF LogSame, Counted, KernelMoved, MovedOn, FailedForCause
<1> QED BY <1>5, ConnectStep

LEMMA ConnectEntryInv ==
    ASSUME IInv, NEW e \in Entries, NEW u \in Choices, ConnectEntry(e, u)
    PROVE  IInv'
<1>1. /\ pc = "idle" /\ out = "ok" /\ before' = faults
      /\ recs' = recs /\ event' = event /\ since' = since /\ calls' = calls /\ off' = off
      /\ log' = Cleared /\ numrec' = 0 /\ genctr' = 0 /\ retries' = 0
      /\ fd' = fd /\ faults' = faults /\ kernel' = kernel /\ known' = known /\ late' = late
  BY DEF ConnectEntry, ctrlVars
<1>2. CASE Supported(e)
  <2>1. AddCtrl(e, {}, u, e.sqflow) /\ out' = out
    BY <1>2 DEF ConnectEntry
  <2>2. e.sqflow \in BOOLEAN
    BY DEF Entries
  <2>3. ObjectsOK' /\ ObjectsMatch' /\ pc' = "write"
    BY <2>1, <2>2, AddCtrlObjects, ChoicesAreOptions
  <2>k. KernelMoved
    BY <1>1, <2>1, <2>3, Kernel DEF KernelMoved
  <2>f. FailedForCause
    BY <1>1, <2>1, <2>3, Kernel DEF FailedForCause
  <2>o. MovedOn
    BY <1>1, <2>1, <2>3 DEF MovedOn
  <2>l. LogSame
    BY <1>1, <2>1, <2>3 DEF LogSame
  <2>c. Counted
    BY <1>1, <2>1, <2>3, Kernel DEF Counted
  <2> QED BY <2>l, <2>c, <2>k, <2>f, <2>o, ConnectStep
<1>3. CASE ~ Supported(e)
  <2>1. ConnectReturn("unsupported")
    BY <1>3 DEF ConnectEntry
  <2>2. ObjectsOK' /\ pc' = "idle" /\ out' = "unsupported"
    BY <2>1, ReturnObjects
  <2>3. LogSame /\ Counted /\ KernelMoved /\ MovedOn /\ FailedForCause
    BY <1>1, <2>2, Kernel DEF LogSame, Counted, KernelMoved, MovedOn, FailedForCause
  <2> QED BY <2>3, ConnectStep
<1> QED BY <1>2, <1>3

LEMMA WriteInv == IInv /\ Write => IInv'
<1> SUFFICES ASSUME IInv, Write PROVE IInv'
  OBVIOUS
<1>1. /\ pc = "write" /\ pc' = "read" /\ out' = out /\ before' = before
      /\ recs' = recs /\ event' = event /\ since' = since /\ calls' = calls /\ off' = off
      /\ log' = log /\ numrec' = numrec /\ genctr' = genctr /\ retries' = retries
      /\ fd' = fd /\ faults' = faults /\ known' = known /\ late' = late
      /\ kernel' = [kernel EXCEPT !.conns = @ + 1] /\ objectVars' = objectVars
  BY DEF Write, Unchanged, ctrlVars, fetchVars
<1>2. kernel' \in [old : BOOLEAN, conns : Nat] /\ kernel'.conns = kernel.conns + 1
  BY <1>1, Kernel
<1>3. ObjectsOK' /\ ObjectsMatch'
  BY <1>1, Kernel DEF ObjectsOK, ObjectsMatch, objectVars, build_options
<1>k. KernelMoved
  BY <1>1, <1>2, <1>3, Kernel DEF KernelMoved
<1>f. FailedForCause
  BY <1>1, <1>2, <1>3, Kernel DEF IInv, QuietConnects, FailedForCause
<1>o. MovedOn
  BY <1>1, <1>2, <1>3 DEF MovedOn
<1>l. LogSame
  BY <1>1, <1>2, <1>3 DEF LogSame
<1>c. Counted
  BY <1>1, <1>2, <1>3, Kernel DEF Counted
<1> QED BY <1>l, <1>c, <1>k, <1>f, <1>o, ConnectStep

(* Of the refusals that are nobody's fault, an unknown disable_sqflow is   *)
(* repeated without, and an existing connection was left behind before.    *)
LEMMA WriteFailsInv == IInv /\ WriteFails => IInv'
<1> SUFFICES ASSUME IInv, WriteFails PROVE IInv'
  OBVIOUS
<1>1. /\ pc = "write" /\ before' = before
      /\ recs' = recs /\ event' = event /\ since' = since /\ calls' = calls /\ off' = off
      /\ log' = log /\ numrec' = numrec /\ genctr' = genctr /\ retries' = retries
      /\ fd' = fd /\ known' = known /\ late' = late /\ kernel' = kernel
  BY DEF WriteFails, Unchanged, ctrlVars, fetchVars
<1>2. PICK errno \in {"EINVAL", "EALREADY", "ECONNREFUSED"} :
         /\ ConnectFailed(errno)
         /\ \/ errno = "EINVAL" /\ "disable_sqflow" \in args /\ faults' = faults
            \/ late > 0 /\ faults' = faults
            \/ faults' = faults + 1
  BY DEF WriteFails, Fault
<1>3. /\ ObjectsOK'
      /\ \/ pc' = "write" /\ out' = out /\ ObjectsMatch'
         \/ pc' = "idle" /\ out' = "failed" /\ ~ (errno = "EINVAL" /\ sqflow)
  BY <1>1, <1>2, FailedObjects
<1>4. "disable_sqflow" \in args => sqflow
  BY <1>1, Kernel DEF ObjectsMatch, build_options
<1>5. out' = "failed" => (faults' > before' \/ late' > 0)
  BY <1>1, <1>2, <1>3, <1>4, Kernel DEF IInv, QuietConnects
<1>k. KernelMoved
  BY <1>1, <1>2, <1>3, <1>5, Kernel DEF KernelMoved
<1>f. FailedForCause
  BY <1>1, <1>2, <1>3, <1>5, Kernel DEF FailedForCause
<1>o. MovedOn
  BY <1>1, <1>2, <1>3, <1>5 DEF MovedOn
<1>l. LogSame
  BY <1>1, <1>2, <1>3, <1>5 DEF LogSame
<1>c. Counted
  BY <1>1, <1>2, <1>3, <1>5, Kernel DEF Counted
<1> QED BY <1>l, <1>c, <1>k, <1>f, <1>o, ConnectStep

LEMMA AnswerFailsInv == IInv /\ AnswerFails => IInv'
<1> SUFFICES ASSUME IInv, AnswerFails PROVE IInv'
  OBVIOUS
<1>1. /\ pc = "read" /\ before' = before
      /\ recs' = recs /\ event' = event /\ since' = since /\ calls' = calls /\ off' = off
      /\ log' = log /\ numrec' = numrec /\ genctr' = genctr /\ retries' = retries
      /\ fd' = fd /\ known' = known /\ late' = late + 1 /\ kernel' = kernel
      /\ faults' = faults + 1
  BY DEF AnswerFails, Fault, Unchanged, ctrlVars, fetchVars
<1>2. PICK errno : ConnectFailed(errno)
  BY DEF AnswerFails
<1>3. /\ ObjectsOK'
      /\ \/ pc' = "write" /\ out' = out /\ ObjectsMatch'
         \/ pc' = "idle" /\ out' = "failed"
  BY <1>1, <1>2, FailedObjects
<1>k. KernelMoved
  BY <1>1, <1>3, Kernel DEF KernelMoved
<1>f. FailedForCause
  BY <1>1, <1>3, Kernel DEF FailedForCause
<1>o. MovedOn
  BY <1>1, <1>3 DEF MovedOn
<1>l. LogSame
  BY <1>1, <1>3 DEF LogSame
<1>c. Counted
  BY <1>1, <1>3, Kernel DEF Counted
<1> QED BY <1>l, <1>c, <1>k, <1>f, <1>o, ConnectStep

LEMMA AnswerInv == IInv /\ Answer => IInv'
<1> SUFFICES ASSUME IInv, Answer PROVE IInv'
  OBVIOUS
<1>1. /\ pc = "read" /\ before' = before
      /\ recs' = recs /\ event' = event /\ since' = since /\ calls' = calls /\ off' = off
      /\ log' = log /\ numrec' = numrec /\ genctr' = genctr /\ retries' = retries
      /\ kernel' = kernel
  BY DEF Answer, Unchanged, ctrlVars, fetchVars
<1>2. CASE Connected /\ faults' = faults /\ late' = late
  <2>1. ObjectsOK' /\ pc' = "idle" /\ out' = "connected"
    BY <1>2, ReturnObjects DEF Connected
  <2>2. known' = known + 1 /\ fd' = TRUE
    BY <1>2 DEF Connected
  <2>k. KernelMoved
    BY <1>1, <1>2, <2>1, <2>2, Kernel DEF KernelMoved
  <2>f. FailedForCause
    BY <1>1, <1>2, <2>1, <2>2, Kernel DEF FailedForCause
  <2>o. MovedOn
    BY <1>1, <1>2, <2>1, <2>2 DEF MovedOn
  <2>l. LogSame
    BY <1>1, <1>2, <2>1, <2>2 DEF LogSame
  <2>c. Counted
    BY <1>1, <1>2, <2>1, <2>2, Kernel DEF Counted
  <2> QED BY <2>l, <2>c, <2>k, <2>f, <2>o, ConnectStep
<1>3. CASE Fault /\ late' = late + 1 /\ ConnectFailed("ENODEV") /\ fd' = fd /\ known' = known
  <2>1. /\ ObjectsOK'
        /\ \/ pc' = "write" /\ out' = out /\ ObjectsMatch'
           \/ pc' = "idle" /\ out' = "failed"
    BY <1>1, <1>3, FailedObjects
  <2>2. faults' = faults + 1
    BY <1>3 DEF Fault
  <2>k. KernelMoved
    BY <1>1, <1>3, <2>1, <2>2, Kernel DEF KernelMoved
  <2>f. FailedForCause
    BY <1>1, <1>3, <2>1, <2>2, Kernel DEF FailedForCause
  <2>o. MovedOn
    BY <1>1, <1>3, <2>1, <2>2 DEF MovedOn
  <2>l. LogSame
    BY <1>1, <1>3, <2>1, <2>2 DEF LogSame
  <2>c. Counted
    BY <1>1, <1>3, <2>1, <2>2, Kernel DEF Counted
  <2> QED BY <2>l, <2>c, <2>k, <2>f, <2>o, ConnectStep
<1> QED BY <1>2, <1>3 DEF Answer

----------------------------------------------------------------------------
(***************************************************************************)
(* The inductive invariant holds in every state, for every size of log and *)
(* number of changes, faults, fetches and retries.                         *)
(***************************************************************************)
THEOREM DiscoveryInductive == Spec => []IInv
<1>1. IInv /\ [Next]_vars => IInv'
  <2> SUFFICES ASSUME IInv, [Next]_vars PROVE IInv'
    OBVIOUS
  <2>1. CASE UNCHANGED vars
    BY <2>1 DEF vars, ctrlVars, fetchVars, connectVars, objectVars, IInv, TypeOK, CountersInv,
                FetchInv, HeaderInv, BodyInv, RereadInv, ResultInv, SnapshotOfOneGeneration,
                FreshOrNotified, ErrorsExplained, QuietConnects, ConnectInv, Fetched, gen, build_options
  <2>2. CASE Next
    BY <2>2, ChangeInv, GetLogInv, NextUnitInv, HeaderReadInv, BodyReadInv, RereadStep,
       TransferFailsInv, DiscoverInv, ConnectEntryInv, WriteInv, WriteFailsInv, AnswerFailsInv,
       AnswerInv DEF Next
  <2> QED BY <2>1, <2>2
<1> QED BY InitInv, <1>1, PTL DEF Spec

(* Buffer, counters and options keep their ranges: no transfer goes beyond *)
(* the buffer allocated for the records.                                   *)
THEOREM DiscoveryTypes == Spec => []TypeOK
<1>1. IInv => TypeOK
  BY DEF IInv
<1> QED BY DiscoveryInductive, <1>1, PTL

(* nvmf_get_discovery_log hands out one generation of the log. *)
THEOREM OneGeneration == Spec => []SnapshotOfOneGeneration
<1>1. IInv => SnapshotOfOneGeneration
  BY DEF IInv, ResultInv
<1> QED BY DiscoveryInductive, <1>1, PTL

(* No change of the log goes unnoticed. *)
THEOREM NoChangeMissed == Spec => []FreshOrNotified
<1>1. IInv => FreshOrNotified
  BY DEF IInv, ResultInv
<1> QED BY DiscoveryInductive, <1>1, PTL

(* A fetch or a connect gives up only for the reasons it may have. *)
THEOREM OnlyForCause == Spec => []ErrorsExplained
<1>1. IInv => ErrorsExplained
  BY DEF IInv, ResultInv
<1> QED BY DiscoveryInductive, <1>1, PTL

(* The kernel is told what the user asked for, as OptionsArrive says. *)
THEOREM KernelIsTold == Spec => []OptionsArrive
<1>1. IInv => OptionsArrive
  <2> SUFFICES ASSUME IInv, pc = "read", NEW o \in Options \ {"ctrl_loss_tmo", "disable_sqflow"}
               PROVE  o \in args <=> /\ o \in user
                                     /\ o \in QueueOptions => entry.subtype # "disc"
                                     /\ o \in LossOptions => entry.trtype # "loop"
                                     /\ o \in DigestOptions => entry.trtype = "tcp"
    BY DEF OptionsArrive
  <2>1. ObjectsMatch
    BY Kernel
  <2>2. o \in cfg <=> o \in user
    BY <2>1 DEF ObjectsMatch
  <2> QED BY <2>1, <2>2 DEF ObjectsMatch, build_options
<1> QED BY DiscoveryInductive, <1>1, PTL

(* Connections without an owner are those that failed after the kernel had *)
(* made them.                                                              *)
THEOREM LostConnections == Spec => []NoLostConnection
<1>1. IInv => NoLostConnection
  BY DEF IInv, ConnectInv, NoLostConnection, CountersInv, TypeOK
<1> QED BY DiscoveryInductive, <1>1, PTL
=============================================================================
