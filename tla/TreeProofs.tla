------------------------------ MODULE TreeProofs ------------------------------
(***************************************************************************)
(* Theorems about the tree of NvmeTree, for every number of controllers,   *)
(* namespaces, calls and changes: its references lead to objects, every    *)
(* descriptor has one owner, a path is joined to a namespace of its own,   *)
(* the library crashes for the causes that the model names only, a scan    *)
(* mirrors a kernel that does not change, so that the counts of device.cpp *)
(* are right, and what can be told apart is made once.                     *)
(***************************************************************************)
EXTENDS NvmeTree, FiniteSetTheorems, WellFoundedInduction, TLAPS

Ids(S) == {x.id : x \in S}

----------------------------------------------------------------------------
(* What is chosen of a set. *)

LEMMA Smallest ==
    ASSUME NEW S, S \subseteq Nat, S # {}
    PROVE  \E x \in S : \A y \in S : x <= y
<1> DEFINE R == {ss \in Nat \X Nat : ss[1] < ss[2]}
<1>1. IsWellFoundedOn(R, Nat)
    BY NatLessThanWellFounded DEF OpToRel
<1>2. PICK x \in S : \A y \in S : ~ (<<y, x>> \in R)
    BY <1>1, WFMin
<1>3. ASSUME NEW y \in S PROVE x <= y
    <2>1. x \in Nat /\ y \in Nat /\ ~ (<<y, x>> \in R)
        BY <1>2
    <2>2. ~ (y < x)
        BY <2>1
    <2> QED
        BY <2>1, <2>2
<1> QED
    BY <1>3

LEMMA FirstIn ==
    ASSUME NEW S, S \subseteq Nat, S # {}
    PROVE  First(S) \in S
BY Smallest DEF First

(* The objects of S have ids up to n. *)
LEMMA OldestIn ==
    ASSUME NEW S, NEW n \in Nat, \A x \in S : x.id \in 1 .. n, S # {}
    PROVE  Oldest(S) \in S
<1>1. Ids(S) \subseteq Nat /\ Ids(S) # {}
    BY DEF Ids
<1>2. PICK i \in Ids(S) : \A j \in Ids(S) : i <= j
    BY <1>1, Smallest
<1>3. PICK x \in S : x.id = i
    BY DEF Ids
<1>4. \A y \in S : y.id >= x.id
    BY <1>2, <1>3 DEF Ids
<1> QED
    BY <1>3, <1>4 DEF Oldest

LEMMA NewestIn ==
    ASSUME NEW S, NEW n \in Nat, \A x \in S : x.id \in 1 .. n, S # {}
    PROVE  Newest(S) \in S
<1> DEFINE T == {n - i : i \in Ids(S)}
<1>1. T \subseteq Nat /\ T # {}
    BY DEF Ids
<1>2. PICK m \in T : \A j \in T : m <= j
    BY <1>1, Smallest
<1>3. PICK x \in S : m = n - x.id
    BY DEF Ids
<1>4. ASSUME NEW y \in S PROVE y.id <= x.id
    <2>1. n - y.id \in T
        BY DEF Ids
    <2>2. n - x.id <= n - y.id /\ x.id \in Nat /\ y.id \in Nat
        BY <1>2, <1>3, <2>1
    <2> QED
        BY <2>2
<1> QED
    BY <1>3, <1>4 DEF Newest

LEMMA NextSpaceIn ==
    ASSUME todoSpaces \subseteq Spaces, todoSpaces # {}
    PROVE  NextSpace \in todoSpaces
<1> DEFINE N == {n[2] : n \in todoSpaces}
<1>1. N \subseteq Nat /\ N # {}
    BY TreeAssumption
<1>2. PICK k \in N : \A j \in N : k <= j
    BY <1>1, Smallest
<1>3. PICK n \in todoSpaces : n[2] = k
    OBVIOUS
<1>4. \A m \in todoSpaces : n[2] <= m[2]
    BY <1>2, <1>3
<1> QED
    BY <1>3, <1>4 DEF NextSpace

(* An object of a set in which ids are unique. *)
Unique(S) == \A x, y \in S : x.id = y.id => x = y
LEMMA WithId ==
    ASSUME NEW S, Unique(S), NEW x \in S
    PROVE  With(S, x.id) = x
BY DEF With, Unique

(* How many there are, with one more and with one less. *)
LEMMA OneMore ==
    ASSUME NEW S, IsFiniteSet(S), NEW x, x \notin S
    PROVE  IsFiniteSet(S \cup {x}) /\ Cardinality(S \cup {x}) = Cardinality(S) + 1
           /\ Cardinality(S) \in Nat
BY FS_AddElement, FS_CardinalityType
LEMMA OneLess ==
    ASSUME NEW S, IsFiniteSet(S), NEW x \in S
    PROVE  IsFiniteSet(S \ {x}) /\ Cardinality(S \ {x}) = Cardinality(S) - 1
           /\ Cardinality(S) \in Nat \ {0}
<1>1. Cardinality(S) \in Nat /\ Cardinality(S) # 0
    BY FS_CardinalityType, FS_EmptySet
<1> QED
    BY <1>1, FS_RemoveElement
LEMMA Parts ==
    ASSUME NEW S, IsFiniteSet(S), NEW T, T \subseteq S
    PROVE  /\ IsFiniteSet(T) /\ IsFiniteSet(S \ T)
           /\ Cardinality(T) \in Nat /\ Cardinality(S \ T) \in Nat
           /\ Cardinality(S) = Cardinality(T) + Cardinality(S \ T)
<1>1. IsFiniteSet(T) /\ IsFiniteSet(S \ T)
    BY FS_Subset
<1>2. T \cup (S \ T) = S /\ T \cap (S \ T) = {}
    OBVIOUS
<1>3. Cardinality(T \cup (S \ T)) = Cardinality(T) + Cardinality(S \ T) - Cardinality(T \cap (S \ T))
    BY <1>1, FS_Union
<1>4. Cardinality({}) = 0
    BY FS_EmptySet
<1>5. Cardinality(T) \in Nat /\ Cardinality(S \ T) \in Nat
    BY <1>1, FS_CardinalityType
<1>6. Cardinality(S) = Cardinality(T) + Cardinality(S \ T) - 0
    BY <1>2, <1>3, <1>4
<1> QED
    BY <1>1, <1>5, <1>6

(* An object is put in the place of another one of its id. *)
Fd(S) == {x \in S : x.fd}
LEMMA Exchanged ==
    ASSUME NEW S, IsFiniteSet(S), Unique(S), NEW c \in S, NEW d, d.id = c.id, c.fd \in BOOLEAN, d.fd \in BOOLEAN
    PROVE  /\ IsFiniteSet((S \ {c}) \cup {d}) /\ Unique((S \ {c}) \cup {d})
           /\ Ids((S \ {c}) \cup {d}) = Ids(S)
           /\ Cardinality(Fd((S \ {c}) \cup {d}))
                 = Cardinality(Fd(S)) - (IF c.fd THEN 1 ELSE 0) + (IF d.fd THEN 1 ELSE 0)
<1> DEFINE R == S \ {c}
           T == R \cup {d}
<1>1. d \notin R /\ c \notin R /\ IsFiniteSet(R)
    BY FS_Subset DEF Unique
<1>2. IsFiniteSet(T)
    BY <1>1, OneMore
<1>3. Unique(T)
    BY DEF Unique
<1>4. Ids(T) = Ids(S)
    BY DEF Ids
<1>5. IsFiniteSet(Fd(R)) /\ Cardinality(Fd(R)) \in Nat
    BY <1>1, FS_Subset, FS_CardinalityType DEF Fd
<1>6. Cardinality(Fd(S)) = Cardinality(Fd(R)) + (IF c.fd THEN 1 ELSE 0)
    <2>1. CASE c.fd
        <3>1. Fd(S) = Fd(R) \cup {c} /\ c \notin Fd(R)
            BY <2>1 DEF Fd
        <3> QED
            BY <1>5, <2>1, <3>1, OneMore
    <2>2. CASE ~ c.fd
        <3>1. Fd(S) = Fd(R)
            BY <2>2 DEF Fd
        <3> QED
            BY <1>5, <2>2, <3>1
    <2> QED
        BY <2>1, <2>2
<1>7. Cardinality(Fd(T)) = Cardinality(Fd(R)) + (IF d.fd THEN 1 ELSE 0)
    <2>1. CASE d.fd
        <3>1. Fd(T) = Fd(R) \cup {d} /\ d \notin Fd(R)
            BY <1>1, <2>1 DEF Fd
        <3> QED
            BY <1>5, <2>1, <3>1, OneMore
    <2>2. CASE ~ d.fd
        <3>1. Fd(T) = Fd(R)
            BY <2>2 DEF Fd
        <3> QED
            BY <1>5, <2>2, <3>1
    <2> QED
        BY <2>1, <2>2
<1> HIDE DEF R
<1>8. Cardinality(Fd(T)) = Cardinality(Fd(S)) - (IF c.fd THEN 1 ELSE 0) + (IF d.fd THEN 1 ELSE 0)
    BY <1>5, <1>6, <1>7
<1> QED
    BY <1>2, <1>3, <1>4, <1>8 DEF R

----------------------------------------------------------------------------
(* The objects of the tree *)

(* A host has the name and the identifier of this machine, or those that   *)
(* the kernel tells of a controller.                                       *)
HostsOK ==
    \A h \in hosts : /\ h.id \in 1 .. made
                     /\ \E key \in HostKeys : h.nqn = key.nqn /\ h.hostid = key.id

SubsysSet == [id : Nat, host : Nat, nqn : Subsystems, named : BOOLEAN]
SubsOK ==
    /\ Unique(subs)
    /\ \A s \in subs : s \in SubsysSet /\ s.id \in 1 .. made /\ s.host \in Ids(hosts)

Keys == {Parsed(i) : i \in Instances} \cup {Address[i] : i \in Instances}
CtrlSet == [id : Nat, sub : Nat, key : Keys, name : {Absent} \cup Instances, fd : BOOLEAN]
CtrlsOK ==
    /\ IsFiniteSet(ctrls) /\ Unique(ctrls)
    /\ \A c \in ctrls : c \in CtrlSet /\ c.id \in 1 .. made /\ c.sub \in {0} \cup Ids(subs)

SpaceSet == [id : Nat, sub : Nat, ctrl : Nat, name : Spaces]
NssOK ==
    /\ IsFiniteSet(nss) /\ Unique(nss)
    /\ \A n \in nss : n \in SpaceSet /\ n.id \in 1 .. made /\ n.ctrl \in {0} \cup Ids(ctrls)

PathSet == [id : Nat, ctrl : Nat, name : Spaces, space : Nat]
PathsOK == \A p \in paths : p \in PathSet /\ p.ctrl \in Ids(ctrls)

(* A path whose controller is in the tree has its namespace there. *)
Joined ==
    \A p \in paths, c \in ctrls :
        (p.ctrl = c.id /\ c.sub # 0 /\ p.space # 0) =>
            \E n \in nss : n.id = p.space /\ n.name = p.name /\ n.sub = c.sub

Owned == open = Cardinality(Fd(ctrls)) + Cardinality(nss) + overwritten

Objects ==
    /\ made \in Nat /\ overwritten \in Nat
    /\ HostsOK /\ SubsOK /\ CtrlsOK /\ NssOK /\ PathsOK
    /\ Joined /\ Owned

(* The caller, the kernel and the counts. *)
Scalars ==
    /\ live \subseteq Instances /\ spaces \subseteq Spaces
    /\ root \in {"none", "held", "lost"}
    /\ at \in {"idle", "crashed", "subsystems", "subsystem", "spaces", "space", "ctrl", "address",
               "configure", "ctrlspaces", "ctrlspace", "paths", "path", "host", "transport",
               "init", "link", "walk"}
    /\ call \in {"none", "scan", "count", "list", "free", "scan_ctrl", "rescan", "disconnect",
                 "unlink", "connect"}
    /\ calls \in 0 .. MaxCalls /\ changes \in 0 .. MaxChanges
    /\ counted \in Nat /\ listed \in Nat

(* What the library relies on at the point where it stands: there is the   *)
(* subsystem it looks at, and there is the controller, in that subsystem   *)
(* or, before it is linked, in none and without a path, with the host that *)
(* it will be linked to.                                                   *)
InSubsystem == {"spaces", "space", "ctrl", "address", "configure", "ctrlspaces", "ctrlspace", "paths",
                "path", "transport"}
InCtrl == {"configure", "ctrlspaces", "ctrlspace", "paths", "path"}
Found ==
    /\ todoSubs \subseteq Subsystems /\ todoCtrls \subseteq Instances /\ todoSpaces \subseteq Spaces
    /\ at \in {"subsystems", "subsystem", "ctrl"} => call # "rescan"
    /\ at \in InSubsystem => sub \in Ids(subs)
    /\ (at \in InCtrl \/ (at \in {"spaces", "space"} /\ call = "rescan")) =>
          \E c \in ctrls : c.id = ctrl /\ c.sub = sub
    /\ at \in {"init", "link"} => /\ call = "connect"
                                  /\ \E c \in ctrls : c.id = ctrl /\ c.sub = 0
                                  /\ \A p \in paths : p.ctrl # ctrl
                                  /\ \E h \in hosts : Fits(h, DefaultHost)

(* And as long as the kernel does not change: its controller is still      *)
(* there.                                                                  *)
Steady ==
    /\ at \in {"host", "transport"} => call = "scan_ctrl"
    /\ (at = "address" /\ ~ changed) => inst \in live
    /\ (at = "ctrlspaces" /\ call # "rescan" /\ ~ changed) => inst \in live

IInv == Scalars /\ Objects /\ Found /\ Steady /\ CrashExplained

----------------------------------------------------------------------------
(* What steps do to the objects *)

LEMMA SameObjects == ASSUME Objects, UNCHANGED objectVars PROVE Objects'
BY DEF objectVars, Objects, HostsOK, SubsOK, CtrlsOK, NssOK, PathsOK, Joined, Owned

(* The tree is freed: what is left are the controllers out of it, with     *)
(* their namespaces and paths.                                             *)
LEMMA FreeTreeObjects == ASSUME Objects, FreeTree PROVE Objects'
<1> DEFINE linked == {c \in ctrls : c.sub # 0}
           freed == FreedSpaces
<1>1. /\ hosts' = {} /\ subs' = {} /\ ctrls' = ctrls \ linked /\ nss' = nss \ freed
      /\ paths' = {p \in paths : With(ctrls, p.ctrl).sub = 0}
      /\ open' = open - Cardinality({c \in linked : c.fd}) - Cardinality(freed)
      /\ made' = made /\ overwritten' = overwritten
    BY DEF FreeTree
<1>2. made \in Nat /\ overwritten \in Nat /\ CtrlsOK /\ NssOK /\ PathsOK /\ Owned
    BY DEF Objects
<1>3. HostsOK' /\ SubsOK'
    BY <1>1 DEF HostsOK, SubsOK, Unique
<1>4. CtrlsOK'
    <2>1. IsFiniteSet(ctrls \ linked) /\ Unique(ctrls \ linked)
        BY <1>2, FS_Subset DEF CtrlsOK, Unique
    <2> QED
        BY <1>1, <1>2, <2>1 DEF CtrlsOK
<1>5. ASSUME NEW i \in Ids(ctrls), With(ctrls, i).sub = 0
      PROVE  i \in Ids(ctrls')
    <2>1. PICK c \in ctrls : c.id = i
        BY DEF Ids
    <2>2. With(ctrls, i) = c
        BY <1>2, <2>1, WithId DEF CtrlsOK
    <2> QED
        BY <1>1, <1>5, <2>1, <2>2 DEF Ids
<1>6. NssOK'
    <2>1. IsFiniteSet(nss \ freed) /\ Unique(nss \ freed)
        BY <1>2, FS_Subset DEF NssOK, Unique
    <2>2. ASSUME NEW n \in nss \ freed PROVE n.ctrl \in Ids(ctrls')
        <3>1. n.ctrl # 0 /\ With(ctrls, n.ctrl).sub = 0
            BY <2>2 DEF FreedSpaces
        <3>2. n.ctrl \in Ids(ctrls)
            BY <1>2, <2>2, <3>1 DEF NssOK
        <3> QED
            BY <1>5, <3>1, <3>2
    <2> QED
        BY <1>1, <1>2, <2>1, <2>2 DEF NssOK
<1>7. PathsOK'
    BY <1>1, <1>2, <1>5 DEF PathsOK
<1>8. Joined'
    BY <1>1 DEF Joined
<1>9. Owned'
    <2>1. Fd(ctrls') = Fd(ctrls) \ {c \in linked : c.fd} /\ {c \in linked : c.fd} \subseteq Fd(ctrls)
        BY <1>1 DEF Fd
    <2>2. IsFiniteSet(Fd(ctrls))
        BY <1>2, FS_Subset DEF CtrlsOK, Fd
    <2>3. freed \subseteq nss /\ IsFiniteSet(nss)
        BY <1>2 DEF FreedSpaces, NssOK
    <2> DEFINE F == {c \in linked : c.fd}
    <2>4. /\ Cardinality(F) \in Nat /\ Cardinality(Fd(ctrls) \ F) \in Nat
          /\ Cardinality(Fd(ctrls)) = Cardinality(F) + Cardinality(Fd(ctrls) \ F)
        BY <2>1, <2>2, Parts
    <2>5. /\ Cardinality(freed) \in Nat /\ Cardinality(nss \ freed) \in Nat
          /\ Cardinality(nss) = Cardinality(freed) + Cardinality(nss \ freed)
        BY <2>3, Parts
    <2>6. Cardinality(Fd(ctrls')) = Cardinality(Fd(ctrls) \ F) /\ Cardinality(nss') = Cardinality(nss \ freed)
        BY <1>1, <2>1
    <2> HIDE DEF F, freed
    <2>7. open' = Cardinality(Fd(ctrls')) + Cardinality(nss') + overwritten
        BY <1>1, <1>2, <2>4, <2>5, <2>6 DEF Owned, F
    <2> QED
        BY <1>1, <2>7 DEF Owned
<1> QED
    BY <1>1, <1>2, <1>3, <1>4, <1>6, <1>7, <1>8, <1>9 DEF Objects

(* Hosts and subsystems are looked up, or made. *)
LEMMA HostFound ==
    ASSUME made \in Nat, HostsOK, NEW key \in HostKeys, NEW h, h = nvme_lookup_host(key)
    PROVE  /\ h.id \in 1 .. made + 1 /\ \E k \in HostKeys : h.nqn = k.nqn /\ h.hostid = k.id
           /\ Fits(h, key)
           /\ (\E g \in hosts : Fits(g, key)) => h \in hosts
<1> DEFINE found == {g \in hosts : Fits(g, key)}
           new == [id |-> made + 1, nqn |-> key.nqn, hostid |-> key.id]
<1>1. h = IF found # {} THEN Newest(found) ELSE new
    BY DEF nvme_lookup_host
<1>2. CASE found # {}
    <2>1. h \in found
        <3>1. \A g \in found : g.id \in 1 .. made
            BY DEF HostsOK
        <3> HIDE DEF found
        <3> QED
            BY <1>1, <1>2, <3>1, NewestIn
    <2> QED
        BY <2>1 DEF HostsOK
<1>3. CASE found = {}
    <2>1. h.id = made + 1 /\ h.nqn = key.nqn /\ h.hostid = key.id
        BY <1>1, <1>3
    <2> QED
        BY <1>3, <2>1 DEF Fits
<1> QED
    BY <1>2, <1>3

LEMMA HostMade ==
    ASSUME made \in Nat, HostsOK, NEW key \in HostKeys, NEW h, h = nvme_lookup_host(key),
           MakeHost(h), made' \in Nat, made' >= made + 1
    PROVE  /\ HostsOK' /\ Ids(hosts) \subseteq Ids(hosts') /\ h.id \in Ids(hosts') /\ h.id \in Nat
           /\ h \in hosts' /\ Fits(h, key)
<1>1. /\ h.id \in 1 .. made + 1 /\ \E k \in HostKeys : h.nqn = k.nqn /\ h.hostid = k.id
      /\ Fits(h, key)
    BY HostFound
<1>2. hosts' = hosts \cup {h}
    BY DEF MakeHost
<1>3. HostsOK'
    BY <1>1, <1>2 DEF HostsOK
<1> QED
    BY <1>1, <1>2, <1>3 DEF Ids

LEMMA SubsysFound ==
    ASSUME made \in Nat, SubsOK, NEW h, NEW s, NEW named, NEW x, x = nvme_lookup_subsystem(h, s, named)
    PROVE  x \in subs \/ x = [id |-> made + 2, host |-> h.id, nqn |-> s, named |-> named]
<1> DEFINE found == {y \in subs : y.host = h.id /\ y.nqn = s}
           new == [id |-> made + 2, host |-> h.id, nqn |-> s, named |-> named]
<1>1. x = IF found # {} THEN Newest(found) ELSE new
    BY DEF nvme_lookup_subsystem
<1>2. CASE found # {}
    <2>1. \A g \in found : g.id \in 1 .. made
        BY DEF SubsOK
    <2>2. found \subseteq subs
        OBVIOUS
    <2> HIDE DEF found
    <2> QED
        BY <1>1, <1>2, <2>1, <2>2, NewestIn
<1> QED
    BY <1>1, <1>2

LEMMA SubsysMade ==
    ASSUME made \in Nat, SubsOK, made' = made + 2, Ids(hosts) \subseteq Ids(hosts'),
           NEW h, h.id \in Ids(hosts'), h.id \in Nat, NEW s \in Subsystems, NEW named \in BOOLEAN, NEW told \in BOOLEAN,
           NEW x, x = nvme_lookup_subsystem(h, s, named), MakeSub(x, told)
    PROVE  SubsOK' /\ Ids(subs) \subseteq Ids(subs') /\ x.id \in Ids(subs') /\ x.id \in Nat
<1> DEFINE y == [x EXCEPT !.named = x.named \/ told]
<1>1. subs' = (subs \ {x}) \cup {y}
    BY DEF MakeSub
<1>2. x \in subs \/ x = [id |-> made + 2, host |-> h.id, nqn |-> s, named |-> named]
    BY SubsysFound
<1>3. /\ x \in SubsysSet /\ x.id \in 1 .. made + 2 /\ x.host \in Ids(hosts')
      /\ \A z \in subs : z.id = x.id => z = x
    <2>1. CASE x \in subs
        BY <2>1 DEF SubsOK, Unique
    <2>2. CASE x = [id |-> made + 2, host |-> h.id, nqn |-> s, named |-> named]
        BY <2>2 DEF SubsOK, SubsysSet
    <2> QED
        BY <1>2, <2>1, <2>2
<1>4. y \in SubsysSet /\ y.id = x.id /\ y.host = x.host
    <2>1. x.named \/ told \in BOOLEAN
        BY <1>3 DEF SubsysSet
    <2> QED
        BY <1>3, <2>1 DEF SubsysSet
<1> HIDE DEF y
<1>5. Unique(subs')
    BY <1>1, <1>3, <1>4 DEF SubsOK, Unique
<1>6. \A z \in subs' : z \in SubsysSet /\ z.id \in 1 .. made' /\ z.host \in Ids(hosts')
    BY <1>1, <1>3, <1>4 DEF SubsOK
<1>7. Ids(subs) \subseteq Ids(subs') /\ x.id \in Ids(subs')
    BY <1>1, <1>4 DEF Ids
<1> QED
    BY <1>3, <1>5, <1>6, <1>7 DEF SubsOK, SubsysSet

(* Nothing but hosts and subsystems is new. *)
LEMMA MoreSubsystems ==
    ASSUME Objects, UNCHANGED <<ctrls, nss, paths, open, overwritten>>, made' \in Nat, made' >= made,
           HostsOK', SubsOK', Ids(subs) \subseteq Ids(subs')
    PROVE  Objects'
<1>1. CtrlsOK' /\ NssOK' /\ PathsOK'
    BY DEF Objects, CtrlsOK, NssOK, PathsOK
<1>2. Joined' /\ Owned'
    BY DEF Objects, Joined, Owned
<1> QED
    BY <1>1, <1>2 DEF Objects

(* A namespace is opened. *)
LEMMA OpenSpaceObjects ==
    ASSUME Objects, NEW owner \in {0} \cup Ids(ctrls), sub \in Nat, todoSpaces \subseteq Spaces, todoSpaces # {},
           OpenSpace(owner), UNCHANGED <<hosts, subs, ctrls, paths, overwritten>>
    PROVE  Objects' /\ todoSpaces' \subseteq Spaces
<1>1. PICK n \in Spaces : n = NextSpace
    BY NextSpaceIn
<1> DEFINE new == [id |-> made + 1, sub |-> sub, ctrl |-> owner, name |-> n]
<1>2. /\ \/ nss' = nss \cup {new} /\ open' = open + 1
         \/ nss' = nss /\ open' = open + 0
      /\ made' = made + 1 /\ todoSpaces' \subseteq todoSpaces
    BY <1>1 DEF OpenSpace, Descriptors
<1>3. made \in Nat /\ overwritten \in Nat /\ HostsOK /\ SubsOK /\ CtrlsOK /\ NssOK /\ PathsOK /\ Joined /\ Owned
    BY DEF Objects
<1>4. HostsOK' /\ SubsOK' /\ CtrlsOK' /\ PathsOK'
    BY <1>2, <1>3 DEF HostsOK, SubsOK, CtrlsOK, PathsOK
<1>5. new \notin nss
    BY <1>3 DEF NssOK
<1>6. owner \in Nat
    BY <1>3 DEF CtrlsOK, Ids
<1>7. new \in SpaceSet /\ new.id \in 1 .. made' /\ new.ctrl \in {0} \cup Ids(ctrls)
    BY <1>2, <1>3, <1>6 DEF SpaceSet
<1> HIDE DEF new
<1>8. /\ IsFiniteSet(nss') /\ Cardinality(nss) \in Nat
      /\ open' - open = Cardinality(nss') - Cardinality(nss) /\ open' \in Int /\ open \in Int
    <2>1. IsFiniteSet(nss) /\ Cardinality(nss) \in Nat
        BY <1>3, FS_CardinalityType DEF NssOK
    <2>2. open \in Int
        <3>1. IsFiniteSet(Fd(ctrls))
            BY <1>3, FS_Subset DEF CtrlsOK, Fd
        <3> QED
            BY <1>3, <2>1, <3>1, FS_CardinalityType DEF Owned
    <2>3. CASE nss' = nss \cup {new} /\ open' = open + 1
        BY <1>5, <2>1, <2>2, <2>3, OneMore
    <2>4. CASE nss' = nss /\ open' = open + 0
        BY <2>1, <2>2, <2>4
    <2> QED
        BY <1>2, <2>3, <2>4
<1>9. NssOK'
    <2>1. new.id = made + 1
        BY DEF new
    <2>2. \A m \in nss : m.id # new.id
        BY <1>3, <2>1 DEF NssOK
    <2>3. Unique(nss')
        BY <1>2, <1>3, <2>2 DEF NssOK, Unique
    <2> QED
        BY <1>2, <1>3, <1>7, <1>8, <2>3 DEF NssOK
<1>10. Joined'
    BY <1>2, <1>3 DEF Joined
<1>11. Owned'
    <2>1. IsFiniteSet(Fd(ctrls)) /\ Cardinality(Fd(ctrls)) \in Nat
        BY <1>3, FS_Subset, FS_CardinalityType DEF CtrlsOK, Fd
    <2>2. Cardinality(nss') \in Nat
        BY <1>8, FS_CardinalityType
    <2> QED
        BY <1>3, <1>8, <2>1, <2>2 DEF Owned
<1> QED
    BY <1>2, <1>3, <1>4, <1>9, <1>10, <1>11 DEF Objects

(* A controller is made, or found. *)
LEMMA CtrlAdded ==
    ASSUME Objects, NEW c \in CtrlSet, c \in ctrls \/ (c.id > made /\ ~ c.fd), ctrls' = ctrls \cup {c},
           made' \in Nat, made' >= made, c.id \in 1 .. made', c.sub \in {0} \cup Ids(subs),
           HostsOK', Ids(hosts) \subseteq Ids(hosts'),
           UNCHANGED <<subs, nss, paths, open, overwritten>>
    PROVE  Objects' /\ Ids(ctrls) \subseteq Ids(ctrls')
<1>1. made \in Nat /\ overwritten \in Nat /\ SubsOK /\ CtrlsOK /\ NssOK /\ PathsOK /\ Joined /\ Owned
    BY DEF Objects
<1>2. Ids(ctrls) \subseteq Ids(ctrls')
    BY DEF Ids
<1>3. SubsOK' /\ NssOK' /\ PathsOK'
    <2>1. SubsOK'
        <3>1. subs' = subs
            OBVIOUS
        <3>2. \A s \in subs : s.id \in 1 .. made' /\ s.host \in Ids(hosts')
            BY <1>1 DEF SubsOK
        <3> QED
            BY <1>1, <3>1, <3>2 DEF SubsOK
    <2>2. NssOK'
        <3>1. nss' = nss
            OBVIOUS
        <3>2. \A n \in nss : n.id \in 1 .. made' /\ n.ctrl \in {0} \cup Ids(ctrls')
            <4> SUFFICES ASSUME NEW n \in nss PROVE n.id \in 1 .. made' /\ n.ctrl \in {0} \cup Ids(ctrls')
                OBVIOUS
            <4>1. n.id \in 1 .. made /\ n.ctrl \in {0} \cup Ids(ctrls)
                BY <1>1 DEF NssOK
            <4>2. n.id \in 1 .. made'
                BY <1>1, <4>1
            <4> QED
                BY <1>2, <4>1, <4>2
        <3> QED
            BY <1>1, <3>1, <3>2 DEF NssOK
    <2>3. PathsOK'
        BY <1>1, <1>2 DEF PathsOK
    <2> QED
        BY <2>1, <2>2, <2>3
<1>4. Joined'
    BY <1>1 DEF Joined, PathsOK, CtrlsOK, Ids
<1>5. CASE c \in ctrls
    <2>1. ctrls' = ctrls
        BY <1>5
    <2>2. CtrlsOK' /\ Owned'
        BY <1>1, <2>1 DEF CtrlsOK, Owned
    <2> QED
        BY <1>1, <1>2, <1>3, <1>4, <2>2 DEF Objects
<1>6. CASE c \notin ctrls
    <2>1. c.id > made /\ ~ c.fd
        BY <1>6
    <2>2. IsFiniteSet(ctrls')
        BY <1>1, FS_AddElement DEF CtrlsOK
    <2>3. Unique(ctrls')
        BY <1>1, <2>1 DEF CtrlsOK, Unique
    <2>4. \A d \in ctrls : d.id \in 1 .. made'
        BY <1>1 DEF CtrlsOK
    <2>5. CtrlsOK'
        BY <1>1, <2>2, <2>3, <2>4 DEF CtrlsOK
    <2>6. Fd(ctrls') = Fd(ctrls)
        BY <2>1 DEF Fd
    <2>7. Owned'
        BY <1>1, <2>6 DEF Owned
    <2> QED
        BY <1>1, <1>2, <1>3, <1>4, <2>5, <2>7 DEF Objects
<1> QED
    BY <1>5, <1>6

(* A controller changes, and with it its descriptor. *)
LEMMA CtrlChanged ==
    ASSUME Objects, NEW c \in ctrls, NEW d \in CtrlSet, d.id = c.id, Update(c, d),
           d.sub \in {0} \cup Ids(subs'), d.sub \in {0, c.sub} \/ \A p \in paths : p.ctrl # c.id,
           SubsOK', Ids(subs) \subseteq Ids(subs'), made' \in Nat, made' >= made,
           UNCHANGED <<hosts, nss, paths>>,
           overwritten' \in Nat, open' \in Int,
           open' - overwritten' = open - overwritten - (IF c.fd THEN 1 ELSE 0) + (IF d.fd THEN 1 ELSE 0)
    PROVE  Objects'
<1>1. /\ made \in Nat /\ overwritten \in Nat
      /\ HostsOK /\ CtrlsOK /\ NssOK /\ PathsOK /\ Joined /\ Owned
    BY DEF Objects
<1>2. ctrls' = (ctrls \ {c}) \cup {d}
    BY DEF Update
<1>3. c \in CtrlSet /\ c.id \in 1 .. made
    BY <1>1 DEF CtrlsOK
<1>4. c.fd \in BOOLEAN /\ d.fd \in BOOLEAN
    BY <1>3 DEF CtrlSet
<1>5. /\ IsFiniteSet(ctrls') /\ Unique(ctrls') /\ Ids(ctrls') = Ids(ctrls)
      /\ Cardinality(Fd(ctrls')) = Cardinality(Fd(ctrls)) - (IF c.fd THEN 1 ELSE 0) + (IF d.fd THEN 1 ELSE 0)
    BY <1>1, <1>2, <1>4, Exchanged DEF CtrlsOK
<1>6. HostsOK'
    BY <1>1 DEF HostsOK
<1>7. CtrlsOK'
    <2>1. \A e \in ctrls : e.id \in 1 .. made' /\ e.sub \in {0} \cup Ids(subs') /\ e \in CtrlSet
        BY <1>1 DEF CtrlsOK
    <2>2. d.id \in 1 .. made'
        BY <1>3, <1>1
    <2> QED
        BY <1>2, <1>5, <2>1, <2>2 DEF CtrlsOK
<1>8. NssOK' /\ PathsOK'
    BY <1>1, <1>5 DEF NssOK, PathsOK
<1>9. Joined'
    <2> SUFFICES ASSUME NEW p \in paths, NEW e \in ctrls', p.ctrl = e.id, e.sub # 0, p.space # 0
                 PROVE  \E n \in nss : n.id = p.space /\ n.name = p.name /\ n.sub = e.sub
        BY DEF Joined
    <2>1. CASE e = d
        BY <1>1, <2>1 DEF Joined
    <2>2. CASE e \in ctrls
        BY <1>1, <2>2 DEF Joined
    <2> QED
        BY <1>2, <2>1, <2>2
<1>10. Owned'
    <2>1. Cardinality(Fd(ctrls)) \in Nat /\ Cardinality(nss) \in Nat
        BY <1>1, FS_Subset, FS_CardinalityType DEF CtrlsOK, NssOK, Fd
    <2>2. Cardinality(nss') = Cardinality(nss)
        OBVIOUS
    <2>3. open = Cardinality(Fd(ctrls)) + Cardinality(nss) + overwritten
        BY <1>1 DEF Owned
    <2>4. open' = Cardinality(Fd(ctrls')) + Cardinality(nss') + overwritten'
        BY <1>1, <1>5, <2>1, <2>2, <2>3
    <2> QED
        BY <2>4 DEF Owned
<1> QED
    BY <1>1, <1>6, <1>7, <1>8, <1>9, <1>10 DEF Objects

LEMMA OpenIsInt == ASSUME Objects PROVE open \in Int
<1>1. IsFiniteSet(nss) /\ IsFiniteSet(Fd(ctrls)) /\ overwritten \in Nat
    BY FS_Subset DEF Objects, CtrlsOK, NssOK, Fd
<1>2. Cardinality(nss) \in Nat /\ Cardinality(Fd(ctrls)) \in Nat
    BY <1>1, FS_CardinalityType
<1> QED
    BY <1>1, <1>2 DEF Objects, Owned

(* A controller is configured. *)
LEMMA ConfigureObjects ==
    ASSUME Objects, NEW next, nvme_configure_ctrl(inst \in live, next),
           live \subseteq Instances, ctrl \in Ids(ctrls), UNCHANGED <<hosts, subs, nss, paths, made>>
    PROVE  /\ Objects'
           /\ \A c \in ctrls : c.id = ctrl => \E d \in ctrls' : d.id = ctrl /\ d.sub = c.sub
<1>1. PICK c \in ctrls : c.id = ctrl
    BY DEF Ids
<1>2. Unique(ctrls) /\ c \in CtrlSet /\ c.sub \in {0} \cup Ids(subs) /\ made \in Nat /\ overwritten \in Nat
    BY DEF Objects, CtrlsOK
<1>3. With(ctrls, ctrl) = c
    BY <1>1, <1>2, WithId
<1> DEFINE opened == [c EXCEPT !.fd = TRUE, !.name = inst]
           closed == [c EXCEPT !.fd = FALSE]
<1>4. \/ inst \in live /\ Update(c, opened) /\ open' = open + 1 /\ Overwrites(c)
      \/ UNCHANGED <<ctrls, overwritten, open>>
      \/ Update(c, closed) /\ Overwrites(c) /\ open' = open
    BY <1>3 DEF nvme_configure_ctrl
<1>5. open \in Int /\ SubsOK /\ c.fd \in BOOLEAN
    BY <1>2, OpenIsInt DEF Objects, CtrlSet
<1>6. SubsOK'
    BY <1>5 DEF SubsOK
<1>7. CASE inst \in live /\ Update(c, opened) /\ open' = open + 1 /\ Overwrites(c)
    <2>1. opened \in CtrlSet /\ opened.id = c.id /\ opened.sub = c.sub /\ opened.fd
        BY <1>2, <1>7 DEF CtrlSet
    <2>2. ctrls' = (ctrls \ {c}) \cup {opened}
        BY <1>7 DEF Update
    <2> HIDE DEF opened
    <2>3. overwritten' = overwritten + (IF c.fd THEN 1 ELSE 0)
        BY <1>7 DEF Overwrites
    <2>4. /\ overwritten' \in Nat /\ open' \in Int
          /\ open' - overwritten' = open - overwritten - (IF c.fd THEN 1 ELSE 0) + (IF opened.fd THEN 1 ELSE 0)
        BY <1>2, <1>5, <1>7, <2>1, <2>3
    <2>5. /\ Update(c, opened) /\ opened.sub \in {0, c.sub} /\ opened.sub \in {0} \cup Ids(subs')
          /\ Ids(subs) \subseteq Ids(subs') /\ made' \in Nat /\ made' >= made
          /\ UNCHANGED <<hosts, nss, paths>>
        BY <1>2, <1>7, <2>1 DEF opened
    <2>7. Objects'
        BY <1>1, <1>6, <2>1, <2>4, <2>5, CtrlChanged
    <2>6. \A e \in ctrls : e.id = ctrl => e = c
        BY <1>1, <1>2 DEF Unique
    <2> QED
        BY <1>1, <2>1, <2>2, <2>6, <2>7
<1>8. CASE UNCHANGED <<ctrls, overwritten, open>>
    <2>1. Objects'
        BY <1>8, SameObjects DEF objectVars
    <2> QED
        BY <1>8, <2>1
<1>9. CASE Update(c, closed) /\ Overwrites(c) /\ open' = open
    <2>1. closed \in CtrlSet /\ closed.id = c.id /\ closed.sub = c.sub /\ ~ closed.fd
        BY <1>2 DEF CtrlSet
    <2>2. ctrls' = (ctrls \ {c}) \cup {closed}
        BY <1>9 DEF Update
    <2> HIDE DEF closed
    <2>3. overwritten' = overwritten + (IF c.fd THEN 1 ELSE 0)
        BY <1>9 DEF Overwrites
    <2>4. /\ overwritten' \in Nat /\ open' \in Int
          /\ open' - overwritten' = open - overwritten - (IF c.fd THEN 1 ELSE 0) + (IF closed.fd THEN 1 ELSE 0)
        BY <1>2, <1>5, <1>9, <2>1, <2>3
    <2>5. /\ Update(c, closed) /\ closed.sub \in {0, c.sub} /\ closed.sub \in {0} \cup Ids(subs')
          /\ Ids(subs) \subseteq Ids(subs') /\ made' \in Nat /\ made' >= made
          /\ UNCHANGED <<hosts, nss, paths>>
        BY <1>2, <1>9, <2>1 DEF closed
    <2>7. Objects'
        BY <1>1, <1>6, <2>1, <2>4, <2>5, CtrlChanged
    <2>6. \A e \in ctrls : e.id = ctrl => e = c
        BY <1>1, <1>2 DEF Unique
    <2> QED
        BY <1>1, <2>1, <2>2, <2>6, <2>7
<1> QED
    BY <1>4, <1>7, <1>8, <1>9

(* A path is made. *)
LEMMA PathAdded ==
    ASSUME Objects, NEW n \in Spaces, sub \in Nat, NEW c \in ctrls, c.id = ctrl, c.sub = sub,
           paths' = paths \cup {[id |-> made + 1, ctrl |-> ctrl, name |-> n,
                                 space |-> IF PathSpaces(n) = {} THEN 0 ELSE Oldest(PathSpaces(n)).id]},
           made' = made + 1, UNCHANGED <<hosts, subs, ctrls, nss, open, overwritten>>
    PROVE  Objects'
<1>1. /\ made \in Nat /\ overwritten \in Nat
      /\ HostsOK /\ SubsOK /\ CtrlsOK /\ NssOK /\ PathsOK /\ Joined /\ Owned
    BY DEF Objects
<1> DEFINE found == PathSpaces(n)
           space == IF found = {} THEN 0 ELSE Oldest(found).id
           new == [id |-> made + 1, ctrl |-> ctrl, name |-> n, space |-> space]
<1>2. space = 0 \/ \E m \in nss : m.id = space /\ m.name = n /\ m.sub = sub
    <2>1. CASE found # {}
        <3>1. \A m \in found : m.id \in 1 .. made
            BY <1>1 DEF PathSpaces, NssOK
        <3> HIDE DEF found
        <3>2. Oldest(found) \in found
            BY <1>1, <2>1, <3>1, OldestIn
        <3> QED
            BY <2>1, <3>2 DEF found, PathSpaces
    <2> QED
        BY <2>1
<1>3. space \in Nat
    BY <1>1, <1>2 DEF NssOK
<1> HIDE DEF space
<1>4. ctrl \in Nat /\ ctrl \in Ids(ctrls)
    BY <1>1 DEF CtrlsOK, Ids
<1>5. new \in PathSet /\ new.ctrl = ctrl /\ new.name = n /\ new.space = space
    BY <1>1, <1>3, <1>4 DEF PathSet
<1>6. paths' = paths \cup {new}
    BY DEF space
<1> HIDE DEF new
<1>7. PathsOK'
    BY <1>1, <1>4, <1>5, <1>6 DEF PathsOK
<1>8. Joined'
    <2> SUFFICES ASSUME NEW p \in paths', NEW e \in ctrls, p.ctrl = e.id, e.sub # 0, p.space # 0
                 PROVE  \E m \in nss : m.id = p.space /\ m.name = p.name /\ m.sub = e.sub
        BY DEF Joined
    <2>1. CASE p \in paths
        BY <1>1, <2>1 DEF Joined
    <2>2. CASE p = new
        <3>1. e = c
            BY <1>1, <1>5, <2>2 DEF CtrlsOK, Unique
        <3> QED
            BY <1>2, <1>5, <2>2, <3>1
    <2> QED
        BY <1>6, <2>1, <2>2
<1>9. HostsOK' /\ SubsOK' /\ CtrlsOK' /\ NssOK' /\ Owned'
    BY <1>1 DEF HostsOK, SubsOK, CtrlsOK, NssOK, Owned
<1> QED
    BY <1>1, <1>7, <1>8, <1>9 DEF Objects

----------------------------------------------------------------------------
(* Every step keeps the invariant. *)

(* The kernel. *)
LEMMA Hotplug_Keeps == ASSUME IInv, Hotplug PROVE IInv'
<1>1. Scalars'
    <2>1. live' \subseteq Instances /\ spaces' \subseteq Spaces
        BY DEF IInv, Scalars, Hotplug
    <2>2. changes' \in 0 .. MaxChanges
        BY TreeAssumption DEF IInv, Scalars, Hotplug
    <2> QED
        BY <2>1, <2>2 DEF IInv, Scalars, Hotplug
<1>2. Objects'
    BY SameObjects DEF IInv, Hotplug
<1>3. Found'
    BY DEF IInv, Scalars, Found, InSubsystem, InCtrl, Hotplug, objectVars, scanVars, historyVars
<1>4. Steady'
    BY DEF IInv, Steady, Hotplug, scanVars, historyVars
<1>5. CrashExplained'
    BY DEF IInv, CrashExplained, Hotplug, objectVars, scanVars, historyVars
<1> QED
    BY <1>1, <1>2, <1>3, <1>4, <1>5 DEF IInv

(* Calls that only set out. *)
LEMMA nvme_scan_Keeps == ASSUME IInv, nvme_scan PROVE IInv'
<1>1. Scalars'
    BY TreeAssumption DEF IInv, Scalars, nvme_scan, Begin, Unmoved, kernelVars, historyVars
<1>2. Objects'
    BY SameObjects DEF IInv, nvme_scan
<1>3. Found'
    BY DEF IInv, Scalars, Found, InSubsystem, InCtrl, nvme_scan, Begin, Unmoved, kernelVars, objectVars,
       scanVars, historyVars
<1>4. Steady'
    BY DEF IInv, Steady, nvme_scan, Begin, Unmoved, kernelVars, scanVars, historyVars
<1>5. CrashExplained'
    BY DEF CrashExplained, nvme_scan, Begin, Unmoved
<1> QED
    BY <1>1, <1>2, <1>3, <1>4, <1>5 DEF IInv

LEMMA nvme_scan_ctrl_Keeps == ASSUME IInv, nvme_scan_ctrl PROVE IInv'
<1>1. Scalars'
    BY TreeAssumption DEF IInv, Scalars, nvme_scan_ctrl, Begin, Unmoved, kernelVars, historyVars
<1>2. Objects'
    BY SameObjects DEF IInv, nvme_scan_ctrl
<1>3. Found'
    BY DEF IInv, Scalars, Found, InSubsystem, InCtrl, nvme_scan_ctrl, Begin, Unmoved, kernelVars,
       objectVars, historyVars
<1>4. Steady'
    BY DEF IInv, Steady, nvme_scan_ctrl, Begin, Unmoved, kernelVars, historyVars
<1>5. CrashExplained'
    BY DEF CrashExplained, nvme_scan_ctrl, Begin, Unmoved
<1> QED
    BY <1>1, <1>2, <1>3, <1>4, <1>5 DEF IInv

LEMMA ConnectClash_Keeps == ASSUME IInv, ConnectClash PROVE IInv'
<1>1. Scalars'
    BY TreeAssumption DEF IInv, Scalars, ConnectClash, Begin, Unmoved, kernelVars, historyVars
<1>2. Objects'
    BY SameObjects DEF IInv, ConnectClash
<1>3. Found'
    BY DEF IInv, Scalars, Found, InSubsystem, InCtrl, ConnectClash, Begin, Unmoved, kernelVars, objectVars,
       scanVars, historyVars
<1>4. Steady'
    BY DEF IInv, Steady, ConnectClash, Begin, Unmoved, kernelVars, scanVars, historyVars
<1>5. CrashExplained'
    <2>1. HostOfCall' = DefaultHost /\ HostKeys' = HostKeys /\ call' = "connect"
        BY DEF ConnectClash, Begin, HostOfCall, HostKeys
    <2>2. PICK h \in hosts : h.nqn = DefaultHost.nqn /\ DefaultHost.id # Absent /\ h.hostid = Absent
        BY DEF ConnectClash, HostClash
    <2>3. \E key \in HostKeys : h.nqn = key.nqn /\ h.hostid = key.id
        BY DEF IInv, Objects, HostsOK
    <2> QED
        BY <2>1, <2>2, <2>3 DEF CrashExplained
<1> QED
    BY <1>1, <1>2, <1>3, <1>4, <1>5 DEF IInv

LEMMA nvme_rescan_ctrl_Keeps == ASSUME IInv, nvme_rescan_ctrl PROVE IInv'
<1>1. Scalars'
    BY TreeAssumption DEF IInv, Scalars, nvme_rescan_ctrl, Begin, Unmoved, kernelVars
<1>2. Objects'
    BY SameObjects DEF IInv, nvme_rescan_ctrl
<1>3. Found'
    <2>1. PICK c \in ctrls : /\ c.sub # 0 /\ sub' = c.sub /\ ctrl' = c.id /\ call' = "rescan"
                            /\ at' \in {"spaces", "crashed"}
        BY DEF nvme_rescan_ctrl, MayRescan, Begin
    <2>2. c.sub \in Ids(subs)
        BY <2>1 DEF IInv, Objects, CtrlsOK
    <2>3. /\ todoSubs' \subseteq Subsystems /\ todoCtrls' \subseteq Instances /\ todoSpaces' \subseteq Spaces
          /\ ctrls' = ctrls /\ subs' = subs
        BY DEF IInv, Found, nvme_rescan_ctrl, objectVars
    <2> QED
        BY <2>1, <2>2, <2>3 DEF Found
<1>4. Steady'
    BY DEF IInv, Steady, nvme_rescan_ctrl, Begin, Unmoved, kernelVars
<1>5. CrashExplained'
    <2>1. PICK c \in ctrls : /\ c.sub # 0 /\ sub' = c.sub /\ call' = "rescan"
                            /\ at' = IF With(subs, c.sub).named THEN "spaces" ELSE "crashed"
        BY DEF nvme_rescan_ctrl, MayRescan, Begin
    <2>2. at' = "crashed" => call' = "rescan" /\ sub' # 0 /\ ~ With(subs', sub').named
        BY <2>1 DEF nvme_rescan_ctrl, objectVars
    <2> QED
        BY <2>2 DEF CrashExplained
<1> QED
    BY <1>1, <1>2, <1>3, <1>4, <1>5 DEF IInv

(* Steps that only look. *)
LEMMA ScanSubsystems_Keeps == ASSUME IInv, ScanSubsystems PROVE IInv'
<1>1. Scalars'
    BY DEF IInv, Scalars, ScanSubsystems, Unmoved, kernelVars, programVars
<1>2. Objects'
    BY SameObjects DEF IInv, ScanSubsystems
<1>3. Found'
    BY DEF IInv, Scalars, Found, InSubsystem, InCtrl, ScanSubsystems, Unmoved, kernelVars, objectVars,
       programVars
<1>4. Steady'
    BY DEF IInv, Steady, ScanSubsystems, Unmoved, kernelVars, programVars
<1>5. CrashExplained'
    BY DEF CrashExplained, ScanSubsystems, Unmoved
<1> QED
    BY <1>1, <1>2, <1>3, <1>4, <1>5 DEF IInv

LEMMA ScanDone_Keeps == ASSUME IInv, ScanDone PROVE IInv'
<1>1. Scalars'
    BY DEF IInv, Scalars, ScanDone, Unmoved, kernelVars, programVars
<1>2. Objects'
    BY SameObjects DEF IInv, ScanDone
<1>3. Found'
    BY DEF IInv, Scalars, Found, InSubsystem, InCtrl, ScanDone, Unmoved, kernelVars, objectVars, scanVars,
       programVars
<1>4. Steady'
    BY DEF IInv, Steady, ScanDone, Unmoved, kernelVars, scanVars, programVars
<1>5. CrashExplained'
    BY DEF CrashExplained, ScanDone, Unmoved
<1> QED
    BY <1>1, <1>2, <1>3, <1>4, <1>5 DEF IInv

LEMMA ScanSpaces_Keeps == ASSUME IInv, ScanSpaces PROVE IInv'
<1>1. Scalars'
    BY DEF IInv, Scalars, ScanSpaces, Unmoved, kernelVars, programVars
<1>2. Objects'
    BY SameObjects DEF IInv, ScanSpaces
<1>3. Found'
    BY DEF IInv, Scalars, Found, InSubsystem, InCtrl, ScanSpaces, Unmoved, kernelVars, objectVars,
       programVars, SpacesOf
<1>4. Steady'
    BY DEF IInv, Steady, ScanSpaces, Unmoved, kernelVars, programVars
<1>5. CrashExplained'
    BY DEF CrashExplained, ScanSpaces, Unmoved
<1> QED
    BY <1>1, <1>2, <1>3, <1>4, <1>5 DEF IInv

LEMMA ScanCtrls_Keeps == ASSUME IInv, ScanCtrls PROVE IInv'
<1>1. Scalars'
    BY DEF IInv, Scalars, ScanCtrls, Unmoved, kernelVars, programVars
<1>2. Objects'
    BY SameObjects DEF IInv, ScanCtrls
<1>3. Found'
    BY DEF IInv, Scalars, Found, InSubsystem, InCtrl, ScanCtrls, Unmoved, kernelVars, objectVars,
       programVars
<1>4. Steady'
    BY DEF IInv, Steady, ScanCtrls, Unmoved, kernelVars, programVars
<1>5. CrashExplained'
    BY DEF CrashExplained, ScanCtrls, Unmoved
<1> QED
    BY <1>1, <1>2, <1>3, <1>4, <1>5 DEF IInv

LEMMA nvme_subsystem_scan_ctrl_Keeps == ASSUME IInv, nvme_subsystem_scan_ctrl PROVE IInv'
<1>1. Scalars'
    BY DEF IInv, Scalars, nvme_subsystem_scan_ctrl, Unmoved, kernelVars, programVars
<1>2. Objects'
    BY SameObjects DEF IInv, nvme_subsystem_scan_ctrl
<1>3. Found'
    BY DEF IInv, Scalars, Found, InSubsystem, InCtrl, nvme_subsystem_scan_ctrl, Unmoved, kernelVars,
       objectVars, programVars, Rest
<1>4. Steady'
    BY DEF IInv, Steady, nvme_subsystem_scan_ctrl, Unmoved, kernelVars, programVars
<1>5. CrashExplained'
    BY DEF CrashExplained, nvme_subsystem_scan_ctrl, Unmoved
<1> QED
    BY <1>1, <1>2, <1>3, <1>4, <1>5 DEF IInv

LEMMA CtrlsDone_Keeps == ASSUME IInv, CtrlsDone PROVE IInv'
<1>1. Scalars'
    BY DEF IInv, Scalars, CtrlsDone, Unmoved, kernelVars, programVars
<1>2. Objects'
    BY SameObjects DEF IInv, CtrlsDone
<1>3. Found'
    BY DEF IInv, Scalars, Found, InSubsystem, InCtrl, CtrlsDone, Unmoved, kernelVars, objectVars, scanVars,
       programVars
<1>4. Steady'
    BY DEF IInv, Steady, CtrlsDone, Unmoved, kernelVars, scanVars, programVars
<1>5. CrashExplained'
    BY DEF CrashExplained, CtrlsDone, Unmoved
<1> QED
    BY <1>1, <1>2, <1>3, <1>4, <1>5 DEF IInv

LEMMA ScanCtrlSpaces_Keeps == ASSUME IInv, ScanCtrlSpaces PROVE IInv'
<1>1. Scalars'
    BY DEF IInv, Scalars, ScanCtrlSpaces, Crash, Unmoved, kernelVars, programVars
<1>2. Objects'
    BY SameObjects DEF IInv, ScanCtrlSpaces
<1>3. Found'
    BY DEF IInv, Scalars, Found, InSubsystem, InCtrl, ScanCtrlSpaces, Crash, Unmoved, kernelVars,
       objectVars, programVars, SpacesOf
<1>4. Steady'
    BY DEF IInv, Steady, ScanCtrlSpaces, Crash, Unmoved, kernelVars, programVars
<1>5. CrashExplained'
    <2> SUFFICES ASSUME at' = "crashed", ~ changed' PROVE call' = "rescan" /\ sub' # 0 /\ inst' \notin live'
        BY DEF CrashExplained
    <2>1. inst \notin live
        <3>1. inst = Absent \/ inst \notin live
            BY DEF ScanCtrlSpaces
        <3> QED
            BY <3>1, TreeAssumption DEF IInv, Scalars
    <2>2. call = "rescan"
        BY <2>1 DEF IInv, Steady, ScanCtrlSpaces
    <2>3. sub # 0
        BY DEF IInv, Objects, SubsOK, Found, InSubsystem, Ids, ScanCtrlSpaces
    <2> QED
        BY <2>1, <2>2, <2>3 DEF ScanCtrlSpaces, Unmoved, kernelVars, programVars
<1> QED
    BY <1>1, <1>2, <1>3, <1>4, <1>5 DEF IInv

LEMMA CtrlSpacesDone_Keeps == ASSUME IInv, CtrlSpacesDone PROVE IInv'
<1>1. Scalars'
    BY DEF IInv, Scalars, CtrlSpacesDone, Unmoved, kernelVars, programVars
<1>2. Objects'
    BY SameObjects DEF IInv, CtrlSpacesDone
<1>3. Found'
    BY DEF IInv, Scalars, Found, InSubsystem, InCtrl, CtrlSpacesDone, Unmoved, kernelVars, objectVars,
       scanVars, programVars
<1>4. Steady'
    BY DEF IInv, Steady, CtrlSpacesDone, Unmoved, kernelVars, scanVars, programVars
<1>5. CrashExplained'
    BY DEF CrashExplained, CtrlSpacesDone, Unmoved
<1> QED
    BY <1>1, <1>2, <1>3, <1>4, <1>5 DEF IInv

LEMMA ScanPaths_Keeps == ASSUME IInv, ScanPaths PROVE IInv'
<1>1. Scalars'
    BY DEF IInv, Scalars, ScanPaths, Unmoved, AfterCtrl, kernelVars, programVars
<1>2. Objects'
    BY SameObjects DEF IInv, ScanPaths
<1>3. Found'
    BY DEF IInv, Scalars, Found, InSubsystem, InCtrl, ScanPaths, Unmoved, AfterCtrl, kernelVars, objectVars,
       programVars, SpacesOf
<1>4. Steady'
    BY DEF IInv, Steady, ScanPaths, Unmoved, AfterCtrl, kernelVars, programVars
<1>5. CrashExplained'
    BY DEF CrashExplained, ScanPaths, Unmoved, AfterCtrl
<1> QED
    BY <1>1, <1>2, <1>3, <1>4, <1>5 DEF IInv

LEMMA PathsDone_Keeps == ASSUME IInv, PathsDone PROVE IInv'
<1>1. Scalars'
    BY DEF IInv, Scalars, PathsDone, Unmoved, AfterCtrl, kernelVars, programVars
<1>2. Objects'
    BY SameObjects DEF IInv, PathsDone
<1>3. Found'
    BY DEF IInv, Scalars, Found, InSubsystem, InCtrl, PathsDone, Unmoved, AfterCtrl, kernelVars, objectVars,
       scanVars, programVars
<1>4. Steady'
    BY DEF IInv, Steady, PathsDone, Unmoved, AfterCtrl, kernelVars, scanVars, programVars
<1>5. CrashExplained'
    BY DEF CrashExplained, PathsDone, Unmoved, AfterCtrl
<1> QED
    BY <1>1, <1>2, <1>3, <1>4, <1>5 DEF IInv

LEMMA ScanCtrlTransport_Keeps == ASSUME IInv, ScanCtrlTransport PROVE IInv'
<1>1. Scalars'
    BY DEF IInv, Scalars, ScanCtrlTransport, Unmoved, kernelVars, programVars
<1>2. Objects'
    BY SameObjects DEF IInv, ScanCtrlTransport
<1>3. Found'
    BY DEF IInv, Scalars, Found, InSubsystem, InCtrl, ScanCtrlTransport, Unmoved, kernelVars, objectVars,
       scanVars, programVars
<1>4. Steady'
    BY DEF IInv, Steady, ScanCtrlTransport, Unmoved, kernelVars, scanVars, programVars
<1>5. CrashExplained'
    BY DEF CrashExplained, ScanCtrlTransport, Unmoved
<1> QED
    BY <1>1, <1>2, <1>3, <1>4, <1>5 DEF IInv

(* Calls that free the tree. *)
LEMMA nvme_refresh_topology_Keeps == ASSUME IInv, nvme_refresh_topology PROVE IInv'
<1>1. Scalars'
    BY TreeAssumption DEF IInv, Scalars, nvme_refresh_topology, Begin, Unmoved, kernelVars, historyVars
<1>2. Objects'
    BY FreeTreeObjects DEF IInv, nvme_refresh_topology
<1>3. Found'
    BY DEF IInv, Found, InSubsystem, InCtrl, nvme_refresh_topology, Begin, scanVars
<1>4. Steady' /\ CrashExplained'
    BY DEF Steady, CrashExplained, nvme_refresh_topology, Begin
<1> QED
    BY <1>1, <1>2, <1>3, <1>4 DEF IInv

LEMMA nvme_free_tree_Keeps == ASSUME IInv, nvme_free_tree PROVE IInv'
<1>1. Scalars'
    BY TreeAssumption DEF IInv, Scalars, nvme_free_tree, Begin, Unmoved, kernelVars, historyVars
<1>2. Objects'
    BY FreeTreeObjects DEF IInv, nvme_free_tree
<1>3. Found'
    BY DEF IInv, Found, InSubsystem, InCtrl, nvme_free_tree, Begin, scanVars
<1>4. Steady' /\ CrashExplained'
    BY DEF Steady, CrashExplained, nvme_free_tree, Begin
<1> QED
    BY <1>1, <1>2, <1>3, <1>4 DEF IInv

(* device.cpp counts finite sets. *)
LEMMA CountCtrls_Keeps == ASSUME IInv, CountCtrls PROVE IInv'
<1>1. Cardinality(Counted) \in Nat
    BY FS_Subset, FS_CardinalityType DEF IInv, Objects, CtrlsOK, Counted
<1>2. Scalars'
    BY <1>1 DEF IInv, Scalars, CountCtrls, Return, Unmoved, kernelVars, historyVars
<1>3. Objects'
    BY FreeTreeObjects DEF IInv, CountCtrls
<1>4. Found'
    BY DEF IInv, Found, InSubsystem, InCtrl, CountCtrls, Return, scanVars
<1>5. Steady' /\ CrashExplained'
    BY DEF Steady, CrashExplained, CountCtrls, Return
<1> QED
    BY <1>2, <1>3, <1>4, <1>5 DEF IInv

LEMMA ListSpaces_Keeps == ASSUME IInv, ListSpaces PROVE IInv'
<1>1. Cardinality(Listed) \in Nat
    BY FS_Subset, FS_CardinalityType DEF IInv, Objects, NssOK, Listed
<1>2. listed' \in Nat
    BY <1>1 DEF ListSpaces
<1>3. Scalars'
    BY <1>2 DEF IInv, Scalars, ListSpaces, Return, Unmoved, kernelVars, historyVars
<1>4. Objects'
    BY FreeTreeObjects, SameObjects DEF IInv, ListSpaces
<1>5. Found'
    BY DEF IInv, Found, InSubsystem, InCtrl, ListSpaces, Return, scanVars
<1>6. Steady' /\ CrashExplained'
    BY DEF Steady, CrashExplained, ListSpaces, Return
<1> QED
    BY <1>3, <1>4, <1>5, <1>6 DEF IInv

(* Steps that make hosts and subsystems. *)
LEMMA nvme_scan_subsystem_Keeps == ASSUME IInv, nvme_scan_subsystem PROVE IInv'
<1>1. PICK s \in Subsystems : s = First(todoSubs)
    <2>1. todoSubs \subseteq Subsystems /\ todoSubs \subseteq Nat /\ todoSubs # {}
        BY TreeAssumption DEF IInv, Found, nvme_scan_subsystem
    <2> QED
        BY <2>1, FirstIn
<1>2. PICK h : h = nvme_lookup_host(DefaultHost)
    OBVIOUS
<1>3. PICK x : x = nvme_lookup_subsystem(h, s, TRUE)
    OBVIOUS
<1>4. /\ at = "subsystem" /\ todoSubs' = todoSubs \ {s} /\ MakeHost(h)
      /\ \/ MakeSub(x, TRUE) /\ sub' = x.id /\ at' = "spaces" /\ made' = made + 2
         \/ UNCHANGED <<subs, sub, at>> /\ made' = made + 1
      /\ UNCHANGED <<ctrls, nss, paths, open, overwritten, programVars, ctrl, inst,
                     todoCtrls, todoSpaces, changed>>
      /\ Unmoved
    BY <1>1, <1>2, <1>3 DEF nvme_scan_subsystem
<1>5. made \in Nat /\ HostsOK /\ SubsOK /\ DefaultHost \in HostKeys
    BY DEF IInv, Objects, HostKeys
<1>6. made' \in Nat /\ made' >= made + 1
    <2>1. made' = made + 1 \/ made' = made + 2
        BY <1>4
    <2> QED
        BY <1>5, <2>1
<1>7. HostsOK' /\ Ids(hosts) \subseteq Ids(hosts') /\ h.id \in Ids(hosts') /\ h.id \in Nat
    BY <1>2, <1>4, <1>5, <1>6, HostMade
<1>8. SubsOK' /\ Ids(subs) \subseteq Ids(subs') /\ (at' = "spaces" => sub' \in Ids(subs'))
    <2>1. CASE MakeSub(x, TRUE) /\ sub' = x.id /\ at' = "spaces" /\ made' = made + 2
        BY <1>3, <1>5, <1>7, <2>1, SubsysMade
    <2>2. CASE UNCHANGED <<subs, sub, at>> /\ made' = made + 1
        BY <1>4, <1>5, <1>7, <2>2 DEF SubsOK
    <2> QED
        BY <1>4, <2>1, <2>2
<1>9. Scalars'
    BY <1>4 DEF IInv, Scalars, Unmoved, kernelVars, programVars, historyVars
<1>10. Objects'
    <2>1. Objects /\ made' >= made
        BY <1>5, <1>6 DEF IInv
    <2> QED
        BY <1>4, <1>6, <1>7, <1>8, <2>1, MoreSubsystems
<1>11. Found'
    <2>1. /\ todoSubs' \subseteq Subsystems /\ todoCtrls' \subseteq Instances /\ todoSpaces' \subseteq Spaces
          /\ at' \in {"spaces", "subsystem"} /\ call' = call /\ ctrls' = ctrls
        BY <1>4 DEF IInv, Found, programVars
    <2>2. call # "rescan"
        BY <1>4 DEF IInv, Found
    <2> QED
        BY <1>8, <2>1, <2>2 DEF Found, InSubsystem, InCtrl
<1>12. Steady' /\ CrashExplained'
    BY <1>4 DEF Steady, CrashExplained
<1> QED
    BY <1>9, <1>10, <1>11, <1>12 DEF IInv

LEMMA ScanCtrlHost_Keeps == ASSUME IInv, ScanCtrlHost PROVE IInv'
<1> DEFINE key == IF inst \in live /\ HostOf[inst] # NoHost THEN HostOf[inst] ELSE DefaultHost
<1>1. key \in HostKeys /\ live \subseteq Instances /\ made \in Nat /\ HostsOK /\ SubsOK /\ Objects
    BY DEF IInv, Scalars, Objects, HostKeys
<1>2. PICK h : h = nvme_lookup_host(key)
    OBVIOUS
<1>3. PICK x : x = nvme_lookup_subsystem(h, SubsysOf[inst], FALSE)
    OBVIOUS
<1>4. /\ at = "host" /\ call = "scan_ctrl"
      /\ \/ HostClash(key) /\ at' = "crashed" /\ UNCHANGED <<hosts, subs, sub, made>>
         \/ /\ MakeHost(h)
            /\ \/ inst \in live /\ MakeSub(x, FALSE) /\ sub' = x.id /\ made' = made + 2 /\ at' = "transport"
               \/ at' = "idle" /\ UNCHANGED <<subs, sub>> /\ made' = made + 1
      /\ UNCHANGED <<ctrls, nss, paths, open, overwritten, programVars, ctrl, inst,
                     todoSubs, todoCtrls, todoSpaces, changed>>
      /\ Unmoved
    BY <1>2, <1>3 DEF IInv, Steady, ScanCtrlHost, Return, Crash
<1> HIDE DEF key
<1>5. Scalars'
    BY <1>4 DEF IInv, Scalars, Unmoved, kernelVars, programVars, historyVars
<1>6. /\ Objects'
      /\ at' = "transport" => sub' \in Ids(subs')
    <2>1. CASE at' = "crashed" /\ UNCHANGED <<hosts, subs, sub, made>>
        BY <1>1, <1>4, <2>1, SameObjects DEF objectVars
    <2>2. CASE MakeHost(h) /\ inst \in live /\ MakeSub(x, FALSE) /\ sub' = x.id /\ made' = made + 2
        <3>1. SubsysOf[inst] \in Subsystems
            BY <1>1, <2>2 DEF Subsystems
        <3>2. made' \in Nat /\ made' >= made /\ made' >= made + 1
            BY <1>1, <2>2
        <3>3. HostsOK' /\ Ids(hosts) \subseteq Ids(hosts') /\ h.id \in Ids(hosts') /\ h.id \in Nat
            BY <1>1, <1>2, <2>2, <3>2, HostMade
        <3>4. SubsOK' /\ Ids(subs) \subseteq Ids(subs') /\ x.id \in Ids(subs')
            BY <1>1, <1>3, <2>2, <3>1, <3>3, SubsysMade
        <3> QED
            BY <1>1, <1>4, <2>2, <3>2, <3>3, <3>4, MoreSubsystems
    <2>3. CASE MakeHost(h) /\ at' = "idle" /\ UNCHANGED <<subs, sub>> /\ made' = made + 1
        <3>1. made' \in Nat /\ made' >= made /\ made' >= made + 1
            BY <1>1, <2>3
        <3>2. HostsOK' /\ Ids(hosts) \subseteq Ids(hosts')
            BY <1>1, <1>2, <2>3, <3>1, HostMade
        <3>3. SubsOK' /\ Ids(subs) \subseteq Ids(subs')
            BY <1>1, <2>3, <3>1, <3>2 DEF SubsOK
        <3> QED
            BY <1>1, <1>4, <2>3, <3>1, <3>2, <3>3, MoreSubsystems
    <2> QED
        BY <1>4, <2>1, <2>2, <2>3
<1>7. Found'
    BY <1>4, <1>6 DEF IInv, Found, InSubsystem, InCtrl, programVars
<1>8. Steady'
    BY <1>4 DEF Steady, programVars
<1>9. CrashExplained'
    <2> SUFFICES ASSUME at' = "crashed"
                 PROVE  /\ call' = "scan_ctrl" /\ HostOfCall'.id # Absent
                        /\ \E k \in HostKeys : k.nqn = HostOfCall'.nqn /\ k.id = Absent
        BY DEF CrashExplained, HostKeys
    <2>1. HostOfCall' = key /\ call' = "scan_ctrl"
        BY <1>4 DEF HostOfCall, key, programVars, Unmoved, kernelVars
    <2>2. PICK g \in hosts : g.nqn = key.nqn /\ key.id # Absent /\ g.hostid = Absent
        BY <1>4 DEF HostClash
    <2>3. \E k \in HostKeys : g.nqn = k.nqn /\ g.hostid = k.id
        BY <1>1 DEF HostsOK
    <2> QED
        BY <2>1, <2>2, <2>3
<1> QED
    BY <1>5, <1>6, <1>7, <1>8, <1>9 DEF IInv

(* Steps that open namespaces. *)
LEMMA nvme_subsystem_scan_namespace_Keeps == ASSUME IInv, nvme_subsystem_scan_namespace PROVE IInv'
<1>1. sub \in Ids(subs) /\ sub \in Nat
    BY DEF IInv, Found, InSubsystem, Objects, SubsOK, Ids, nvme_subsystem_scan_namespace
<1>2. Objects' /\ todoSpaces' \subseteq Spaces
    <2>1. /\ Objects /\ todoSpaces \subseteq Spaces /\ todoSpaces # {} /\ OpenSpace(0)
          /\ UNCHANGED <<hosts, subs, ctrls, paths, overwritten>>
        BY DEF IInv, Found, nvme_subsystem_scan_namespace
    <2> QED
        BY <1>1, <2>1, OpenSpaceObjects
<1>3. Scalars'
    BY DEF IInv, Scalars, nvme_subsystem_scan_namespace, Unmoved, kernelVars, programVars, historyVars
<1>4. Found'
    BY <1>2 DEF IInv, Found, InSubsystem, InCtrl, nvme_subsystem_scan_namespace, programVars
<1>5. Steady' /\ CrashExplained'
    BY DEF Steady, CrashExplained, nvme_subsystem_scan_namespace
<1> QED
    BY <1>2, <1>3, <1>4, <1>5 DEF IInv

LEMMA nvme_ctrl_scan_namespace_Keeps == ASSUME IInv, nvme_ctrl_scan_namespace PROVE IInv'
<1>1. sub \in Ids(subs) /\ sub \in Nat /\ ctrl \in Ids(ctrls)
    BY DEF IInv, Found, InSubsystem, InCtrl, Objects, SubsOK, Ids, nvme_ctrl_scan_namespace
<1>2. Objects' /\ todoSpaces' \subseteq Spaces
    <2>1. /\ Objects /\ todoSpaces \subseteq Spaces /\ todoSpaces # {} /\ OpenSpace(ctrl)
          /\ UNCHANGED <<hosts, subs, ctrls, paths, overwritten>>
        BY DEF IInv, Found, nvme_ctrl_scan_namespace
    <2> QED
        BY <1>1, <2>1, OpenSpaceObjects
<1>3. Scalars'
    BY DEF IInv, Scalars, nvme_ctrl_scan_namespace, Unmoved, kernelVars, programVars, historyVars
<1>4. Found'
    BY <1>2 DEF IInv, Found, InSubsystem, InCtrl, nvme_ctrl_scan_namespace, programVars
<1>5. Steady' /\ CrashExplained'
    BY DEF Steady, CrashExplained, nvme_ctrl_scan_namespace
<1> QED
    BY <1>2, <1>3, <1>4, <1>5 DEF IInv

LEMMA nvme_ctrl_scan_path_Keeps == ASSUME IInv, nvme_ctrl_scan_path PROVE IInv'
<1>1. PICK n \in Spaces : n = NextSpace
    BY NextSpaceIn DEF IInv, Found, nvme_ctrl_scan_path
<1>2. sub \in Ids(subs) /\ sub \in Nat
    BY DEF IInv, Found, InSubsystem, Objects, SubsOK, Ids, nvme_ctrl_scan_path
<1>3. PICK c \in ctrls : c.id = ctrl /\ c.sub = sub
    BY DEF IInv, Found, InCtrl, nvme_ctrl_scan_path
<1>4. Objects'
    <2>1. /\ Objects /\ made' = made + 1 /\ UNCHANGED <<hosts, subs, ctrls, nss, open, overwritten>>
          /\ paths' = paths \cup {[id |-> made + 1, ctrl |-> ctrl, name |-> n,
                                   space |-> IF PathSpaces(n) = {} THEN 0 ELSE Oldest(PathSpaces(n)).id]}
        BY <1>1 DEF IInv, nvme_ctrl_scan_path
    <2> QED
        BY <1>2, <1>3, <2>1, PathAdded
<1>5. Scalars'
    BY DEF IInv, Scalars, nvme_ctrl_scan_path, Unmoved, kernelVars, programVars, historyVars
<1>6. Found'
    BY DEF IInv, Found, InSubsystem, InCtrl, nvme_ctrl_scan_path, programVars
<1>7. Steady' /\ CrashExplained'
    BY DEF Steady, CrashExplained, nvme_ctrl_scan_path
<1> QED
    BY <1>4, <1>5, <1>6, <1>7 DEF IInv

(* Steps that change a controller. *)
LEMMA nvme_ctrl_alloc_Keeps == ASSUME IInv, nvme_ctrl_alloc PROVE IInv'
<1> DEFINE key == Parsed(inst)
           found == {c \in ctrls : c.sub = sub /\ Matches(c, key)}
           new == [id |-> made + 1, sub |-> sub, key |-> key, name |-> Absent, fd |-> FALSE]
<1>1. PICK c : c = IF found # {} THEN Newest(found) ELSE new
    OBVIOUS
<1>2. /\ at = "address"
      /\ \/ inst \notin live /\ at' = "crashed" /\ UNCHANGED <<ctrls, ctrl, made>>
         \/ inst \in live /\ ctrls' = ctrls \cup {c} /\ ctrl' = c.id /\ made' = made + 1 /\ at' = "configure"
      /\ UNCHANGED <<hosts, subs, nss, paths, open, overwritten, programVars, sub, inst,
                     todoSubs, todoCtrls, todoSpaces, changed>>
      /\ Unmoved
    BY <1>1 DEF nvme_ctrl_alloc, Crash
<1>3. /\ made \in Nat /\ HostsOK /\ CtrlsOK /\ Objects /\ live \subseteq Instances
      /\ sub \in Ids(subs) /\ sub \in Nat
    BY <1>2 DEF IInv, Scalars, Found, InSubsystem, Objects, SubsOK, Ids
<1>4. ASSUME inst \in live
      PROVE  c \in CtrlSet /\ c.sub = sub /\ (c \in ctrls \/ (c.id > made /\ ~ c.fd)) /\ c.id \in 1 .. made + 1
    <2>1. CASE found # {}
        <3>1. \A d \in found : d.id \in 1 .. made
            BY <1>3 DEF CtrlsOK
        <3>2. found \subseteq ctrls /\ \A d \in found : d.sub = sub
            OBVIOUS
        <3> HIDE DEF found
        <3>3. c \in found
            BY <1>1, <1>3, <2>1, <3>1, NewestIn
        <3> QED
            BY <1>3, <3>1, <3>2, <3>3 DEF CtrlsOK
    <2>2. CASE found = {}
        <3>1. c = new
            BY <1>1, <2>2
        <3>2. key \in Keys
            BY <1>3, <1>4 DEF Keys
        <3> QED
            BY <1>3, <3>1, <3>2 DEF CtrlSet
    <2> QED
        BY <2>1, <2>2
<1> HIDE DEF found, new, key
<1>5. Scalars'
    BY <1>2 DEF IInv, Scalars, Unmoved, kernelVars, programVars, historyVars
<1>6. /\ Objects'
      /\ at' = "configure" => \E d \in ctrls' : d.id = ctrl' /\ d.sub = sub'
    <2>1. CASE inst \notin live /\ at' = "crashed" /\ UNCHANGED <<ctrls, ctrl, made>>
        BY <1>2, <1>3, <2>1, SameObjects DEF objectVars
    <2>2. CASE inst \in live /\ ctrls' = ctrls \cup {c} /\ ctrl' = c.id /\ made' = made + 1 /\ at' = "configure"
        <3>1. c \in CtrlSet /\ c.sub = sub /\ (c \in ctrls \/ (c.id > made /\ ~ c.fd)) /\ c.id \in 1 .. made + 1
            BY <1>4, <2>2
        <3>2. /\ made' \in Nat /\ made' >= made /\ c.id \in 1 .. made' /\ c.sub \in {0} \cup Ids(subs)
              /\ Ids(hosts) \subseteq Ids(hosts')
              /\ UNCHANGED <<subs, nss, paths, open, overwritten>>
            BY <1>2, <1>3, <2>2, <3>1
        <3>3. HostsOK'
            BY <1>2, <1>3, <2>2 DEF HostsOK, HostKeys
        <3>4. Objects'
            BY <1>3, <2>2, <3>1, <3>2, <3>3, CtrlAdded
        <3> QED
            BY <1>2, <2>2, <3>1, <3>4
    <2> QED
        BY <1>2, <2>1, <2>2
<1>7. Found'
    BY <1>2, <1>6 DEF IInv, Found, InSubsystem, InCtrl, programVars
<1>8. Steady'
    BY <1>2 DEF Steady
<1>9. CrashExplained'
    <2>1. inst \notin live => changed
        BY <1>2 DEF IInv, Steady
    <2> QED
        BY <1>2, <2>1 DEF CrashExplained
<1> QED
    BY <1>5, <1>6, <1>7, <1>8, <1>9 DEF IInv

LEMMA Configure_Keeps == ASSUME IInv, Configure PROVE IInv'
<1> DEFINE next == IF call = "scan_ctrl" THEN "idle" ELSE "ctrlspaces"
<1>1. /\ at = "configure" /\ nvme_configure_ctrl(inst \in live, next)
      /\ UNCHANGED <<hosts, subs, nss, paths, made, programVars, scanVars, changed>>
      /\ Unmoved
    BY DEF Configure
<1>2. Objects /\ live \subseteq Instances /\ sub \in Ids(subs)
    BY <1>1 DEF IInv, Scalars, Found, InSubsystem
<1>3. PICK c \in ctrls : c.id = ctrl /\ c.sub = sub
    BY <1>1 DEF IInv, Found, InCtrl
<1>4. \/ inst \in live /\ at' = next
      \/ at' = "ctrl" /\ call \in {"scan", "count", "list"}
      \/ at' = "idle"
    BY <1>1 DEF nvme_configure_ctrl
<1>5. /\ Objects'
      /\ \E d \in ctrls' : d.id = ctrl /\ d.sub = sub
    <2>1. ctrl \in Ids(ctrls)
        BY <1>3 DEF Ids
    <2>2. nvme_configure_ctrl(inst \in live, next) /\ UNCHANGED <<hosts, subs, nss, paths, made>>
        BY <1>1
    <2> HIDE DEF next
    <2> QED
        BY <1>2, <1>3, <2>1, <2>2, ConfigureObjects
<1>6. Scalars'
    BY <1>1, <1>4 DEF IInv, Scalars, Unmoved, kernelVars, programVars, historyVars
<1>7. Found'
    BY <1>1, <1>2, <1>4, <1>5 DEF IInv, Found, InSubsystem, InCtrl, programVars, scanVars
<1>8. Steady'
    BY <1>1, <1>4 DEF Steady, Unmoved, kernelVars, scanVars
<1>9. CrashExplained'
    BY <1>4 DEF CrashExplained
<1> QED
    BY <1>5, <1>6, <1>7, <1>8, <1>9 DEF IInv

LEMMA InitConfigure_Keeps == ASSUME IInv, InitConfigure PROVE IInv'
<1>1. /\ at = "init" /\ nvme_configure_ctrl(inst \in live, "link")
      /\ UNCHANGED <<hosts, subs, nss, paths, made, programVars, scanVars, changed>>
      /\ Unmoved
    BY DEF InitConfigure
<1>2. Objects /\ live \subseteq Instances /\ call = "connect"
    BY <1>1 DEF IInv, Scalars, Found
<1>3. PICK c \in ctrls : c.id = ctrl /\ c.sub = 0
    BY <1>1 DEF IInv, Found
<1>4. at' \in {"link", "idle"}
    BY <1>1, <1>2 DEF nvme_configure_ctrl
<1>5. /\ Objects'
      /\ \E d \in ctrls' : d.id = ctrl /\ d.sub = 0
    <2>1. ctrl \in Ids(ctrls)
        BY <1>3 DEF Ids
    <2>2. nvme_configure_ctrl(inst \in live, "link") /\ UNCHANGED <<hosts, subs, nss, paths, made>>
        BY <1>1
    <2> QED
        BY <1>2, <1>3, <2>1, <2>2, ConfigureObjects
<1>6. Scalars'
    BY <1>1, <1>4 DEF IInv, Scalars, Unmoved, kernelVars, programVars, historyVars
<1>7. Found'
    BY <1>1, <1>2, <1>4, <1>5 DEF IInv, Found, InSubsystem, InCtrl, programVars, scanVars
<1>8. Steady' /\ CrashExplained'
    BY <1>4 DEF Steady, CrashExplained
<1> QED
    BY <1>5, <1>6, <1>7, <1>8 DEF IInv

LEMMA nvme_disconnect_ctrl_Keeps == ASSUME IInv, nvme_disconnect_ctrl PROVE IInv'
<1>1. PICK c \in ctrls :
        /\ live' = live \ {c.name} /\ Update(c, [c EXCEPT !.fd = FALSE, !.name = Absent])
        /\ open' = open - (IF c.fd THEN 1 ELSE 0)
    BY DEF nvme_disconnect_ctrl
<1>2. /\ call' = "disconnect" /\ at' = "idle" /\ calls < MaxCalls /\ calls' = calls + 1 /\ changed' = FALSE
      /\ UNCHANGED <<hosts, subs, nss, paths, made, overwritten, scanVars, root, counted, listed,
                     historyVars, spaces, changes>>
    BY DEF nvme_disconnect_ctrl, Begin
<1> DEFINE d == [c EXCEPT !.fd = FALSE, !.name = Absent]
<1>3. /\ made \in Nat /\ overwritten \in Nat /\ SubsOK /\ Objects /\ open \in Int
      /\ c \in CtrlSet /\ c.sub \in {0} \cup Ids(subs) /\ c.fd \in BOOLEAN
    BY OpenIsInt DEF IInv, Objects, CtrlsOK, CtrlSet
<1>4. d \in CtrlSet /\ d.id = c.id /\ d.sub = c.sub /\ ~ d.fd
    BY <1>3 DEF CtrlSet
<1>5. Update(c, d)
    BY <1>1
<1> HIDE DEF d
<1>6. Scalars'
    <2>1. calls' \in 0 .. MaxCalls /\ live' \subseteq Instances
        BY <1>1, <1>2, TreeAssumption DEF IInv, Scalars
    <2> QED
        BY <1>2, <2>1 DEF IInv, Scalars
<1>7. Objects'
    <2>1. SubsOK'
        BY <1>2, <1>3 DEF SubsOK
    <2>2. /\ d.sub \in {0} \cup Ids(subs') /\ d.sub \in {0, c.sub} /\ Ids(subs) \subseteq Ids(subs')
          /\ made' \in Nat /\ made' >= made /\ UNCHANGED <<hosts, nss, paths>>
        BY <1>2, <1>3, <1>4
    <2>3. /\ overwritten' \in Nat /\ open' \in Int
          /\ open' - overwritten' = open - overwritten - (IF c.fd THEN 1 ELSE 0) + (IF d.fd THEN 1 ELSE 0)
        BY <1>1, <1>2, <1>3, <1>4
    <2> QED
        BY <1>3, <1>4, <1>5, <2>1, <2>2, <2>3, CtrlChanged
<1>8. Found'
    BY <1>2 DEF IInv, Found, InSubsystem, InCtrl, scanVars
<1>9. Steady' /\ CrashExplained'
    BY <1>2 DEF Steady, CrashExplained
<1> QED
    BY <1>6, <1>7, <1>8, <1>9 DEF IInv

LEMMA nvme_unlink_ctrl_Keeps == ASSUME IInv, nvme_unlink_ctrl PROVE IInv'
<1>1. PICK c \in ctrls : Update(c, [c EXCEPT !.sub = 0])
    BY DEF nvme_unlink_ctrl
<1>2. /\ call' = "unlink" /\ at' = "idle" /\ calls < MaxCalls /\ calls' = calls + 1 /\ changed' = FALSE
      /\ UNCHANGED <<hosts, subs, nss, paths, made, open, overwritten, scanVars, root, counted,
                     listed, drifted, historyVars>>
      /\ Unmoved
    BY DEF nvme_unlink_ctrl, Begin
<1> DEFINE d == [c EXCEPT !.sub = 0]
<1>3. /\ made \in Nat /\ overwritten \in Nat /\ SubsOK /\ Objects /\ open \in Int
      /\ c \in CtrlSet /\ c.fd \in BOOLEAN
    BY OpenIsInt DEF IInv, Objects, CtrlsOK, CtrlSet
<1>4. d \in CtrlSet /\ d.id = c.id /\ d.sub = 0 /\ d.fd = c.fd
    BY <1>3 DEF CtrlSet
<1>5. Update(c, d)
    BY <1>1
<1> HIDE DEF d
<1>6. Scalars'
    <2>1. calls' \in 0 .. MaxCalls
        BY <1>2, TreeAssumption DEF IInv, Scalars
    <2> QED
        BY <1>2, <2>1 DEF IInv, Scalars, Unmoved, kernelVars
<1>7. Objects'
    <2>1. SubsOK'
        BY <1>2, <1>3 DEF SubsOK
    <2>2. /\ d.sub \in {0} \cup Ids(subs') /\ d.sub \in {0, c.sub} /\ Ids(subs) \subseteq Ids(subs')
          /\ made' \in Nat /\ made' >= made /\ UNCHANGED <<hosts, nss, paths>>
        BY <1>2, <1>3, <1>4
    <2>3. /\ overwritten' \in Nat /\ open' \in Int
          /\ open' - overwritten' = open - overwritten - (IF c.fd THEN 1 ELSE 0) + (IF d.fd THEN 1 ELSE 0)
        BY <1>2, <1>3, <1>4
    <2> QED
        BY <1>3, <1>4, <1>5, <2>1, <2>2, <2>3, CtrlChanged
<1>8. Found'
    BY <1>2 DEF IInv, Found, InSubsystem, InCtrl, scanVars
<1>9. Steady' /\ CrashExplained'
    BY <1>2 DEF Steady, CrashExplained
<1> QED
    BY <1>6, <1>7, <1>8, <1>9 DEF IInv

LEMMA Connect_Keeps == ASSUME IInv, Connect PROVE IInv'
<1>1. PICK h : h = nvme_lookup_host(DefaultHost)
    OBVIOUS
<1>2. PICK i \in Instances :
        /\ live' = live \cup {i}
        /\ ctrls' = ctrls \cup {[id |-> made + 2, sub |-> 0, key |-> Address[i], name |-> Absent, fd |-> FALSE]}
    BY DEF Connect
<1>3. /\ MakeHost(h) /\ call' = "connect" /\ at' = "init" /\ calls < MaxCalls /\ calls' = calls + 1
      /\ ctrl' = made + 2 /\ made' = made + 2
      /\ UNCHANGED <<subs, nss, paths, open, overwritten, root, counted, listed, rescanned,
                     spaces, changes, sub, todoSubs, todoCtrls, todoSpaces>>
    BY <1>1 DEF Connect, Begin
<1> DEFINE c == [id |-> made + 2, sub |-> 0, key |-> Address[i], name |-> Absent, fd |-> FALSE]
<1>4. made \in Nat /\ HostsOK /\ PathsOK /\ CtrlsOK /\ Objects /\ DefaultHost \in HostKeys
    BY DEF IInv, Objects, HostKeys
<1>5. c \in CtrlSet /\ c.id = made + 2 /\ c.sub = 0 /\ ~ c.fd
    BY <1>4 DEF CtrlSet, Keys
<1>6. ctrls' = ctrls \cup {c}
    BY <1>2
<1> HIDE DEF c
<1>7. made' \in Nat /\ made' >= made /\ made' >= made + 1 /\ c.id \in 1 .. made' /\ c.id > made
    BY <1>3, <1>4, <1>5
<1>8. HostsOK' /\ Ids(hosts) \subseteq Ids(hosts') /\ h \in hosts' /\ Fits(h, DefaultHost)
    BY <1>1, <1>3, <1>4, <1>7, HostMade
<1>9. Objects'
    <2>1. UNCHANGED <<subs, nss, paths, open, overwritten>> /\ c.sub \in {0} \cup Ids(subs)
        BY <1>3, <1>5
    <2> QED
        BY <1>4, <1>5, <1>6, <1>7, <1>8, <2>1, CtrlAdded
<1>10. Scalars'
    <2>1. calls' \in 0 .. MaxCalls /\ live' \subseteq Instances
        BY <1>2, <1>3, TreeAssumption DEF IInv, Scalars
    <2> QED
        BY <1>3, <2>1 DEF IInv, Scalars
<1>11. Found'
    <2>1. \A p \in paths' : p.ctrl # ctrl'
        <3>1. \A p \in paths : p.ctrl \in 1 .. made
            BY <1>4 DEF PathsOK, CtrlsOK, Ids
        <3> QED
            BY <1>3, <1>4, <3>1
    <2>2. \E e \in ctrls' : e.id = ctrl' /\ e.sub = 0
        BY <1>3, <1>5, <1>6
    <2>3. todoSubs' \subseteq Subsystems /\ todoCtrls' \subseteq Instances /\ todoSpaces' \subseteq Spaces
        BY <1>3 DEF IInv, Found
    <2>4. \E g \in hosts' : Fits(g, DefaultHost)
        BY <1>8
    <2> QED
        BY <1>3, <2>1, <2>2, <2>3, <2>4 DEF Found, InSubsystem, InCtrl, Fits
<1>12. Steady' /\ CrashExplained'
    BY <1>3 DEF Steady, CrashExplained
<1> QED
    BY <1>9, <1>10, <1>11, <1>12 DEF IInv

LEMMA nvme_init_ctrl_Keeps == ASSUME IInv, nvme_init_ctrl PROVE IInv'
<1>1. PICK h : h = nvme_lookup_host(DefaultHost)
    OBVIOUS
<1>2. PICK x : x = nvme_lookup_subsystem(h, SubsysOf[inst], TRUE)
    OBVIOUS
<1>3. at = "link" /\ Objects /\ made \in Nat /\ overwritten \in Nat /\ open \in Int /\ HostsOK /\ SubsOK /\ CtrlsOK
    BY OpenIsInt DEF IInv, Objects, nvme_init_ctrl
<1>4. PICK c \in ctrls : c.id = ctrl /\ c.sub = 0
    BY <1>3 DEF IInv, Found
<1>5. With(ctrls, ctrl) = c
    BY <1>3, <1>4, WithId DEF CtrlsOK
<1> DEFINE d == [c EXCEPT !.sub = x.id]
<1>6. /\ at' = "idle"
      /\ \/ inst \in live /\ MakeSub(x, TRUE) /\ made' = made + 2 /\ Update(c, d)
         \/ UNCHANGED <<subs, ctrls, made>>
      /\ UNCHANGED <<hosts, nss, paths, open, overwritten, programVars, scanVars, changed>>
      /\ Unmoved
    BY <1>1, <1>2, <1>5 DEF nvme_init_ctrl, Return
<1>7. Objects'
    <2>1. CASE inst \in live /\ MakeSub(x, TRUE) /\ made' = made + 2 /\ Update(c, d)
        <3>1. SubsysOf[inst] \in Subsystems
            BY <2>1 DEF IInv, Scalars, Subsystems
        <3>2. h.id \in Ids(hosts') /\ h.id \in Nat /\ Ids(hosts) \subseteq Ids(hosts')
            <4>1. h \in hosts
                BY <1>1, <1>3, HostFound DEF IInv, Found, HostKeys
            <4> QED
                BY <1>3, <1>6, <4>1 DEF HostsOK, Ids
        <3>3. SubsOK' /\ Ids(subs) \subseteq Ids(subs') /\ x.id \in Ids(subs') /\ x.id \in Nat
            BY <1>2, <1>3, <2>1, <3>1, <3>2, SubsysMade
        <3>4. c \in CtrlSet /\ c.fd \in BOOLEAN
            BY <1>3 DEF CtrlsOK, CtrlSet
        <3>5. d \in CtrlSet /\ d.id = c.id /\ d.sub = x.id /\ d.fd = c.fd /\ Update(c, d)
            BY <2>1, <3>3, <3>4 DEF CtrlSet
        <3> HIDE DEF d
        <3>6. d.sub \in {0} \cup Ids(subs') /\ \A p \in paths : p.ctrl # c.id
            BY <1>3, <1>4, <3>3, <3>5 DEF IInv, Found
        <3>7. /\ made' \in Nat /\ made' >= made /\ overwritten' \in Nat /\ open' \in Int
              /\ open' - overwritten' = open - overwritten - (IF c.fd THEN 1 ELSE 0) + (IF d.fd THEN 1 ELSE 0)
              /\ UNCHANGED <<hosts, nss, paths>>
            BY <1>3, <1>6, <2>1, <3>4, <3>5
        <3> QED
            BY <1>3, <3>3, <3>5, <3>6, <3>7, CtrlChanged
    <2>2. CASE UNCHANGED <<subs, ctrls, made>>
        BY <1>3, <1>6, <2>2, SameObjects DEF objectVars
    <2> QED
        BY <1>6, <2>1, <2>2
<1>8. Scalars'
    BY <1>6 DEF IInv, Scalars, Unmoved, kernelVars, programVars, historyVars
<1>9. Found'
    BY <1>6 DEF IInv, Found, InSubsystem, InCtrl, scanVars
<1>10. Steady' /\ CrashExplained'
    BY <1>6 DEF Steady, CrashExplained
<1> QED
    BY <1>7, <1>8, <1>9, <1>10 DEF IInv

----------------------------------------------------------------------------
(* The theorems *)

LEMMA Init_Holds == ASSUME Init PROVE IInv
<1>1. IsFiniteSet({}) /\ Cardinality({}) = 0
    BY FS_EmptySet
<1>2. Objects
    <2>1. Fd(ctrls) = {}
        BY DEF Init, Fd
    <2> QED
        BY <1>1, <2>1 DEF Init, Objects, HostsOK, SubsOK, CtrlsOK, NssOK, PathsOK, Joined, Owned, Unique
<1>3. Scalars
    BY TreeAssumption DEF Init, Scalars
<1>4. Found /\ Steady /\ CrashExplained
    BY DEF Init, Found, InSubsystem, InCtrl, Steady, CrashExplained
<1> QED
    BY <1>2, <1>3, <1>4 DEF IInv

LEMMA Stutter_Keeps == ASSUME IInv, UNCHANGED vars PROVE IInv'
<1>1. Objects'
    BY SameObjects DEF IInv, vars
<1>2. Scalars' /\ Found' /\ Steady'
    BY DEF IInv, Scalars, Found, Steady, vars, kernelVars, objectVars, scanVars, programVars
<1>3. CrashExplained'
    BY DEF IInv, CrashExplained, HostOfCall, HostKeys, vars, kernelVars, objectVars, scanVars, programVars
<1> QED
    BY <1>1, <1>2, <1>3 DEF IInv

(* What the library relies on holds at every look at the kernel: the       *)
(* objects are well-formed, its position has the objects it needs.         *)
THEOREM TreeInductive == Spec => []IInv
<1>1. Init => IInv
    BY Init_Holds
<1>2. IInv /\ [Next]_vars => IInv'
    <2> SUFFICES ASSUME IInv, [Next]_vars PROVE IInv'
        OBVIOUS
    <2>1. CASE Library
        <3>1. CASE ScanSubsystems
            BY <3>1, ScanSubsystems_Keeps
        <3>2. CASE nvme_scan_subsystem
            BY <3>2, nvme_scan_subsystem_Keeps
        <3>3. CASE ScanDone
            BY <3>3, ScanDone_Keeps
        <3>4. CASE ScanSpaces
            BY <3>4, ScanSpaces_Keeps
        <3>5. CASE nvme_subsystem_scan_namespace
            BY <3>5, nvme_subsystem_scan_namespace_Keeps
        <3>6. CASE ScanCtrls
            BY <3>6, ScanCtrls_Keeps
        <3>7. CASE nvme_subsystem_scan_ctrl
            BY <3>7, nvme_subsystem_scan_ctrl_Keeps
        <3>8. CASE CtrlsDone
            BY <3>8, CtrlsDone_Keeps
        <3>9. CASE nvme_ctrl_alloc
            BY <3>9, nvme_ctrl_alloc_Keeps
        <3>10. CASE Configure
            BY <3>10, Configure_Keeps
        <3>11. CASE ScanCtrlSpaces
            BY <3>11, ScanCtrlSpaces_Keeps
        <3>12. CASE nvme_ctrl_scan_namespace
            BY <3>12, nvme_ctrl_scan_namespace_Keeps
        <3>13. CASE CtrlSpacesDone
            BY <3>13, CtrlSpacesDone_Keeps
        <3>14. CASE ScanPaths
            BY <3>14, ScanPaths_Keeps
        <3>15. CASE nvme_ctrl_scan_path
            BY <3>15, nvme_ctrl_scan_path_Keeps
        <3>16. CASE PathsDone
            BY <3>16, PathsDone_Keeps
        <3>17. CASE ScanCtrlHost
            BY <3>17, ScanCtrlHost_Keeps
        <3>18. CASE ScanCtrlTransport
            BY <3>18, ScanCtrlTransport_Keeps
        <3>19. CASE InitConfigure
            BY <3>19, InitConfigure_Keeps
        <3>20. CASE nvme_init_ctrl
            BY <3>20, nvme_init_ctrl_Keeps
        <3>21. CASE CountCtrls
            BY <3>21, CountCtrls_Keeps
        <3>22. CASE ListSpaces
            BY <3>22, ListSpaces_Keeps
        <3> QED
            BY <2>1, <3>1, <3>2, <3>3, <3>4, <3>5, <3>6, <3>7, <3>8, <3>9, <3>10, <3>11, <3>12, <3>13,
               <3>14, <3>15, <3>16, <3>17, <3>18, <3>19, <3>20, <3>21, <3>22 DEF Library
    <2>2. CASE Next /\ ~ Library
        <3>1. CASE Hotplug
            BY <3>1, Hotplug_Keeps
        <3>2. CASE nvme_scan
            BY <3>2, nvme_scan_Keeps
        <3>3. CASE nvme_refresh_topology
            BY <3>3, nvme_refresh_topology_Keeps
        <3>4. CASE nvme_free_tree
            BY <3>4, nvme_free_tree_Keeps
        <3>5. CASE nvme_scan_ctrl
            BY <3>5, nvme_scan_ctrl_Keeps
        <3>6. CASE nvme_rescan_ctrl
            BY <3>6, nvme_rescan_ctrl_Keeps
        <3>7. CASE nvme_disconnect_ctrl
            BY <3>7, nvme_disconnect_ctrl_Keeps
        <3>8. CASE nvme_unlink_ctrl
            BY <3>8, nvme_unlink_ctrl_Keeps
        <3>9. CASE Connect
            BY <3>9, Connect_Keeps
        <3>10. CASE ConnectClash
            BY <3>10, ConnectClash_Keeps
        <3> QED
            BY <2>2, <3>1, <3>2, <3>3, <3>4, <3>5, <3>6, <3>7, <3>8, <3>9, <3>10 DEF Next
    <2>3. CASE UNCHANGED vars
        BY <2>3, Stutter_Keeps
    <2> QED
        BY <2>1, <2>2, <2>3
<1> QED
    BY <1>1, <1>2, PTL DEF Spec

(* WellFormed: whatever comes and goes while the tree is scanned, freed,   *)
(* scanned again, connected and disconnected, no object refers to one that *)
(* is freed, every open descriptor has one owner that will close it, but   *)
(* for those that configuring a controller again has overwritten, and a    *)
(* path is joined to a namespace of its own name and subsystem.            *)
THEOREM TreeWellFormed == Spec => []WellFormed
<1>1. IInv => WellFormed
    <2> SUFFICES ASSUME IInv PROVE WellFormed
        OBVIOUS
    <2>1. /\ made \in Nat /\ overwritten \in Nat
          /\ HostsOK /\ SubsOK /\ CtrlsOK /\ NssOK /\ PathsOK /\ Joined /\ Owned
        BY DEF IInv, Objects
    <2>2. Cardinality(Fd(ctrls)) \in Nat /\ Cardinality(nss) \in Nat
        BY <2>1, FS_Subset, FS_CardinalityType DEF CtrlsOK, NssOK, Fd
    <2>3. FdsOwned
        BY <2>1 DEF FdsOwned, Owned, Fd
    <2>4. PathsJoin
        <3> SUFFICES ASSUME NEW p \in paths, With(ctrls, p.ctrl).sub # 0, p.space # 0
                     PROVE  \E n \in nss : n.id = p.space /\ n.name = p.name /\ n.sub = With(ctrls, p.ctrl).sub
            BY DEF PathsJoin
        <3>1. PICK c \in ctrls : c.id = p.ctrl
            BY <2>1 DEF PathsOK, Ids
        <3>2. With(ctrls, p.ctrl) = c
            BY <2>1, <3>1, WithId DEF CtrlsOK
        <3> QED
            BY <2>1, <3>1, <3>2 DEF Joined
    <2>5. TypeOK
        <3>1. open \in Nat
            BY <2>1, <2>2 DEF Owned
        <3>2. /\ \A h \in hosts : h.id \in 1 .. made
              /\ \A s \in subs : s.host \in {h.id : h \in hosts} /\ s.nqn \in Subsystems
            BY <2>1 DEF HostsOK, SubsOK, SubsysSet, Ids
        <3>3. /\ \A c \in ctrls : c.sub \in {0} \cup {s.id : s \in subs} /\ c.name \in {Absent} \cup Instances
              /\ \A n \in nss : n.ctrl \in {0} \cup {c.id : c \in ctrls} /\ n.name \in Spaces
              /\ \A p \in paths : p.ctrl \in {c.id : c \in ctrls}
            BY <2>1 DEF CtrlsOK, CtrlSet, NssOK, SpaceSet, PathsOK, Ids
        <3> QED
            BY <2>1, <3>1, <3>2, <3>3 DEF IInv, Scalars, TypeOK
    <2> QED
        BY <2>3, <2>4, <2>5 DEF WellFormed
<1> QED
    BY <1>1, TreeInductive, PTL

(* CrashExplained: the library crashes in no other cases than those that   *)
(* the model names, for every kernel and every sequence of calls.          *)
THEOREM CrashesExplained == Spec => []CrashExplained
<1>1. IInv => CrashExplained
    BY DEF IInv
<1> QED
    BY <1>1, TreeInductive, PTL

----------------------------------------------------------------------------
(* A scan mirrors the kernel *)

(* A tree that was never scanned or is freed is empty; what is left of it  *)
(* belongs to controllers that are out of it.                              *)
Freed == hosts = {} /\ subs = {} /\ \A n \in nss : n.ctrl # 0
FreedInv ==
    /\ root = "none" => at = "idle"
    /\ root = "none" \/ at = "subsystems" => Freed

(* A scan in a kernel that does not change, from its first look on. *)
ScanPlaces == {"subsystem", "spaces", "space", "ctrl", "address", "configure", "ctrlspaces", "ctrlspace",
               "paths", "path", "walk"}
Undisturbed ==
    /\ ~ changed /\ ~ Ambiguous
    /\ call \in {"scan", "count", "list"}
    /\ at \in ScanPlaces \/ (at = "idle" /\ call = "scan")

(* What is still to come: a controller, a namespace with several paths, a  *)
(* namespace or a path of a controller.                                    *)
Now == With(subs, sub).nqn
AtCtrl == {"address", "configure", "ctrlspaces", "ctrlspace", "paths", "path"}
CtrlPending(i) ==
    \/ SubsysOf[i] \in todoSubs
    \/ at \in AtCtrl \cup {"ctrl"} /\ i \in todoCtrls
    \/ at \in {"spaces", "space"} /\ SubsysOf[i] = Now
    \/ at \in {"address", "configure"} /\ i = inst
SharedPending(x) ==
    \/ x[1] \in todoSubs
    \/ x[1] = Now /\ (at = "spaces" \/ (at = "space" /\ x \in todoSpaces))
OwnPending(i, x) ==
    \/ CtrlPending(i)
    \/ i = inst /\ (at = "ctrlspaces" \/ (at = "ctrlspace" /\ x \in todoSpaces))
PathPending(i, x) ==
    \/ CtrlPending(i)
    \/ i = inst /\ (at \in {"ctrlspaces", "ctrlspace", "paths"} \/ (at = "path" /\ x \in todoSpaces))

(* Where the scan stands. *)
Place ==
    /\ \A s \in todoSubs : Present(s)
    /\ at \in {"walk", "idle"} => todoSubs = {}
    /\ at \in InSubsystem => Now \notin todoSubs /\ Present(Now)
    /\ at \in AtCtrl \cup {"ctrl"} => \A i \in todoCtrls : i \in live /\ SubsysOf[i] = Now
    /\ at \in AtCtrl => inst \in live /\ SubsysOf[inst] = Now /\ inst \notin todoCtrls
    /\ at = "configure" =>
          \A c \in ctrls : c.id = ctrl => c.sub = sub /\ c.name = Absent /\ c.key = Parsed(inst)
    /\ at \in AtCtrl \ {"address", "configure"} =>
          \A c \in ctrls : c.id = ctrl => c.sub = sub /\ c.name = inst
    /\ at \in {"space", "ctrlspace", "path"} =>
          \A x \in todoSpaces : x \in SpacesOf(Now) /\ (Now \in Shared <=> at # "ctrlspace")

(* There is one host, and one subsystem of each name. *)
MirrorSubs ==
    /\ \A g, h \in hosts : g = h
    /\ \A h \in hosts : Fits(h, DefaultHost)
    /\ \A x \in subs : Present(x.nqn) /\ x.nqn \notin todoSubs
    /\ \A x, y \in subs : x.nqn = y.nqn => x = y
    /\ \A s \in Subsystems : Present(s) /\ s \notin todoSubs => \E x \in subs : x.nqn = s

(* Each controller of the kernel that is not still to come is in the tree  *)
(* once, and no other one.                                                 *)
Linked == {c \in ctrls : c.sub # 0}
MirrorCtrls ==
    /\ \A c \in Linked :
          IF c.name = Absent THEN at = "configure" /\ c.id = ctrl
          ELSE /\ c.name \in live /\ ~ CtrlPending(c.name) /\ c.fd /\ c.key = Parsed(c.name)
               /\ \E x \in subs : x.id = c.sub /\ x.nqn = SubsysOf[c.name]
    /\ \A c, d \in Linked : c.name = d.name => c = d
    /\ \A i \in live : ~ CtrlPending(i) => \E c \in Linked : c.name = i

(* So is each namespace with several paths, *)
MirrorShared ==
    /\ \A n \in nss : n.ctrl = 0 =>
          n.name \in spaces /\ n.name[1] \in Shared /\ Present(n.name[1]) /\ ~ SharedPending(n.name)
    /\ \A x \in spaces : x[1] \in Shared /\ Present(x[1]) /\ ~ SharedPending(x) =>
          \E n \in nss : /\ n.ctrl = 0 /\ n.name = x
                         /\ \E y \in subs : y.id = n.sub /\ y.nqn = x[1]

(* each namespace of a controller, *)
MirrorOwn ==
    /\ \A n \in nss, c \in Linked : n.ctrl = c.id =>
          /\ c.name # Absent
          /\ n.name \in SpacesOf(SubsysOf[c.name]) /\ SubsysOf[c.name] \notin Shared
          /\ ~ OwnPending(c.name, n.name)
    /\ \A n, m \in nss, c \in Linked : n.ctrl = c.id /\ m.ctrl = c.id /\ n.name = m.name => n = m
    /\ \A i \in live : \A x \in SpacesOf(SubsysOf[i]) :
          SubsysOf[i] \notin Shared /\ ~ OwnPending(i, x) =>
              \E n \in nss, c \in Linked : n.ctrl = c.id /\ c.name = i /\ n.name = x

(* and each path, which leads to the namespace of its name. *)
MirrorPaths ==
    /\ \A p \in paths, c \in Linked : p.ctrl = c.id =>
          /\ c.name # Absent /\ p.space # 0
          /\ p.name \in SpacesOf(SubsysOf[c.name]) /\ SubsysOf[c.name] \in Shared
    /\ \A i \in live : \A x \in SpacesOf(SubsysOf[i]) :
          SubsysOf[i] \in Shared /\ ~ PathPending(i, x) =>
              \E p \in paths, c \in Linked : p.ctrl = c.id /\ c.name = i /\ p.name = x

Mirror == Place /\ MirrorSubs /\ MirrorCtrls /\ MirrorShared /\ MirrorOwn /\ MirrorPaths

(* The counts of device.cpp are those of the kernel as long as it stays as *)
(* it was while they were made.                                            *)
Attached == {x \in live \X spaces : x[2][1] = SubsysOf[x[1]] /\ x[2][1] \notin Shared}
CountInv ==
    /\ call \in {"count", "list"} /\ at # "idle" => (changed => drifted)
    /\ call = "list" => counted > 0
    /\ (~ drifted /\ ~ Ambiguous /\ counted > 0 /\ (call = "count" => at = "idle")) =>
          counted = Cardinality(live)
    /\ (~ drifted /\ ~ Ambiguous /\ call = "list" /\ at = "idle") => listed = Cardinality(Attached)

MirrorInv == FreedInv /\ (Undisturbed => Mirror) /\ CountInv

(* The subsystem looked at. *)
LEMMA NowIs ==
    ASSUME SubsOK, NEW x \in subs, x.id = sub
    PROVE  Now = x.nqn
BY WithId DEF SubsOK, Now
LEMMA NowSame ==
    ASSUME subs' = subs, sub' = sub
    PROVE  Now' = Now
BY DEF Now

(* What a step does not change, nor what is still to come of it: the       *)
(* controllers,                                                            *)
LEMMA SameCtrls ==
    ASSUME MirrorCtrls, UNCHANGED <<ctrls, live>>, subs \subseteq subs', at # "configure",
           \A i \in live : CtrlPending(i)' <=> CtrlPending(i)
    PROVE  MirrorCtrls'
<1>1. Linked' = Linked
    BY DEF Linked
<1> QED
    BY <1>1 DEF MirrorCtrls

(* the namespaces with several paths, *)
LEMMA SameShared ==
    ASSUME MirrorShared, UNCHANGED <<live, spaces>>, subs \subseteq subs',
           \A n : n.ctrl = 0 => (n \in nss' <=> n \in nss),
           \A x \in spaces : x[1] \in Shared /\ Present(x[1]) => (SharedPending(x)' <=> SharedPending(x))
    PROVE  MirrorShared'
<1>1. \A s : Present(s)' <=> Present(s)
    BY DEF Present
<1>2. \A n \in nss' : n.ctrl = 0 =>
         n.name \in spaces /\ n.name[1] \in Shared /\ Present(n.name[1])' /\ ~ SharedPending(n.name)'
    BY <1>1 DEF MirrorShared
<1>3. \A x \in spaces : x[1] \in Shared /\ Present(x[1])' /\ ~ SharedPending(x)' =>
         \E n \in nss' : /\ n.ctrl = 0 /\ n.name = x
                         /\ \E y \in subs' : y.id = n.sub /\ y.nqn = x[1]
    BY <1>1 DEF MirrorShared
<1> QED
    BY <1>2, <1>3 DEF MirrorShared

(* those of one controller, *)
LEMMA SameOwn ==
    ASSUME MirrorOwn, MirrorCtrls, UNCHANGED <<live, spaces>>,
           \A n \in nss', c \in Linked' : n.ctrl = c.id => n \in nss /\ c \in Linked,
           \A n \in nss, c \in Linked : n.ctrl = c.id => n \in nss' /\ c \in Linked',
           \A i \in live : \A x \in SpacesOf(SubsysOf[i]) :
              SubsysOf[i] \notin Shared => (OwnPending(i, x)' <=> OwnPending(i, x))
    PROVE  MirrorOwn'
<1>1. \A s : SpacesOf(s)' = SpacesOf(s)
    BY DEF SpacesOf
<1>2. \A n \in nss, c \in Linked : n.ctrl = c.id =>
         /\ c.name # Absent
         /\ n.name \in SpacesOf(SubsysOf[c.name]) /\ SubsysOf[c.name] \notin Shared
         /\ c.name \in live /\ ~ OwnPending(c.name, n.name)
    BY DEF MirrorOwn, MirrorCtrls
<1>3. \A n \in nss', c \in Linked' : n.ctrl = c.id =>
         /\ c.name # Absent
         /\ n.name \in SpacesOf(SubsysOf[c.name])' /\ SubsysOf[c.name] \notin Shared
         /\ ~ OwnPending(c.name, n.name)'
    BY <1>1, <1>2
<1>4. \A i \in live : \A x \in SpacesOf(SubsysOf[i]) :
         SubsysOf[i] \notin Shared /\ ~ OwnPending(i, x)' =>
             \E n \in nss, c \in Linked : n.ctrl = c.id /\ c.name = i /\ n.name = x
    BY DEF MirrorOwn
<1>5. \A i \in live' : \A x \in SpacesOf(SubsysOf[i])' :
         SubsysOf[i] \notin Shared /\ ~ OwnPending(i, x)' =>
             \E n \in nss', c \in Linked' : n.ctrl = c.id /\ c.name = i /\ n.name = x
    BY <1>1, <1>4
<1>6. \A n, m \in nss', c \in Linked' : n.ctrl = c.id /\ m.ctrl = c.id /\ n.name = m.name => n = m
    BY DEF MirrorOwn
<1> QED
    BY <1>3, <1>5, <1>6 DEF MirrorOwn

(* and the paths. *)
LEMMA SamePaths ==
    ASSUME MirrorPaths, UNCHANGED <<live, spaces, paths>>,
           \A p \in paths, c \in Linked' : p.ctrl = c.id => c \in Linked,
           \A p \in paths, c \in Linked : p.ctrl = c.id => c \in Linked',
           \A i \in live : \A x \in SpacesOf(SubsysOf[i]) :
              SubsysOf[i] \in Shared => (PathPending(i, x)' <=> PathPending(i, x))
    PROVE  MirrorPaths'
<1>1. \A s : SpacesOf(s)' = SpacesOf(s)
    BY DEF SpacesOf
<1>2. \A p \in paths', c \in Linked' : p.ctrl = c.id =>
         /\ c.name # Absent /\ p.space # 0
         /\ p.name \in SpacesOf(SubsysOf[c.name])' /\ SubsysOf[c.name] \in Shared
    BY <1>1 DEF MirrorPaths
<1>3. \A i \in live : \A x \in SpacesOf(SubsysOf[i]) :
         SubsysOf[i] \in Shared /\ ~ PathPending(i, x)' =>
             \E p \in paths, c \in Linked : p.ctrl = c.id /\ c.name = i /\ p.name = x
    BY DEF MirrorPaths
<1>4. \A i \in live' : \A x \in SpacesOf(SubsysOf[i])' :
         SubsysOf[i] \in Shared /\ ~ PathPending(i, x)' =>
             \E p \in paths', c \in Linked' : p.ctrl = c.id /\ c.name = i /\ p.name = x
    BY <1>1, <1>3
<1> QED
    BY <1>2, <1>4 DEF MirrorPaths

LEMMA NothingNew ==
    ASSUME MirrorCtrls, MirrorShared, MirrorOwn, MirrorPaths,
           UNCHANGED <<ctrls, nss, paths, live, spaces>>, subs \subseteq subs', at # "configure",
           \A i \in live : CtrlPending(i)' <=> CtrlPending(i),
           \A x \in spaces : x[1] \in Shared /\ Present(x[1]) => (SharedPending(x)' <=> SharedPending(x)),
           \A i \in live : \A x \in SpacesOf(SubsysOf[i]) :
              SubsysOf[i] \notin Shared => (OwnPending(i, x)' <=> OwnPending(i, x)),
           \A i \in live : \A x \in SpacesOf(SubsysOf[i]) :
              SubsysOf[i] \in Shared => (PathPending(i, x)' <=> PathPending(i, x))
    PROVE  MirrorCtrls' /\ MirrorShared' /\ MirrorOwn' /\ MirrorPaths'
<1>1. Linked' = Linked
    BY DEF Linked
<1>2. MirrorCtrls'
    BY SameCtrls
<1>3. MirrorShared'
    BY SameShared
<1>4. MirrorOwn'
    BY <1>1, SameOwn
<1>5. MirrorPaths'
    BY <1>1, SamePaths
<1> QED
    BY <1>2, <1>3, <1>4, <1>5

(* A scan that is undisturbed was so before. *)
LEMMA StillUndisturbed ==
    ASSUME UNCHANGED <<call, changed, live>>, at \in ScanPlaces, Undisturbed'
    PROVE  Undisturbed
BY DEF Undisturbed, Ambiguous

LEMMA ScanDone_Mirrors ==
    ASSUME IInv, Undisturbed => Mirror, ScanDone, Undisturbed'
    PROVE  Mirror'
<1>1. /\ UNCHANGED <<hosts, subs, ctrls, nss, paths, live, spaces, call, changed, sub, todoSubs>>
      /\ at \in ScanPlaces /\ at # "configure"
    BY DEF ScanDone, scanVars, Unmoved, kernelVars, objectVars, programVars, ScanPlaces
<1>2. Undisturbed /\ Mirror
    BY <1>1, StillUndisturbed
<1>3. Now' = Now /\ (\A s : Present(s)' <=> Present(s)) /\ (\A s : SpacesOf(s)' = SpacesOf(s))
    BY <1>1, NowSame DEF Present, SpacesOf
<1>4. Place'
    BY <1>1, <1>2, <1>3 DEF Mirror, Place, InSubsystem, AtCtrl, SpacesOf, Undisturbed, ScanDone, scanVars
<1>5. MirrorSubs'
    BY <1>1, <1>2, <1>3 DEF Mirror, MirrorSubs, Fits
<1>6. \A i \in live : CtrlPending(i)' <=> CtrlPending(i)
    BY <1>1, <1>2, <1>3 DEF Mirror, Place, CtrlPending, AtCtrl, Undisturbed, ScanDone, scanVars
<1>7. \A x \in spaces : x[1] \in Shared /\ Present(x[1]) => (SharedPending(x)' <=> SharedPending(x))
    BY <1>1, <1>2, <1>3 DEF SharedPending, SpacesOf, ScanDone, scanVars
<1>8. \A i \in live : \A x \in SpacesOf(SubsysOf[i]) :
         SubsysOf[i] \notin Shared => (OwnPending(i, x)' <=> OwnPending(i, x))
    BY <1>1, <1>2, <1>3, <1>6 DEF Mirror, Place, AtCtrl, OwnPending, SpacesOf, Undisturbed, ScanDone,
       scanVars
<1>9. \A i \in live : \A x \in SpacesOf(SubsysOf[i]) :
         SubsysOf[i] \in Shared => (PathPending(i, x)' <=> PathPending(i, x))
    BY <1>1, <1>2, <1>3, <1>6 DEF Mirror, Place, AtCtrl, PathPending, SpacesOf, Undisturbed, ScanDone,
       scanVars
<1>10. MirrorCtrls' /\ MirrorShared' /\ MirrorOwn' /\ MirrorPaths'
    BY <1>1, <1>2, <1>6, <1>7, <1>8, <1>9, NothingNew DEF Mirror
<1> QED
    BY <1>4, <1>5, <1>10 DEF Mirror

LEMMA ScanSpaces_Mirrors ==
    ASSUME IInv, Undisturbed => Mirror, ScanSpaces, Undisturbed'
    PROVE  Mirror'
<1>1. /\ UNCHANGED <<hosts, subs, ctrls, nss, paths, live, spaces, call, changed, sub, todoSubs>>
      /\ at \in ScanPlaces /\ at # "configure"
    BY DEF ScanSpaces, Unmoved, kernelVars, objectVars, programVars, ScanPlaces
<1>2. Undisturbed /\ Mirror
    BY <1>1, StillUndisturbed
<1>3. Now' = Now /\ (\A s : Present(s)' <=> Present(s)) /\ (\A s : SpacesOf(s)' = SpacesOf(s))
    BY <1>1, NowSame DEF Present, SpacesOf
<1>11. /\ at = "spaces" /\ at' = "space" /\ todoCtrls' = todoCtrls /\ inst' = inst /\ ctrl' = ctrl
       /\ todoSpaces' = IF Present(Now) /\ Now \in Shared THEN SpacesOf(Now) ELSE {}
    BY DEF ScanSpaces, Now
<1>4. Place'
    BY <1>1, <1>2, <1>3, <1>11 DEF Mirror, Place, InSubsystem, AtCtrl, SpacesOf, Undisturbed
<1>5. MirrorSubs'
    BY <1>1, <1>2, <1>3 DEF Mirror, MirrorSubs, Fits
<1>6. \A i \in live : CtrlPending(i)' <=> CtrlPending(i)
    BY <1>1, <1>2, <1>3, <1>11 DEF Mirror, Place, CtrlPending, AtCtrl, Undisturbed
<1>7. \A x \in spaces : x[1] \in Shared /\ Present(x[1]) => (SharedPending(x)' <=> SharedPending(x))
    BY <1>1, <1>2, <1>3, <1>11 DEF SharedPending, SpacesOf
<1>8. \A i \in live : \A x \in SpacesOf(SubsysOf[i]) :
         SubsysOf[i] \notin Shared => (OwnPending(i, x)' <=> OwnPending(i, x))
    BY <1>1, <1>2, <1>3, <1>6, <1>11 DEF Mirror, Place, AtCtrl, OwnPending, SpacesOf, Undisturbed
<1>9. \A i \in live : \A x \in SpacesOf(SubsysOf[i]) :
         SubsysOf[i] \in Shared => (PathPending(i, x)' <=> PathPending(i, x))
    BY <1>1, <1>2, <1>3, <1>6, <1>11 DEF Mirror, Place, AtCtrl, PathPending, SpacesOf, Undisturbed
<1>10. MirrorCtrls' /\ MirrorShared' /\ MirrorOwn' /\ MirrorPaths'
    BY <1>1, <1>2, <1>6, <1>7, <1>8, <1>9, NothingNew DEF Mirror
<1> QED
    BY <1>4, <1>5, <1>10 DEF Mirror

LEMMA ScanCtrls_Mirrors ==
    ASSUME IInv, Undisturbed => Mirror, ScanCtrls, Undisturbed'
    PROVE  Mirror'
<1>1. /\ UNCHANGED <<hosts, subs, ctrls, nss, paths, live, spaces, call, changed, sub, todoSubs>>
      /\ at \in ScanPlaces /\ at # "configure"
    BY DEF ScanCtrls, Unmoved, kernelVars, objectVars, programVars, ScanPlaces
<1>2. Undisturbed /\ Mirror
    BY <1>1, StillUndisturbed
<1>3. Now' = Now /\ (\A s : Present(s)' <=> Present(s)) /\ (\A s : SpacesOf(s)' = SpacesOf(s))
    BY <1>1, NowSame DEF Present, SpacesOf
<1>11. /\ at = "space" /\ at' = "ctrl" /\ todoSpaces = {} /\ inst' = inst /\ ctrl' = ctrl
       /\ todoCtrls' = {i \in live : SubsysOf[i] = Now}
    BY <1>2 DEF ScanCtrls, Now, Undisturbed
<1>4. Place'
    BY <1>1, <1>2, <1>3, <1>11 DEF Mirror, Place, InSubsystem, AtCtrl, SpacesOf, Undisturbed
<1>5. MirrorSubs'
    BY <1>1, <1>2, <1>3 DEF Mirror, MirrorSubs, Fits
<1>6. \A i \in live : CtrlPending(i)' <=> CtrlPending(i)
    BY <1>1, <1>2, <1>3, <1>11 DEF Mirror, Place, CtrlPending, AtCtrl, Undisturbed
<1>7. \A x \in spaces : x[1] \in Shared /\ Present(x[1]) => (SharedPending(x)' <=> SharedPending(x))
    BY <1>1, <1>2, <1>3, <1>11 DEF SharedPending, SpacesOf
<1>8. \A i \in live : \A x \in SpacesOf(SubsysOf[i]) :
         SubsysOf[i] \notin Shared => (OwnPending(i, x)' <=> OwnPending(i, x))
    BY <1>1, <1>2, <1>3, <1>6, <1>11 DEF Mirror, Place, AtCtrl, OwnPending, SpacesOf, Undisturbed
<1>9. \A i \in live : \A x \in SpacesOf(SubsysOf[i]) :
         SubsysOf[i] \in Shared => (PathPending(i, x)' <=> PathPending(i, x))
    BY <1>1, <1>2, <1>3, <1>6, <1>11 DEF Mirror, Place, AtCtrl, PathPending, SpacesOf, Undisturbed
<1>10. MirrorCtrls' /\ MirrorShared' /\ MirrorOwn' /\ MirrorPaths'
    BY <1>1, <1>2, <1>6, <1>7, <1>8, <1>9, NothingNew DEF Mirror
<1> QED
    BY <1>4, <1>5, <1>10 DEF Mirror

LEMMA CtrlsDone_Mirrors ==
    ASSUME IInv, Undisturbed => Mirror, CtrlsDone, Undisturbed'
    PROVE  Mirror'
<1>1. /\ UNCHANGED <<hosts, subs, ctrls, nss, paths, live, spaces, call, changed, sub, todoSubs>>
      /\ at \in ScanPlaces /\ at # "configure"
    BY DEF CtrlsDone, scanVars, Unmoved, kernelVars, objectVars, programVars, ScanPlaces
<1>2. Undisturbed /\ Mirror
    BY <1>1, StillUndisturbed
<1>3. Now' = Now /\ (\A s : Present(s)' <=> Present(s)) /\ (\A s : SpacesOf(s)' = SpacesOf(s))
    BY <1>1, NowSame DEF Present, SpacesOf
<1>4. Place'
    BY <1>1, <1>2, <1>3 DEF Mirror, Place, InSubsystem, AtCtrl, SpacesOf, Undisturbed, CtrlsDone, scanVars
<1>5. MirrorSubs'
    BY <1>1, <1>2, <1>3 DEF Mirror, MirrorSubs, Fits
<1>6. \A i \in live : CtrlPending(i)' <=> CtrlPending(i)
    BY <1>1, <1>2, <1>3 DEF Mirror, Place, CtrlPending, AtCtrl, Undisturbed, CtrlsDone, scanVars
<1>7. \A x \in spaces : x[1] \in Shared /\ Present(x[1]) => (SharedPending(x)' <=> SharedPending(x))
    BY <1>1, <1>2, <1>3 DEF SharedPending, SpacesOf, CtrlsDone, scanVars
<1>8. \A i \in live : \A x \in SpacesOf(SubsysOf[i]) :
         SubsysOf[i] \notin Shared => (OwnPending(i, x)' <=> OwnPending(i, x))
    BY <1>1, <1>2, <1>3, <1>6 DEF Mirror, Place, AtCtrl, OwnPending, SpacesOf, Undisturbed, CtrlsDone,
       scanVars
<1>9. \A i \in live : \A x \in SpacesOf(SubsysOf[i]) :
         SubsysOf[i] \in Shared => (PathPending(i, x)' <=> PathPending(i, x))
    BY <1>1, <1>2, <1>3, <1>6 DEF Mirror, Place, AtCtrl, PathPending, SpacesOf, Undisturbed, CtrlsDone,
       scanVars
<1>10. MirrorCtrls' /\ MirrorShared' /\ MirrorOwn' /\ MirrorPaths'
    BY <1>1, <1>2, <1>6, <1>7, <1>8, <1>9, NothingNew DEF Mirror
<1> QED
    BY <1>4, <1>5, <1>10 DEF Mirror

LEMMA ScanCtrlSpaces_Mirrors ==
    ASSUME IInv, Undisturbed => Mirror, ScanCtrlSpaces, Undisturbed'
    PROVE  Mirror'
<1>1. /\ UNCHANGED <<hosts, subs, ctrls, nss, paths, live, spaces, call, changed, sub, todoSubs>>
      /\ at \in ScanPlaces /\ at # "configure"
    BY DEF ScanCtrlSpaces, Unmoved, kernelVars, objectVars, programVars, ScanPlaces
<1>2. Undisturbed /\ Mirror
    BY <1>1, StillUndisturbed
<1>3. Now' = Now /\ (\A s : Present(s)' <=> Present(s)) /\ (\A s : SpacesOf(s)' = SpacesOf(s))
    BY <1>1, NowSame DEF Present, SpacesOf
<1>11. inst \in live /\ inst # Absent
    BY <1>2, TreeAssumption DEF IInv, Scalars, Mirror, Place, AtCtrl, ScanCtrlSpaces
<1>12. /\ at = "ctrlspaces" /\ at' = "ctrlspace" /\ todoCtrls' = todoCtrls /\ inst' = inst /\ ctrl' = ctrl
       /\ todoSpaces' = IF Now \in Shared THEN {} ELSE SpacesOf(Now)
    BY <1>11 DEF ScanCtrlSpaces, Now
<1>4. Place'
    BY <1>1, <1>2, <1>3, <1>11, <1>12 DEF Mirror, Place, InSubsystem, AtCtrl, SpacesOf, Undisturbed
<1>5. MirrorSubs'
    BY <1>1, <1>2, <1>3 DEF Mirror, MirrorSubs, Fits
<1>6. \A i \in live : CtrlPending(i)' <=> CtrlPending(i)
    BY <1>1, <1>2, <1>3, <1>11, <1>12 DEF Mirror, Place, CtrlPending, AtCtrl, Undisturbed
<1>7. \A x \in spaces : x[1] \in Shared /\ Present(x[1]) => (SharedPending(x)' <=> SharedPending(x))
    BY <1>1, <1>2, <1>3, <1>11, <1>12 DEF SharedPending, SpacesOf
<1>8. \A i \in live : \A x \in SpacesOf(SubsysOf[i]) :
         SubsysOf[i] \notin Shared => (OwnPending(i, x)' <=> OwnPending(i, x))
    BY <1>1, <1>2, <1>3, <1>6, <1>11, <1>12 DEF Mirror, Place, AtCtrl, OwnPending, SpacesOf, Undisturbed
<1>9. \A i \in live : \A x \in SpacesOf(SubsysOf[i]) :
         SubsysOf[i] \in Shared => (PathPending(i, x)' <=> PathPending(i, x))
    BY <1>1, <1>2, <1>3, <1>6, <1>11, <1>12 DEF Mirror, Place, AtCtrl, PathPending, SpacesOf, Undisturbed
<1>10. MirrorCtrls' /\ MirrorShared' /\ MirrorOwn' /\ MirrorPaths'
    BY <1>1, <1>2, <1>6, <1>7, <1>8, <1>9, NothingNew DEF Mirror
<1> QED
    BY <1>4, <1>5, <1>10 DEF Mirror

LEMMA CtrlSpacesDone_Mirrors ==
    ASSUME IInv, Undisturbed => Mirror, CtrlSpacesDone, Undisturbed'
    PROVE  Mirror'
<1>1. /\ UNCHANGED <<hosts, subs, ctrls, nss, paths, live, spaces, call, changed, sub, todoSubs>>
      /\ at \in ScanPlaces /\ at # "configure"
    BY DEF CtrlSpacesDone, scanVars, Unmoved, kernelVars, objectVars, programVars, ScanPlaces
<1>2. Undisturbed /\ Mirror
    BY <1>1, StillUndisturbed
<1>3. Now' = Now /\ (\A s : Present(s)' <=> Present(s)) /\ (\A s : SpacesOf(s)' = SpacesOf(s))
    BY <1>1, NowSame DEF Present, SpacesOf
<1>4. Place'
    BY <1>1, <1>2, <1>3 DEF Mirror, Place, InSubsystem, AtCtrl, SpacesOf, Undisturbed, CtrlSpacesDone,
       scanVars
<1>5. MirrorSubs'
    BY <1>1, <1>2, <1>3 DEF Mirror, MirrorSubs, Fits
<1>6. \A i \in live : CtrlPending(i)' <=> CtrlPending(i)
    BY <1>1, <1>2, <1>3 DEF Mirror, Place, CtrlPending, AtCtrl, Undisturbed, CtrlSpacesDone, scanVars
<1>7. \A x \in spaces : x[1] \in Shared /\ Present(x[1]) => (SharedPending(x)' <=> SharedPending(x))
    BY <1>1, <1>2, <1>3 DEF SharedPending, SpacesOf, CtrlSpacesDone, scanVars
<1>8. \A i \in live : \A x \in SpacesOf(SubsysOf[i]) :
         SubsysOf[i] \notin Shared => (OwnPending(i, x)' <=> OwnPending(i, x))
    BY <1>1, <1>2, <1>3, <1>6 DEF Mirror, Place, AtCtrl, OwnPending, SpacesOf, Undisturbed, CtrlSpacesDone,
       scanVars
<1>9. \A i \in live : \A x \in SpacesOf(SubsysOf[i]) :
         SubsysOf[i] \in Shared => (PathPending(i, x)' <=> PathPending(i, x))
    BY <1>1, <1>2, <1>3, <1>6 DEF Mirror, Place, AtCtrl, PathPending, SpacesOf, Undisturbed, CtrlSpacesDone,
       scanVars
<1>10. MirrorCtrls' /\ MirrorShared' /\ MirrorOwn' /\ MirrorPaths'
    BY <1>1, <1>2, <1>6, <1>7, <1>8, <1>9, NothingNew DEF Mirror
<1> QED
    BY <1>4, <1>5, <1>10 DEF Mirror

LEMMA ScanPaths_Mirrors ==
    ASSUME IInv, Undisturbed => Mirror, ScanPaths, Undisturbed'
    PROVE  Mirror'
<1>1. /\ UNCHANGED <<hosts, subs, ctrls, nss, paths, live, spaces, call, changed, sub, todoSubs>>
      /\ at \in ScanPlaces /\ at # "configure"
    BY DEF ScanPaths, Unmoved, kernelVars, objectVars, programVars, ScanPlaces
<1>2. Undisturbed /\ Mirror
    BY <1>1, StillUndisturbed
<1>3. Now' = Now /\ (\A s : Present(s)' <=> Present(s)) /\ (\A s : SpacesOf(s)' = SpacesOf(s))
    BY <1>1, NowSame DEF Present, SpacesOf
<1>11. inst \in live
    BY <1>2 DEF Mirror, Place, AtCtrl, ScanPaths
<1>12. /\ at = "paths" /\ at' = "path" /\ todoCtrls' = todoCtrls /\ inst' = inst /\ ctrl' = ctrl
       /\ todoSpaces' = IF Now \in Shared THEN SpacesOf(Now) ELSE {}
    BY <1>11 DEF ScanPaths, Now
<1>4. Place'
    BY <1>1, <1>2, <1>3, <1>11, <1>12 DEF Mirror, Place, InSubsystem, AtCtrl, SpacesOf, Undisturbed
<1>5. MirrorSubs'
    BY <1>1, <1>2, <1>3 DEF Mirror, MirrorSubs, Fits
<1>6. \A i \in live : CtrlPending(i)' <=> CtrlPending(i)
    BY <1>1, <1>2, <1>3, <1>11, <1>12 DEF Mirror, Place, CtrlPending, AtCtrl, Undisturbed
<1>7. \A x \in spaces : x[1] \in Shared /\ Present(x[1]) => (SharedPending(x)' <=> SharedPending(x))
    BY <1>1, <1>2, <1>3, <1>11, <1>12 DEF SharedPending, SpacesOf
<1>8. \A i \in live : \A x \in SpacesOf(SubsysOf[i]) :
         SubsysOf[i] \notin Shared => (OwnPending(i, x)' <=> OwnPending(i, x))
    BY <1>1, <1>2, <1>3, <1>6, <1>11, <1>12 DEF Mirror, Place, AtCtrl, OwnPending, SpacesOf, Undisturbed
<1>9. \A i \in live : \A x \in SpacesOf(SubsysOf[i]) :
         SubsysOf[i] \in Shared => (PathPending(i, x)' <=> PathPending(i, x))
    BY <1>1, <1>2, <1>3, <1>6, <1>11, <1>12 DEF Mirror, Place, AtCtrl, PathPending, SpacesOf, Undisturbed
<1>10. MirrorCtrls' /\ MirrorShared' /\ MirrorOwn' /\ MirrorPaths'
    BY <1>1, <1>2, <1>6, <1>7, <1>8, <1>9, NothingNew DEF Mirror
<1> QED
    BY <1>4, <1>5, <1>10 DEF Mirror

LEMMA PathsDone_Mirrors ==
    ASSUME IInv, Undisturbed => Mirror, PathsDone, Undisturbed'
    PROVE  Mirror'
<1>1. /\ UNCHANGED <<hosts, subs, ctrls, nss, paths, live, spaces, call, changed, sub, todoSubs>>
      /\ at \in ScanPlaces /\ at # "configure"
    BY DEF PathsDone, scanVars, Unmoved, kernelVars, objectVars, programVars, ScanPlaces
<1>2. Undisturbed /\ Mirror
    BY <1>1, StillUndisturbed
<1>3. Now' = Now /\ (\A s : Present(s)' <=> Present(s)) /\ (\A s : SpacesOf(s)' = SpacesOf(s))
    BY <1>1, NowSame DEF Present, SpacesOf
<1>4. Place'
    BY <1>1, <1>2, <1>3 DEF Mirror, Place, InSubsystem, AtCtrl, SpacesOf, Undisturbed, PathsDone, AfterCtrl,
       scanVars
<1>5. MirrorSubs'
    BY <1>1, <1>2, <1>3 DEF Mirror, MirrorSubs, Fits
<1>6. \A i \in live : CtrlPending(i)' <=> CtrlPending(i)
    BY <1>1, <1>2, <1>3 DEF Mirror, Place, CtrlPending, AtCtrl, Undisturbed, PathsDone, AfterCtrl, scanVars
<1>7. \A x \in spaces : x[1] \in Shared /\ Present(x[1]) => (SharedPending(x)' <=> SharedPending(x))
    BY <1>1, <1>2, <1>3 DEF SharedPending, SpacesOf, PathsDone, AfterCtrl, scanVars
<1>8. \A i \in live : \A x \in SpacesOf(SubsysOf[i]) :
         SubsysOf[i] \notin Shared => (OwnPending(i, x)' <=> OwnPending(i, x))
    BY <1>1, <1>2, <1>3, <1>6 DEF Mirror, Place, AtCtrl, OwnPending, SpacesOf, Undisturbed, PathsDone,
       AfterCtrl, scanVars
<1>9. \A i \in live : \A x \in SpacesOf(SubsysOf[i]) :
         SubsysOf[i] \in Shared => (PathPending(i, x)' <=> PathPending(i, x))
    BY <1>1, <1>2, <1>3, <1>6 DEF Mirror, Place, AtCtrl, PathPending, SpacesOf, Undisturbed, PathsDone,
       AfterCtrl, scanVars
<1>10. MirrorCtrls' /\ MirrorShared' /\ MirrorOwn' /\ MirrorPaths'
    BY <1>1, <1>2, <1>6, <1>7, <1>8, <1>9, NothingNew DEF Mirror
<1> QED
    BY <1>4, <1>5, <1>10 DEF Mirror

LEMMA nvme_subsystem_scan_ctrl_Mirrors ==
    ASSUME IInv, Undisturbed => Mirror, nvme_subsystem_scan_ctrl, Undisturbed'
    PROVE  Mirror'
<1>1. /\ UNCHANGED <<hosts, subs, ctrls, nss, paths, live, spaces, call, changed, sub, todoSubs>>
      /\ at \in ScanPlaces /\ at # "configure"
    BY DEF nvme_subsystem_scan_ctrl, Unmoved, kernelVars, objectVars, programVars, ScanPlaces
<1>2. Undisturbed /\ Mirror
    BY <1>1, StillUndisturbed
<1>3. Now' = Now /\ (\A s : Present(s)' <=> Present(s)) /\ (\A s : SpacesOf(s)' = SpacesOf(s))
    BY <1>1, NowSame DEF Present, SpacesOf
<1> DEFINE i0 == First(todoCtrls)
<1>11. i0 \in todoCtrls /\ i0 \in live
    <2>1. todoCtrls \subseteq Nat /\ todoCtrls # {}
        BY TreeAssumption DEF IInv, Found, nvme_subsystem_scan_ctrl
    <2>2. i0 \in todoCtrls
        BY <2>1, FirstIn
    <2> QED
        BY <1>2, <2>2 DEF Mirror, Place, nvme_subsystem_scan_ctrl
<1>12. todoCtrls' = todoCtrls \ {i0} /\ inst' = i0 /\ at' = "address" /\ at = "ctrl"
    BY <1>11 DEF nvme_subsystem_scan_ctrl, Rest
<1> HIDE DEF i0
<1>4. Place'
    BY <1>1, <1>2, <1>3, <1>11, <1>12 DEF Mirror, Place, InSubsystem, AtCtrl, SpacesOf, Undisturbed,
       nvme_subsystem_scan_ctrl, Rest
<1>5. MirrorSubs'
    BY <1>1, <1>2, <1>3 DEF Mirror, MirrorSubs, Fits
<1>6. \A i \in live : CtrlPending(i)' <=> CtrlPending(i)
    BY <1>1, <1>2, <1>3, <1>11, <1>12 DEF Mirror, Place, CtrlPending, AtCtrl, Undisturbed,
       nvme_subsystem_scan_ctrl, Rest
<1>7. \A x \in spaces : x[1] \in Shared /\ Present(x[1]) => (SharedPending(x)' <=> SharedPending(x))
    BY <1>1, <1>2, <1>3, <1>11, <1>12 DEF SharedPending, SpacesOf, nvme_subsystem_scan_ctrl, Rest
<1>8. \A i \in live : \A x \in SpacesOf(SubsysOf[i]) :
         SubsysOf[i] \notin Shared => (OwnPending(i, x)' <=> OwnPending(i, x))
    BY <1>1, <1>2, <1>3, <1>6, <1>11, <1>12 DEF Mirror, Place, AtCtrl, OwnPending, SpacesOf, Undisturbed,
       nvme_subsystem_scan_ctrl, Rest
<1>9. \A i \in live : \A x \in SpacesOf(SubsysOf[i]) :
         SubsysOf[i] \in Shared => (PathPending(i, x)' <=> PathPending(i, x))
    BY <1>1, <1>2, <1>3, <1>6, <1>11, <1>12 DEF Mirror, Place, AtCtrl, PathPending, SpacesOf, Undisturbed,
       nvme_subsystem_scan_ctrl, Rest
<1>10. MirrorCtrls' /\ MirrorShared' /\ MirrorOwn' /\ MirrorPaths'
    BY <1>1, <1>2, <1>6, <1>7, <1>8, <1>9, NothingNew DEF Mirror
<1> QED
    BY <1>4, <1>5, <1>10 DEF Mirror

(* The tree of a scan begins empty. *)
LEMMA ScanSubsystems_Mirrors ==
    ASSUME IInv, FreedInv, ScanSubsystems
    PROVE  Mirror'
<1>1. /\ at' = "subsystem" /\ todoSubs' = {s \in Subsystems : Present(s)}
      /\ UNCHANGED <<hosts, subs, ctrls, nss, paths, live, spaces>>
    BY DEF ScanSubsystems, objectVars, Unmoved, kernelVars
<1>2. hosts = {} /\ subs = {} /\ \A n \in nss : n.ctrl # 0
    BY DEF FreedInv, Freed, ScanSubsystems
<1>3. Linked' = {}
    BY <1>1, <1>2 DEF IInv, Objects, CtrlsOK, Ids, Linked
<1>4. \A s : Present(s)' <=> Present(s)
    BY <1>1 DEF Present
<1>5. \A i \in live' : SubsysOf[i] \in todoSubs'
    <2>1. live' \subseteq Instances
        BY <1>1 DEF IInv, Scalars
    <2>2. \A i \in live : SubsysOf[i] \in Subsystems /\ Present(SubsysOf[i])
        BY <1>1, <2>1 DEF Subsystems, Present
    <2> QED
        BY <1>1, <2>2
<1>6. Place'
    BY <1>1, <1>4 DEF Place, InSubsystem, AtCtrl
<1>7. MirrorSubs'
    BY <1>1, <1>2, <1>4 DEF MirrorSubs
<1>8. MirrorCtrls'
    BY <1>3, <1>5 DEF MirrorCtrls, CtrlPending
<1>9. MirrorShared'
    <2>1. \A n \in nss' : n.ctrl # 0
        BY <1>1, <1>2
    <2>2. \A x \in spaces' : Present(x[1])' => x[1] \in todoSubs'
        <3> SUFFICES ASSUME NEW x \in spaces', Present(x[1])' PROVE x[1] \in todoSubs'
            OBVIOUS
        <3>1. Present(x[1])
            BY <1>4
        <3>2. x \in Subsystems \X Nat
            BY <1>1, TreeAssumption DEF IInv, Scalars
        <3> QED
            BY <1>1, <3>1, <3>2
    <2> QED
        BY <2>1, <2>2 DEF MirrorShared, SharedPending
<1>10. MirrorOwn' /\ MirrorPaths'
    <2>1. \A i \in live' : CtrlPending(i)'
        BY <1>5 DEF CtrlPending
    <2>2. \A i \in live' : \A x : OwnPending(i, x)' /\ PathPending(i, x)'
        BY <2>1 DEF OwnPending, PathPending
    <2> QED
        BY <1>3, <2>2 DEF MirrorOwn, MirrorPaths
<1> QED
    BY <1>6, <1>7, <1>8, <1>9, <1>10 DEF Mirror

(* Its host is the one of this machine, the subsystem is a new one. *)
LEMMA HostAlone ==
    ASSUME made \in Nat, HostsOK, MirrorSubs, NEW h, h = nvme_lookup_host(DefaultHost), MakeHost(h)
    PROVE  (\A g, k \in hosts' : g = k) /\ (\A k \in hosts' : Fits(k, DefaultHost))
<1>1. Fits(h, DefaultHost) /\ ((\E g \in hosts : Fits(g, DefaultHost)) => h \in hosts)
    BY HostFound DEF HostKeys
<1>2. hosts' = hosts \cup {h}
    BY DEF MakeHost
<1> QED
    BY <1>1, <1>2 DEF MirrorSubs

LEMMA nvme_scan_subsystem_Mirrors ==
    ASSUME IInv, IInv', Undisturbed => Mirror, nvme_scan_subsystem, Undisturbed'
    PROVE  Mirror'
<1>1. PICK s \in todoSubs : s = First(todoSubs)
    <2>1. todoSubs \subseteq Nat /\ todoSubs # {}
        BY TreeAssumption DEF IInv, Found, nvme_scan_subsystem
    <2> QED
        BY <2>1, FirstIn
<1>2. PICK h : h = nvme_lookup_host(DefaultHost)
    OBVIOUS
<1>3. PICK x : x = nvme_lookup_subsystem(h, s, TRUE)
    OBVIOUS
<1>4. /\ at = "subsystem" /\ todoSubs' = todoSubs \ {s} /\ MakeHost(h)
      /\ (IF Present(s) THEN MakeSub(x, TRUE) /\ sub' = x.id /\ at' = "spaces"
          ELSE UNCHANGED <<subs, sub, at>>)
      /\ UNCHANGED <<ctrls, nss, paths, live, spaces, call, changed>>
    BY <1>1, <1>2, <1>3 DEF nvme_scan_subsystem, Unmoved, kernelVars, programVars
<1>5. Undisturbed /\ Mirror
    BY <1>4, StillUndisturbed DEF ScanPlaces
<1>6. Present(s) /\ s \in Subsystems /\ made \in Nat /\ HostsOK /\ SubsOK /\ HostsOK' /\ SubsOK'
    BY <1>5 DEF IInv, Found, Objects, Mirror, Place
<1>7. x = [id |-> made + 2, host |-> h.id, nqn |-> s, named |-> TRUE]
    <2>1. \A y \in subs : y.nqn # s
        BY <1>5 DEF Mirror, MirrorSubs
    <2>2. {y \in subs : y.host = h.id /\ y.nqn = s} = {}
        BY <2>1
    <2> QED
        BY <1>3, <2>2 DEF nvme_lookup_subsystem
<1>8. /\ x.nqn = s /\ x.id = made + 2 /\ at' = "spaces" /\ sub' = x.id
      /\ subs' = subs \cup {x}
    <2>1. x \notin subs
        BY <1>6, <1>7 DEF SubsOK
    <2>2. [x EXCEPT !.named = TRUE] = x
        <3>1. DOMAIN x = {"id", "host", "nqn", "named"} /\ x.named = TRUE
            BY <1>7
        <3>2. x = [f \in DOMAIN x |-> x[f]]
            BY <1>7
        <3>3. [x EXCEPT !.named = TRUE] = [f \in DOMAIN x |-> IF f = "named" THEN TRUE ELSE x[f]]
            BY <1>7
        <3> QED
            BY <3>1, <3>2, <3>3
    <2>3. (x.named \/ TRUE) = TRUE
        OBVIOUS
    <2>4. [x EXCEPT !.named = x.named \/ TRUE] = x
        BY <2>2, <2>3
    <2> QED
        BY <1>4, <1>6, <1>7, <2>1, <2>4 DEF MakeSub
<1>9. Now' = s
    <2>1. x \in subs' /\ x.id = sub' /\ Unique(subs')
        BY <1>6, <1>8 DEF SubsOK
    <2>2. With(subs', sub') = x
        BY <2>1, WithId
    <2> QED
        BY <1>8, <2>2 DEF Now
<1>10. (\A t : Present(t)' <=> Present(t)) /\ (\A t : SpacesOf(t)' = SpacesOf(t))
    BY <1>4 DEF Present, SpacesOf
<1>11. Place'
    BY <1>4, <1>5, <1>6, <1>8, <1>9, <1>10 DEF Mirror, Place, InSubsystem, AtCtrl
<1>12. MirrorSubs'
    <2>1. (\A g, k \in hosts' : g = k) /\ (\A k \in hosts' : Fits(k, DefaultHost))
        BY <1>2, <1>4, <1>5, <1>6, HostAlone DEF Mirror
    <2>2. \A y \in subs' : Present(y.nqn)' /\ y.nqn \notin todoSubs'
        BY <1>4, <1>5, <1>6, <1>8, <1>10 DEF Mirror, MirrorSubs
    <2>3. \A y, z \in subs' : y.nqn = z.nqn => y = z
        BY <1>5, <1>8 DEF Mirror, MirrorSubs
    <2>4. \A t \in Subsystems : Present(t)' /\ t \notin todoSubs' => \E y \in subs' : y.nqn = t
        BY <1>4, <1>5, <1>8, <1>10 DEF Mirror, MirrorSubs
    <2>5. \A k \in hosts' : Fits(k, DefaultHost)'
        BY <2>1 DEF Fits
    <2> QED
        BY <2>1, <2>2, <2>3, <2>4, <2>5 DEF MirrorSubs
<1>13. \A i \in live : CtrlPending(i)' <=> CtrlPending(i)
    BY <1>4, <1>8, <1>9 DEF CtrlPending, AtCtrl
<1>14. \A y \in spaces : SharedPending(y)' <=> SharedPending(y)
    BY <1>4, <1>8, <1>9 DEF SharedPending
<1>15. \A i \in live : \A y : (OwnPending(i, y)' <=> OwnPending(i, y)) /\ (PathPending(i, y)' <=> PathPending(i, y))
    BY <1>4, <1>8, <1>13 DEF OwnPending, PathPending
<1>16. MirrorCtrls' /\ MirrorShared' /\ MirrorOwn' /\ MirrorPaths'
    <2>1. /\ UNCHANGED <<ctrls, nss, paths, live, spaces>> /\ subs \subseteq subs' /\ at # "configure"
          /\ MirrorCtrls /\ MirrorShared /\ MirrorOwn /\ MirrorPaths
        BY <1>4, <1>5, <1>8 DEF Mirror
    <2> QED
        BY <1>13, <1>14, <1>15, <2>1, NothingNew
<1> QED
    BY <1>11, <1>12, <1>16 DEF Mirror

(* A namespace is opened. *)
LEMMA OpenSpaceMade ==
    ASSUME NEW owner, OpenSpace(owner), Exists(NextSpace)
    PROVE  /\ nss' = nss \cup {[id |-> made + 1, sub |-> sub, ctrl |-> owner, name |-> NextSpace]}
           /\ todoSpaces' = todoSpaces \ {NextSpace}
BY DEF OpenSpace

LEMMA nvme_subsystem_scan_namespace_Mirrors ==
    ASSUME IInv, Undisturbed => Mirror, nvme_subsystem_scan_namespace, Undisturbed'
    PROVE  Mirror'
<1>1. /\ UNCHANGED <<hosts, subs, ctrls, paths, live, spaces, call, changed, sub, ctrl, inst,
                     todoSubs, todoCtrls, at>>
      /\ at = "space" /\ todoSpaces # {} /\ OpenSpace(0)
    BY DEF nvme_subsystem_scan_namespace, Unmoved, kernelVars, programVars
<1>2. Undisturbed /\ Mirror
    BY <1>1, StillUndisturbed DEF ScanPlaces
<1>3. PICK n \in todoSpaces : n = NextSpace
    BY <1>1, NextSpaceIn DEF IInv, Found
<1>4. n \in spaces /\ n[1] = Now /\ Now \in Shared /\ Present(Now)
    BY <1>1, <1>2 DEF Mirror, Place, InSubsystem, SpacesOf
<1> DEFINE new == [id |-> made + 1, sub |-> sub, ctrl |-> 0, name |-> n]
<1>5. nss' = nss \cup {new} /\ todoSpaces' = todoSpaces \ {n}
    BY <1>1, <1>3, <1>4, OpenSpaceMade DEF Exists
<1>6. new.ctrl = 0 /\ new.name = n /\ new.sub = sub
    OBVIOUS
<1> HIDE DEF new
<1>7. Now' = Now /\ (\A s : Present(s)' <=> Present(s)) /\ (\A s : SpacesOf(s)' = SpacesOf(s)) /\ Linked' = Linked
    BY <1>1, NowSame DEF Present, SpacesOf, Linked
<1>8. Place'
    BY <1>1, <1>2, <1>5, <1>7 DEF Mirror, Place, InSubsystem, AtCtrl
<1>9. MirrorSubs'
    BY <1>1, <1>2, <1>7 DEF Mirror, MirrorSubs, Fits
<1>10. \A i \in live : CtrlPending(i)' <=> CtrlPending(i)
    BY <1>1, <1>7 DEF CtrlPending
<1>11. MirrorCtrls'
    BY <1>1, <1>2, <1>10, SameCtrls DEF Mirror
<1>12. \A x : SharedPending(x)' <=> (SharedPending(x) /\ x # n)
    <2>1. n[1] \notin todoSubs
        BY <1>1, <1>2, <1>4 DEF Mirror, Place, InSubsystem
    <2> QED
        BY <1>1, <1>3, <1>4, <1>5, <1>7, <2>1 DEF SharedPending
<1>13. MirrorShared'
    <2>1. PICK y \in subs : y.id = sub /\ y.nqn = Now
        <3>1. sub \in Ids(subs) /\ SubsOK
            BY <1>1 DEF IInv, Found, InSubsystem, Objects
        <3> QED
            BY <3>1, NowIs DEF Ids
    <2>2. ASSUME NEW m \in nss', m.ctrl = 0
          PROVE  m.name \in spaces' /\ m.name[1] \in Shared /\ Present(m.name[1])' /\ ~ SharedPending(m.name)'
        <3>1. CASE m = new
            BY <1>1, <1>4, <1>6, <1>7, <1>12, <3>1
        <3>2. CASE m \in nss
            BY <1>1, <1>2, <1>7, <1>12, <2>2, <3>2 DEF Mirror, MirrorShared
        <3> QED
            BY <1>5, <2>2, <3>1, <3>2
    <2>3. ASSUME NEW x \in spaces', x[1] \in Shared, Present(x[1])', ~ SharedPending(x)'
          PROVE  \E m \in nss' : m.ctrl = 0 /\ m.name = x /\ \E z \in subs' : z.id = m.sub /\ z.nqn = x[1]
        <3>1. CASE x = n
            BY <1>1, <1>4, <1>5, <1>6, <2>1, <3>1
        <3>2. CASE x # n
            <4>1. x \in spaces /\ Present(x[1]) /\ ~ SharedPending(x)
                BY <1>1, <1>7, <1>12, <2>3, <3>2
            <4> QED
                BY <1>1, <1>2, <1>5, <2>3, <4>1 DEF Mirror, MirrorShared
        <3> QED
            BY <3>1, <3>2
    <2> QED
        BY <2>2, <2>3 DEF MirrorShared
<1>14. \A c \in Linked : c.id # 0
    BY DEF Linked, IInv, Objects, CtrlsOK
<1>15. MirrorOwn'
    <2>1. \A m \in nss', c \in Linked' : m.ctrl = c.id => m \in nss /\ c \in Linked
        BY <1>5, <1>6, <1>7, <1>14
    <2>2. \A m \in nss, c \in Linked : m.ctrl = c.id => m \in nss' /\ c \in Linked'
        BY <1>5, <1>7
    <2>3. \A i \in live : \A x : OwnPending(i, x)' <=> OwnPending(i, x)
        BY <1>1, <1>10 DEF OwnPending
    <2>4. MirrorOwn /\ MirrorCtrls /\ UNCHANGED <<live, spaces>>
        BY <1>1, <1>2 DEF Mirror
    <2> QED
        BY <2>1, <2>2, <2>3, <2>4, SameOwn
<1>16. MirrorPaths'
    <2>1. \A i \in live : \A x : PathPending(i, x)' <=> PathPending(i, x)
        BY <1>1, <1>10 DEF PathPending
    <2>2. MirrorPaths /\ UNCHANGED <<live, spaces, paths>>
        BY <1>1, <1>2 DEF Mirror
    <2> QED
        BY <1>7, <2>1, <2>2, SamePaths
<1> QED
    BY <1>8, <1>9, <1>11, <1>13, <1>15, <1>16 DEF Mirror

(* The namespaces of a controller. *)
LEMMA nvme_ctrl_scan_namespace_Mirrors ==
    ASSUME IInv, Undisturbed => Mirror, nvme_ctrl_scan_namespace, Undisturbed'
    PROVE  Mirror'
<1>1. /\ UNCHANGED <<hosts, subs, ctrls, paths, live, spaces, call, changed, sub, ctrl, inst,
                     todoSubs, todoCtrls, at>>
      /\ at = "ctrlspace" /\ todoSpaces # {} /\ OpenSpace(ctrl)
    BY DEF nvme_ctrl_scan_namespace, Unmoved, kernelVars, programVars
<1>2. Undisturbed /\ Mirror
    BY <1>1, StillUndisturbed DEF ScanPlaces
<1>3. PICK n \in todoSpaces : n = NextSpace
    BY <1>1, NextSpaceIn DEF IInv, Found
<1>4. n \in spaces /\ n[1] = Now /\ Now \notin Shared /\ Present(Now) /\ inst \in live /\ SubsysOf[inst] = Now
    BY <1>1, <1>2 DEF Mirror, Place, InSubsystem, AtCtrl, SpacesOf
<1>5. PICK own \in Linked : own.id = ctrl /\ own.name = inst
    <2>1. PICK c \in ctrls : c.id = ctrl /\ c.sub = sub
        BY <1>1 DEF IInv, Found, InCtrl
    <2>2. sub # 0
        BY <1>1 DEF IInv, Found, InSubsystem, Objects, SubsOK, Ids
    <2>3. c.name = inst
        BY <1>1, <1>2, <2>1 DEF Mirror, Place, AtCtrl
    <2> QED
        BY <2>1, <2>2, <2>3 DEF Linked
<1> DEFINE new == [id |-> made + 1, sub |-> sub, ctrl |-> ctrl, name |-> n]
<1>6. nss' = nss \cup {new} /\ todoSpaces' = todoSpaces \ {n}
    BY <1>1, <1>3, <1>4, OpenSpaceMade DEF Exists
<1>7. new.ctrl = ctrl /\ new.name = n
    OBVIOUS
<1> HIDE DEF new
<1>8. Now' = Now /\ (\A s : Present(s)' <=> Present(s)) /\ (\A s : SpacesOf(s)' = SpacesOf(s)) /\ Linked' = Linked
    BY <1>1, NowSame DEF Present, SpacesOf, Linked
<1>9. Place'
    BY <1>1, <1>2, <1>6, <1>8 DEF Mirror, Place, InSubsystem, AtCtrl
<1>10. MirrorSubs'
    BY <1>1, <1>2, <1>8 DEF Mirror, MirrorSubs, Fits
<1>11. \A i : CtrlPending(i)' <=> CtrlPending(i)
    BY <1>1, <1>8 DEF CtrlPending
<1>12. MirrorCtrls'
    BY <1>1, <1>2, <1>11, SameCtrls DEF Mirror
<1>13. MirrorShared'
    <2>1. \A x \in spaces : SharedPending(x)' <=> SharedPending(x)
        BY <1>1, <1>8 DEF SharedPending
    <2>2. ctrl # 0
        BY <1>5 DEF Linked, IInv, Objects, CtrlsOK
    <2>3. \A m : m.ctrl = 0 => (m \in nss' <=> m \in nss)
        BY <1>6, <1>7, <2>2
    <2>4. MirrorShared /\ UNCHANGED <<live, spaces>> /\ subs \subseteq subs'
        BY <1>1, <1>2 DEF Mirror
    <2> QED
        BY <2>1, <2>3, <2>4, SameShared
<1>14. MirrorOwn'
    <2>1. ~ CtrlPending(inst)
        BY <1>2, <1>4, <1>5, TreeAssumption DEF Mirror, MirrorCtrls, IInv, Scalars
    <2>2. \A i, x : OwnPending(i, x)' <=> (OwnPending(i, x) /\ ~ (i = inst /\ x = n))
        BY <1>1, <1>3, <1>6, <1>11, <2>1 DEF OwnPending
    <2>3. OwnPending(inst, n)
        BY <1>1, <1>3 DEF OwnPending
    <2>4. \A c \in Linked : c.id = ctrl => c = own
        BY <1>5 DEF Linked, IInv, Objects, CtrlsOK, Unique
    <2>5. inst # Absent
        BY <1>4, TreeAssumption DEF IInv, Scalars
    <2>6. \A m \in nss : m.ctrl = ctrl => m.name # n
        BY <1>2, <1>5, <2>3 DEF Mirror, MirrorOwn
    <2>7. ASSUME NEW m \in nss', NEW c \in Linked', m.ctrl = c.id
          PROVE  /\ c.name # Absent
                 /\ m.name \in SpacesOf(SubsysOf[c.name])' /\ SubsysOf[c.name] \notin Shared
                 /\ ~ OwnPending(c.name, m.name)'
        <3>1. CASE m = new
            <4>1. c = own
                BY <1>7, <1>8, <2>4, <2>7, <3>1
            <4>2. n \in SpacesOf(SubsysOf[inst])
                BY <1>4 DEF SpacesOf
            <4> QED
                BY <1>4, <1>5, <1>7, <1>8, <2>2, <2>5, <3>1, <4>1, <4>2
        <3>2. CASE m \in nss
            <4>1. /\ c.name # Absent
                  /\ m.name \in SpacesOf(SubsysOf[c.name]) /\ SubsysOf[c.name] \notin Shared
                  /\ ~ OwnPending(c.name, m.name)
                BY <1>2, <1>8, <2>7, <3>2 DEF Mirror, MirrorOwn
            <4> QED
                BY <1>8, <2>2, <4>1
        <3> QED
            BY <1>6, <2>7, <3>1, <3>2
    <2>8. ASSUME NEW m \in nss', NEW k \in nss', NEW c \in Linked', m.ctrl = c.id, k.ctrl = c.id, m.name = k.name
          PROVE  m = k
        <3>1. CASE m \in nss /\ k \in nss
            BY <1>2, <1>8, <2>8, <3>1 DEF Mirror, MirrorOwn
        <3>2. CASE m = new \/ k = new
            BY <1>6, <1>7, <2>6, <2>8, <3>2
        <3> QED
            BY <1>6, <3>1, <3>2
    <2>9. ASSUME NEW i \in live', NEW x \in SpacesOf(SubsysOf[i])', SubsysOf[i] \notin Shared, ~ OwnPending(i, x)'
          PROVE  \E m \in nss', c \in Linked' : m.ctrl = c.id /\ c.name = i /\ m.name = x
        <3>1. CASE i = inst /\ x = n
            BY <1>5, <1>6, <1>7, <1>8, <3>1
        <3>2. CASE ~ (i = inst /\ x = n)
            <4>1. i \in live /\ x \in SpacesOf(SubsysOf[i]) /\ ~ OwnPending(i, x)
                BY <1>1, <1>8, <2>2, <2>9, <3>2
            <4>2. \E m \in nss, c \in Linked : m.ctrl = c.id /\ c.name = i /\ m.name = x
                BY <1>2, <2>9, <4>1 DEF Mirror, MirrorOwn
            <4> QED
                BY <1>6, <1>8, <4>2
        <3> QED
            BY <3>1, <3>2
    <2> QED
        BY <2>7, <2>8, <2>9 DEF MirrorOwn
<1>15. MirrorPaths'
    <2>1. \A i \in live : \A x : PathPending(i, x)' <=> PathPending(i, x)
        BY <1>1, <1>11 DEF PathPending
    <2>2. MirrorPaths /\ UNCHANGED <<live, spaces, paths>>
        BY <1>1, <1>2 DEF Mirror
    <2> QED
        BY <1>8, <2>1, <2>2, SamePaths
<1> QED
    BY <1>9, <1>10, <1>12, <1>13, <1>14, <1>15 DEF Mirror

(* Its paths. *)
LEMMA nvme_ctrl_scan_path_Mirrors ==
    ASSUME IInv, Undisturbed => Mirror, nvme_ctrl_scan_path, Undisturbed'
    PROVE  Mirror'
<1> DEFINE n == NextSpace
           space == IF PathSpaces(n) = {} THEN 0 ELSE Oldest(PathSpaces(n)).id
           new == [id |-> made + 1, ctrl |-> ctrl, name |-> n, space |-> space]
<1>1. /\ UNCHANGED <<hosts, subs, ctrls, nss, live, spaces, call, changed, sub, ctrl, inst,
                     todoSubs, todoCtrls, at>>
      /\ at = "path" /\ todoSpaces # {}
      /\ paths' = paths \cup {new} /\ todoSpaces' = todoSpaces \ {n}
    BY DEF nvme_ctrl_scan_path, Unmoved, kernelVars, programVars
<1>2. Undisturbed /\ Mirror
    BY <1>1, StillUndisturbed DEF ScanPlaces
<1>3. n \in todoSpaces
    BY <1>1, NextSpaceIn DEF IInv, Found
<1> HIDE DEF n
<1>4. /\ n \in spaces /\ n[1] = Now /\ Now \in Shared /\ Present(Now)
      /\ inst \in live /\ SubsysOf[inst] = Now /\ Now \notin todoSubs
    BY <1>1, <1>2, <1>3 DEF Mirror, Place, InSubsystem, AtCtrl, SpacesOf
<1>5. PICK own \in Linked : own.id = ctrl /\ own.name = inst
    <2>1. PICK c \in ctrls : c.id = ctrl /\ c.sub = sub
        BY <1>1 DEF IInv, Found, InCtrl
    <2>2. sub # 0
        BY <1>1 DEF IInv, Found, InSubsystem, Objects, SubsOK, Ids
    <2>3. c.name = inst
        BY <1>1, <1>2, <2>1 DEF Mirror, Place, AtCtrl
    <2> QED
        BY <2>1, <2>2, <2>3 DEF Linked
<1>6. new.ctrl = ctrl /\ new.name = n /\ new.space = space
    OBVIOUS
<1>7. space # 0
    <2>1. PICK y \in subs : y.id = sub /\ y.nqn = Now
        <3>1. sub \in Ids(subs) /\ SubsOK
            BY <1>1 DEF IInv, Found, InSubsystem, Objects
        <3> QED
            BY <3>1, NowIs DEF Ids
    <2>2. ~ SharedPending(n)
        BY <1>1, <1>4 DEF SharedPending
    <2>3. PICK m \in nss : m.ctrl = 0 /\ m.name = n /\ \E z \in subs : z.id = m.sub /\ z.nqn = n[1]
        BY <1>2, <1>4, <2>2 DEF Mirror, MirrorShared
    <2>4. m.sub = sub
        BY <1>2, <1>4, <2>1, <2>3 DEF Mirror, MirrorSubs
    <2>5. m \in PathSpaces(n)
        BY <2>3, <2>4 DEF PathSpaces
    <2>6. made \in Nat /\ \A z \in PathSpaces(n) : z.id \in 1 .. made
        BY DEF PathSpaces, IInv, Objects, NssOK
    <2>7. Oldest(PathSpaces(n)) \in PathSpaces(n)
        BY <2>5, <2>6, OldestIn
    <2> QED
        BY <2>5, <2>6, <2>7
<1> HIDE DEF space, new
<1>8. Now' = Now /\ (\A s : Present(s)' <=> Present(s)) /\ (\A s : SpacesOf(s)' = SpacesOf(s)) /\ Linked' = Linked
    BY <1>1, NowSame DEF Present, SpacesOf, Linked
<1>9. Place'
    BY <1>1, <1>2, <1>8 DEF Mirror, Place, InSubsystem, AtCtrl
<1>10. MirrorSubs'
    BY <1>1, <1>2, <1>8 DEF Mirror, MirrorSubs, Fits
<1>11. \A i : CtrlPending(i)' <=> CtrlPending(i)
    BY <1>1, <1>8 DEF CtrlPending
<1>12. MirrorCtrls'
    BY <1>1, <1>2, <1>11, SameCtrls DEF Mirror
<1>13. MirrorShared'
    <2>1. \A x \in spaces : SharedPending(x)' <=> SharedPending(x)
        BY <1>1, <1>8 DEF SharedPending
    <2>2. \A m : m.ctrl = 0 => (m \in nss' <=> m \in nss)
        BY <1>1
    <2>3. MirrorShared /\ UNCHANGED <<live, spaces>> /\ subs \subseteq subs'
        BY <1>1, <1>2 DEF Mirror
    <2> QED
        BY <2>1, <2>2, <2>3, SameShared
<1>14. MirrorOwn'
    <2>1. \A i \in live : \A x : OwnPending(i, x)' <=> OwnPending(i, x)
        BY <1>1, <1>11 DEF OwnPending
    <2>2. MirrorOwn /\ MirrorCtrls /\ UNCHANGED <<live, spaces>> /\ nss' = nss
        BY <1>1, <1>2 DEF Mirror
    <2> QED
        BY <1>8, <2>1, <2>2, SameOwn
<1>15. MirrorPaths'
    <2>1. inst # Absent
        BY <1>4, TreeAssumption DEF IInv, Scalars
    <2>2. \A i, x : ~ PathPending(i, x)' => ~ PathPending(i, x) \/ (i = inst /\ x = n)
        BY <1>1, <1>11 DEF PathPending
    <2>3. \A c \in Linked : c.id = ctrl => c = own
        BY <1>5 DEF Linked, IInv, Objects, CtrlsOK, Unique
    <2>4. ASSUME NEW p \in paths', NEW c \in Linked', p.ctrl = c.id
          PROVE  /\ c.name # Absent /\ p.space # 0
                 /\ p.name \in SpacesOf(SubsysOf[c.name])' /\ SubsysOf[c.name] \in Shared
        <3>1. CASE p = new
            <4>1. c = own
                BY <1>6, <1>8, <2>3, <2>4, <3>1
            <4>2. n \in SpacesOf(SubsysOf[inst])
                BY <1>4 DEF SpacesOf
            <4> QED
                BY <1>4, <1>5, <1>6, <1>7, <1>8, <2>1, <3>1, <4>1, <4>2
        <3>2. CASE p \in paths
            BY <1>2, <1>8, <2>4, <3>2 DEF Mirror, MirrorPaths
        <3> QED
            BY <1>1, <3>1, <3>2
    <2>5. ASSUME NEW i \in live', NEW x \in SpacesOf(SubsysOf[i])', SubsysOf[i] \in Shared, ~ PathPending(i, x)'
          PROVE  \E p \in paths', c \in Linked' : p.ctrl = c.id /\ c.name = i /\ p.name = x
        <3>1. CASE i = inst /\ x = n
            BY <1>1, <1>5, <1>6, <1>8, <3>1
        <3>2. CASE ~ (i = inst /\ x = n)
            <4>1. i \in live /\ x \in SpacesOf(SubsysOf[i]) /\ ~ PathPending(i, x)
                BY <1>1, <1>8, <2>2, <2>5, <3>2
            <4>2. \E p \in paths, c \in Linked : p.ctrl = c.id /\ c.name = i /\ p.name = x
                BY <1>2, <2>5, <4>1 DEF Mirror, MirrorPaths
            <4> QED
                BY <1>1, <1>8, <4>2
        <3> QED
            BY <3>1, <3>2
    <2> QED
        BY <2>4, <2>5 DEF MirrorPaths
<1> QED
    BY <1>9, <1>10, <1>12, <1>13, <1>14, <1>15 DEF Mirror

(* No controller of the tree has the address of the next one: it is made.  *)
LEMMA nvme_ctrl_alloc_Mirrors ==
    ASSUME IInv, Undisturbed => Mirror, nvme_ctrl_alloc, Undisturbed'
    PROVE  Mirror'
<1> DEFINE key == Parsed(inst)
           found == {c \in ctrls : c.sub = sub /\ Matches(c, key)}
           new == [id |-> made + 1, sub |-> sub, key |-> key, name |-> Absent, fd |-> FALSE]
<1>1. /\ UNCHANGED <<hosts, subs, nss, paths, live, spaces, call, changed, sub, inst,
                     todoSubs, todoCtrls, todoSpaces>>
      /\ at = "address"
    BY DEF nvme_ctrl_alloc, Unmoved, kernelVars, programVars
<1>2. Undisturbed /\ Mirror
    BY <1>1, StillUndisturbed DEF ScanPlaces
<1>3. inst \in live /\ SubsysOf[inst] = Now /\ inst \notin todoCtrls
    BY <1>1, <1>2 DEF Mirror, Place, AtCtrl
<1>4. made \in Nat /\ SubsOK /\ CtrlsOK /\ NssOK /\ PathsOK /\ live \subseteq Instances
    BY DEF IInv, Objects, Scalars
<1>5. sub # 0
    BY <1>1, <1>4 DEF IInv, Found, InSubsystem, SubsOK, Ids
<1>6. \A c \in Linked : c.name \in live /\ c.name # Absent
    BY <1>1, <1>2, <1>4, TreeAssumption DEF Mirror, MirrorCtrls
<1>7. found = {}
    <2> SUFFICES ASSUME NEW c \in ctrls, c.sub = sub, Matches(c, key)
                 PROVE  FALSE
        OBVIOUS
    <2>1. c \in Linked
        BY <1>5 DEF Linked
    <2>2. /\ c.name \in live /\ ~ CtrlPending(c.name) /\ c.key = Parsed(c.name)
          /\ \E x \in subs : x.id = c.sub /\ x.nqn = SubsysOf[c.name]
        BY <1>2, <1>6, <2>1 DEF Mirror, MirrorCtrls
    <2>3. SubsysOf[c.name] = SubsysOf[inst]
        BY <1>3, <1>4, <2>2, NowIs
    <2>4. c.name # inst
        BY <1>1, <2>2 DEF CtrlPending
    <2>5. Matches([key |-> Parsed(c.name)], Parsed(inst))
        BY <2>2 DEF Matches
    <2>6. Ambiguous
        BY <1>3, <2>2, <2>3, <2>4, <2>5 DEF Ambiguous
    <2> QED
        BY <1>2, <2>6 DEF Undisturbed
<1>8. ctrls' = ctrls \cup {new} /\ ctrl' = new.id /\ at' = "configure"
    BY <1>3, <1>7 DEF nvme_ctrl_alloc
<1>9. new.id = made + 1 /\ new.sub = sub /\ new.key = Parsed(inst) /\ new.name = Absent
    OBVIOUS
<1> HIDE DEF new, found, key
<1>10. Now' = Now /\ (\A s : Present(s)' <=> Present(s)) /\ (\A s : SpacesOf(s)' = SpacesOf(s))
    BY <1>1, NowSame DEF Present, SpacesOf
<1>11. Linked' = Linked \cup {new}
    BY <1>5, <1>8, <1>9 DEF Linked
<1>12. \A c \in ctrls : c.id # made + 1
    BY <1>4 DEF CtrlsOK
<1>13. Place'
    <2>1. \A c \in ctrls' : c.id = ctrl' => c = new
        BY <1>8, <1>9, <1>12
    <2> QED
        BY <1>1, <1>2, <1>8, <1>9, <1>10, <2>1 DEF Mirror, Place, InSubsystem, AtCtrl
<1>14. MirrorSubs'
    BY <1>1, <1>2, <1>10 DEF Mirror, MirrorSubs, Fits
<1>15. \A i : CtrlPending(i)' <=> CtrlPending(i)
    BY <1>1, <1>8, <1>10 DEF CtrlPending, AtCtrl
<1>16. MirrorCtrls'
    <2>1. ASSUME NEW c \in Linked'
          PROVE  IF c.name = Absent THEN at' = "configure" /\ c.id = ctrl'
                 ELSE /\ c.name \in live' /\ ~ CtrlPending(c.name)' /\ c.fd /\ c.key = Parsed(c.name)
                      /\ \E x \in subs' : x.id = c.sub /\ x.nqn = SubsysOf[c.name]
        <3>1. CASE c = new
            BY <1>8, <1>9, <3>1
        <3>2. CASE c \in Linked
            BY <1>1, <1>2, <1>6, <1>15, <3>2 DEF Mirror, MirrorCtrls
        <3> QED
            BY <1>11, <2>1, <3>1, <3>2
    <2>2. \A c, d \in Linked' : c.name = d.name => c = d
        BY <1>2, <1>6, <1>9, <1>11 DEF Mirror, MirrorCtrls
    <2>3. \A i \in live' : ~ CtrlPending(i)' => \E c \in Linked' : c.name = i
        BY <1>1, <1>2, <1>11, <1>15 DEF Mirror, MirrorCtrls
    <2> QED
        BY <2>1, <2>2, <2>3 DEF MirrorCtrls
<1>17. MirrorShared'
    <2>1. \A x \in spaces : SharedPending(x)' <=> SharedPending(x)
        BY <1>1, <1>8, <1>10 DEF SharedPending
    <2>2. MirrorShared /\ UNCHANGED <<live, spaces, nss>> /\ subs \subseteq subs'
        BY <1>1, <1>2 DEF Mirror
    <2> QED
        BY <2>1, <2>2, SameShared
<1>18. MirrorOwn'
    <2>1. \A n \in nss : n.ctrl # made + 1
        BY <1>4, <1>12 DEF NssOK, Ids
    <2>2. \A n \in nss', c \in Linked' : n.ctrl = c.id => n \in nss /\ c \in Linked
        BY <1>1, <1>9, <1>11, <2>1
    <2>3. \A n \in nss, c \in Linked : n.ctrl = c.id => n \in nss' /\ c \in Linked'
        BY <1>1, <1>11
    <2>4. \A i \in live : \A x : OwnPending(i, x)' <=> OwnPending(i, x)
        BY <1>1, <1>8, <1>15 DEF OwnPending
    <2>5. MirrorOwn /\ MirrorCtrls /\ UNCHANGED <<live, spaces>>
        BY <1>1, <1>2 DEF Mirror
    <2> QED
        BY <2>2, <2>3, <2>4, <2>5, SameOwn
<1>19. MirrorPaths'
    <2>1. \A p \in paths : p.ctrl # made + 1
        BY <1>4, <1>12 DEF PathsOK, Ids
    <2>2. \A p \in paths, c \in Linked' : p.ctrl = c.id => c \in Linked
        BY <1>9, <1>11, <2>1
    <2>3. \A p \in paths, c \in Linked : p.ctrl = c.id => c \in Linked'
        BY <1>11
    <2>4. \A i \in live : \A x : PathPending(i, x)' <=> PathPending(i, x)
        BY <1>1, <1>8, <1>15 DEF PathPending
    <2>5. MirrorPaths /\ UNCHANGED <<live, spaces, paths>>
        BY <1>1, <1>2 DEF Mirror
    <2> QED
        BY <2>2, <2>3, <2>4, <2>5, SamePaths
<1> QED
    BY <1>13, <1>14, <1>16, <1>17, <1>18, <1>19 DEF Mirror

(* The new controller gets its name. *)
LEMMA Configure_Mirrors ==
    ASSUME IInv, Undisturbed => Mirror, Configure, Undisturbed'
    PROVE  Mirror'
<1>1. /\ UNCHANGED <<hosts, subs, nss, paths, live, spaces, call, changed, sub, ctrl, inst,
                     todoSubs, todoCtrls, todoSpaces>>
      /\ at = "configure"
      /\ nvme_configure_ctrl(inst \in live, IF call = "scan_ctrl" THEN "idle" ELSE "ctrlspaces")
    BY DEF Configure, scanVars, Unmoved, kernelVars, programVars
<1>2. Undisturbed /\ Mirror
    BY <1>1, StillUndisturbed DEF ScanPlaces
<1>3. inst \in live /\ SubsysOf[inst] = Now /\ inst \notin todoCtrls /\ Now \notin todoSubs
    BY <1>1, <1>2 DEF Mirror, Place, AtCtrl, InSubsystem
<1>4. made \in Nat /\ SubsOK /\ CtrlsOK /\ live \subseteq Instances /\ inst # Absent
    BY <1>3, TreeAssumption DEF IInv, Objects, Scalars
<1>5. sub \in Ids(subs) /\ sub # 0
    BY <1>1, <1>4 DEF IInv, Found, InSubsystem, SubsOK, Ids
<1>6. PICK c \in ctrls : c.id = ctrl /\ c.sub = sub
    BY <1>1 DEF IInv, Found, InCtrl
<1>7. c = With(ctrls, ctrl)
    BY <1>4, <1>6, WithId DEF CtrlsOK
<1>8. c.name = Absent /\ c.key = Parsed(inst) /\ c \in Linked
    BY <1>1, <1>2, <1>5, <1>6 DEF Mirror, Place, Linked
<1> DEFINE d == [c EXCEPT !.fd = TRUE, !.name = inst]
<1>9. ctrls' = (ctrls \ {c}) \cup {d} /\ at' = "ctrlspaces"
    BY <1>1, <1>2, <1>3, <1>7 DEF nvme_configure_ctrl, Update, Undisturbed
<1>10. d.id = ctrl /\ d.sub = sub /\ d.key = Parsed(inst) /\ d.name = inst /\ d.fd
    BY <1>4, <1>6, <1>8 DEF CtrlsOK, CtrlSet
<1> HIDE DEF d
<1>11. Now' = Now /\ (\A s : Present(s)' <=> Present(s)) /\ (\A s : SpacesOf(s)' = SpacesOf(s))
    BY <1>1, NowSame DEF Present, SpacesOf
<1>12. Linked' = (Linked \ {c}) \cup {d}
    BY <1>5, <1>9, <1>10 DEF Linked
<1>13. \A b \in ctrls : b.id = ctrl => b = c
    BY <1>4, <1>6 DEF CtrlsOK, Unique
<1>14. \A b \in Linked \ {c} : b.name \in live /\ b.name # Absent /\ b.id # ctrl
    BY <1>1, <1>2, <1>4, <1>13, TreeAssumption DEF Mirror, MirrorCtrls, Linked
<1>15. Place'
    <2>1. \A b \in ctrls' : b.id = ctrl' => b = d
        BY <1>1, <1>9, <1>13
    <2> QED
        BY <1>1, <1>2, <1>9, <1>10, <1>11, <2>1 DEF Mirror, Place, InSubsystem, AtCtrl
<1>16. MirrorSubs'
    BY <1>1, <1>2, <1>11 DEF Mirror, MirrorSubs, Fits
<1>17. \A i : CtrlPending(i)' <=> (CtrlPending(i) /\ i # inst)
    BY <1>1, <1>3, <1>9, <1>11 DEF CtrlPending, AtCtrl
<1>18. CtrlPending(inst)
    BY <1>1 DEF CtrlPending
<1>19. \A b \in Linked \ {c} : b.name # inst
    BY <1>2, <1>14, <1>18 DEF Mirror, MirrorCtrls
<1>20. MirrorCtrls'
    <2>1. PICK y \in subs : y.id = sub /\ y.nqn = Now
        BY <1>4, <1>5, NowIs DEF Ids
    <2>2. ASSUME NEW b \in Linked'
          PROVE  IF b.name = Absent THEN at' = "configure" /\ b.id = ctrl'
                 ELSE /\ b.name \in live' /\ ~ CtrlPending(b.name)' /\ b.fd /\ b.key = Parsed(b.name)
                      /\ \E x \in subs' : x.id = b.sub /\ x.nqn = SubsysOf[b.name]
        <3>1. CASE b = d
            BY <1>1, <1>3, <1>4, <1>10, <1>17, <2>1, <3>1
        <3>2. CASE b \in Linked \ {c}
            BY <1>1, <1>2, <1>14, <1>17, <3>2 DEF Mirror, MirrorCtrls
        <3> QED
            BY <1>12, <2>2, <3>1, <3>2
    <2>3. \A b, e \in Linked' : b.name = e.name => b = e
        BY <1>2, <1>10, <1>12, <1>19 DEF Mirror, MirrorCtrls
    <2>4. ASSUME NEW i \in live', ~ CtrlPending(i)'
          PROVE  \E b \in Linked' : b.name = i
        <3>1. CASE i = inst
            BY <1>10, <1>12, <3>1
        <3>2. CASE i # inst
            <4>1. PICK b \in Linked : b.name = i
                BY <1>1, <1>2, <1>17, <2>4, <3>2 DEF Mirror, MirrorCtrls
            <4>2. b # c
                BY <1>1, <1>4, <1>8, <2>4, <4>1, TreeAssumption
            <4> QED
                BY <1>12, <4>1, <4>2
        <3> QED
            BY <3>1, <3>2
    <2> QED
        BY <2>2, <2>3, <2>4 DEF MirrorCtrls
<1>21. MirrorShared'
    <2>1. \A x \in spaces : SharedPending(x)' <=> SharedPending(x)
        BY <1>1, <1>9, <1>11 DEF SharedPending
    <2>2. MirrorShared /\ UNCHANGED <<live, spaces, nss>> /\ subs \subseteq subs'
        BY <1>1, <1>2 DEF Mirror
    <2> QED
        BY <2>1, <2>2, SameShared
<1>22. MirrorOwn'
    <2>1. \A n \in nss : n.ctrl # ctrl
        BY <1>2, <1>6, <1>8 DEF Mirror, MirrorOwn
    <2>2. \A n \in nss', b \in Linked' : n.ctrl = b.id => n \in nss /\ b \in Linked
        BY <1>1, <1>10, <1>12, <2>1
    <2>3. \A n \in nss, b \in Linked : n.ctrl = b.id => n \in nss' /\ b \in Linked'
        BY <1>1, <1>6, <1>12, <2>1
    <2>4. \A i \in live : \A x : OwnPending(i, x)' <=> OwnPending(i, x)
        BY <1>1, <1>9, <1>17, <1>18 DEF OwnPending
    <2>5. MirrorOwn /\ MirrorCtrls /\ UNCHANGED <<live, spaces>>
        BY <1>1, <1>2 DEF Mirror
    <2> QED
        BY <2>2, <2>3, <2>4, <2>5, SameOwn
<1>23. MirrorPaths'
    <2>1. \A p \in paths : p.ctrl # ctrl
        BY <1>2, <1>6, <1>8 DEF Mirror, MirrorPaths
    <2>2. \A p \in paths, b \in Linked' : p.ctrl = b.id => b \in Linked
        BY <1>10, <1>12, <2>1
    <2>3. \A p \in paths, b \in Linked : p.ctrl = b.id => b \in Linked'
        BY <1>6, <1>12, <2>1
    <2>4. \A i \in live : \A x : PathPending(i, x)' <=> PathPending(i, x)
        BY <1>1, <1>9, <1>17, <1>18 DEF PathPending
    <2>5. MirrorPaths /\ UNCHANGED <<live, spaces, paths>>
        BY <1>1, <1>2 DEF Mirror
    <2> QED
        BY <2>2, <2>3, <2>4, <2>5, SamePaths
<1> QED
    BY <1>15, <1>16, <1>20, <1>21, <1>22, <1>23 DEF Mirror

(* As many in one set as in another. *)
LEMMA AsMany ==
    ASSUME NEW S, IsFiniteSet(S), NEW T, NEW f \in [S -> T],
           \A x, y \in S : f[x] = f[y] => x = y, \A y \in T : \E x \in S : f[x] = y
    PROVE  Cardinality(S) = Cardinality(T)
<1>1. f \in Bijection(S, T)
    BY DEF Bijection, Injection, Surjection, IsInjective
<1> QED
    BY <1>1, FS_Bijection DEF ExistsBijection

(* When the scan is over, the tree has all of the kernel: its controllers  *)
LEMMA ScanOver ==
    ASSUME IInv, Mirror, at \in {"walk", "idle"}
    PROVE  /\ \A i : ~ CtrlPending(i)
           /\ \A x : ~ SharedPending(x)
           /\ \A i, x : ~ OwnPending(i, x) /\ ~ PathPending(i, x)
<1>1. todoSubs = {}
    BY DEF Mirror, Place
<1>2. \A i : ~ CtrlPending(i)
    BY <1>1 DEF CtrlPending, AtCtrl
<1>3. \A x : ~ SharedPending(x)
    BY <1>1 DEF SharedPending
<1>4. \A i, x : ~ OwnPending(i, x) /\ ~ PathPending(i, x)
    BY <1>2 DEF OwnPending, PathPending
<1> QED
    BY <1>2, <1>3, <1>4

LEMMA CtrlsSeen ==
    ASSUME IInv, Mirror, at \in {"walk", "idle"}
    PROVE  /\ \A c \in Linked : /\ c.name \in live /\ c.fd
                                /\ \E x \in subs : x.id = c.sub /\ x.nqn = SubsysOf[c.name]
           /\ \A i \in live : \E c \in Linked : c.name = i
           /\ Cardinality(Linked) = Cardinality(live)
<1>1. \A c \in Linked : /\ c.name \in live /\ c.fd
                        /\ \E x \in subs : x.id = c.sub /\ x.nqn = SubsysOf[c.name]
    BY DEF Mirror, MirrorCtrls
<1>2. \A i \in live : \E c \in Linked : c.name = i
    BY ScanOver DEF Mirror, MirrorCtrls
<1> DEFINE f == [c \in Linked |-> c.name]
<1>3. f \in [Linked -> live]
    BY <1>1
<1>4. \A c, d \in Linked : f[c] = f[d] => c = d
    BY DEF Mirror, MirrorCtrls
<1>5. \A i \in live : \E c \in Linked : f[c] = i
    BY <1>2
<1>6. IsFiniteSet(Linked)
    BY FS_Subset DEF IInv, Objects, CtrlsOK, Linked
<1> HIDE DEF f
<1>7. Cardinality(Linked) = Cardinality(live)
    BY <1>3, <1>4, <1>5, <1>6, AsMany
<1> QED
    BY <1>1, <1>2, <1>7

(* and their namespaces, which are the ones that device.cpp lists. *)
LEMMA OwnerOf ==
    ASSUME IInv, NEW n \in Listed
    PROVE  \E c \in Linked : n.ctrl = c.id /\ With(ctrls, n.ctrl) = c
<1>1. n \in nss /\ n.ctrl # 0 /\ With(ctrls, n.ctrl).sub # 0
    BY DEF Listed
<1>2. PICK c \in ctrls : c.id = n.ctrl
    BY <1>1 DEF IInv, Objects, NssOK, Ids
<1>3. With(ctrls, n.ctrl) = c
    BY <1>2, WithId DEF IInv, Objects, CtrlsOK
<1> QED
    BY <1>1, <1>2, <1>3 DEF Linked

LEMMA IsListed ==
    ASSUME IInv, NEW n \in nss, NEW c \in Linked, n.ctrl = c.id
    PROVE  n \in Listed /\ With(ctrls, n.ctrl) = c
<1>1. c \in ctrls /\ c.sub # 0 /\ c.id # 0
    BY DEF Linked, IInv, Objects, CtrlsOK
<1>2. With(ctrls, c.id) = c
    BY <1>1, WithId DEF IInv, Objects, CtrlsOK
<1> QED
    BY <1>1, <1>2 DEF Listed

LEMMA SpacesSeen ==
    ASSUME IInv, Mirror, at \in {"walk", "idle"}
    PROVE  /\ \A n \in Listed : Exists(n.name)
           /\ Cardinality(Listed) = Cardinality(Attached)
<1> DEFINE name(n) == With(ctrls, n.ctrl).name
           f == [n \in Listed |-> <<name(n), n.name>>]
<1>1. ASSUME NEW n \in Listed
      PROVE  <<name(n), n.name>> \in Attached /\ Exists(n.name)
    <2>1. PICK c \in Linked : n.ctrl = c.id /\ With(ctrls, n.ctrl) = c
        BY OwnerOf
    <2>2. c.name \in live /\ n.name \in SpacesOf(SubsysOf[c.name]) /\ SubsysOf[c.name] \notin Shared
        BY <2>1, CtrlsSeen DEF Listed, Mirror, MirrorOwn
    <2> QED
        BY <2>1, <2>2 DEF Attached, SpacesOf, Exists, Present
<1>2. f \in [Listed -> Attached]
    BY <1>1
<1>3. ASSUME NEW n \in Listed, NEW m \in Listed, f[n] = f[m]
      PROVE  n = m
    <2>1. PICK c \in Linked : n.ctrl = c.id /\ With(ctrls, n.ctrl) = c
        BY OwnerOf
    <2>2. PICK d \in Linked : m.ctrl = d.id /\ With(ctrls, m.ctrl) = d
        BY OwnerOf
    <2>3. c.name = d.name /\ n.name = m.name
        BY <1>3, <2>1, <2>2
    <2>4. c = d
        BY <2>3 DEF Mirror, MirrorCtrls
    <2> QED
        BY <2>1, <2>2, <2>3, <2>4 DEF Listed, Mirror, MirrorOwn
<1>4. ASSUME NEW y \in Attached
      PROVE  \E n \in Listed : f[n] = y
    <2>1. PICK i \in live, x \in spaces : y = <<i, x>> /\ x[1] = SubsysOf[i] /\ x[1] \notin Shared
        BY DEF Attached
    <2>2. x \in SpacesOf(SubsysOf[i]) /\ SubsysOf[i] \notin Shared /\ ~ OwnPending(i, x)
        BY <2>1, ScanOver DEF SpacesOf
    <2>3. PICK n \in nss, c \in Linked : n.ctrl = c.id /\ c.name = i /\ n.name = x
        BY <2>2 DEF Mirror, MirrorOwn
    <2>4. n \in Listed /\ With(ctrls, n.ctrl) = c
        BY <2>3, IsListed
    <2> QED
        BY <2>1, <2>3, <2>4
<1>5. IsFiniteSet(Listed)
    BY FS_Subset DEF IInv, Objects, NssOK, Listed
<1> HIDE DEF f
<1>6. Cardinality(Listed) = Cardinality(Attached)
    BY <1>2, <1>3, <1>4, <1>5, AsMany
<1> QED
    BY <1>1, <1>6

(* The counts as they go on: a step of the library between two counts *)
Onward ==
    /\ UNCHANGED <<live, spaces, root, call, counted, listed, drifted, changed>>
    /\ at # "idle" /\ at' # "subsystems" /\ (at' = "idle" => call \notin {"count", "list"})
LEMMA LibraryOnward ==
    ASSUME IInv, Library, ~ CountCtrls, ~ ListSpaces
    PROVE  Onward
<1>1. CASE ScanSubsystems
    BY <1>1 DEF ScanSubsystems, Onward, Unmoved, kernelVars, programVars
<1>2. CASE nvme_scan_subsystem
    BY <1>2 DEF nvme_scan_subsystem, Onward, Unmoved, kernelVars, programVars
<1>3. CASE ScanDone
    BY <1>3 DEF ScanDone, Onward, Unmoved, kernelVars, programVars
<1>4. CASE ScanSpaces
    BY <1>4 DEF ScanSpaces, Onward, Unmoved, kernelVars, programVars
<1>5. CASE nvme_subsystem_scan_namespace
    BY <1>5 DEF nvme_subsystem_scan_namespace, Onward, Unmoved, kernelVars, programVars
<1>6. CASE ScanCtrls
    BY <1>6 DEF ScanCtrls, Onward, Unmoved, kernelVars, programVars
<1>7. CASE nvme_subsystem_scan_ctrl
    BY <1>7 DEF nvme_subsystem_scan_ctrl, Onward, Unmoved, kernelVars, programVars
<1>8. CASE CtrlsDone
    BY <1>8 DEF CtrlsDone, Onward, Unmoved, kernelVars, programVars
<1>9. CASE nvme_ctrl_alloc
    BY <1>9 DEF nvme_ctrl_alloc, Onward, Unmoved, kernelVars, programVars, Crash
<1>10. CASE Configure
    BY <1>10 DEF Configure, Onward, Unmoved, kernelVars, programVars, nvme_configure_ctrl
<1>11. CASE ScanCtrlSpaces
    BY <1>11 DEF ScanCtrlSpaces, Onward, Unmoved, kernelVars, programVars, Crash
<1>12. CASE nvme_ctrl_scan_namespace
    BY <1>12 DEF nvme_ctrl_scan_namespace, Onward, Unmoved, kernelVars, programVars
<1>13. CASE CtrlSpacesDone
    BY <1>13 DEF CtrlSpacesDone, Onward, Unmoved, kernelVars, programVars
<1>14. CASE ScanPaths
    BY <1>14 DEF ScanPaths, Onward, Unmoved, kernelVars, programVars, AfterCtrl
<1>15. CASE nvme_ctrl_scan_path
    BY <1>15 DEF nvme_ctrl_scan_path, Onward, Unmoved, kernelVars, programVars
<1>16. CASE PathsDone
    BY <1>16 DEF PathsDone, Onward, Unmoved, kernelVars, programVars, AfterCtrl
<1>17. CASE ScanCtrlHost
    BY <1>17 DEF ScanCtrlHost, Onward, Unmoved, kernelVars, programVars, IInv, Steady, Return, Crash
<1>18. CASE ScanCtrlTransport
    BY <1>18 DEF ScanCtrlTransport, Onward, Unmoved, kernelVars, programVars, IInv, Steady
<1>19. CASE InitConfigure
    BY <1>19 DEF InitConfigure, Onward, Unmoved, kernelVars, programVars, IInv, Found, nvme_configure_ctrl
<1>20. CASE nvme_init_ctrl
    BY <1>20 DEF nvme_init_ctrl, Onward, Unmoved, kernelVars, programVars, IInv, Found, Return
<1> QED
    BY <1>1, <1>2, <1>3, <1>4, <1>5, <1>6, <1>7, <1>8, <1>9, <1>10,
       <1>11, <1>12, <1>13, <1>14, <1>15, <1>16, <1>17, <1>18, <1>19, <1>20 DEF Library
LEMMA Onward_Counts ==
    ASSUME CountInv, Onward
    PROVE  CountInv'
<1>1. Ambiguous' <=> Ambiguous
    BY DEF Onward, Ambiguous
<1>2. Attached' = Attached
    BY DEF Onward, Attached
<1> QED
    BY <1>1, <1>2 DEF Onward, CountInv

(* and a call or change that sets out *)
SetOut ==
    /\ at = "idle" /\ UNCHANGED <<counted, listed>>
    /\ at' = "idle" \/ ~ changed'
    /\ call' \in {"count", "list"} => at' # "idle"
    /\ call' = "list" => counted > 0
    /\ drifted' \/ (live' = live /\ (drifted => drifted')) \/ call' = "count"
LEMMA SetOut_Counts ==
    ASSUME CountInv, SetOut
    PROVE  CountInv'
<1>1. live' = live => (Ambiguous' <=> Ambiguous)
    BY DEF Ambiguous
<1> QED
    BY <1>1 DEF SetOut, CountInv

(* The two walks: as the kernel did not change, the tree is its mirror.    *)
LEMMA CountCtrls_Counts ==
    ASSUME IInv, MirrorInv, CountCtrls
    PROVE  CountInv'
<1>1. /\ at = "walk" /\ call = "count" /\ counted' = Cardinality(Linked) /\ at' = "idle"
      /\ UNCHANGED <<live, spaces, call, listed, drifted, changed>>
    BY DEF CountCtrls, Counted, Linked, Return, Unmoved, kernelVars
<1>2. Ambiguous' <=> Ambiguous
    BY <1>1 DEF Ambiguous
<1>3. ~ drifted /\ ~ Ambiguous => counted' = Cardinality(live)
    <2> SUFFICES ASSUME ~ drifted, ~ Ambiguous PROVE counted' = Cardinality(live)
        OBVIOUS
    <2>1. Mirror
        BY <1>1 DEF MirrorInv, CountInv, Undisturbed, ScanPlaces
    <2> QED
        BY <1>1, <2>1, CtrlsSeen
<1> QED
    BY <1>1, <1>2, <1>3 DEF CountInv

LEMMA ListSpaces_Counts ==
    ASSUME IInv, MirrorInv, ListSpaces
    PROVE  CountInv'
<1>1. /\ at = "walk" /\ call = "list" /\ at' = "idle"
      /\ listed' = Cardinality(Listed) \/ \E n \in Listed : ~ Exists(n.name)
      /\ UNCHANGED <<live, spaces, call, counted, drifted, changed>>
    BY DEF ListSpaces, Return, Unmoved, kernelVars
<1>2. (Ambiguous' <=> Ambiguous) /\ Attached' = Attached
    BY <1>1 DEF Ambiguous, Attached
<1>3. ~ drifted /\ ~ Ambiguous => listed' = Cardinality(Attached)
    <2> SUFFICES ASSUME ~ drifted, ~ Ambiguous PROVE listed' = Cardinality(Attached)
        OBVIOUS
    <2>1. Mirror
        BY <1>1 DEF MirrorInv, CountInv, Undisturbed, ScanPlaces
    <2> QED
        BY <1>1, <2>1, SpacesSeen
<1>4. (call' = "list" => counted' > 0) /\ (~ drifted' /\ ~ Ambiguous' /\ counted' > 0 => counted' = Cardinality(live)')
    BY <1>1, <1>2 DEF MirrorInv, CountInv
<1> QED
    BY <1>1, <1>2, <1>3, <1>4 DEF CountInv

(* A tree that is freed is empty, *)
LEMMA FreeTreeFrees ==
    ASSUME FreeTree
    PROVE  Freed'
<1>1. hosts' = {} /\ subs' = {} /\ nss' = nss \ FreedSpaces
    BY DEF FreeTree
<1> QED
    BY <1>1 DEF Freed, FreedSpaces

LEMMA SameFreed ==
    ASSUME FreedInv, UNCHANGED <<hosts, subs, nss, root, at>>
    PROVE  FreedInv'
BY DEF FreedInv, Freed

(* The calls one by one. *)
LEMMA Calls_Keep ==
    ASSUME IInv, MirrorInv, Next, ~ Library
    PROVE  FreedInv' /\ ~ Undisturbed' /\ CountInv'
<1>1. CASE Hotplug
    <2>1. changed' /\ drifted' /\ UNCHANGED <<hosts, subs, nss, root, at, call, counted, listed>>
        BY <1>1 DEF Hotplug, objectVars
    <2>2. FreedInv'
        BY <2>1, SameFreed DEF MirrorInv
    <2>3. CountInv'
        BY <2>1 DEF MirrorInv, CountInv
    <2> QED
        BY <2>1, <2>2, <2>3 DEF Undisturbed
<1>2. CASE nvme_scan
    <2>1. /\ root = "none" /\ UNCHANGED <<hosts, subs, nss>> /\ root' = "held" /\ at' = "subsystems"
          /\ SetOut
        <3>1. PICK c \in {"scan", "count", "list"} :
                 /\ call' = c /\ drifted' = (drifted /\ c # "count")
                 /\ c = "list" => counted > 0
            BY <1>2 DEF nvme_scan, Begin
        <3>2. c # "count" => (drifted => drifted')
            BY <3>1
        <3>3. /\ root = "none" /\ UNCHANGED <<hosts, subs, nss, live, counted, listed>> /\ root' = "held"
              /\ at = "idle" /\ at' = "subsystems" /\ changed' = FALSE
            BY <1>2 DEF nvme_scan, Begin, objectVars, Unmoved, kernelVars
        <3> QED
            BY <3>1, <3>2, <3>3 DEF SetOut
    <2>2. Freed'
        BY <2>1 DEF MirrorInv, FreedInv, Freed
    <2> QED
        BY <2>1, <2>2, SetOut_Counts DEF MirrorInv, FreedInv, Undisturbed, ScanPlaces
<1>3. CASE nvme_refresh_topology
    <2>1. FreeTree /\ root' = "held" /\ at' = "subsystems" /\ SetOut
        BY <1>3 DEF nvme_refresh_topology, Begin, SetOut, Unmoved, kernelVars
    <2> QED
        BY <2>1, FreeTreeFrees, SetOut_Counts DEF MirrorInv, FreedInv, Undisturbed, ScanPlaces
<1>4. CASE nvme_free_tree
    <2>1. FreeTree /\ at' = "idle" /\ call' = "free" /\ SetOut
        BY <1>4 DEF nvme_free_tree, Begin, SetOut, Unmoved, kernelVars
    <2> QED
        BY <2>1, FreeTreeFrees, SetOut_Counts DEF MirrorInv, FreedInv, Undisturbed
<1>5. ASSUME root' = "held", at' # "subsystems", call' \notin {"scan", "count", "list"}, SetOut
      PROVE  FreedInv' /\ ~ Undisturbed' /\ CountInv'
    BY <1>5, SetOut_Counts DEF MirrorInv, FreedInv, Undisturbed
<1>6. CASE nvme_scan_ctrl
    <2>1. root' = "held" /\ at' # "subsystems" /\ call' \notin {"scan", "count", "list"} /\ SetOut
        BY <1>6 DEF nvme_scan_ctrl, Begin, SetOut, Unmoved, kernelVars
    <2> QED
        BY <1>5, <2>1
<1>7. CASE nvme_rescan_ctrl
    <2>1. root' = "held" /\ at' # "subsystems" /\ call' \notin {"scan", "count", "list"} /\ SetOut
        BY <1>7 DEF nvme_rescan_ctrl, Begin, SetOut, Unmoved, kernelVars
    <2> QED
        BY <1>5, <2>1
<1>8. CASE nvme_disconnect_ctrl
    <2>1. root' = "held" /\ at' # "subsystems" /\ call' \notin {"scan", "count", "list"} /\ SetOut
        BY <1>8 DEF nvme_disconnect_ctrl, Begin, SetOut
    <2> QED
        BY <1>5, <2>1
<1>9. CASE nvme_unlink_ctrl
    <2>1. root' = "held" /\ at' # "subsystems" /\ call' \notin {"scan", "count", "list"} /\ SetOut
        BY <1>9 DEF nvme_unlink_ctrl, Begin, SetOut, Unmoved, kernelVars
    <2> QED
        BY <1>5, <2>1
<1>10. CASE Connect
    <2>1. root' = "held" /\ at' # "subsystems" /\ call' \notin {"scan", "count", "list"} /\ SetOut
        BY <1>10 DEF Connect, Begin, SetOut
    <2> QED
        BY <1>5, <2>1
<1>11. CASE ConnectClash
    <2>1. root' = "held" /\ at' # "subsystems" /\ call' \notin {"scan", "count", "list"} /\ SetOut
        BY <1>11 DEF ConnectClash, Begin, SetOut, Unmoved, kernelVars
    <2> QED
        BY <1>5, <2>1
<1> QED
    BY <1>1, <1>2, <1>3, <1>4, <1>6, <1>7, <1>8, <1>9, <1>10, <1>11 DEF Next

(* Every step of the library keeps the mirror. *)
LEMMA Library_Mirrors ==
    ASSUME IInv, IInv', MirrorInv, Library, Undisturbed'
    PROVE  Mirror'
<1>1. FreedInv /\ (Undisturbed => Mirror)
    BY DEF MirrorInv
<1>2. CASE ScanSubsystems
    BY <1>1, <1>2, ScanSubsystems_Mirrors
<1>3. CASE nvme_scan_subsystem
    BY <1>1, <1>3, nvme_scan_subsystem_Mirrors
<1>4. CASE ScanDone
    BY <1>1, <1>4, ScanDone_Mirrors
<1>5. CASE ScanSpaces
    BY <1>1, <1>5, ScanSpaces_Mirrors
<1>6. CASE nvme_subsystem_scan_namespace
    BY <1>1, <1>6, nvme_subsystem_scan_namespace_Mirrors
<1>7. CASE ScanCtrls
    BY <1>1, <1>7, ScanCtrls_Mirrors
<1>8. CASE nvme_subsystem_scan_ctrl
    BY <1>1, <1>8, nvme_subsystem_scan_ctrl_Mirrors
<1>9. CASE CtrlsDone
    BY <1>1, <1>9, CtrlsDone_Mirrors
<1>10. CASE nvme_ctrl_alloc
    BY <1>1, <1>10, nvme_ctrl_alloc_Mirrors
<1>11. CASE Configure
    BY <1>1, <1>11, Configure_Mirrors
<1>12. CASE ScanCtrlSpaces
    BY <1>1, <1>12, ScanCtrlSpaces_Mirrors
<1>13. CASE nvme_ctrl_scan_namespace
    BY <1>1, <1>13, nvme_ctrl_scan_namespace_Mirrors
<1>14. CASE CtrlSpacesDone
    BY <1>1, <1>14, CtrlSpacesDone_Mirrors
<1>15. CASE ScanPaths
    BY <1>1, <1>15, ScanPaths_Mirrors
<1>16. CASE nvme_ctrl_scan_path
    BY <1>1, <1>16, nvme_ctrl_scan_path_Mirrors
<1>17. CASE PathsDone
    BY <1>1, <1>17, PathsDone_Mirrors
<1>18. CASE ScanCtrlHost \/ ScanCtrlTransport
    BY <1>18 DEF ScanCtrlHost, ScanCtrlTransport, programVars, IInv, Steady, Undisturbed
<1>19. CASE InitConfigure \/ nvme_init_ctrl
    BY <1>19 DEF InitConfigure, nvme_init_ctrl, programVars, IInv, Found, Undisturbed
<1>20. CASE CountCtrls \/ ListSpaces
    BY <1>20 DEF CountCtrls, ListSpaces, Return, Undisturbed, ScanPlaces
<1> QED
    BY <1>2, <1>3, <1>4, <1>5, <1>6, <1>7, <1>8, <1>9, <1>10, <1>11, <1>12, <1>13, <1>14, <1>15,
       <1>16, <1>17, <1>18, <1>19, <1>20 DEF Library

LEMMA Library_Keeps ==
    ASSUME IInv, IInv', MirrorInv, Library
    PROVE  MirrorInv'
<1>1. Undisturbed' => Mirror'
    BY Library_Mirrors
<1>2. FreedInv' /\ CountInv'
    <2>1. CASE CountCtrls
        <3>1. FreeTree /\ at' = "idle"
            BY <2>1 DEF CountCtrls, Return
        <3> QED
            BY <2>1, <3>1, FreeTreeFrees, CountCtrls_Counts DEF FreedInv
    <2>2. CASE ListSpaces
        <3>1. at' = "idle" /\ (FreeTree \/ root' = "lost")
            BY <2>2 DEF ListSpaces, Return
        <3> QED
            BY <2>2, <3>1, FreeTreeFrees, ListSpaces_Counts DEF FreedInv
    <2>3. CASE ~ CountCtrls /\ ~ ListSpaces
        <3>1. Onward
            BY <2>3, LibraryOnward
        <3> QED
            BY <3>1, Onward_Counts DEF Onward, MirrorInv, FreedInv
    <2> QED
        BY <2>1, <2>2, <2>3
<1> QED
    BY <1>1, <1>2 DEF MirrorInv

(* As long as the kernel does not change, the part of the tree that a scan *)
(* has made is what the kernel has, but for what is still to come.         *)
THEOREM MirrorInductive == Spec => []MirrorInv
<1>1. Init => MirrorInv
    BY DEF Init, MirrorInv, FreedInv, Freed, Undisturbed, ScanPlaces, CountInv
<1>2. IInv /\ IInv' /\ MirrorInv /\ [Next]_vars => MirrorInv'
    <2> SUFFICES ASSUME IInv, IInv', MirrorInv, [Next]_vars PROVE MirrorInv'
        OBVIOUS
    <2>1. CASE Library
        BY <2>1, Library_Keeps
    <2>2. CASE Next /\ ~ Library
        BY <2>2, Calls_Keep DEF MirrorInv
    <2>3. CASE UNCHANGED vars
        <3>1. UNCHANGED <<hosts, subs, ctrls, nss, paths, live, spaces, root, at, call, sub, ctrl, inst,
                          todoSubs, todoCtrls, todoSpaces, counted, listed, changed, drifted>>
            BY <2>3 DEF vars, kernelVars, objectVars, scanVars, programVars
        <3>2. FreedInv'
            BY <3>1, SameFreed DEF MirrorInv
        <3>3. (Ambiguous' <=> Ambiguous) /\ Attached' = Attached
            BY <3>1 DEF Ambiguous, Attached
        <3>4. CountInv'
            BY <3>1, <3>3 DEF MirrorInv, CountInv
        <3>5. Undisturbed' => Undisturbed
            BY <3>1, <3>3 DEF Undisturbed
        <3>6. Mirror => Mirror'
            <4> SUFFICES ASSUME Mirror PROVE Mirror'
                OBVIOUS
            <4>1. Now' = Now /\ (\A s : Present(s)' <=> Present(s)) /\ (\A s : SpacesOf(s)' = SpacesOf(s))
                BY <3>1, NowSame DEF Present, SpacesOf
            <4>2. \A i : CtrlPending(i)' <=> CtrlPending(i)
                BY <3>1, <4>1 DEF CtrlPending
            <4>3. \A x : SharedPending(x)' <=> SharedPending(x)
                BY <3>1, <4>1 DEF SharedPending
            <4>4. \A i, x : (OwnPending(i, x)' <=> OwnPending(i, x)) /\ (PathPending(i, x)' <=> PathPending(i, x))
                BY <3>1, <4>2 DEF OwnPending, PathPending
            <4>5. Linked' = Linked
                BY <3>1 DEF Linked
            <4>6. Place' /\ MirrorSubs'
                BY <3>1, <4>1 DEF Mirror, Place, MirrorSubs, Fits
            <4>7. MirrorCtrls'
                BY <3>1, <4>2, <4>5 DEF Mirror, MirrorCtrls
            <4>8. MirrorShared' /\ MirrorOwn' /\ MirrorPaths'
                <5>1. MirrorShared /\ MirrorOwn /\ MirrorPaths /\ MirrorCtrls
                    BY DEF Mirror
                <5>2. MirrorShared'
                    BY <3>1, <4>3, <5>1, SameShared
                <5>3. MirrorOwn'
                    BY <3>1, <4>4, <4>5, <5>1, SameOwn
                <5>4. MirrorPaths'
                    BY <3>1, <4>4, <4>5, <5>1, SamePaths
                <5> QED
                    BY <5>2, <5>3, <5>4
            <4> QED
                BY <4>6, <4>7, <4>8 DEF Mirror
        <3> QED
            BY <3>2, <3>4, <3>5, <3>6 DEF MirrorInv
    <2> QED
        BY <2>1, <2>2, <2>3
<1> QED
    BY <1>1, <1>2, TreeInductive, PTL DEF Spec

(* The paths of a mirror, with the namespaces they lead to. *)
LEMMA PathsSeen ==
    ASSUME IInv, Mirror, NEW p \in paths, With(ctrls, p.ctrl).sub # 0
    PROVE  \E c \in Linked : /\ p.ctrl = c.id /\ With(ctrls, p.ctrl) = c
                             /\ With(nss, p.space).name = p.name
<1>1. PICK c \in ctrls : c.id = p.ctrl
    BY DEF IInv, Objects, PathsOK, Ids
<1>2. With(ctrls, p.ctrl) = c
    BY <1>1, WithId DEF IInv, Objects, CtrlsOK
<1>3. c \in Linked
    BY <1>2 DEF Linked
<1>4. p.space # 0
    BY <1>1, <1>3 DEF Mirror, MirrorPaths
<1>5. PICK n \in nss : n.id = p.space /\ n.name = p.name
    BY <1>1, <1>2, <1>4 DEF IInv, Objects, Joined
<1>6. With(nss, p.space) = n
    BY <1>5, WithId DEF IInv, Objects, NssOK
<1> QED
    BY <1>1, <1>2, <1>3, <1>5, <1>6

(* ScanMirrors: for every kernel, a scan during which it does not change   *)
(* gives its tree, whatever calls and changes came before.                 *)
THEOREM ScanIsMirror == Spec => []ScanMirrors
<1>1. IInv /\ MirrorInv => ScanMirrors
    <2> SUFFICES ASSUME IInv, MirrorInv, at = "idle", call = "scan", ~ changed, ~ Ambiguous
                 PROVE  ScanMirrors
        BY DEF ScanMirrors
    <2> DEFINE name(c) == With(ctrls, c).name
               seen == {n \in nss : n.ctrl = 0 \/ With(ctrls, n.ctrl).sub # 0}
               found == {p \in paths : With(ctrls, p.ctrl).sub # 0}
               shared == {x \in spaces : x[1] \in Shared /\ Present(x[1])}
    <2>1. Mirror /\ at \in {"walk", "idle"}
        BY DEF MirrorInv, Undisturbed
    <2>2. {<<c.name, With(subs, c.sub).nqn>> : c \in {x \in Linked : x.fd}} = {<<i, SubsysOf[i]>> : i \in live}
        <3>1. \A c \in Linked : c.name \in live /\ c.fd /\ With(subs, c.sub).nqn = SubsysOf[c.name]
            <4> SUFFICES ASSUME NEW c \in Linked
                         PROVE  c.name \in live /\ c.fd /\ With(subs, c.sub).nqn = SubsysOf[c.name]
                OBVIOUS
            <4>1. PICK x \in subs : x.id = c.sub /\ x.nqn = SubsysOf[c.name]
                BY <2>1, CtrlsSeen
            <4>2. With(subs, c.sub) = x
                BY <4>1, WithId DEF IInv, Objects, SubsOK
            <4> QED
                BY <2>1, <4>1, <4>2, CtrlsSeen
        <3>2. \A i \in live : \E c \in Linked : c.name = i
            BY <2>1, CtrlsSeen
        <3> QED
            BY <3>1, <3>2
    <2>3. Cardinality(Linked) = Cardinality(live)
        BY <2>1, CtrlsSeen
    <2>4. ASSUME NEW n \in seen
          PROVE  \/ n.ctrl = 0 /\ n.name \in shared
                 \/ /\ n.ctrl # 0 /\ name(n.ctrl) \in live /\ SubsysOf[name(n.ctrl)] \notin Shared
                    /\ n.name \in SpacesOf(SubsysOf[name(n.ctrl)])
        <3>1. CASE n.ctrl = 0
            BY <2>1, <3>1 DEF Mirror, MirrorShared
        <3>2. CASE n.ctrl # 0
            <4>1. n \in Listed
                BY <3>2 DEF Listed
            <4>2. PICK c \in Linked : n.ctrl = c.id /\ With(ctrls, n.ctrl) = c
                BY <4>1, OwnerOf
            <4> QED
                BY <2>1, <3>2, <4>2, CtrlsSeen DEF Mirror, MirrorOwn
        <3> QED
            BY <3>1, <3>2
    <2>5. \A x \in shared : \E n \in seen : n.ctrl = 0 /\ n.name = x
        BY <2>1, ScanOver DEF Mirror, MirrorShared
    <2>6. ASSUME NEW i \in live, SubsysOf[i] \notin Shared, NEW x \in SpacesOf(SubsysOf[i])
          PROVE  \E n \in seen : n.ctrl # 0 /\ name(n.ctrl) = i /\ n.name = x
        <3>1. PICK n \in nss, c \in Linked : n.ctrl = c.id /\ c.name = i /\ n.name = x
            BY <2>1, <2>6, ScanOver DEF Mirror, MirrorOwn
        <3>2. n \in Listed /\ With(ctrls, n.ctrl) = c
            BY <3>1, IsListed
        <3> QED
            BY <3>1, <3>2 DEF Listed
    <2>7. {<<n.name, IF n.ctrl = 0 THEN Absent ELSE name(n.ctrl)>> : n \in seen}
             = {<<n, Absent>> : n \in shared}
               \cup UNION {{<<n, i>> : n \in SpacesOf(SubsysOf[i])} : i \in {j \in live : SubsysOf[j] \notin Shared}}
        <3> DEFINE L == {<<n.name, IF n.ctrl = 0 THEN Absent ELSE name(n.ctrl)>> : n \in seen}
                   S == {<<n, Absent>> : n \in shared}
                   O == UNION {{<<n, i>> : n \in SpacesOf(SubsysOf[i])} : i \in {j \in live : SubsysOf[j] \notin Shared}}
        <3> HIDE DEF seen, shared, name
        <3>1. \A y \in L : y \in S \/ y \in O
            BY <2>4
        <3>2. \A y \in S : y \in L
            BY <2>5
        <3>3. \A y \in O : y \in L
            BY <2>6
        <3> QED
            BY <3>1, <3>2, <3>3
    <2>8. {<<name(p.ctrl), With(nss, p.space).name>> : p \in found}
             = UNION {{<<i, n>> : n \in SpacesOf(SubsysOf[i])} : i \in {j \in live : SubsysOf[j] \in Shared}}
        <3>1. ASSUME NEW p \in found
              PROVE  /\ name(p.ctrl) \in live /\ SubsysOf[name(p.ctrl)] \in Shared
                     /\ With(nss, p.space).name \in SpacesOf(SubsysOf[name(p.ctrl)])
            <4>1. PICK c \in Linked : /\ p.ctrl = c.id /\ With(ctrls, p.ctrl) = c
                                      /\ With(nss, p.space).name = p.name
                BY <2>1, PathsSeen
            <4> QED
                BY <2>1, <4>1, CtrlsSeen DEF Mirror, MirrorPaths
        <3>2. ASSUME NEW i \in live, SubsysOf[i] \in Shared, NEW x \in SpacesOf(SubsysOf[i])
              PROVE  \E p \in found : name(p.ctrl) = i /\ With(nss, p.space).name = x
            <4>1. PICK p \in paths, c \in Linked : p.ctrl = c.id /\ c.name = i /\ p.name = x
                BY <2>1, <3>2, ScanOver DEF Mirror, MirrorPaths
            <4>2. With(ctrls, p.ctrl) = c /\ c.sub # 0
                BY <4>1, WithId DEF Linked, IInv, Objects, CtrlsOK
            <4>3. With(nss, p.space).name = p.name
                BY <2>1, <4>2, PathsSeen
            <4> QED
                BY <4>1, <4>2, <4>3
        <3> HIDE DEF found, name
        <3> QED
            BY <3>1, <3>2
    <2> QED
        BY <2>2, <2>3, <2>7, <2>8 DEF ScanMirrors, Linked
<1> QED
    BY <1>1, TreeInductive, MirrorInductive, PTL

(* ListFits: device.cpp's list is written past its end exactly when there  *)
(* are more namespaces of controllers than controllers, however many.      *)
THEOREM ListLengths == Spec => []ListFits
<1>1. MirrorInv => ListFits
    <2> SUFFICES ASSUME MirrorInv, at = "idle", call = "list", ~ drifted, ~ Ambiguous
                 PROVE  listed > counted <=> Cardinality(Attached) > Cardinality(live)
        BY DEF ListFits, Attached
    <2>1. counted = Cardinality(live) /\ listed = Cardinality(Attached)
        BY DEF MirrorInv, CountInv
    <2> QED
        BY <2>1
<1> QED
    BY <1>1, MirrorInductive, PTL

----------------------------------------------------------------------------
(* An object is made once *)

Scans == {"scan", "count", "list"}
InScan == {"spaces", "space", "ctrl"} \cup AtCtrl

(* No other controller of the subsystem has an address that fits, neither  *)
(* as the caller gives it nor as it is read.                               *)
AddressesApart ==
    \A i, j \in Instances : (i # j /\ SubsysOf[i] = SubsysOf[j]) =>
        ~ Matches([key |-> Parsed(i)], Parsed(j)) /\ ~ Matches([key |-> Address[i]], Parsed(j))

(* The host is this machine; a subsystem is under it.                      *)
Here(h) == Fits(h, DefaultHost)
UnderHere(y) == \E h \in hosts : h.id = y.host /\ Here(h)

(* A subsystem is that of a controller, and under this machine, unless the *)
(* kernel tells of another host of that controller.                        *)
Belongs(x, i) ==
    \E y \in subs : /\ y.id = x /\ y.nqn = SubsysOf[i]
                    /\ HostOf[i] \in {NoHost, DefaultHost} => UnderHere(y)

(* An object is made for a controller of the kernel.                       *)
Made(c, i) ==
    /\ c.name \in {Absent, i}
    /\ c.key = IF c.id \in connected THEN Address[i] ELSE Parsed(i)
MadeFor(c, i) == Made(c, i) /\ Belongs(c.sub, i)

HostsApart == \A g, h \in hosts : (g.nqn = h.nqn /\ g.hostid = h.hostid) => g = h
SubsApart == \A x, y \in subs : (x.host = y.host /\ x.nqn = y.nqn) => x = y
Origins == \A c \in ctrls : c.sub # 0 => \E i \in Instances : MadeFor(c, i)
(* None is made that a lookup would have found. *)
NewOnes ==
    \A c, d \in ctrls :
        (c.sub = d.sub /\ d.sub # 0 /\ c.id < d.id /\ d.id \notin connected) => ~ Matches(c, d.key)

(* Where the library stands. *)
CallAt ==
    /\ at \in {"subsystems", "subsystem", "ctrl", "walk"} => call \in Scans
    /\ at \in {"spaces", "space", "ctrlspaces", "ctrlspace", "paths", "path"} => call \in Scans \cup {"rescan"}
    /\ at \in {"address", "configure"} => call \in Scans \cup {"scan_ctrl"}
Position ==
    /\ connected \subseteq 1 .. made
    /\ at \in {"init", "link"} =>
          /\ ctrl = made /\ ctrl \in connected /\ inst \in Instances
          /\ \A c \in ctrls : c.id = ctrl => Made(c, inst)
    /\ at = "host" => inst \in Instances
    /\ at \in {"transport", "address", "configure"} => inst \in Instances /\ Belongs(sub, inst)
    /\ at = "configure" => \A c \in ctrls : c.id = ctrl => MadeFor(c, inst)
    /\ (at \in InScan /\ call \in Scans) =>
          \E y \in subs : /\ y.id = sub /\ UnderHere(y)
                          /\ at \notin {"spaces", "space"} => \A i \in todoCtrls : SubsysOf[i] = y.nqn

OriginInv == HostsApart /\ SubsApart /\ Origins /\ NewOnes /\ Position

(* A scan makes the namespaces of a subsystem, and of a controller, once.  *)
SpacesApart == \A n, m \in nss : (n.ctrl = m.ctrl /\ n.sub = m.sub /\ n.name = m.name) => n = m
ToCome ==
    /\ at \in {"spaces", "space", "ctrlspaces", "ctrlspace"} => call \in Scans
    /\ (call \in Scans /\ at \in ScanPlaces) => \A x \in subs : x.nqn \notin todoSubs
    /\ (call \in Scans /\ at \in {"spaces", "space"}) => \A c \in ctrls : c.sub # sub
    /\ (call \in Scans /\ at \in {"ctrl"} \cup AtCtrl) =>
          \A c \in ctrls : c.sub = sub =>
              \E j \in Instances \ todoCtrls : (at = "address" => j # inst) /\ MadeFor(c, j)
    /\ (call \in Scans /\ at \in {"address", "configure"}) => inst \notin todoCtrls
    /\ at = "spaces" => \A n \in nss : ~ (n.ctrl = 0 /\ n.sub = sub)
    /\ at = "space" => \A n \in nss : (n.ctrl = 0 /\ n.sub = sub) => n.name \notin todoSpaces
    /\ (call \in Scans /\ at \in {"configure", "ctrlspaces"}) => \A n \in nss : n.ctrl # ctrl
    /\ at = "ctrlspace" => \A n \in nss : n.ctrl = ctrl => n.name \notin todoSpaces
SpacesInv ==
    /\ call = "rescan" => rescanned
    /\ \A n \in nss : n.sub \in 0 .. made
    /\ ~ rescanned => SpacesApart /\ ToCome

(* Each call has its places. *)
LEMMA CallAtKept ==
    ASSUME IInv, CallAt, [Next]_vars
    PROVE  CallAt'
<1> USE DEF CallAt, Scans
<1>1. CASE Hotplug \/ nvme_scan \/ nvme_refresh_topology \/ nvme_free_tree
    BY <1>1 DEF Hotplug, nvme_scan, nvme_refresh_topology, nvme_free_tree, Begin
<1>2. CASE nvme_scan_ctrl \/ nvme_rescan_ctrl \/ nvme_disconnect_ctrl \/ nvme_unlink_ctrl
    BY <1>2 DEF nvme_scan_ctrl, nvme_rescan_ctrl, nvme_disconnect_ctrl, nvme_unlink_ctrl, Begin
<1>3. CASE Connect \/ ConnectClash \/ UNCHANGED vars
    BY <1>3 DEF Connect, ConnectClash, Begin, vars, programVars
<1>4. CASE ScanSubsystems \/ nvme_scan_subsystem \/ ScanDone \/ ScanSpaces
    BY <1>4 DEF ScanSubsystems, nvme_scan_subsystem, ScanDone, ScanSpaces, programVars
<1>5. CASE nvme_subsystem_scan_namespace \/ ScanCtrls \/ nvme_subsystem_scan_ctrl \/ CtrlsDone
    BY <1>5 DEF nvme_subsystem_scan_namespace, ScanCtrls, nvme_subsystem_scan_ctrl, CtrlsDone, programVars
<1>6. CASE nvme_ctrl_alloc
    BY <1>6 DEF nvme_ctrl_alloc, programVars, Crash
<1>7. CASE Configure
    BY <1>7 DEF Configure, nvme_configure_ctrl, programVars
<1>8. CASE ScanCtrlSpaces \/ nvme_ctrl_scan_namespace \/ CtrlSpacesDone
    BY <1>8 DEF ScanCtrlSpaces, nvme_ctrl_scan_namespace, CtrlSpacesDone, programVars, Crash
<1>9. CASE ScanPaths \/ nvme_ctrl_scan_path \/ PathsDone
    BY <1>9 DEF ScanPaths, nvme_ctrl_scan_path, PathsDone, AfterCtrl, programVars
<1>10. CASE ScanCtrlHost
    BY <1>10 DEF ScanCtrlHost, programVars, Crash, Return
<1>11. CASE ScanCtrlTransport
    BY <1>11 DEF ScanCtrlTransport, programVars, IInv, Steady
<1>12. CASE InitConfigure
    BY <1>12 DEF InitConfigure, nvme_configure_ctrl, programVars, IInv, Found
<1>13. CASE nvme_init_ctrl \/ CountCtrls \/ ListSpaces
    BY <1>13 DEF nvme_init_ctrl, CountCtrls, ListSpaces, Return
<1> QED
    BY <1>1, <1>2, <1>3, <1>4, <1>5, <1>6, <1>7, <1>8, <1>9, <1>10, <1>11, <1>12, <1>13
    DEF Next, Library

(* What a step keeps that makes none of these objects, *)
SameMakers == UNCHANGED <<hosts, subs, ctrls, connected>>
LEMMA SameOrigins ==
    ASSUME HostsApart, SubsApart, Origins, NewOnes, SameMakers
    PROVE  HostsApart' /\ SubsApart' /\ Origins' /\ NewOnes'
BY DEF SameMakers, HostsApart, SubsApart, Origins, NewOnes, Matches, MadeFor, Made, Belongs, UnderHere, Here, Fits
LEMMA SameBelongs ==
    ASSUME SameMakers
    PROVE  /\ \A x, i : Belongs(x, i)' <=> Belongs(x, i)
           /\ \A c, i : Made(c, i)' <=> Made(c, i)
           /\ \A c, i : MadeFor(c, i)' <=> MadeFor(c, i)
           /\ \A y : UnderHere(y)' <=> UnderHere(y)
BY DEF SameMakers, MadeFor, Made, Belongs, UnderHere, Here, Fits
(* and one that makes more hosts and subsystems. *)
MoreHosts ==
    /\ hosts \subseteq hosts'
    /\ \A x \in subs : \E z \in subs' : z.id = x.id /\ z.host = x.host /\ z.nqn = x.nqn
LEMMA MoreBelongs ==
    ASSUME MoreHosts, NEW x, NEW i, Belongs(x, i)
    PROVE  Belongs(x, i)'
<1>1. PICK y \in subs : /\ y.id = x /\ y.nqn = SubsysOf[i]
                        /\ HostOf[i] \in {NoHost, DefaultHost} => UnderHere(y)
    BY DEF Belongs
<1>2. PICK z \in subs' : z.id = y.id /\ z.host = y.host /\ z.nqn = y.nqn
    BY DEF MoreHosts
<1>3. UnderHere(y) => UnderHere(z)'
    BY <1>2 DEF UnderHere, Here, Fits, MoreHosts
<1> QED
    BY <1>1, <1>2, <1>3 DEF Belongs
LEMMA MoreOrigins ==
    ASSUME MoreHosts, Origins, NewOnes, UNCHANGED <<ctrls, connected>>
    PROVE  Origins' /\ NewOnes'
<1>1. \A c, i : Made(c, i)' <=> Made(c, i)
    BY DEF Made
<1>2. \A c, i : MadeFor(c, i) => MadeFor(c, i)'
    BY <1>1, MoreBelongs DEF MadeFor
<1> QED
    BY <1>2 DEF Origins, NewOnes, Matches

(* A host, and a subsystem, is looked up, and made if there is none. *)
LEMMA HostAgain ==
    ASSUME made \in Nat, HostsOK, HostsApart, NEW key \in HostKeys, NEW h, h = nvme_lookup_host(key), MakeHost(h)
    PROVE  HostsApart' /\ hosts \subseteq hosts' /\ h \in hosts' /\ Fits(h, key)
<1> DEFINE found == {g \in hosts : Fits(g, key)}
<1>1. hosts' = hosts \cup {h}
    BY DEF MakeHost
<1>2. Fits(h, key) /\ ((\E g \in hosts : Fits(g, key)) => h \in hosts)
    BY HostFound
<1>3. ASSUME h \notin hosts, NEW g \in hosts, g.nqn = h.nqn, g.hostid = h.hostid PROVE FALSE
    <2>1. found = {}
        BY <1>2, <1>3
    <2>2. h = [id |-> made + 1, nqn |-> key.nqn, hostid |-> key.id]
        BY <2>1 DEF nvme_lookup_host
    <2> QED
        BY <1>3, <2>1, <2>2 DEF Fits
<1>4. HostsApart'
    BY <1>1, <1>3 DEF HostsApart
<1> QED
    BY <1>1, <1>2, <1>4

SubsysIn(id, h, s) ==
    /\ \A z \in subs : \E y \in subs' : y.id = z.id /\ y.host = z.host /\ y.nqn = z.nqn
    /\ \E y \in subs' : y.id = id /\ y.host = h.id /\ y.nqn = s
LEMMA SubsysAgain ==
    ASSUME made \in Nat, SubsOK, SubsApart, NEW h, NEW s \in Subsystems, NEW named \in BOOLEAN, NEW told \in BOOLEAN,
           NEW x, x = nvme_lookup_subsystem(h, s, named), MakeSub(x, told)
    PROVE  SubsApart' /\ SubsysIn(x.id, h, s)
<1> DEFINE found == {y \in subs : y.host = h.id /\ y.nqn = s}
           new == [id |-> made + 2, host |-> h.id, nqn |-> s, named |-> named]
           y == [x EXCEPT !.named = x.named \/ told]
<1>1. subs' = (subs \ {x}) \cup {y}
    BY DEF MakeSub
<1>2. x = IF found # {} THEN Newest(found) ELSE new
    BY DEF nvme_lookup_subsystem
<1>3. \/ x \in found
      \/ found = {} /\ x = new
    <2>1. CASE found # {}
        <3>1. \A g \in found : g.id \in 1 .. made
            BY DEF SubsOK
        <3> HIDE DEF found
        <3> QED
            BY <1>2, <2>1, <3>1, NewestIn
    <2> QED
        BY <1>2, <2>1
<1>4. x.id = y.id /\ x.host = y.host /\ x.nqn = y.nqn
    <2>1. CASE x \in found
        BY <2>1 DEF SubsOK, SubsysSet
    <2>2. CASE x = new
        BY <2>2
    <2> QED
        BY <1>3, <2>1, <2>2
<1>5. x.host = h.id /\ x.nqn = s
    BY <1>3
<1>6. ASSUME NEW z \in subs, z.host = x.host, z.nqn = x.nqn PROVE z = x
    <2>1. z \in found
        BY <1>5, <1>6
    <2> QED
        BY <1>3, <1>5, <1>6, <2>1 DEF SubsApart
<1> HIDE DEF y, found, new
<1>7. SubsApart'
    <2> SUFFICES ASSUME NEW a \in subs', NEW b \in subs', a.host = b.host, a.nqn = b.nqn PROVE a = b
        BY DEF SubsApart
    <2>1. CASE a = y \/ b = y
        BY <1>1, <1>4, <1>6, <2>1
    <2>2. CASE a # y /\ b # y
        BY <1>1, <2>2 DEF SubsApart
    <2> QED
        BY <2>1, <2>2
<1>8. y \in subs' /\ \A z \in subs : z = x \/ z \in subs'
    BY <1>1
<1> QED
    BY <1>4, <1>5, <1>7, <1>8 DEF SubsysIn

(* Steps that make no controller, host or subsystem. *)
LEMMA Hotplug_Origins == ASSUME IInv, CallAt, OriginInv, Hotplug PROVE OriginInv'
<1>1. SameMakers
    BY DEF SameMakers, Hotplug, scanVars, historyVars, objectVars
<1>2. /\ HostsApart' /\ SubsApart' /\ Origins' /\ NewOnes'
      /\ \A x, i : Belongs(x, i)' <=> Belongs(x, i)
      /\ \A c, i : Made(c, i)' <=> Made(c, i)
      /\ \A c, i : MadeFor(c, i)' <=> MadeFor(c, i)
      /\ \A y : UnderHere(y)' <=> UnderHere(y)
    BY <1>1, SameOrigins, SameBelongs DEF OriginInv
<1>3. made \in Nat
    BY DEF IInv, Objects
<1>4. Position'
    BY <1>1, <1>2, <1>3 DEF OriginInv, CallAt, Position, SameMakers, InScan, AtCtrl, Scans,
       Hotplug, scanVars, historyVars, objectVars
<1> QED
    BY <1>2, <1>4 DEF OriginInv

LEMMA nvme_scan_Origins == ASSUME IInv, CallAt, OriginInv, nvme_scan PROVE OriginInv'
<1>1. SameMakers
    BY DEF SameMakers, nvme_scan, Begin, objectVars, scanVars, historyVars
<1>2. /\ HostsApart' /\ SubsApart' /\ Origins' /\ NewOnes'
      /\ \A x, i : Belongs(x, i)' <=> Belongs(x, i)
      /\ \A c, i : Made(c, i)' <=> Made(c, i)
      /\ \A c, i : MadeFor(c, i)' <=> MadeFor(c, i)
      /\ \A y : UnderHere(y)' <=> UnderHere(y)
    BY <1>1, SameOrigins, SameBelongs DEF OriginInv
<1>3. made \in Nat
    BY DEF IInv, Objects
<1>4. Position'
    BY <1>1, <1>2, <1>3 DEF OriginInv, CallAt, Position, SameMakers, InScan, AtCtrl, Scans,
       nvme_scan, Begin, objectVars, scanVars, historyVars
<1> QED
    BY <1>2, <1>4 DEF OriginInv

LEMMA nvme_scan_ctrl_Origins == ASSUME IInv, CallAt, OriginInv, nvme_scan_ctrl PROVE OriginInv'
<1>1. SameMakers
    BY DEF SameMakers, nvme_scan_ctrl, Begin, objectVars, historyVars
<1>2. /\ HostsApart' /\ SubsApart' /\ Origins' /\ NewOnes'
      /\ \A x, i : Belongs(x, i)' <=> Belongs(x, i)
      /\ \A c, i : Made(c, i)' <=> Made(c, i)
      /\ \A c, i : MadeFor(c, i)' <=> MadeFor(c, i)
      /\ \A y : UnderHere(y)' <=> UnderHere(y)
    BY <1>1, SameOrigins, SameBelongs DEF OriginInv
<1>3. made \in Nat
    BY DEF IInv, Objects
<1>4. Position'
    BY <1>1, <1>2, <1>3 DEF OriginInv, CallAt, Position, SameMakers, InScan, AtCtrl, Scans,
       nvme_scan_ctrl, Begin, objectVars, historyVars
<1> QED
    BY <1>2, <1>4 DEF OriginInv

LEMMA ConnectClash_Origins == ASSUME IInv, CallAt, OriginInv, ConnectClash PROVE OriginInv'
<1>1. SameMakers
    BY DEF SameMakers, ConnectClash, Begin, objectVars, historyVars
<1>2. /\ HostsApart' /\ SubsApart' /\ Origins' /\ NewOnes'
      /\ \A x, i : Belongs(x, i)' <=> Belongs(x, i)
      /\ \A c, i : Made(c, i)' <=> Made(c, i)
      /\ \A c, i : MadeFor(c, i)' <=> MadeFor(c, i)
      /\ \A y : UnderHere(y)' <=> UnderHere(y)
    BY <1>1, SameOrigins, SameBelongs DEF OriginInv
<1>3. made \in Nat
    BY DEF IInv, Objects
<1>4. Position'
    BY <1>1, <1>2, <1>3 DEF OriginInv, CallAt, Position, SameMakers, InScan, AtCtrl, Scans,
       ConnectClash, Begin, objectVars, historyVars
<1> QED
    BY <1>2, <1>4 DEF OriginInv

LEMMA nvme_rescan_ctrl_Origins == ASSUME IInv, CallAt, OriginInv, nvme_rescan_ctrl PROVE OriginInv'
<1>1. SameMakers
    BY DEF SameMakers, nvme_rescan_ctrl, Begin, objectVars
<1>2. /\ HostsApart' /\ SubsApart' /\ Origins' /\ NewOnes'
      /\ \A x, i : Belongs(x, i)' <=> Belongs(x, i)
      /\ \A c, i : Made(c, i)' <=> Made(c, i)
      /\ \A c, i : MadeFor(c, i)' <=> MadeFor(c, i)
      /\ \A y : UnderHere(y)' <=> UnderHere(y)
    BY <1>1, SameOrigins, SameBelongs DEF OriginInv
<1>3. made \in Nat
    BY DEF IInv, Objects
<1>4. Position'
    BY <1>1, <1>2, <1>3 DEF OriginInv, CallAt, Position, SameMakers, InScan, AtCtrl, Scans,
       nvme_rescan_ctrl, Begin, objectVars
<1> QED
    BY <1>2, <1>4 DEF OriginInv

LEMMA ScanSubsystems_Origins == ASSUME IInv, CallAt, OriginInv, ScanSubsystems PROVE OriginInv'
<1>1. SameMakers
    BY DEF SameMakers, ScanSubsystems, objectVars, programVars, historyVars
<1>2. /\ HostsApart' /\ SubsApart' /\ Origins' /\ NewOnes'
      /\ \A x, i : Belongs(x, i)' <=> Belongs(x, i)
      /\ \A c, i : Made(c, i)' <=> Made(c, i)
      /\ \A c, i : MadeFor(c, i)' <=> MadeFor(c, i)
      /\ \A y : UnderHere(y)' <=> UnderHere(y)
    BY <1>1, SameOrigins, SameBelongs DEF OriginInv
<1>3. made \in Nat
    BY DEF IInv, Objects
<1>4. Position'
    BY <1>1, <1>2, <1>3 DEF OriginInv, CallAt, Position, SameMakers, InScan, AtCtrl, Scans,
       ScanSubsystems, objectVars, programVars, historyVars
<1> QED
    BY <1>2, <1>4 DEF OriginInv

LEMMA ScanDone_Origins == ASSUME IInv, CallAt, OriginInv, ScanDone PROVE OriginInv'
<1>1. SameMakers
    BY DEF SameMakers, ScanDone, objectVars, programVars, historyVars, scanVars
<1>2. /\ HostsApart' /\ SubsApart' /\ Origins' /\ NewOnes'
      /\ \A x, i : Belongs(x, i)' <=> Belongs(x, i)
      /\ \A c, i : Made(c, i)' <=> Made(c, i)
      /\ \A c, i : MadeFor(c, i)' <=> MadeFor(c, i)
      /\ \A y : UnderHere(y)' <=> UnderHere(y)
    BY <1>1, SameOrigins, SameBelongs DEF OriginInv
<1>3. made \in Nat
    BY DEF IInv, Objects
<1>4. Position'
    BY <1>1, <1>2, <1>3 DEF OriginInv, CallAt, Position, SameMakers, InScan, AtCtrl, Scans,
       ScanDone, objectVars, programVars, historyVars, scanVars
<1> QED
    BY <1>2, <1>4 DEF OriginInv

LEMMA ScanSpaces_Origins == ASSUME IInv, CallAt, OriginInv, ScanSpaces PROVE OriginInv'
<1>1. SameMakers
    BY DEF SameMakers, ScanSpaces, objectVars, programVars, historyVars
<1>2. /\ HostsApart' /\ SubsApart' /\ Origins' /\ NewOnes'
      /\ \A x, i : Belongs(x, i)' <=> Belongs(x, i)
      /\ \A c, i : Made(c, i)' <=> Made(c, i)
      /\ \A c, i : MadeFor(c, i)' <=> MadeFor(c, i)
      /\ \A y : UnderHere(y)' <=> UnderHere(y)
    BY <1>1, SameOrigins, SameBelongs DEF OriginInv
<1>3. made \in Nat
    BY DEF IInv, Objects
<1>4. Position'
    BY <1>1, <1>2, <1>3 DEF OriginInv, CallAt, Position, SameMakers, InScan, AtCtrl, Scans,
       ScanSpaces, objectVars, programVars, historyVars
<1> QED
    BY <1>2, <1>4 DEF OriginInv

LEMMA nvme_subsystem_scan_namespace_Origins == ASSUME IInv, CallAt, OriginInv, nvme_subsystem_scan_namespace PROVE OriginInv'
<1>1. SameMakers
    BY DEF SameMakers, nvme_subsystem_scan_namespace, OpenSpace, programVars, historyVars
<1>2. /\ HostsApart' /\ SubsApart' /\ Origins' /\ NewOnes'
      /\ \A x, i : Belongs(x, i)' <=> Belongs(x, i)
      /\ \A c, i : Made(c, i)' <=> Made(c, i)
      /\ \A c, i : MadeFor(c, i)' <=> MadeFor(c, i)
      /\ \A y : UnderHere(y)' <=> UnderHere(y)
    BY <1>1, SameOrigins, SameBelongs DEF OriginInv
<1>3. made \in Nat
    BY DEF IInv, Objects
<1>4. Position'
    BY <1>1, <1>2, <1>3 DEF OriginInv, CallAt, Position, SameMakers, InScan, AtCtrl, Scans,
       nvme_subsystem_scan_namespace, OpenSpace, programVars, historyVars
<1> QED
    BY <1>2, <1>4 DEF OriginInv

LEMMA CtrlsDone_Origins == ASSUME IInv, CallAt, OriginInv, CtrlsDone PROVE OriginInv'
<1>1. SameMakers
    BY DEF SameMakers, CtrlsDone, objectVars, programVars, historyVars, scanVars
<1>2. /\ HostsApart' /\ SubsApart' /\ Origins' /\ NewOnes'
      /\ \A x, i : Belongs(x, i)' <=> Belongs(x, i)
      /\ \A c, i : Made(c, i)' <=> Made(c, i)
      /\ \A c, i : MadeFor(c, i)' <=> MadeFor(c, i)
      /\ \A y : UnderHere(y)' <=> UnderHere(y)
    BY <1>1, SameOrigins, SameBelongs DEF OriginInv
<1>3. made \in Nat
    BY DEF IInv, Objects
<1>4. Position'
    BY <1>1, <1>2, <1>3 DEF OriginInv, CallAt, Position, SameMakers, InScan, AtCtrl, Scans,
       CtrlsDone, objectVars, programVars, historyVars, scanVars
<1> QED
    BY <1>2, <1>4 DEF OriginInv

LEMMA ScanCtrlSpaces_Origins == ASSUME IInv, CallAt, OriginInv, ScanCtrlSpaces PROVE OriginInv'
<1>1. SameMakers
    BY DEF SameMakers, ScanCtrlSpaces, Crash, objectVars, programVars, historyVars
<1>2. /\ HostsApart' /\ SubsApart' /\ Origins' /\ NewOnes'
      /\ \A x, i : Belongs(x, i)' <=> Belongs(x, i)
      /\ \A c, i : Made(c, i)' <=> Made(c, i)
      /\ \A c, i : MadeFor(c, i)' <=> MadeFor(c, i)
      /\ \A y : UnderHere(y)' <=> UnderHere(y)
    BY <1>1, SameOrigins, SameBelongs DEF OriginInv
<1>3. made \in Nat
    BY DEF IInv, Objects
<1>4. Position'
    BY <1>1, <1>2, <1>3 DEF OriginInv, CallAt, Position, SameMakers, InScan, AtCtrl, Scans,
       ScanCtrlSpaces, Crash, objectVars, programVars, historyVars
<1> QED
    BY <1>2, <1>4 DEF OriginInv

LEMMA nvme_ctrl_scan_namespace_Origins == ASSUME IInv, CallAt, OriginInv, nvme_ctrl_scan_namespace PROVE OriginInv'
<1>1. SameMakers
    BY DEF SameMakers, nvme_ctrl_scan_namespace, OpenSpace, programVars, historyVars
<1>2. /\ HostsApart' /\ SubsApart' /\ Origins' /\ NewOnes'
      /\ \A x, i : Belongs(x, i)' <=> Belongs(x, i)
      /\ \A c, i : Made(c, i)' <=> Made(c, i)
      /\ \A c, i : MadeFor(c, i)' <=> MadeFor(c, i)
      /\ \A y : UnderHere(y)' <=> UnderHere(y)
    BY <1>1, SameOrigins, SameBelongs DEF OriginInv
<1>3. made \in Nat
    BY DEF IInv, Objects
<1>4. Position'
    BY <1>1, <1>2, <1>3 DEF OriginInv, CallAt, Position, SameMakers, InScan, AtCtrl, Scans,
       nvme_ctrl_scan_namespace, OpenSpace, programVars, historyVars
<1> QED
    BY <1>2, <1>4 DEF OriginInv

LEMMA CtrlSpacesDone_Origins == ASSUME IInv, CallAt, OriginInv, CtrlSpacesDone PROVE OriginInv'
<1>1. SameMakers
    BY DEF SameMakers, CtrlSpacesDone, objectVars, programVars, historyVars, scanVars
<1>2. /\ HostsApart' /\ SubsApart' /\ Origins' /\ NewOnes'
      /\ \A x, i : Belongs(x, i)' <=> Belongs(x, i)
      /\ \A c, i : Made(c, i)' <=> Made(c, i)
      /\ \A c, i : MadeFor(c, i)' <=> MadeFor(c, i)
      /\ \A y : UnderHere(y)' <=> UnderHere(y)
    BY <1>1, SameOrigins, SameBelongs DEF OriginInv
<1>3. made \in Nat
    BY DEF IInv, Objects
<1>4. Position'
    BY <1>1, <1>2, <1>3 DEF OriginInv, CallAt, Position, SameMakers, InScan, AtCtrl, Scans,
       CtrlSpacesDone, objectVars, programVars, historyVars, scanVars
<1> QED
    BY <1>2, <1>4 DEF OriginInv

LEMMA ScanPaths_Origins == ASSUME IInv, CallAt, OriginInv, ScanPaths PROVE OriginInv'
<1>1. SameMakers
    BY DEF SameMakers, ScanPaths, AfterCtrl, objectVars, programVars, historyVars
<1>2. /\ HostsApart' /\ SubsApart' /\ Origins' /\ NewOnes'
      /\ \A x, i : Belongs(x, i)' <=> Belongs(x, i)
      /\ \A c, i : Made(c, i)' <=> Made(c, i)
      /\ \A c, i : MadeFor(c, i)' <=> MadeFor(c, i)
      /\ \A y : UnderHere(y)' <=> UnderHere(y)
    BY <1>1, SameOrigins, SameBelongs DEF OriginInv
<1>3. made \in Nat
    BY DEF IInv, Objects
<1>4. Position'
    BY <1>1, <1>2, <1>3 DEF OriginInv, CallAt, Position, SameMakers, InScan, AtCtrl, Scans,
       ScanPaths, AfterCtrl, objectVars, programVars, historyVars
<1> QED
    BY <1>2, <1>4 DEF OriginInv

LEMMA nvme_ctrl_scan_path_Origins == ASSUME IInv, CallAt, OriginInv, nvme_ctrl_scan_path PROVE OriginInv'
<1>1. SameMakers
    BY DEF SameMakers, nvme_ctrl_scan_path, programVars, historyVars
<1>2. /\ HostsApart' /\ SubsApart' /\ Origins' /\ NewOnes'
      /\ \A x, i : Belongs(x, i)' <=> Belongs(x, i)
      /\ \A c, i : Made(c, i)' <=> Made(c, i)
      /\ \A c, i : MadeFor(c, i)' <=> MadeFor(c, i)
      /\ \A y : UnderHere(y)' <=> UnderHere(y)
    BY <1>1, SameOrigins, SameBelongs DEF OriginInv
<1>3. made \in Nat
    BY DEF IInv, Objects
<1>4. Position'
    BY <1>1, <1>2, <1>3 DEF OriginInv, CallAt, Position, SameMakers, InScan, AtCtrl, Scans,
       nvme_ctrl_scan_path, programVars, historyVars
<1> QED
    BY <1>2, <1>4 DEF OriginInv

LEMMA PathsDone_Origins == ASSUME IInv, CallAt, OriginInv, PathsDone PROVE OriginInv'
<1>1. SameMakers
    BY DEF SameMakers, PathsDone, AfterCtrl, objectVars, programVars, historyVars, scanVars
<1>2. /\ HostsApart' /\ SubsApart' /\ Origins' /\ NewOnes'
      /\ \A x, i : Belongs(x, i)' <=> Belongs(x, i)
      /\ \A c, i : Made(c, i)' <=> Made(c, i)
      /\ \A c, i : MadeFor(c, i)' <=> MadeFor(c, i)
      /\ \A y : UnderHere(y)' <=> UnderHere(y)
    BY <1>1, SameOrigins, SameBelongs DEF OriginInv
<1>3. made \in Nat
    BY DEF IInv, Objects
<1>4. Position'
    BY <1>1, <1>2, <1>3 DEF OriginInv, CallAt, Position, SameMakers, InScan, AtCtrl, Scans,
       PathsDone, AfterCtrl, objectVars, programVars, historyVars, scanVars
<1> QED
    BY <1>2, <1>4 DEF OriginInv

LEMMA ScanCtrlTransport_Origins == ASSUME IInv, CallAt, OriginInv, ScanCtrlTransport PROVE OriginInv'
<1>1. SameMakers
    BY DEF SameMakers, IInv, Steady, ScanCtrlTransport, objectVars, programVars, historyVars, scanVars
<1>2. /\ HostsApart' /\ SubsApart' /\ Origins' /\ NewOnes'
      /\ \A x, i : Belongs(x, i)' <=> Belongs(x, i)
      /\ \A c, i : Made(c, i)' <=> Made(c, i)
      /\ \A c, i : MadeFor(c, i)' <=> MadeFor(c, i)
      /\ \A y : UnderHere(y)' <=> UnderHere(y)
    BY <1>1, SameOrigins, SameBelongs DEF OriginInv
<1>3. made \in Nat
    BY DEF IInv, Objects
<1>4. Position'
    BY <1>1, <1>2, <1>3 DEF OriginInv, CallAt, Position, SameMakers, InScan, AtCtrl, Scans,
       IInv, Steady, ScanCtrlTransport, objectVars, programVars, historyVars, scanVars
<1> QED
    BY <1>2, <1>4 DEF OriginInv

LEMMA ScanCtrls_Origins == ASSUME IInv, CallAt, OriginInv, ScanCtrls PROVE OriginInv'
<1>1. SameMakers
    BY DEF SameMakers, ScanCtrls, objectVars, programVars, historyVars
<1>2. /\ HostsApart' /\ SubsApart' /\ Origins' /\ NewOnes'
      /\ \A x, i : Belongs(x, i)' <=> Belongs(x, i)
      /\ \A c, i : MadeFor(c, i)' <=> MadeFor(c, i)
      /\ \A y : UnderHere(y)' <=> UnderHere(y)
    BY <1>1, SameOrigins, SameBelongs DEF OriginInv
<1>3. at = "space" /\ UNCHANGED <<made, connected, call, sub, subs, ctrls>>
    BY DEF ScanCtrls, objectVars, programVars, historyVars
<1>4. CASE at' = "ctrlspaces" /\ call = "rescan"
    BY <1>2, <1>3, <1>4 DEF OriginInv, Position, InScan, AtCtrl, Scans
<1>5. CASE at' = "ctrl" /\ todoCtrls' = {i \in live : SubsysOf[i] = With(subs, sub).nqn}
    <2>1. call \in Scans => \E y \in subs : y.id = sub /\ UnderHere(y)
        BY <1>3 DEF OriginInv, Position, InScan, AtCtrl
    <2>2. \A y \in subs : y.id = sub => With(subs, sub) = y
        BY WithId DEF IInv, Objects, SubsOK
    <2>3. call \in Scans => \E y \in subs' : /\ y.id = sub /\ UnderHere(y)'
                                             /\ \A i \in todoCtrls' : SubsysOf[i] = y.nqn
        BY <1>2, <1>3, <1>5, <2>1, <2>2
    <2> QED
        BY <1>2, <1>3, <1>5, <2>3 DEF OriginInv, Position
<1> QED
    BY <1>2, <1>4, <1>5 DEF OriginInv, ScanCtrls

LEMMA nvme_subsystem_scan_ctrl_Origins ==
    ASSUME IInv, CallAt, OriginInv, nvme_subsystem_scan_ctrl
    PROVE  OriginInv'
<1>1. SameMakers
    BY DEF SameMakers, nvme_subsystem_scan_ctrl, objectVars, programVars, historyVars
<1>2. /\ HostsApart' /\ SubsApart' /\ Origins' /\ NewOnes'
      /\ \A x, i : Belongs(x, i)' <=> Belongs(x, i)
      /\ \A y : UnderHere(y)' <=> UnderHere(y)
    BY <1>1, SameOrigins, SameBelongs DEF OriginInv
<1>3. PICK i \in todoCtrls : i = First(todoCtrls)
    <2>1. todoCtrls \subseteq Nat /\ todoCtrls # {}
        BY TreeAssumption DEF IInv, Found, nvme_subsystem_scan_ctrl
    <2> QED
        BY <2>1, FirstIn
<1>4. /\ at = "ctrl" /\ at' \in {"address", "ctrl"} /\ inst' = i /\ todoCtrls' \subseteq todoCtrls
      /\ UNCHANGED <<made, connected, call, sub, subs, ctrls>>
    BY <1>3 DEF nvme_subsystem_scan_ctrl, Rest, objectVars, programVars, historyVars
<1>5. i \in Instances /\ call \in Scans
    BY <1>4 DEF IInv, Found, CallAt
<1>6. PICK y \in subs : y.id = sub /\ UnderHere(y) /\ \A j \in todoCtrls : SubsysOf[j] = y.nqn
    BY <1>4, <1>5 DEF OriginInv, Position, InScan
<1>7. Belongs(sub, i)
    BY <1>3, <1>6 DEF Belongs
<1>8. Position'
    BY <1>2, <1>4, <1>5, <1>6, <1>7 DEF OriginInv, Position
<1> QED
    BY <1>2, <1>8 DEF OriginInv

(* The tree is freed. *)
LEMMA FreedOrigins ==
    ASSUME IInv, OriginInv, FreeTree, connected' = connected, at' \in {"idle", "subsystems"}
    PROVE  OriginInv'
<1>1. hosts' = {} /\ subs' = {} /\ made' = made /\ \A c \in ctrls' : c \in ctrls /\ c.sub = 0
    <2>1. \A c \in ctrls : c \notin {d \in ctrls : d.sub # 0} => c.sub = 0
        OBVIOUS
    <2> QED
        BY <2>1 DEF FreeTree
<1>2. HostsApart' /\ SubsApart' /\ Origins' /\ NewOnes'
    BY <1>1 DEF HostsApart, SubsApart, Origins, NewOnes
<1>3. Position'
    BY <1>1 DEF OriginInv, Position, InScan, AtCtrl
<1> QED
    BY <1>2, <1>3 DEF OriginInv

LEMMA nvme_refresh_topology_Origins == ASSUME IInv, OriginInv, nvme_refresh_topology PROVE OriginInv'
BY FreedOrigins DEF nvme_refresh_topology, Begin, historyVars
LEMMA nvme_free_tree_Origins == ASSUME IInv, OriginInv, nvme_free_tree PROVE OriginInv'
BY FreedOrigins DEF nvme_free_tree, Begin, historyVars
LEMMA CountCtrls_Origins == ASSUME IInv, OriginInv, CountCtrls PROVE OriginInv'
BY FreedOrigins DEF CountCtrls, Return, historyVars
LEMMA ListSpaces_Origins == ASSUME IInv, OriginInv, ListSpaces PROVE OriginInv'
<1>1. CASE FreeTree
    BY <1>1, FreedOrigins DEF ListSpaces, Return, historyVars
<1>2. CASE UNCHANGED objectVars
    <2>1. SameMakers /\ made' = made /\ at' = "idle" /\ UNCHANGED connected
        BY <1>2 DEF SameMakers, objectVars, ListSpaces, Return, historyVars
    <2>2. HostsApart' /\ SubsApart' /\ Origins' /\ NewOnes'
        BY <2>1, SameOrigins DEF OriginInv
    <2>3. Position'
        BY <2>1 DEF OriginInv, Position, InScan, AtCtrl
    <2> QED
        BY <2>2, <2>3 DEF OriginInv
<1> QED
    BY <1>1, <1>2 DEF ListSpaces

(* Hosts and subsystems are made. *)
LEMMA nvme_scan_subsystem_Origins ==
    ASSUME IInv, CallAt, OriginInv, nvme_scan_subsystem
    PROVE  OriginInv'
<1>1. PICK s \in Subsystems : s = First(todoSubs)
    <2>1. todoSubs \subseteq Subsystems /\ todoSubs \subseteq Nat /\ todoSubs # {}
        BY TreeAssumption DEF IInv, Found, nvme_scan_subsystem
    <2> QED
        BY <2>1, FirstIn
<1>2. PICK h : h = nvme_lookup_host(DefaultHost)
    OBVIOUS
<1>3. PICK x : x = nvme_lookup_subsystem(h, s, TRUE)
    OBVIOUS
<1>4. /\ MakeHost(h) /\ at = "subsystem"
      /\ \/ MakeSub(x, TRUE) /\ sub' = x.id /\ at' = "spaces" /\ made' = made + 2
         \/ UNCHANGED <<subs, sub, at>> /\ made' = made + 1
      /\ UNCHANGED <<ctrls, connected, call>>
    BY <1>1, <1>2, <1>3 DEF nvme_scan_subsystem, programVars, historyVars
<1>5. made \in Nat /\ HostsOK /\ SubsOK /\ DefaultHost \in HostKeys /\ HostsApart /\ SubsApart
    BY DEF IInv, Objects, HostKeys, OriginInv
<1>6. HostsApart' /\ hosts \subseteq hosts' /\ h \in hosts' /\ Here(h)
    BY <1>2, <1>4, <1>5, HostAgain DEF Here
<1>7. CASE MakeSub(x, TRUE) /\ sub' = x.id /\ at' = "spaces" /\ made' = made + 2
    <2>1. SubsApart' /\ SubsysIn(x.id, h, s)
        BY <1>1, <1>3, <1>5, <1>7, SubsysAgain
    <2>2. MoreHosts
        BY <1>6, <2>1 DEF MoreHosts, SubsysIn
    <2>3. Origins' /\ NewOnes'
        BY <1>4, <2>2, MoreOrigins DEF OriginInv
    <2>4. PICK y \in subs' : y.id = sub' /\ y.host = h.id
        BY <1>7, <2>1 DEF SubsysIn
    <2>5. UnderHere(y)'
        BY <1>6, <2>4 DEF UnderHere, Here, Fits
    <2>6. connected' \subseteq 1 .. made'
        BY <1>4, <1>5, <1>7 DEF OriginInv, Position
    <2>7. Position'
        BY <1>7, <2>4, <2>5, <2>6 DEF Position
    <2> QED
        BY <1>6, <2>1, <2>3, <2>7 DEF OriginInv
<1>8. CASE UNCHANGED <<subs, sub, at>> /\ made' = made + 1
    <2>1. MoreHosts
        BY <1>6, <1>8 DEF MoreHosts
    <2>2. Origins' /\ NewOnes' /\ SubsApart'
        BY <1>4, <1>5, <1>8, <2>1, MoreOrigins DEF OriginInv, SubsApart
    <2>3. connected' \subseteq 1 .. made' /\ at' = "subsystem"
        BY <1>4, <1>5, <1>8 DEF OriginInv, Position
    <2>4. Position'
        BY <2>3 DEF Position, InScan, AtCtrl
    <2> QED
        BY <1>6, <2>2, <2>4 DEF OriginInv
<1> QED
    BY <1>4, <1>7, <1>8

LEMMA ScanCtrlHost_Origins == ASSUME IInv, CallAt, OriginInv, ScanCtrlHost PROVE OriginInv'
<1> DEFINE key == IF inst \in live /\ HostOf[inst] # NoHost THEN HostOf[inst] ELSE DefaultHost
<1>1. key \in HostKeys /\ live \subseteq Instances /\ made \in Nat /\ HostsOK /\ SubsOK /\ HostsApart /\ SubsApart
    BY DEF IInv, Scalars, Objects, HostKeys, OriginInv
<1>2. PICK h : h = nvme_lookup_host(key)
    OBVIOUS
<1>3. PICK x : x = nvme_lookup_subsystem(h, SubsysOf[inst], FALSE)
    OBVIOUS
<1>4. /\ at = "host" /\ call = "scan_ctrl"
      /\ \/ at' = "crashed" /\ UNCHANGED <<hosts, subs, sub, made>>
         \/ /\ MakeHost(h)
            /\ \/ inst \in live /\ MakeSub(x, FALSE) /\ sub' = x.id /\ made' = made + 2 /\ at' = "transport"
               \/ at' = "idle" /\ UNCHANGED <<subs, sub>> /\ made' = made + 1
      /\ UNCHANGED <<ctrls, connected, call, inst>>
    BY <1>2, <1>3 DEF IInv, Steady, ScanCtrlHost, Return, Crash, programVars, historyVars
<1>5. (inst \in live /\ HostOf[inst] \in {NoHost, DefaultHost}) => key = DefaultHost
    OBVIOUS
<1> HIDE DEF key
<1>6. CASE at' = "crashed" /\ UNCHANGED <<hosts, subs, sub, made>>
    <2>1. SameMakers
        BY <1>4, <1>6 DEF SameMakers
    <2>2. HostsApart' /\ SubsApart' /\ Origins' /\ NewOnes'
        BY <2>1, SameOrigins DEF OriginInv
    <2>3. Position'
        BY <1>4, <1>6 DEF OriginInv, Position, InScan, AtCtrl
    <2> QED
        BY <2>2, <2>3 DEF OriginInv
<1>7. CASE MakeHost(h) /\ inst \in live /\ MakeSub(x, FALSE) /\ sub' = x.id /\ made' = made + 2 /\ at' = "transport"
    <2>1. HostsApart' /\ hosts \subseteq hosts' /\ h \in hosts' /\ Fits(h, key)
        BY <1>1, <1>2, <1>7, HostAgain
    <2>2. SubsApart' /\ SubsysIn(x.id, h, SubsysOf[inst])
        <3>1. SubsysOf[inst] \in Subsystems
            BY <1>1, <1>7 DEF Subsystems
        <3> QED
            BY <1>1, <1>3, <1>7, <3>1, SubsysAgain
    <2>3. MoreHosts
        BY <2>1, <2>2 DEF MoreHosts, SubsysIn
    <2>4. Origins' /\ NewOnes'
        BY <1>4, <2>3, MoreOrigins DEF OriginInv
    <2>5. PICK y \in subs' : y.id = sub' /\ y.host = h.id /\ y.nqn = SubsysOf[inst]
        BY <1>7, <2>2 DEF SubsysIn
    <2>6. HostOf[inst] \in {NoHost, DefaultHost} => UnderHere(y)'
        <3>1. HostOf[inst] \in {NoHost, DefaultHost} => Fits(h, DefaultHost)
            BY <1>5, <1>7, <2>1
        <3> QED
            BY <2>1, <2>5, <3>1 DEF UnderHere, Here, Fits
    <2>7. Belongs(sub, inst)'
        BY <1>4, <2>5, <2>6 DEF Belongs
    <2>8. connected' \subseteq 1 .. made' /\ inst' \in Instances /\ call' = "scan_ctrl"
        BY <1>1, <1>4, <1>7 DEF OriginInv, Position
    <2>9. Position'
        BY <1>7, <2>7, <2>8 DEF Position, InScan, AtCtrl, Scans
    <2> QED
        BY <2>1, <2>2, <2>4, <2>9 DEF OriginInv
<1>8. CASE MakeHost(h) /\ at' = "idle" /\ UNCHANGED <<subs, sub>> /\ made' = made + 1
    <2>1. HostsApart' /\ hosts \subseteq hosts'
        BY <1>1, <1>2, <1>8, HostAgain
    <2>2. MoreHosts
        BY <1>8, <2>1 DEF MoreHosts
    <2>3. Origins' /\ NewOnes' /\ SubsApart'
        BY <1>1, <1>4, <1>8, <2>2, MoreOrigins DEF OriginInv, SubsApart
    <2>4. connected' \subseteq 1 .. made'
        BY <1>1, <1>4, <1>8 DEF OriginInv, Position
    <2>5. Position'
        BY <1>8, <2>4 DEF Position, InScan, AtCtrl
    <2> QED
        BY <2>1, <2>3, <2>5 DEF OriginInv
<1> QED
    BY <1>4, <1>6, <1>7, <1>8

(* Controllers are made, and changed. *)
LEMMA nvme_ctrl_alloc_Origins ==
    ASSUME AddressesApart, IInv, IInv', CallAt, OriginInv, nvme_ctrl_alloc
    PROVE  OriginInv'
<1> DEFINE key == Parsed(inst)
           found == {c \in ctrls : c.sub = sub /\ Matches(c, key)}
           new == [id |-> made + 1, sub |-> sub, key |-> key, name |-> Absent, fd |-> FALSE]
<1>1. PICK c : c = IF found # {} THEN Newest(found) ELSE new
    OBVIOUS
<1>2. /\ at = "address"
      /\ \/ at' = "crashed" /\ UNCHANGED <<ctrls, ctrl, made>>
         \/ inst \in live /\ ctrls' = ctrls \cup {c} /\ ctrl' = c.id /\ made' = made + 1 /\ at' = "configure"
      /\ UNCHANGED <<hosts, subs, connected, call, sub, inst, todoCtrls>>
    BY <1>1 DEF nvme_ctrl_alloc, Crash, programVars, historyVars
<1>3. made \in Nat /\ CtrlsOK /\ live \subseteq Instances /\ Belongs(sub, inst) /\ connected \subseteq 1 .. made
    BY <1>2 DEF IInv, Scalars, Objects, OriginInv, Position
<1>4. CASE at' = "crashed" /\ UNCHANGED <<ctrls, ctrl, made>>
    <2>1. SameMakers
        BY <1>2, <1>4 DEF SameMakers
    <2>2. HostsApart' /\ SubsApart' /\ Origins' /\ NewOnes'
        BY <2>1, SameOrigins DEF OriginInv
    <2>3. Position'
        BY <1>2, <1>3, <1>4 DEF Position, InScan, AtCtrl
    <2> QED
        BY <2>2, <2>3 DEF OriginInv
<1>5. CASE inst \in live /\ ctrls' = ctrls \cup {c} /\ ctrl' = c.id /\ made' = made + 1 /\ at' = "configure"
    <2>1. HostsApart' /\ SubsApart'
        BY <1>2 DEF OriginInv, HostsApart, SubsApart
    <2>2. /\ \A x, i : Belongs(x, i)' <=> Belongs(x, i)
          /\ \A d, i : Made(d, i)' <=> Made(d, i)
          /\ \A y : UnderHere(y)' <=> UnderHere(y)
        BY <1>2 DEF Belongs, Made, UnderHere, Here, Fits
    <2>3. \A d, i : MadeFor(d, i)' <=> MadeFor(d, i)
        BY <2>2 DEF MadeFor
    <2>4. inst \in Instances
        BY <1>3, <1>5
    <2>5. MadeFor(c, inst) /\ NewOnes'
        <3>1. CASE found # {}
            <4>1. c \in found
                <5>1. \A d \in found : d.id \in 1 .. made
                    BY <1>3 DEF CtrlsOK
                <5> HIDE DEF found
                <5> QED
                    BY <1>1, <1>3, <3>1, <5>1, NewestIn
            <4>2. c \in ctrls /\ c.sub = sub /\ Matches(c, Parsed(inst))
                BY <4>1
            <4>3. sub # 0
                BY <1>2 DEF IInv, Found, InSubsystem, Objects, SubsOK, Ids
            <4>4. PICK i \in Instances : MadeFor(c, i)
                BY <4>2, <4>3 DEF OriginInv, Origins
            <4>5. SubsysOf[i] = SubsysOf[inst]
                <5>1. Unique(subs)
                    BY DEF IInv, Objects, SubsOK
                <5> QED
                    BY <1>3, <4>2, <4>4, <5>1 DEF MadeFor, Belongs, Unique
            <4>6. c.key = Parsed(i) \/ c.key = Address[i]
                BY <4>4 DEF MadeFor, Made
            <4>7. i = inst
                BY <2>4, <4>2, <4>5, <4>6 DEF AddressesApart, Matches
            <4>8. ctrls' = ctrls
                BY <1>5, <4>2
            <4>9. NewOnes'
                BY <1>2, <4>8 DEF OriginInv, NewOnes, Matches
            <4> QED
                BY <4>4, <4>7, <4>9
        <3>2. CASE found = {}
            <4>1. c = new
                BY <1>1, <3>2
            <4>2. /\ c.id = made + 1 /\ c.sub = sub /\ c.key = Parsed(inst) /\ c.name = Absent
                  /\ made + 1 \notin connected
                BY <1>3, <4>1
            <4>3. MadeFor(c, inst)
                BY <1>3, <4>2 DEF MadeFor, Made
            <4>4. \A d \in ctrls : d.id \in 1 .. made /\ ~ (d.sub = sub /\ Matches(d, c.key))
                BY <1>3, <3>2, <4>2 DEF CtrlsOK
            <4> HIDE DEF new, found, key
            <4>5. NewOnes'
                <5> SUFFICES ASSUME NEW a \in ctrls', NEW d \in ctrls',
                                    a.sub = d.sub, d.sub # 0, a.id < d.id, d.id \notin connected
                             PROVE  ~ Matches(a, d.key)
                    BY <1>2 DEF NewOnes, Matches
                <5>1. CASE a \in ctrls /\ d \in ctrls
                    BY <5>1 DEF OriginInv, NewOnes
                <5>2. CASE a = c
                    <6>1. a.id = made + 1 /\ d.id \in 1 .. made + 1
                        BY <1>3, <1>5, <4>2, <4>4, <5>2
                    <6> QED
                        BY <1>3, <6>1
                <5>3. CASE a \in ctrls /\ d = c
                    BY <4>2, <4>4, <5>3
                <5> QED
                    BY <1>5, <5>1, <5>2, <5>3
            <4> QED
                BY <4>3, <4>5
        <3> QED
            BY <3>1, <3>2
    <2> HIDE DEF key, found, new
    <2>6. Origins'
        BY <1>5, <2>3, <2>4, <2>5 DEF OriginInv, Origins
    <2>7. \A d \in ctrls' : d.id = ctrl' => MadeFor(d, inst)'
        <3>1. c \in ctrls' /\ Unique(ctrls')
            BY <1>5 DEF IInv, Objects, CtrlsOK
        <3> QED
            BY <1>2, <1>5, <2>3, <2>5, <3>1 DEF Unique
    <2>8. connected' \subseteq 1 .. made'
        BY <1>2, <1>3, <1>5
    <2>9. Position'
        BY <1>2, <1>3, <1>5, <2>2, <2>4, <2>7, <2>8 DEF OriginInv, Position, InScan, AtCtrl
    <2> QED
        BY <2>1, <2>5, <2>6, <2>9 DEF OriginInv
<1> QED
    BY <1>2, <1>4, <1>5

(* One is changed, that stays where it was or goes out of the tree. *)
LEMMA ChangedOrigins ==
    ASSUME CtrlsOK, HostsApart, SubsApart, Origins, NewOnes, UNCHANGED <<hosts, subs, connected>>,
           NEW c \in ctrls, NEW d, Update(c, d), d.id = c.id, d.key = c.key, d.sub \in {0, c.sub},
           d.sub # 0 => \E i \in Instances : MadeFor(d, i)
    PROVE  HostsApart' /\ SubsApart' /\ Origins' /\ NewOnes'
<1>1. HostsApart' /\ SubsApart'
    BY DEF HostsApart, SubsApart
<1>2. \A a, i : MadeFor(a, i)' <=> MadeFor(a, i)
    BY DEF MadeFor, Made, Belongs, UnderHere, Here, Fits
<1>3. ctrls' = (ctrls \ {c}) \cup {d}
    BY DEF Update
<1>4. Origins'
    BY <1>2, <1>3 DEF Origins
<1>5. ASSUME NEW a \in ctrls' PROVE \E b \in ctrls : b.id = a.id /\ b.key = a.key /\ a.sub \in {0, b.sub}
    BY <1>3, <1>5
<1>6. NewOnes'
    <2> SUFFICES ASSUME NEW a \in ctrls', NEW b \in ctrls',
                        a.sub = b.sub, b.sub # 0, a.id < b.id, b.id \notin connected
                 PROVE  ~ Matches(a, b.key)
        BY DEF NewOnes, Matches
    <2>1. PICK p \in ctrls : p.id = a.id /\ p.key = a.key /\ p.sub = a.sub
        BY <1>5
    <2>2. PICK q \in ctrls : q.id = b.id /\ q.key = b.key /\ q.sub = b.sub
        BY <1>5
    <2> QED
        BY <2>1, <2>2 DEF NewOnes, Matches
<1> QED
    BY <1>1, <1>4, <1>6

(* nvme_configure_ctrl leaves its controller what it was. *)
LEMMA ConfiguredOrigins ==
    ASSUME CtrlsOK, HostsApart, SubsApart, Origins, NewOnes, UNCHANGED <<hosts, subs, connected>>,
           NEW succeeds \in BOOLEAN, NEW next, nvme_configure_ctrl(succeeds, next), inst \in Instances,
           NEW c \in ctrls, c.id = ctrl, Made(c, inst), c.sub # 0 => Belongs(c.sub, inst)
    PROVE  /\ HostsApart' /\ SubsApart' /\ Origins' /\ NewOnes'
           /\ \A d \in ctrls' : d.id = ctrl => Made(d, inst)
<1>1. With(ctrls, ctrl) = c
    BY WithId DEF CtrlsOK
<1>2. c \in CtrlSet
    BY DEF CtrlsOK
<1>3. PICK d : /\ d \in {c, [c EXCEPT !.fd = TRUE, !.name = inst], [c EXCEPT !.fd = FALSE]}
               /\ Update(c, d)
    <2>1. CASE ctrls' = ctrls
        BY <2>1 DEF Update
    <2>2. CASE ctrls' # ctrls
        BY <1>1, <2>2 DEF nvme_configure_ctrl
    <2> QED
        BY <2>1, <2>2
<1>4. d.id = c.id /\ d.key = c.key /\ d.sub = c.sub /\ d.name \in {c.name, inst}
    BY <1>2, <1>3 DEF CtrlSet
<1>5. Made(d, inst)
    BY <1>4 DEF Made
<1>6. d.sub # 0 => MadeFor(d, inst)
    BY <1>4, <1>5 DEF MadeFor
<1>7. HostsApart' /\ SubsApart' /\ Origins' /\ NewOnes'
    BY <1>3, <1>4, <1>6, ChangedOrigins
<1>8. \A b \in ctrls' : b.id = ctrl => b = d
    BY <1>3, <1>4 DEF Update, CtrlsOK, Unique
<1> QED
    BY <1>5, <1>7, <1>8

LEMMA Configure_Origins == ASSUME IInv, IInv', CallAt, OriginInv, Configure PROVE OriginInv'
<1>1. PICK next : next = IF call = "scan_ctrl" THEN "idle" ELSE "ctrlspaces"
    OBVIOUS
<1>2. /\ at = "configure" /\ nvme_configure_ctrl(inst \in live, next)
      /\ UNCHANGED <<hosts, subs, connected, made, call, sub, ctrl, inst, todoCtrls>>
    BY <1>1 DEF Configure, programVars, historyVars, scanVars
<1>3. PICK c \in ctrls : c.id = ctrl /\ c.sub = sub
    BY <1>2 DEF IInv, Found, InCtrl
<1>4. MadeFor(c, inst) /\ inst \in Instances /\ CtrlsOK
    BY <1>2, <1>3 DEF OriginInv, Position, IInv, Objects
<1>5. HostsApart' /\ SubsApart' /\ Origins' /\ NewOnes'
    <2>1. (inst \in live) \in BOOLEAN
        OBVIOUS
    <2> QED
        BY <1>2, <1>3, <1>4, <2>1, ConfiguredOrigins DEF OriginInv, MadeFor
<1>6. at' \in {"idle", "ctrl", "ctrlspaces"}
    BY <1>1, <1>2 DEF nvme_configure_ctrl
<1>7. \A y : UnderHere(y)' <=> UnderHere(y)
    BY <1>2 DEF UnderHere, Here, Fits
<1>8. Position'
    BY <1>2, <1>6, <1>7 DEF OriginInv, Position, InScan, AtCtrl
<1> QED
    BY <1>5, <1>8 DEF OriginInv

LEMMA InitConfigure_Origins == ASSUME IInv, IInv', CallAt, OriginInv, InitConfigure PROVE OriginInv'
<1>1. /\ at = "init" /\ nvme_configure_ctrl(inst \in live, "link") /\ call = "connect"
      /\ UNCHANGED <<hosts, subs, connected, made, call, sub, ctrl, inst, todoCtrls>>
    BY DEF InitConfigure, programVars, historyVars, scanVars, IInv, Found
<1>2. PICK c \in ctrls : c.id = ctrl /\ c.sub = 0
    BY <1>1 DEF IInv, Found
<1>3. Made(c, inst) /\ inst \in Instances /\ CtrlsOK
    BY <1>1, <1>2 DEF OriginInv, Position, IInv, Objects
<1>4. /\ HostsApart' /\ SubsApart' /\ Origins' /\ NewOnes'
      /\ \A d \in ctrls' : d.id = ctrl => Made(d, inst)
    <2>1. (inst \in live) \in BOOLEAN
        OBVIOUS
    <2> QED
        BY <1>1, <1>2, <1>3, <2>1, ConfiguredOrigins DEF OriginInv
<1>5. at' \in {"idle", "link"}
    BY <1>1 DEF nvme_configure_ctrl
<1>6. \A d : Made(d, inst)' <=> Made(d, inst)
    BY <1>1 DEF Made
<1>7. Position'
    BY <1>1, <1>3, <1>4, <1>5, <1>6 DEF OriginInv, Position, InScan, AtCtrl
<1> QED
    BY <1>4, <1>7 DEF OriginInv

LEMMA nvme_disconnect_ctrl_Origins == ASSUME IInv, OriginInv, nvme_disconnect_ctrl PROVE OriginInv'
<1>1. PICK c \in ctrls : Update(c, [c EXCEPT !.fd = FALSE, !.name = Absent])
    BY DEF nvme_disconnect_ctrl
<1>2. /\ at' = "idle" /\ UNCHANGED <<hosts, subs, connected, made>>
    BY DEF nvme_disconnect_ctrl, Begin, historyVars
<1> DEFINE d == [c EXCEPT !.fd = FALSE, !.name = Absent]
<1>3. d.id = c.id /\ d.key = c.key /\ d.sub = c.sub /\ d.name = Absent
    BY DEF IInv, Objects, CtrlsOK, CtrlSet
<1> HIDE DEF d
<1>4. d.sub # 0 => \E i \in Instances : MadeFor(d, i)
    BY <1>3 DEF OriginInv, Origins, MadeFor, Made
<1>5. Update(c, d) /\ CtrlsOK
    BY <1>1 DEF d, IInv, Objects
<1>6. HostsApart' /\ SubsApart' /\ Origins' /\ NewOnes'
    BY <1>2, <1>3, <1>4, <1>5, ChangedOrigins DEF OriginInv
<1>7. Position'
    BY <1>2 DEF OriginInv, Position, InScan, AtCtrl
<1> QED
    BY <1>6, <1>7 DEF OriginInv

LEMMA nvme_unlink_ctrl_Origins == ASSUME IInv, OriginInv, nvme_unlink_ctrl PROVE OriginInv'
<1>1. PICK c \in ctrls : Update(c, [c EXCEPT !.sub = 0])
    BY DEF nvme_unlink_ctrl
<1>2. /\ at' = "idle" /\ UNCHANGED <<hosts, subs, connected, made>>
    BY DEF nvme_unlink_ctrl, Begin, historyVars
<1> DEFINE d == [c EXCEPT !.sub = 0]
<1>3. d.id = c.id /\ d.key = c.key /\ d.sub = 0
    BY DEF IInv, Objects, CtrlsOK, CtrlSet
<1> HIDE DEF d
<1>4. Update(c, d) /\ CtrlsOK
    BY <1>1 DEF d, IInv, Objects
<1>5. HostsApart' /\ SubsApart' /\ Origins' /\ NewOnes'
    BY <1>2, <1>3, <1>4, ChangedOrigins DEF OriginInv
<1>6. Position'
    BY <1>2 DEF OriginInv, Position, InScan, AtCtrl
<1> QED
    BY <1>5, <1>6 DEF OriginInv

LEMMA Connect_Origins == ASSUME IInv, IInv', OriginInv, Connect PROVE OriginInv'
<1>1. PICK h : h = nvme_lookup_host(DefaultHost)
    OBVIOUS
<1>2. PICK i \in Instances :
         /\ MakeHost(h) /\ at' = "init" /\ inst' = i /\ ctrl' = made + 2 /\ made' = made + 2
         /\ ctrls' = ctrls \cup {[id |-> made + 2, sub |-> 0, key |-> Address[i], name |-> Absent, fd |-> FALSE]}
         /\ connected' = connected \cup {made + 2} /\ subs' = subs
    BY <1>1 DEF Connect, Begin
<1>3. made \in Nat /\ HostsOK /\ DefaultHost \in HostKeys /\ HostsApart /\ connected \subseteq 1 .. made
      /\ \A c \in ctrls : c.id \in 1 .. made
    BY DEF IInv, Objects, HostKeys, OriginInv, Position, CtrlsOK
<1>4. PICK c : /\ c.id = made + 2 /\ c.sub = 0 /\ c.key = Address[i] /\ c.name = Absent
               /\ ctrls' = ctrls \cup {c}
    BY <1>2
<1>5. HostsApart' /\ hosts \subseteq hosts'
    BY <1>1, <1>2, <1>3, HostAgain
<1>6. MoreHosts /\ SubsApart'
    BY <1>2, <1>5 DEF MoreHosts, OriginInv, SubsApart
<1>7. \A d \in ctrls : d.id \in connected' <=> d.id \in connected
    BY <1>2, <1>3
<1>8. \A d \in ctrls, j \in Instances : MadeFor(d, j) => MadeFor(d, j)'
    <2>1. \A d \in ctrls, j \in Instances : Made(d, j) => Made(d, j)'
        BY <1>7 DEF Made
    <2> QED
        BY <1>6, <2>1, MoreBelongs DEF MadeFor
<1>9. Origins'
    BY <1>4, <1>8 DEF OriginInv, Origins
<1>10. NewOnes'
    BY <1>4, <1>7 DEF OriginInv, NewOnes, Matches
<1>11. \A d \in ctrls' : d.id = ctrl' => Made(d, inst)'
    <2>1. \A d \in ctrls' : d.id = made + 2 => d = c
        BY <1>3, <1>4
    <2>2. c.id \in connected'
        BY <1>2, <1>4
    <2>3. Made(c, i)'
        BY <1>4, <2>2 DEF Made
    <2> QED
        BY <1>2, <2>1, <2>3
<1>12. connected' \subseteq 1 .. made'
    BY <1>2, <1>3
<1>13. Position'
    BY <1>2, <1>11, <1>12 DEF Position, InScan, AtCtrl
<1> QED
    BY <1>5, <1>6, <1>9, <1>10, <1>13 DEF OriginInv

LEMMA nvme_init_ctrl_Origins == ASSUME IInv, IInv', OriginInv, nvme_init_ctrl PROVE OriginInv'
<1>1. PICK h : h = nvme_lookup_host(DefaultHost)
    OBVIOUS
<1>2. PICK x : x = nvme_lookup_subsystem(h, SubsysOf[inst], TRUE)
    OBVIOUS
<1>3. /\ at = "link" /\ made \in Nat /\ HostsOK /\ SubsOK /\ CtrlsOK /\ live \subseteq Instances
      /\ ctrl = made /\ ctrl \in connected /\ inst \in Instances /\ connected \subseteq 1 .. made
    BY DEF IInv, Scalars, Objects, nvme_init_ctrl, OriginInv, Position
<1>4. PICK c \in ctrls : c.id = ctrl /\ c.sub = 0
    BY <1>3 DEF IInv, Found
<1>5. With(ctrls, ctrl) = c
    BY <1>3, <1>4, WithId DEF CtrlsOK
<1> DEFINE d == [c EXCEPT !.sub = x.id]
<1>6. /\ at' = "idle"
      /\ \/ MakeSub(x, TRUE) /\ made' = made + 2 /\ Update(c, d)
         \/ UNCHANGED <<subs, ctrls, made>>
      /\ UNCHANGED <<hosts, connected, inst>>
    BY <1>1, <1>2, <1>5 DEF nvme_init_ctrl, Return, programVars, historyVars, scanVars
<1>7. HostsApart'
    BY <1>6 DEF OriginInv, HostsApart
<1>8. CASE MakeSub(x, TRUE) /\ made' = made + 2 /\ Update(c, d)
    <2>1. h \in hosts /\ Here(h)
        BY <1>1, <1>3, HostFound DEF IInv, Found, HostKeys, Here
    <2>2. SubsApart' /\ SubsysIn(x.id, h, SubsysOf[inst])
        <3>1. SubsysOf[inst] \in Subsystems /\ SubsApart
            BY <1>3 DEF Subsystems, OriginInv
        <3> QED
            BY <1>2, <1>3, <1>8, <3>1, SubsysAgain
    <2>3. MoreHosts
        BY <1>6, <2>2 DEF MoreHosts, SubsysIn
    <2>4. PICK y \in subs' : y.id = x.id /\ y.host = h.id /\ y.nqn = SubsysOf[inst]
        BY <2>2 DEF SubsysIn
    <2>5. UnderHere(y)'
        BY <1>6, <2>1, <2>4 DEF UnderHere, Here, Fits
    <2>6. \E z \in subs' : /\ z.id = x.id /\ z.nqn = SubsysOf[inst]
                           /\ HostOf[inst] \in {NoHost, DefaultHost} => UnderHere(z)'
        BY <2>4, <2>5
    <2>7. d.id = c.id /\ d.key = c.key /\ d.sub = x.id /\ d.name = c.name
        BY <1>3 DEF CtrlsOK, CtrlSet
    <2> HIDE DEF d
    <2>8. ctrls' = (ctrls \ {c}) \cup {d}
        BY <1>8 DEF Update
    <2>9. MadeFor(d, inst)'
        <3>1. Made(c, inst)
            BY <1>3, <1>4 DEF OriginInv, Position
        <3>2. Made(d, inst)'
            BY <1>6, <2>7, <3>1 DEF Made
        <3>3. Belongs(d.sub, inst)'
            BY <1>6, <2>6, <2>7 DEF Belongs
        <3> QED
            BY <3>2, <3>3 DEF MadeFor
    <2>10. \A a, i : MadeFor(a, i) => MadeFor(a, i)'
        <3>1. \A a, i : Made(a, i)' <=> Made(a, i)
            BY <1>6 DEF Made
        <3> QED
            BY <2>3, <3>1, MoreBelongs DEF MadeFor
    <2>11. Origins'
        BY <1>3, <1>6, <2>8, <2>9, <2>10 DEF OriginInv, Origins
    <2>12. NewOnes'
        <3> SUFFICES ASSUME NEW a \in ctrls', NEW b \in ctrls',
                            a.sub = b.sub, b.sub # 0, a.id < b.id, b.id \notin connected
                     PROVE  ~ Matches(a, b.key)
            BY <1>6 DEF NewOnes, Matches
        <3>1. b \in ctrls /\ b # d
            BY <1>3, <1>4, <2>7, <2>8
        <3>2. a # d
            <4>1. b.id \in 1 .. made /\ d.id = made
                BY <1>3, <1>4, <2>7, <3>1 DEF CtrlsOK
            <4> QED
                BY <1>3, <4>1
        <3> QED
            BY <2>8, <3>1, <3>2 DEF OriginInv, NewOnes
    <2>13. Position'
        BY <1>3, <1>6, <1>8 DEF Position, InScan, AtCtrl
    <2> QED
        BY <1>7, <2>2, <2>11, <2>12, <2>13 DEF OriginInv
<1>9. CASE UNCHANGED <<subs, ctrls, made>>
    <2>1. SameMakers
        BY <1>6, <1>9 DEF SameMakers
    <2>2. SubsApart' /\ Origins' /\ NewOnes'
        BY <2>1, SameOrigins DEF OriginInv
    <2>3. Position'
        BY <1>3, <1>6, <1>9 DEF Position, InScan, AtCtrl
    <2> QED
        BY <1>7, <2>2, <2>3 DEF OriginInv
<1> QED
    BY <1>6, <1>8, <1>9

(* Steps that make no object with namespaces. *)
LEMMA Hotplug_Spaces ==
    ASSUME IInv, CallAt, call # "rescan", SpacesApart, ToCome, Hotplug
    PROVE  SpacesApart' /\ ToCome'
<1>1. SameMakers /\ nss' = nss
    BY DEF SameMakers, Hotplug, scanVars, historyVars, objectVars
<1>2. /\ SpacesApart'
      /\ \A c, i : MadeFor(c, i)' <=> MadeFor(c, i)
    BY <1>1, SameBelongs DEF SpacesApart
<1>3. ToCome'
    BY <1>1, <1>2 DEF CallAt, ToCome, SameMakers, ScanPlaces, AtCtrl, Scans,
       Hotplug, scanVars, historyVars, objectVars
<1> QED
    BY <1>2, <1>3

LEMMA ScanDone_Spaces ==
    ASSUME IInv, CallAt, call # "rescan", SpacesApart, ToCome, ScanDone
    PROVE  SpacesApart' /\ ToCome'
<1>1. SameMakers /\ nss' = nss
    BY DEF SameMakers, ScanDone, objectVars, programVars, historyVars, scanVars
<1>2. /\ SpacesApart'
      /\ \A c, i : MadeFor(c, i)' <=> MadeFor(c, i)
    BY <1>1, SameBelongs DEF SpacesApart
<1>3. ToCome'
    BY <1>1, <1>2 DEF CallAt, ToCome, SameMakers, ScanPlaces, AtCtrl, Scans,
       ScanDone, objectVars, programVars, historyVars, scanVars
<1> QED
    BY <1>2, <1>3

LEMMA ScanSpaces_Spaces ==
    ASSUME IInv, CallAt, call # "rescan", SpacesApart, ToCome, ScanSpaces
    PROVE  SpacesApart' /\ ToCome'
<1>1. SameMakers /\ nss' = nss
    BY DEF SameMakers, ScanSpaces, objectVars, programVars, historyVars
<1>2. /\ SpacesApart'
      /\ \A c, i : MadeFor(c, i)' <=> MadeFor(c, i)
    BY <1>1, SameBelongs DEF SpacesApart
<1>3. ToCome'
    BY <1>1, <1>2 DEF CallAt, ToCome, SameMakers, ScanPlaces, AtCtrl, Scans,
       ScanSpaces, objectVars, programVars, historyVars
<1> QED
    BY <1>2, <1>3

LEMMA ScanCtrls_Spaces ==
    ASSUME IInv, CallAt, call # "rescan", SpacesApart, ToCome, ScanCtrls
    PROVE  SpacesApart' /\ ToCome'
<1>1. SameMakers /\ nss' = nss
    BY DEF SameMakers, ScanCtrls, objectVars, programVars, historyVars
<1>2. /\ SpacesApart'
      /\ \A c, i : MadeFor(c, i)' <=> MadeFor(c, i)
    BY <1>1, SameBelongs DEF SpacesApart
<1>3. ToCome'
    BY <1>1, <1>2 DEF CallAt, ToCome, SameMakers, ScanPlaces, AtCtrl, Scans,
       ScanCtrls, objectVars, programVars, historyVars
<1> QED
    BY <1>2, <1>3

LEMMA CtrlsDone_Spaces ==
    ASSUME IInv, CallAt, call # "rescan", SpacesApart, ToCome, CtrlsDone
    PROVE  SpacesApart' /\ ToCome'
<1>1. SameMakers /\ nss' = nss
    BY DEF SameMakers, CtrlsDone, objectVars, programVars, historyVars, scanVars
<1>2. /\ SpacesApart'
      /\ \A c, i : MadeFor(c, i)' <=> MadeFor(c, i)
    BY <1>1, SameBelongs DEF SpacesApart
<1>3. ToCome'
    BY <1>1, <1>2 DEF CallAt, ToCome, SameMakers, ScanPlaces, AtCtrl, Scans,
       CtrlsDone, objectVars, programVars, historyVars, scanVars
<1> QED
    BY <1>2, <1>3

LEMMA ScanCtrlSpaces_Spaces ==
    ASSUME IInv, CallAt, call # "rescan", SpacesApart, ToCome, ScanCtrlSpaces
    PROVE  SpacesApart' /\ ToCome'
<1>1. SameMakers /\ nss' = nss
    BY DEF SameMakers, ScanCtrlSpaces, Crash, objectVars, programVars, historyVars
<1>2. /\ SpacesApart'
      /\ \A c, i : MadeFor(c, i)' <=> MadeFor(c, i)
    BY <1>1, SameBelongs DEF SpacesApart
<1>3. ToCome'
    BY <1>1, <1>2 DEF CallAt, ToCome, SameMakers, ScanPlaces, AtCtrl, Scans,
       ScanCtrlSpaces, Crash, objectVars, programVars, historyVars
<1> QED
    BY <1>2, <1>3

LEMMA CtrlSpacesDone_Spaces ==
    ASSUME IInv, CallAt, call # "rescan", SpacesApart, ToCome, CtrlSpacesDone
    PROVE  SpacesApart' /\ ToCome'
<1>1. SameMakers /\ nss' = nss
    BY DEF SameMakers, CtrlSpacesDone, objectVars, programVars, historyVars, scanVars
<1>2. /\ SpacesApart'
      /\ \A c, i : MadeFor(c, i)' <=> MadeFor(c, i)
    BY <1>1, SameBelongs DEF SpacesApart
<1>3. ToCome'
    BY <1>1, <1>2 DEF CallAt, ToCome, SameMakers, ScanPlaces, AtCtrl, Scans,
       CtrlSpacesDone, objectVars, programVars, historyVars, scanVars
<1> QED
    BY <1>2, <1>3

LEMMA ScanPaths_Spaces ==
    ASSUME IInv, CallAt, call # "rescan", SpacesApart, ToCome, ScanPaths
    PROVE  SpacesApart' /\ ToCome'
<1>1. SameMakers /\ nss' = nss
    BY DEF SameMakers, ScanPaths, AfterCtrl, objectVars, programVars, historyVars
<1>2. /\ SpacesApart'
      /\ \A c, i : MadeFor(c, i)' <=> MadeFor(c, i)
    BY <1>1, SameBelongs DEF SpacesApart
<1>3. ToCome'
    BY <1>1, <1>2 DEF CallAt, ToCome, SameMakers, ScanPlaces, AtCtrl, Scans,
       ScanPaths, AfterCtrl, objectVars, programVars, historyVars
<1> QED
    BY <1>2, <1>3

LEMMA nvme_ctrl_scan_path_Spaces ==
    ASSUME IInv, CallAt, call # "rescan", SpacesApart, ToCome, nvme_ctrl_scan_path
    PROVE  SpacesApart' /\ ToCome'
<1>1. SameMakers /\ nss' = nss
    BY DEF SameMakers, nvme_ctrl_scan_path, programVars, historyVars
<1>2. /\ SpacesApart'
      /\ \A c, i : MadeFor(c, i)' <=> MadeFor(c, i)
    BY <1>1, SameBelongs DEF SpacesApart
<1>3. ToCome'
    BY <1>1, <1>2 DEF CallAt, ToCome, SameMakers, ScanPlaces, AtCtrl, Scans,
       nvme_ctrl_scan_path, programVars, historyVars
<1> QED
    BY <1>2, <1>3

LEMMA PathsDone_Spaces ==
    ASSUME IInv, CallAt, call # "rescan", SpacesApart, ToCome, PathsDone
    PROVE  SpacesApart' /\ ToCome'
<1>1. SameMakers /\ nss' = nss
    BY DEF SameMakers, PathsDone, AfterCtrl, objectVars, programVars, historyVars, scanVars
<1>2. /\ SpacesApart'
      /\ \A c, i : MadeFor(c, i)' <=> MadeFor(c, i)
    BY <1>1, SameBelongs DEF SpacesApart
<1>3. ToCome'
    BY <1>1, <1>2 DEF CallAt, ToCome, SameMakers, ScanPlaces, AtCtrl, Scans,
       PathsDone, AfterCtrl, objectVars, programVars, historyVars, scanVars
<1> QED
    BY <1>2, <1>3

LEMMA nvme_subsystem_scan_ctrl_Spaces ==
    ASSUME IInv, CallAt, call # "rescan", SpacesApart, ToCome, nvme_subsystem_scan_ctrl
    PROVE  SpacesApart' /\ ToCome'
<1>1. SameMakers /\ nss' = nss
    BY DEF SameMakers, nvme_subsystem_scan_ctrl, objectVars, programVars, historyVars
<1>2. /\ SpacesApart'
      /\ \A c, i : MadeFor(c, i)' <=> MadeFor(c, i)
    BY <1>1, SameBelongs DEF SpacesApart
<1>3. PICK i \in todoCtrls : i = First(todoCtrls)
    <2>1. todoCtrls \subseteq Nat /\ todoCtrls # {}
        BY TreeAssumption DEF IInv, Found, nvme_subsystem_scan_ctrl
    <2> QED
        BY <2>1, FirstIn
<1>4. /\ at = "ctrl" /\ at' \in {"address", "ctrl"} /\ inst' = i /\ todoCtrls' = todoCtrls \ {i}
      /\ UNCHANGED <<call, sub, subs, ctrls, todoSubs>>
    BY <1>3 DEF nvme_subsystem_scan_ctrl, Rest, objectVars, programVars
<1>5. call \in Scans
    BY <1>4 DEF CallAt
<1>6. \A c \in ctrls' : c.sub = sub' =>
         \E j \in Instances \ todoCtrls' : j # inst' /\ MadeFor(c, j)'
    <2>1. \A c \in ctrls : c.sub = sub => \E j \in Instances \ todoCtrls : MadeFor(c, j)
        BY <1>4, <1>5 DEF ToCome
    <2> QED
        BY <1>2, <1>3, <1>4, <2>1
<1>7. \A x \in subs : x.nqn \notin todoSubs
    BY <1>4, <1>5 DEF ToCome, ScanPlaces
<1>8. inst' \notin todoCtrls'
    BY <1>4
<1>9. ToCome'
    BY <1>4, <1>6, <1>7, <1>8 DEF ToCome, ScanPlaces, AtCtrl
<1> QED
    BY <1>2, <1>9

(* A scan begins with an empty tree. *)
LEMMA ScanSubsystems_Spaces ==
    ASSUME IInv, CallAt, call # "rescan", FreedInv, SpacesApart, ToCome, ScanSubsystems
    PROVE  SpacesApart' /\ ToCome'
<1>1. at' = "subsystem" /\ subs' = {} /\ nss' = nss
    BY DEF ScanSubsystems, FreedInv, Freed, objectVars
<1> QED
    BY <1>1 DEF SpacesApart, ToCome, AtCtrl

(* A namespace is opened. *)
LEMMA OneSpaceMore ==
    ASSUME IInv, SpacesApart, NEW owner \in Nat, OpenSpace(owner), todoSpaces # {},
           \A n \in nss : (n.ctrl = owner /\ n.sub = sub) => n.name \notin todoSpaces
    PROVE  /\ SpacesApart'
           /\ \A n \in nss' : n \in nss \/ (n.ctrl = owner /\ n.sub = sub /\ n.name \notin todoSpaces')
           /\ todoSpaces' \subseteq todoSpaces
<1>1. PICK m : m = NextSpace
    OBVIOUS
<1>2. m \in todoSpaces /\ todoSpaces' = todoSpaces \ {m}
    BY <1>1, NextSpaceIn DEF IInv, Found, OpenSpace
<1>3. PICK new : /\ new.ctrl = owner /\ new.sub = sub /\ new.name = m
                 /\ nss' = nss \/ nss' = nss \cup {new}
    <2> DEFINE space == [id |-> made + 1, sub |-> sub, ctrl |-> owner, name |-> m]
    <2>1. space.ctrl = owner /\ space.sub = sub /\ space.name = m
        OBVIOUS
    <2>2. nss' = nss \/ nss' = nss \cup {space}
        BY <1>1 DEF OpenSpace
    <2> QED
        BY <2>1, <2>2
<1>4. SpacesApart'
    BY <1>2, <1>3 DEF SpacesApart
<1> QED
    BY <1>2, <1>3, <1>4

LEMMA nvme_subsystem_scan_namespace_Spaces ==
    ASSUME IInv, CallAt, call # "rescan", SpacesApart, ToCome, nvme_subsystem_scan_namespace
    PROVE  SpacesApart' /\ ToCome'
<1>1. /\ at = "space" /\ at' = "space" /\ OpenSpace(0) /\ todoSpaces # {}
      /\ UNCHANGED <<hosts, subs, ctrls, connected, call, sub, todoSubs>>
    BY DEF nvme_subsystem_scan_namespace, programVars, historyVars
<1>2. \A n \in nss : (n.ctrl = 0 /\ n.sub = sub) => n.name \notin todoSpaces
    BY <1>1 DEF ToCome
<1>3. /\ SpacesApart'
      /\ \A n \in nss' : n \in nss \/ (n.ctrl = 0 /\ n.sub = sub /\ n.name \notin todoSpaces')
      /\ todoSpaces' \subseteq todoSpaces
    BY <1>1, <1>2, OneSpaceMore
<1>4. \A n \in nss' : (n.ctrl = 0 /\ n.sub = sub) => n.name \notin todoSpaces'
    BY <1>2, <1>3
<1>5. ToCome'
    BY <1>1, <1>4 DEF ToCome, ScanPlaces, AtCtrl
<1> QED
    BY <1>3, <1>5

LEMMA nvme_ctrl_scan_namespace_Spaces ==
    ASSUME IInv, CallAt, call # "rescan", SpacesApart, ToCome, nvme_ctrl_scan_namespace
    PROVE  SpacesApart' /\ ToCome'
<1>1. /\ at = "ctrlspace" /\ at' = "ctrlspace" /\ OpenSpace(ctrl) /\ todoSpaces # {}
      /\ UNCHANGED <<call, sub, todoSubs, ctrl, todoCtrls, inst>>
    BY DEF nvme_ctrl_scan_namespace, programVars
<1>2. SameMakers
    BY DEF SameMakers, nvme_ctrl_scan_namespace, programVars, historyVars
<1>3. \A n \in nss : n.ctrl = ctrl => n.name \notin todoSpaces
    BY <1>1 DEF ToCome
<1>4. ctrl \in Nat
    BY <1>1 DEF IInv, Found, InCtrl, Objects, CtrlsOK, CtrlSet
<1>5. /\ SpacesApart'
      /\ \A n \in nss' : n \in nss \/ (n.ctrl = ctrl /\ n.sub = sub /\ n.name \notin todoSpaces')
      /\ todoSpaces' \subseteq todoSpaces
    BY <1>1, <1>3, <1>4, OneSpaceMore
<1>6. \A n \in nss' : n.ctrl = ctrl => n.name \notin todoSpaces'
    BY <1>3, <1>5
<1>7. \A c, i : MadeFor(c, i)' <=> MadeFor(c, i)
    BY <1>2, SameBelongs
<1>8. ToCome'
    BY <1>1, <1>2, <1>6, <1>7 DEF ToCome, ScanPlaces, AtCtrl, SameMakers, CallAt
<1> QED
    BY <1>5, <1>8

(* The subsystem of a scan is new, *)
LEMMA nvme_scan_subsystem_Spaces ==
    ASSUME IInv, CallAt, call # "rescan", \A n \in nss : n.sub \in 0 .. made, SpacesApart, ToCome, nvme_scan_subsystem
    PROVE  SpacesApart' /\ ToCome'
<1>1. PICK s \in todoSubs : s = First(todoSubs)
    <2>1. todoSubs \subseteq Nat /\ todoSubs # {}
        BY TreeAssumption DEF IInv, Found, nvme_scan_subsystem
    <2> QED
        BY <2>1, FirstIn
<1>2. PICK h : h = nvme_lookup_host(DefaultHost)
    OBVIOUS
<1>3. PICK x : x = nvme_lookup_subsystem(h, s, TRUE)
    OBVIOUS
<1>4. /\ at = "subsystem" /\ todoSubs' = todoSubs \ {s}
      /\ \/ MakeSub(x, TRUE) /\ sub' = x.id /\ at' = "spaces"
         \/ UNCHANGED <<subs, sub, at>>
      /\ UNCHANGED <<ctrls, nss, call>>
    BY <1>1, <1>2, <1>3 DEF nvme_scan_subsystem, programVars
<1>5. /\ made \in Nat /\ \A y \in subs : y.nqn \notin todoSubs
      /\ \A c \in ctrls : c.sub \in 0 .. made
      /\ call \in Scans
    BY <1>4 DEF IInv, Objects, CtrlsOK, SubsOK, Ids, ToCome, ScanPlaces, CallAt
<1>6. SpacesApart'
    BY <1>4 DEF SpacesApart
<1>7. CASE MakeSub(x, TRUE) /\ sub' = x.id /\ at' = "spaces"
    <2>1. x = [id |-> made + 2, host |-> h.id, nqn |-> s, named |-> TRUE]
        <3>1. {y \in subs : y.host = h.id /\ y.nqn = s} = {}
            BY <1>5
        <3> QED
            BY <1>3, <3>1 DEF nvme_lookup_subsystem
    <2>2. \A y \in subs' : y \in subs \/ y.nqn = s
        BY <1>7, <2>1 DEF MakeSub
    <2>3. \A y \in subs' : y.nqn \notin todoSubs'
        BY <1>4, <1>5, <2>2
    <2>4. (\A c \in ctrls : c.sub # made + 2) /\ (\A n \in nss : n.sub # made + 2)
        BY <1>5
    <2>5. ToCome'
        BY <1>4, <1>5, <1>7, <2>1, <2>3, <2>4 DEF ToCome, AtCtrl
    <2> QED
        BY <1>6, <2>5
<1>8. CASE UNCHANGED <<subs, sub, at>>
    <2>1. ToCome'
        BY <1>4, <1>5, <1>8 DEF ToCome, AtCtrl
    <2> QED
        BY <1>6, <2>1
<1> QED
    BY <1>4, <1>7, <1>8

(* and so are its controllers. *)
LEMMA nvme_ctrl_alloc_Spaces ==
    ASSUME AddressesApart, IInv, CallAt, OriginInv, call \in Scans, SpacesApart, ToCome, nvme_ctrl_alloc
    PROVE  SpacesApart' /\ ToCome'
<1> DEFINE key == Parsed(inst)
           found == {c \in ctrls : c.sub = sub /\ Matches(c, key)}
           new == [id |-> made + 1, sub |-> sub, key |-> key, name |-> Absent, fd |-> FALSE]
<1>1. at = "address" /\ inst \in Instances /\ Belongs(sub, inst) /\ made \in Nat /\ connected \subseteq 1 .. made
    BY DEF nvme_ctrl_alloc, OriginInv, Position, IInv, Objects
<1>2. found = {}
    <2> SUFFICES ASSUME NEW c \in ctrls, c.sub = sub, Matches(c, Parsed(inst)) PROVE FALSE
        OBVIOUS
    <2>1. PICK j \in Instances : j # inst /\ MadeFor(c, j)
        BY <1>1 DEF ToCome, AtCtrl
    <2>2. SubsysOf[j] = SubsysOf[inst]
        <3>1. Unique(subs)
            BY DEF IInv, Objects, SubsOK
        <3> QED
            BY <1>1, <2>1, <3>1 DEF MadeFor, Belongs, Unique
    <2>3. c.key = Parsed(j) \/ c.key = Address[j]
        BY <2>1 DEF MadeFor, Made
    <2> QED
        BY <1>1, <2>1, <2>2, <2>3 DEF AddressesApart, Matches
<1>3. PICK c : c = new
    OBVIOUS
<1>4. /\ \/ at' = "crashed"
         \/ ctrls' = ctrls \cup {c} /\ ctrl' = c.id /\ at' = "configure"
      /\ UNCHANGED <<hosts, subs, nss, connected, call, sub, inst, todoCtrls, todoSubs>>
    BY <1>2, <1>3 DEF nvme_ctrl_alloc, Crash, programVars, historyVars
<1>5. c.id = made + 1 /\ c.sub = sub /\ c.key = Parsed(inst) /\ c.name = Absent /\ c.id \notin connected
    BY <1>1, <1>3
<1> HIDE DEF key, found, new
<1>6. \A d, i : MadeFor(d, i)' <=> MadeFor(d, i)
    BY <1>4 DEF MadeFor, Made, Belongs, UnderHere, Here, Fits
<1>7. MadeFor(c, inst)
    BY <1>1, <1>5 DEF MadeFor, Made
<1>8. \A n \in nss : n.ctrl # made + 1
    BY <1>1 DEF IInv, Objects, NssOK, CtrlsOK, Ids
<1>9. SpacesApart'
    BY <1>4 DEF SpacesApart
<1>10. CASE at' = "crashed"
    BY <1>9, <1>10 DEF ToCome, ScanPlaces, AtCtrl
<1>11. CASE ctrls' = ctrls \cup {c} /\ ctrl' = c.id /\ at' = "configure"
    <2>1. inst \notin todoCtrls /\ \A x \in subs : x.nqn \notin todoSubs
        BY <1>1 DEF ToCome, ScanPlaces
    <2>2. \A d \in ctrls : d.sub = sub => \E j \in Instances \ todoCtrls : MadeFor(d, j)
        BY <1>1 DEF ToCome, AtCtrl
    <2>3. \A d \in ctrls' : d.sub = sub' => \E j \in Instances \ todoCtrls' : MadeFor(d, j)'
        BY <1>1, <1>4, <1>6, <1>7, <1>11, <2>1, <2>2
    <2>4. \A n \in nss' : n.ctrl # ctrl'
        BY <1>4, <1>5, <1>8, <1>11
    <2>5. ToCome'
        BY <1>4, <1>11, <2>1, <2>3, <2>4 DEF ToCome
    <2> QED
        BY <1>9, <2>5
<1> QED
    BY <1>4, <1>10, <1>11

LEMMA Configure_Spaces ==
    ASSUME IInv, CallAt, OriginInv, call \in Scans, SpacesApart, ToCome, Configure
    PROVE  SpacesApart' /\ ToCome'
<1>1. /\ at = "configure" /\ nvme_configure_ctrl(inst \in live, "ctrlspaces") /\ inst \in Instances
      /\ UNCHANGED <<hosts, subs, nss, connected, call, sub, ctrl, inst, todoCtrls, todoSubs>>
    BY DEF Configure, programVars, historyVars, scanVars, Scans, OriginInv, Position
<1>2. PICK c \in ctrls : c.id = ctrl /\ c.sub = sub
    BY <1>1 DEF IInv, Found, InCtrl
<1>3. MadeFor(c, inst) /\ With(ctrls, ctrl) = c /\ c \in CtrlSet
    BY <1>1, <1>2, WithId DEF OriginInv, Position, IInv, Objects, CtrlsOK
<1>4. PICK d : /\ d \in {c, [c EXCEPT !.fd = TRUE, !.name = inst], [c EXCEPT !.fd = FALSE]}
               /\ ctrls' = (ctrls \ {c}) \cup {d}
    <2>1. CASE ctrls' = ctrls
        BY <2>1
    <2>2. CASE ctrls' # ctrls
        BY <1>1, <1>3, <2>2 DEF nvme_configure_ctrl, Update
    <2> QED
        BY <2>1, <2>2
<1>5. d.id = c.id /\ d.key = c.key /\ d.sub = c.sub /\ d.name \in {c.name, inst}
    BY <1>3, <1>4 DEF CtrlSet
<1>6. MadeFor(d, inst)
    BY <1>3, <1>5 DEF MadeFor, Made
<1>7. \A a, i : MadeFor(a, i)' <=> MadeFor(a, i)
    BY <1>1 DEF MadeFor, Made, Belongs, UnderHere, Here, Fits
<1>8. inst \notin todoCtrls /\ (\A x \in subs : x.nqn \notin todoSubs) /\ (\A n \in nss : n.ctrl # ctrl)
    BY <1>1 DEF ToCome, ScanPlaces
<1>9. \A a \in ctrls : a.sub = sub => \E j \in Instances \ todoCtrls : MadeFor(a, j)
    BY <1>1 DEF ToCome, AtCtrl
<1>10. \A a \in ctrls' : a.sub = sub' => \E j \in Instances \ todoCtrls' : MadeFor(a, j)'
    BY <1>1, <1>4, <1>6, <1>7, <1>8, <1>9
<1>11. at' \in {"ctrl", "ctrlspaces"}
    BY <1>1 DEF nvme_configure_ctrl, Scans
<1>12. SpacesApart'
    BY <1>1 DEF SpacesApart
<1>13. ToCome'
    BY <1>1, <1>8, <1>10, <1>11 DEF ToCome
<1> QED
    BY <1>12, <1>13

(* A namespace is of a subsystem that was made before. *)
LEMMA SpacesOld ==
    ASSUME IInv, call = "rescan" => rescanned, \A n \in nss : n.sub \in 0 .. made, [Next]_vars
    PROVE  (call' = "rescan" => rescanned') /\ \A n \in nss' : n.sub \in 0 .. made'
<1>1. made \in Nat /\ SubsOK
    BY DEF IInv, Objects
<1>2. CASE nvme_subsystem_scan_namespace \/ nvme_ctrl_scan_namespace
    <2>1. PICK owner : OpenSpace(owner) /\ at \in InSubsystem /\ UNCHANGED <<call, rescanned>>
        BY <1>2 DEF nvme_subsystem_scan_namespace, nvme_ctrl_scan_namespace, InSubsystem, programVars, historyVars
    <2>2. sub \in 1 .. made
        BY <1>1, <2>1 DEF IInv, Found, Ids, SubsOK
    <2>3. /\ made' = made + 1
          /\ \A n \in nss' : n \in nss \/ n.sub = sub
        BY <2>1 DEF OpenSpace
    <2> QED
        BY <1>1, <2>1, <2>2, <2>3
<1>3. ASSUME nss' \subseteq nss, made' \in Nat, made' >= made
      PROVE  \A n \in nss' : n.sub \in 0 .. made'
    BY <1>1, <1>3
<1>4. ASSUME FreeTree PROVE nss' \subseteq nss /\ made' \in Nat /\ made' >= made
    BY <1>1, <1>4 DEF FreeTree
<1>5. CASE Hotplug \/ nvme_scan \/ nvme_scan_ctrl
    BY <1>1, <1>3, <1>5 DEF Hotplug, nvme_scan, nvme_scan_ctrl, Begin, objectVars, historyVars
<1>6. CASE nvme_refresh_topology \/ nvme_free_tree
    BY <1>3, <1>4, <1>6 DEF nvme_refresh_topology, nvme_free_tree, Begin, historyVars
<1>7. CASE nvme_rescan_ctrl \/ nvme_disconnect_ctrl \/ nvme_unlink_ctrl
    BY <1>1, <1>3, <1>7 DEF nvme_rescan_ctrl, nvme_disconnect_ctrl, nvme_unlink_ctrl, Begin, objectVars, historyVars
<1>8. CASE Connect \/ ConnectClash \/ UNCHANGED vars
    BY <1>1, <1>3, <1>8 DEF Connect, ConnectClash, Begin, vars, programVars, objectVars, historyVars
<1>9. CASE ScanSubsystems \/ ScanDone \/ ScanSpaces
    BY <1>1, <1>3, <1>9 DEF ScanSubsystems, ScanDone, ScanSpaces, programVars, objectVars, historyVars
<1>16. CASE nvme_scan_subsystem
    <2>1. made' \in {made + 1, made + 2} /\ nss' = nss /\ UNCHANGED <<call, rescanned>>
        BY <1>16 DEF nvme_scan_subsystem, programVars, historyVars
    <2> QED
        BY <1>1, <1>3, <2>1
<1>10. CASE ScanCtrls \/ nvme_subsystem_scan_ctrl \/ CtrlsDone
    BY <1>1, <1>3, <1>10 DEF ScanCtrls, nvme_subsystem_scan_ctrl, CtrlsDone, programVars, objectVars, historyVars
<1>11. CASE nvme_ctrl_alloc \/ Configure \/ ScanCtrlSpaces \/ CtrlSpacesDone
    BY <1>1, <1>3, <1>11 DEF nvme_ctrl_alloc, Configure, ScanCtrlSpaces, CtrlSpacesDone, programVars, objectVars, historyVars
<1>12. CASE ScanPaths \/ nvme_ctrl_scan_path \/ PathsDone
    BY <1>1, <1>3, <1>12 DEF ScanPaths, nvme_ctrl_scan_path, PathsDone, programVars, objectVars, historyVars
<1>13. CASE ScanCtrlHost \/ ScanCtrlTransport
    <2>1. made' \in {made, made + 1, made + 2} /\ nss' = nss /\ UNCHANGED <<call, rescanned>>
        BY <1>13 DEF ScanCtrlHost, ScanCtrlTransport, objectVars, programVars, historyVars
    <2> QED
        BY <1>1, <1>3, <2>1
<1>17. CASE InitConfigure \/ nvme_init_ctrl
    <2>1. made' \in {made, made + 2} /\ nss' = nss /\ UNCHANGED <<call, rescanned>>
        BY <1>17 DEF InitConfigure, nvme_init_ctrl, programVars, historyVars
    <2> QED
        BY <1>1, <1>3, <2>1
<1>14. CASE CountCtrls
    BY <1>3, <1>4, <1>14 DEF CountCtrls, historyVars
<1>15. CASE ListSpaces
    BY <1>1, <1>3, <1>4, <1>15 DEF ListSpaces, historyVars, objectVars
<1> QED
    BY <1>2, <1>5, <1>6, <1>7, <1>8, <1>9, <1>10, <1>11, <1>12, <1>13, <1>14, <1>15,
       <1>16, <1>17 DEF Next, Library

(* Away from a scan nothing is to come. *)
Quiet ==
    /\ nss' \subseteq nss
    /\ \/ at' \in {"idle", "crashed", "subsystems", "host", "transport", "init", "link"}
       \/ at' \in {"address", "configure"} /\ call' \notin Scans
LEMMA QuietSpaces ==
    ASSUME SpacesApart, Quiet
    PROVE  SpacesApart' /\ ToCome'
<1>1. SpacesApart'
    BY DEF SpacesApart, Quiet
<1>2. ToCome'
    BY DEF ToCome, Quiet, ScanPlaces, AtCtrl
<1> QED
    BY <1>1, <1>2

LEMMA Call_Spaces ==
    ASSUME IInv, CallAt, OriginInv, SpacesApart, ToCome, Next, ~ Library, call # "rescan"
    PROVE  rescanned' \/ (SpacesApart' /\ ToCome')
<1>1. CASE Hotplug
    BY <1>1, Hotplug_Spaces
<1>2. CASE nvme_scan \/ nvme_scan_ctrl
    <2>1. Quiet
        BY <1>2 DEF Quiet, nvme_scan, nvme_scan_ctrl, Begin, objectVars
    <2> QED
        BY <2>1, QuietSpaces
<1>3. CASE nvme_refresh_topology \/ nvme_free_tree
    <2>1. Quiet
        BY <1>3 DEF Quiet, nvme_refresh_topology, nvme_free_tree, Begin, FreeTree
    <2> QED
        BY <2>1, QuietSpaces
<1>4. CASE nvme_rescan_ctrl
    BY <1>4 DEF nvme_rescan_ctrl
<1>5. CASE nvme_disconnect_ctrl \/ nvme_unlink_ctrl
    <2>1. Quiet
        BY <1>5 DEF Quiet, nvme_disconnect_ctrl, nvme_unlink_ctrl, Begin
    <2> QED
        BY <2>1, QuietSpaces
<1>6. CASE Connect \/ ConnectClash
    <2>1. Quiet
        BY <1>6 DEF Quiet, Connect, ConnectClash, Begin, objectVars
    <2> QED
        BY <2>1, QuietSpaces
<1> QED
    BY <1>1, <1>2, <1>3, <1>4, <1>5, <1>6 DEF Next

LEMMA Library_Spaces ==
    ASSUME AddressesApart, IInv, CallAt, OriginInv, FreedInv, \A n \in nss : n.sub \in 0 .. made,
           SpacesApart, ToCome, Library, call # "rescan"
    PROVE  SpacesApart' /\ ToCome'
<1>1. CASE ScanSubsystems
    BY <1>1, ScanSubsystems_Spaces
<1>2. CASE nvme_scan_subsystem
    BY <1>2, nvme_scan_subsystem_Spaces
<1>3. CASE ScanDone
    BY <1>3, ScanDone_Spaces
<1>4. CASE ScanSpaces
    BY <1>4, ScanSpaces_Spaces
<1>5. CASE nvme_subsystem_scan_namespace
    BY <1>5, nvme_subsystem_scan_namespace_Spaces
<1>6. CASE ScanCtrls
    BY <1>6, ScanCtrls_Spaces
<1>7. CASE nvme_subsystem_scan_ctrl
    BY <1>7, nvme_subsystem_scan_ctrl_Spaces
<1>8. CASE CtrlsDone
    BY <1>8, CtrlsDone_Spaces
<1>9. CASE nvme_ctrl_alloc
    <2>1. CASE call \in Scans
        BY <1>9, <2>1, nvme_ctrl_alloc_Spaces
    <2>2. CASE call \notin Scans
        <3>1. Quiet
            BY <1>9, <2>2 DEF Quiet, nvme_ctrl_alloc, Crash, programVars
        <3> QED
            BY <3>1, QuietSpaces
    <2> QED
        BY <2>1, <2>2
<1>10. CASE Configure
    <2>1. CASE call \in Scans
        BY <1>10, <2>1, Configure_Spaces
    <2>2. CASE call \notin Scans
        <3>1. Quiet
            BY <1>10, <2>2 DEF Quiet, Configure, nvme_configure_ctrl, CallAt, Scans
        <3> QED
            BY <3>1, QuietSpaces
    <2> QED
        BY <2>1, <2>2
<1>11. CASE ScanCtrlSpaces
    BY <1>11, ScanCtrlSpaces_Spaces
<1>12. CASE nvme_ctrl_scan_namespace
    BY <1>12, nvme_ctrl_scan_namespace_Spaces
<1>13. CASE CtrlSpacesDone
    BY <1>13, CtrlSpacesDone_Spaces
<1>14. CASE ScanPaths
    BY <1>14, ScanPaths_Spaces
<1>15. CASE nvme_ctrl_scan_path
    BY <1>15, nvme_ctrl_scan_path_Spaces
<1>16. CASE PathsDone
    BY <1>16, PathsDone_Spaces
<1>17. CASE ScanCtrlHost \/ ScanCtrlTransport
    <2>1. Quiet
        BY <1>17 DEF Quiet, ScanCtrlHost, ScanCtrlTransport, Crash, Return, IInv, Steady, Scans, objectVars, programVars
    <2> QED
        BY <2>1, QuietSpaces
<1>18. CASE InitConfigure \/ nvme_init_ctrl
    <2>1. Quiet
        BY <1>18 DEF Quiet, InitConfigure, nvme_configure_ctrl, nvme_init_ctrl, Return, IInv, Found
    <2> QED
        BY <2>1, QuietSpaces
<1>19. CASE CountCtrls
    <2>1. Quiet
        BY <1>19 DEF Quiet, CountCtrls, FreeTree, Return
    <2> QED
        BY <2>1, QuietSpaces
<1>20. CASE ListSpaces
    <2>1. Quiet
        BY <1>20 DEF Quiet, ListSpaces, FreeTree, Return, objectVars
    <2> QED
        BY <2>1, QuietSpaces
<1> QED
    BY <1>1, <1>2, <1>3, <1>4, <1>5, <1>6, <1>7, <1>8, <1>9, <1>10, <1>11, <1>12, <1>13, <1>14, <1>15,
       <1>16, <1>17, <1>18, <1>19, <1>20 DEF Library

LEMMA Library_Origins ==
    ASSUME AddressesApart, IInv, IInv', CallAt, OriginInv, Library
    PROVE  OriginInv'
<1>1. CASE ScanSubsystems
    BY <1>1, ScanSubsystems_Origins
<1>2. CASE nvme_scan_subsystem
    BY <1>2, nvme_scan_subsystem_Origins
<1>3. CASE ScanDone
    BY <1>3, ScanDone_Origins
<1>4. CASE ScanSpaces
    BY <1>4, ScanSpaces_Origins
<1>5. CASE nvme_subsystem_scan_namespace
    BY <1>5, nvme_subsystem_scan_namespace_Origins
<1>6. CASE ScanCtrls
    BY <1>6, ScanCtrls_Origins
<1>7. CASE nvme_subsystem_scan_ctrl
    BY <1>7, nvme_subsystem_scan_ctrl_Origins
<1>8. CASE CtrlsDone
    BY <1>8, CtrlsDone_Origins
<1>9. CASE nvme_ctrl_alloc
    BY <1>9, nvme_ctrl_alloc_Origins
<1>10. CASE Configure
    BY <1>10, Configure_Origins
<1>11. CASE ScanCtrlSpaces
    BY <1>11, ScanCtrlSpaces_Origins
<1>12. CASE nvme_ctrl_scan_namespace
    BY <1>12, nvme_ctrl_scan_namespace_Origins
<1>13. CASE CtrlSpacesDone
    BY <1>13, CtrlSpacesDone_Origins
<1>14. CASE ScanPaths
    BY <1>14, ScanPaths_Origins
<1>15. CASE nvme_ctrl_scan_path
    BY <1>15, nvme_ctrl_scan_path_Origins
<1>16. CASE PathsDone
    BY <1>16, PathsDone_Origins
<1>17. CASE ScanCtrlHost
    BY <1>17, ScanCtrlHost_Origins
<1>18. CASE ScanCtrlTransport
    BY <1>18, ScanCtrlTransport_Origins
<1>19. CASE InitConfigure
    BY <1>19, InitConfigure_Origins
<1>20. CASE nvme_init_ctrl
    BY <1>20, nvme_init_ctrl_Origins
<1>21. CASE CountCtrls
    BY <1>21, CountCtrls_Origins
<1>22. CASE ListSpaces
    BY <1>22, ListSpaces_Origins
<1> QED
    BY <1>1, <1>2, <1>3, <1>4, <1>5, <1>6, <1>7, <1>8, <1>9, <1>10, <1>11, <1>12, <1>13, <1>14, <1>15,
       <1>16, <1>17, <1>18, <1>19, <1>20, <1>21, <1>22 DEF Library

LEMMA Call_Origins ==
    ASSUME AddressesApart, IInv, IInv', CallAt, OriginInv, Next, ~ Library
    PROVE  OriginInv'
<1>1. CASE Hotplug
    BY <1>1, Hotplug_Origins
<1>2. CASE nvme_scan
    BY <1>2, nvme_scan_Origins
<1>3. CASE nvme_refresh_topology
    BY <1>3, nvme_refresh_topology_Origins
<1>4. CASE nvme_free_tree
    BY <1>4, nvme_free_tree_Origins
<1>5. CASE nvme_scan_ctrl
    BY <1>5, nvme_scan_ctrl_Origins
<1>6. CASE nvme_rescan_ctrl
    BY <1>6, nvme_rescan_ctrl_Origins
<1>7. CASE nvme_disconnect_ctrl
    BY <1>7, nvme_disconnect_ctrl_Origins
<1>8. CASE nvme_unlink_ctrl
    BY <1>8, nvme_unlink_ctrl_Origins
<1>9. CASE Connect
    BY <1>9, Connect_Origins
<1>10. CASE ConnectClash
    BY <1>10, ConnectClash_Origins
<1> QED
    BY <1>1, <1>2, <1>3, <1>4, <1>5, <1>6, <1>7, <1>8, <1>9, <1>10 DEF Next

LEMMA RescannedStays == ASSUME Next PROVE rescanned' \/ ~ rescanned
<1>1. CASE Library
    BY <1>1 DEF Library, ScanSubsystems, nvme_scan_subsystem, ScanDone, ScanSpaces,
       nvme_subsystem_scan_namespace, ScanCtrls, nvme_subsystem_scan_ctrl, CtrlsDone, nvme_ctrl_alloc, Configure,
       ScanCtrlSpaces, nvme_ctrl_scan_namespace, CtrlSpacesDone, ScanPaths, nvme_ctrl_scan_path, PathsDone,
       ScanCtrlHost, ScanCtrlTransport, InitConfigure, nvme_init_ctrl, CountCtrls, ListSpaces, programVars, historyVars
<1>2. CASE ~ Library
    BY <1>2 DEF Next, Hotplug, nvme_scan, nvme_refresh_topology, nvme_free_tree, nvme_scan_ctrl, nvme_rescan_ctrl,
       nvme_disconnect_ctrl, nvme_unlink_ctrl, Connect, ConnectClash, historyVars
<1> QED
    BY <1>1, <1>2

LEMMA Init_Origins == ASSUME Init PROVE CallAt /\ OriginInv /\ SpacesInv
BY DEF Init, CallAt, OriginInv, HostsApart, SubsApart, Origins, NewOnes, Position, InScan, AtCtrl, SpacesInv,
   SpacesApart, ToCome, ScanPlaces
LEMMA Stutter_Origins ==
    ASSUME OriginInv, SpacesInv, UNCHANGED vars
    PROVE  OriginInv' /\ SpacesInv'
<1>1. SameMakers /\ UNCHANGED <<nss, made, at, call, sub, ctrl, inst, todoSubs, todoCtrls, todoSpaces, rescanned>>
    BY DEF SameMakers, vars, objectVars, scanVars, programVars, historyVars
<1>2. /\ HostsApart' /\ SubsApart' /\ Origins' /\ NewOnes'
      /\ \A x, i : Belongs(x, i)' <=> Belongs(x, i)
      /\ \A c, i : Made(c, i)' <=> Made(c, i)
      /\ \A c, i : MadeFor(c, i)' <=> MadeFor(c, i)
      /\ \A y : UnderHere(y)' <=> UnderHere(y)
    BY <1>1, SameOrigins, SameBelongs DEF OriginInv
<1>3. Position'
    BY <1>1, <1>2 DEF OriginInv, Position, SameMakers
<1>4. SpacesInv'
    BY <1>1, <1>2 DEF SpacesInv, SpacesApart, ToCome, SameMakers
<1> QED
    BY <1>2, <1>3, <1>4 DEF OriginInv

(* Every object of the tree was made for a controller of the kernel, by a  *)
(* lookup that did not find another; and a scan that is not repeated for   *)
(* one controller makes no namespace that is there.                        *)
THEOREM OriginsInductive == ASSUME AddressesApart PROVE Spec => [](CallAt /\ OriginInv /\ SpacesInv)
<1> DEFINE I == CallAt /\ OriginInv /\ SpacesInv
<1>1. Init => I
    BY Init_Origins
<1>2. IInv /\ IInv' /\ MirrorInv /\ I /\ [Next]_vars => I'
    <2> SUFFICES ASSUME IInv, IInv', MirrorInv, CallAt, OriginInv, SpacesInv, [Next]_vars
                 PROVE  CallAt' /\ OriginInv' /\ SpacesInv'
        OBVIOUS
    <2>1. CallAt'
        BY CallAtKept
    <2>2. CASE UNCHANGED vars
        BY <2>1, <2>2, Stutter_Origins
    <2>3. CASE Next
        <3>1. (call = "rescan" => rescanned) /\ \A n \in nss : n.sub \in 0 .. made
            BY DEF SpacesInv
        <3>2. (call' = "rescan" => rescanned') /\ \A n \in nss' : n.sub \in 0 .. made'
            BY <3>1, SpacesOld
        <3>3. rescanned' \/ ~ rescanned
            BY <2>3, RescannedStays
        <3>4. ASSUME ~ rescanned, ~ rescanned' PROVE SpacesApart' /\ ToCome'
            <4>1. SpacesApart /\ ToCome /\ call # "rescan" /\ FreedInv
                BY <3>1, <3>4 DEF SpacesInv, MirrorInv
            <4> QED
                BY <2>3, <3>1, <3>4, <4>1, Call_Spaces, Library_Spaces
        <3>5. SpacesInv'
            BY <3>2, <3>3, <3>4 DEF SpacesInv
        <3>6. OriginInv'
            BY <2>3, Library_Origins, Call_Origins
        <3> QED
            BY <2>1, <3>5, <3>6
    <2> QED
        BY <2>2, <2>3
<1> QED
    BY <1>1, <1>2, TreeInductive, MirrorInductive, PTL DEF Spec

(* OneObjectEach: whatever is scanned, connected, unlinked and scanned     *)
(* again, a controller of this machine is looked up where it was linked    *)
(* before, and found (:1139), and a scan gives a namespace to its owner    *)
(* once.  If no two addresses of a subsystem fit each other, and this      *)
(* machine has a hostid: without one any host of its name would do.        *)
THEOREM OneEach == ASSUME AddressesApart, DefaultHost.id # Absent PROVE Spec => []OneObjectEach
<1>1. OriginInv /\ SpacesInv => OneObjectEach
    <2> SUFFICES ASSUME OriginInv, SpacesInv PROVE OneObjectEach
        OBVIOUS
    <2>1. ASSUME NEW c \in ctrls, NEW d \in ctrls, c.id < d.id, c.sub # 0, d.sub # 0, c.name = d.name,
                 c.name # Absent, HostOf[c.name] \in {NoHost, DefaultHost}, d.id \notin connected,
                 c.id \notin connected \/ Address[c.name].host_iface = Absent
          PROVE  FALSE
        <3>1. /\ c.name \in Instances
              /\ MadeFor(c, c.name) /\ MadeFor(d, c.name)
            BY <2>1 DEF OriginInv, Origins, MadeFor, Made
        <3>2. PICK y \in subs : y.id = c.sub /\ y.nqn = SubsysOf[c.name] /\ UnderHere(y)
            BY <2>1, <3>1 DEF MadeFor, Belongs
        <3>3. PICK z \in subs : z.id = d.sub /\ z.nqn = SubsysOf[c.name] /\ UnderHere(z)
            BY <2>1, <3>1 DEF MadeFor, Belongs
        <3>4. y.host = z.host
            BY <3>2, <3>3 DEF UnderHere, Here, Fits, OriginInv, HostsApart
        <3>5. c.sub = d.sub
            BY <3>2, <3>3, <3>4 DEF OriginInv, SubsApart
        <3>6. ~ Matches(c, d.key)
            BY <2>1, <3>5 DEF OriginInv, NewOnes
        <3>7. d.key = Parsed(c.name)
            BY <2>1, <3>1 DEF MadeFor, Made
        <3>8. CASE c.id \notin connected
            <4>1. c.key = d.key
                BY <3>1, <3>7, <3>8 DEF MadeFor, Made
            <4> QED
                BY <3>6, <4>1 DEF Matches
        <3>9. CASE Address[c.name].host_iface = Absent /\ c.id \in connected
            <4>1. c.key = Address[c.name]
                BY <3>1, <3>9 DEF MadeFor, Made
            <4>2. d.key.transport = c.key.transport /\ d.key["traddr"] = c.key["traddr"]
                BY <3>1, <3>7, <4>1, TreeAssumption DEF Parsed
            <4> QED
                BY <3>6, <3>9, <4>1, <4>2 DEF Matches
        <3> QED
            BY <2>1, <3>8, <3>9
    <2>2. \A n, m \in nss : (n # m /\ n.ctrl = m.ctrl /\ n.sub = m.sub /\ n.name = m.name) => rescanned
        BY DEF SpacesInv, SpacesApart
    <2> QED
        BY <2>1, <2>2 DEF OneObjectEach
<1> QED
    BY <1>1, OriginsInductive, PTL

=============================================================================
