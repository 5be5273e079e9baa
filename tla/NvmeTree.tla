------------------------------ MODULE NvmeTree ------------------------------
(***************************************************************************)
(* libnvme's tree of hosts, subsystems, controllers, namespaces and paths  *)
(* (libnvme/src/nvme/tree.c), and the two programs of src/m1/device.cpp    *)
(* that walk it.                                                           *)
(*                                                                         *)
(* The tree is built from the directories of the kernel, one file at a     *)
(* time, while controllers and namespaces come and go: a step here is what *)
(* the library does between two looks at the kernel.  The objects of the   *)
(* tree are records with an id; a list is searched from the newest object, *)
(* which list_add puts in front.  An object out of the tree that still has *)
(* a descriptor has sub = 0.                                               *)
(***************************************************************************)
EXTENDS Integers, FiniteSets, TLC

CONSTANTS
    Instances,      \* the controllers the kernel may have, by number
    SubsysOf,       \* the subsystem of each
    Address,        \* transport, traddr and host_iface of each
    HostOf,         \* hostnqn and hostid of each, NoHost if it has none
    DefaultHost,    \* hostnqn and hostid of this machine
    Shared,         \* the subsystems whose namespaces have several paths
    Spaces,         \* the namespaces: their subsystem and number
    Absent,         \* a string or name that is not there
    MaxChanges,     \* bound on the changes of the kernel
    MaxCalls        \* bound on the calls of the library

Subsystems == {SubsysOf[i] : i \in Instances}
NoHost == [nqn |-> Absent, id |-> Absent]

ASSUME TreeAssumption ==
    /\ Instances \subseteq Nat /\ IsFiniteSet(Instances) /\ Absent \notin Instances
    /\ DOMAIN SubsysOf = Instances /\ DOMAIN Address = Instances /\ DOMAIN HostOf = Instances
    /\ \A i \in Instances : DOMAIN Address[i] = {"transport", "traddr", "host_iface"}
    /\ Subsystems \subseteq Nat     \* in the order of scandir
    /\ Shared \subseteq Subsystems /\ Spaces \subseteq Subsystems \X Nat
    /\ DefaultHost # NoHost
    /\ MaxChanges \in Nat /\ MaxCalls \in Nat

VARIABLES
    live, spaces,   \* the kernel: its controllers and attached namespaces
    root,           \* the caller's root: "none", "held", "lost"
    hosts, subs, ctrls, nss, paths,     \* the objects
    made,           \* the objects made so far
    open,           \* the open descriptors
    at, call,       \* where the library is, and in which call
    sub, ctrl, inst,            \* the subsystem, controller and instance looked at
    todoSubs, todoCtrls, todoSpaces,    \* what scandir found and is left
    counted, listed,            \* device.cpp: count, ns_counter
    calls, changes,
    changed,        \* history: did the kernel change during the call
    drifted,        \* history: or since the controllers were counted
    overwritten,    \* history: the descriptors that were overwritten
    rescanned,      \* history: was anything scanned again
    connected       \* history: the controllers the caller made

kernelVars == <<live, spaces, changes>>
objectVars == <<hosts, subs, ctrls, nss, paths, made, open, overwritten>>
scanVars == <<sub, ctrl, inst, todoSubs, todoCtrls, todoSpaces>>
historyVars == <<rescanned, connected>>
programVars == <<root, call, counted, listed, calls, drifted, historyVars>>
vars == <<kernelVars, objectVars, scanVars, programVars, at, changed>>

Present(s) == \E i \in live : SubsysOf[i] = s
Exists(n) == n \in spaces /\ Present(n[1])
SpacesOf(s) == {n \in spaces : n[1] = s}
Newest(S) == CHOOSE x \in S : \A y \in S : y.id <= x.id
Oldest(S) == CHOOSE x \in S : \A y \in S : y.id >= x.id
First(S) == CHOOSE x \in S : \A y \in S : x <= y
With(S, id) == CHOOSE x \in S : x.id = id

Init ==
    /\ live \in SUBSET Instances /\ spaces \in SUBSET Spaces
    /\ root = "none"
    /\ hosts = {} /\ subs = {} /\ ctrls = {} /\ nss = {} /\ paths = {}
    /\ made = 0 /\ open = 0
    /\ at = "idle" /\ call = "none"
    /\ sub = 0 /\ ctrl = 0 /\ inst = Absent
    /\ todoSubs = {} /\ todoCtrls = {} /\ todoSpaces = {}
    /\ counted = 0 /\ listed = 0 /\ calls = 0 /\ changes = 0
    /\ changed = FALSE /\ drifted = FALSE /\ overwritten = 0 /\ rescanned = FALSE /\ connected = {}

(* A controller or a namespace comes or goes. *)
Hotplug ==
    /\ changes < MaxChanges /\ changes' = changes + 1
    /\ \/ \E i \in Instances :
            /\ live' = IF i \in live THEN live \ {i} ELSE live \cup {i}
            /\ UNCHANGED spaces
       \/ \E n \in Spaces :
            /\ spaces' = IF n \in spaces THEN spaces \ {n} ELSE spaces \cup {n}
            /\ UNCHANGED live
    /\ changed' = TRUE /\ drifted' = TRUE
    /\ UNCHANGED <<objectVars, scanVars, root, call, counted, listed, calls, historyVars, at>>

----------------------------------------------------------------------------
(* Looking objects up, and making those that are not found. *)

(* nvme_lookup_host compares the hostid, if it is asked for one, with that *)
(* of every host of the name, which may have none: strcmp(NULL).           *)
Fits(h, key) == h.nqn = key.nqn /\ (key.id = Absent \/ h.hostid = key.id)
HostClash(key) ==
    \E h \in hosts : /\ h.nqn = key.nqn /\ key.id # Absent /\ h.hostid = Absent
                     /\ \A g \in hosts : Fits(g, key) => g.id < h.id
nvme_lookup_host(key) ==
    LET found == {h \in hosts : Fits(h, key)} IN
    IF found # {} THEN Newest(found) ELSE [id |-> made + 1, nqn |-> key.nqn, hostid |-> key.id]

(* A subsystem that has no name fits every name. *)
(* Mutant: it does not. *)
nvme_lookup_subsystem_Named(h, s, named) ==
    LET found == {x \in subs : x.host = h.id /\ x.nqn = s /\ x.named} IN
    IF found # {} THEN Newest(found)
    ELSE [id |-> made + 2, host |-> h.id, nqn |-> s, named |-> named]
nvme_lookup_subsystem(h, s, named) ==
    LET found == {x \in subs : x.host = h.id /\ x.nqn = s} IN
    IF found # {} THEN Newest(found)
    ELSE [id |-> made + 2, host |-> h.id, nqn |-> s, named |-> named]

(* nvme_lookup_ctrl: a component that one of the two does not have fits.   *)
Matches(c, key) ==
    /\ c.key.transport = key.transport
    /\ \A part \in {"traddr", "host_iface"} :
          c.key[part] # Absent /\ key[part] # Absent => c.key[part] = key[part]

(* nvme_ctrl_alloc's reading of the address: the name of the interface     *)
(* loses its first letter.                                                 *)
Cut(name) == IF name = Absent THEN Absent ELSE <<"cut", name>>
Parsed(i) == [Address[i] EXCEPT !.host_iface = Cut(@)]

(* Descriptors and objects, put together. *)
MakeHost(h) == hosts' = hosts \cup {h}
MakeSub(s, named) ==
    subs' = (subs \ {s}) \cup {[s EXCEPT !.named = @ \/ named]}

----------------------------------------------------------------------------
(* The calls. *)

Return == at' = "idle"
Crash == at' = "crashed"
Unmoved == UNCHANGED kernelVars

Begin(c, where) ==
    /\ at = "idle" /\ calls < MaxCalls
    /\ call' = c /\ at' = where /\ calls' = calls + 1 /\ changed' = FALSE

(* __nvme_free_host of all hosts: with them all that is linked to them. *)
FreedSpaces == {n \in nss : n.ctrl = 0 \/ With(ctrls, n.ctrl).sub # 0}
FreeTree ==
    LET linked == {c \in ctrls : c.sub # 0} IN
    /\ hosts' = {} /\ subs' = {}
    /\ ctrls' = ctrls \ linked
    /\ nss' = nss \ FreedSpaces
    /\ paths' = {p \in paths : With(ctrls, p.ctrl).sub = 0}
    /\ open' = open - Cardinality({c \in linked : c.fd}) - Cardinality(FreedSpaces)
    /\ UNCHANGED <<made, overwritten>>

(* nvme_scan; device.cpp: count_and_show_all_nvme_devices and              *)
(* scan_and_identify_zns_devices begin with it.                            *)
nvme_scan ==
    /\ root = "none"
    /\ \E c \in {"scan", "count"} \cup (IF counted > 0 THEN {"list"} ELSE {}) :
        /\ Begin(c, "subsystems")
        /\ drifted' = (drifted /\ c # "count")
    /\ root' = "held"
    /\ UNCHANGED <<objectVars, scanVars, counted, listed, historyVars>> /\ Unmoved

nvme_refresh_topology ==
    /\ root = "held"
    /\ Begin("scan", "subsystems")
    /\ FreeTree
    /\ UNCHANGED <<scanVars, root, counted, listed, drifted, historyVars>> /\ Unmoved

nvme_free_tree ==
    /\ root = "held"
    /\ Begin("free", "idle")
    /\ FreeTree /\ root' = "none"
    /\ UNCHANGED <<scanVars, counted, listed, drifted, historyVars>> /\ Unmoved

----------------------------------------------------------------------------
(* nvme_scan_topology and nvme_scan_subsystem *)

ScanSubsystems ==
    /\ at = "subsystems"
    /\ todoSubs' = {s \in Subsystems : Present(s)}
    /\ at' = "subsystem"
    /\ UNCHANGED <<objectVars, programVars, sub, ctrl, inst, todoCtrls, todoSpaces, changed>> /\ Unmoved

nvme_scan_subsystem ==
    /\ at = "subsystem" /\ todoSubs # {}
    /\ LET s == First(todoSubs)
           h == nvme_lookup_host(DefaultHost)
           x == nvme_lookup_subsystem(h, s, TRUE) IN
       /\ todoSubs' = todoSubs \ {s}
       /\ MakeHost(h)
       /\ IF Present(s) THEN /\ MakeSub(x, TRUE) /\ sub' = x.id
                             /\ at' = "spaces" /\ made' = made + 2
          ELSE UNCHANGED <<subs, sub, at>> /\ made' = made + 1
    /\ UNCHANGED <<ctrls, nss, paths, open, overwritten, programVars, ctrl, inst,
                   todoCtrls, todoSpaces, changed>> /\ Unmoved

(* The last subsystem is done. *)
ScanDone ==
    /\ at = "subsystem" /\ todoSubs = {}
    /\ at' = IF call = "scan" THEN "idle" ELSE "walk"
    /\ UNCHANGED <<objectVars, programVars, scanVars, changed>> /\ Unmoved

(* nvme_subsystem_scan_namespaces *)
ScanSpaces ==
    /\ at = "spaces"
    /\ LET s == With(subs, sub).nqn IN
       todoSpaces' = IF Present(s) /\ s \in Shared THEN SpacesOf(s) ELSE {}
    /\ at' = "space"
    /\ UNCHANGED <<objectVars, programVars, sub, ctrl, inst, todoSubs, todoCtrls, changed>> /\ Unmoved

(* nvme_ns_open opens a namespace and asks for its properties: it is made  *)
(* if all of this succeeds and closed again if not.                        *)
(* Mutant: it is not closed.                                               *)
Descriptors_Kept(succeeds, opens) == open + (IF opens THEN 1 ELSE 0)
Descriptors(succeeds, opens) == open + (IF succeeds THEN 1 ELSE 0)

NextSpace == CHOOSE n \in todoSpaces : \A m \in todoSpaces : n[2] <= m[2]

OpenSpace(owner) ==
    LET n == NextSpace
        succeeds == Exists(n) IN
    /\ nss' = IF succeeds THEN nss \cup {[id |-> made + 1, sub |-> sub, ctrl |-> owner, name |-> n]} ELSE nss
    /\ \E opens \in {TRUE, succeeds} : open' = Descriptors(succeeds, opens)
    /\ made' = made + 1
    /\ todoSpaces' = todoSpaces \ {n}

nvme_subsystem_scan_namespace ==
    /\ at = "space" /\ todoSpaces # {}
    /\ OpenSpace(0)
    /\ UNCHANGED <<hosts, subs, ctrls, paths, overwritten, programVars, sub, ctrl, inst,
                   todoSubs, todoCtrls, at, changed>> /\ Unmoved

(* nvme_subsystem_scan_ctrls; a rescan goes on with its own controller. *)
ScanCtrls ==
    /\ at = "space" /\ todoSpaces = {}
    /\ LET s == With(subs, sub).nqn IN
       IF call = "rescan" THEN at' = "ctrlspaces" /\ UNCHANGED todoCtrls
       ELSE at' = "ctrl" /\ todoCtrls' = {i \in live : SubsysOf[i] = s}
    /\ UNCHANGED <<objectVars, programVars, sub, ctrl, inst, todoSubs, todoSpaces, changed>> /\ Unmoved

----------------------------------------------------------------------------
(* nvme_ctrl_alloc *)

Rest(S, i) == S \ {i}

(* Its transport is read. *)
nvme_subsystem_scan_ctrl ==
    /\ at = "ctrl" /\ todoCtrls # {}
    /\ LET i == First(todoCtrls) IN
       /\ todoCtrls' = Rest(todoCtrls, i)
       /\ inst' = i
       /\ at' = IF i \in live THEN "address" ELSE "ctrl"
    /\ UNCHANGED <<objectVars, programVars, sub, ctrl, todoSubs, todoSpaces, changed>> /\ Unmoved

CtrlsDone ==
    /\ at = "ctrl" /\ todoCtrls = {}
    /\ at' = "subsystem"
    /\ UNCHANGED <<objectVars, programVars, scanVars, changed>> /\ Unmoved

(* Its address is read, and copied whether or not it was there. *)
nvme_ctrl_alloc ==
    /\ at = "address"
    /\ LET key == Parsed(inst)
           found == {c \in ctrls : c.sub = sub /\ Matches(c, key)}
           new == [id |-> made + 1, sub |-> sub, key |-> key, name |-> Absent, fd |-> FALSE]
           c == IF found # {} THEN Newest(found) ELSE new IN
       IF inst \notin live THEN Crash /\ UNCHANGED <<ctrls, ctrl, made>>
       ELSE ctrls' = ctrls \cup {c} /\ ctrl' = c.id /\ made' = made + 1 /\ at' = "configure"
    /\ UNCHANGED <<hosts, subs, nss, paths, open, overwritten, programVars, sub, inst,
                   todoSubs, todoCtrls, todoSpaces, changed>> /\ Unmoved

(* nvme_configure_ctrl: a descriptor the controller already has is         *)
(* overwritten, with the new one or with the failure to get one.           *)
Update(c, new) == ctrls' = (ctrls \ {c}) \cup {new}
Overwrites(c) == overwritten' = overwritten + (IF c.fd THEN 1 ELSE 0)

nvme_configure_ctrl(succeeds, next) ==
    LET c == With(ctrls, ctrl) IN
    IF succeeds
    THEN /\ Update(c, [c EXCEPT !.fd = TRUE, !.name = inst])
         /\ open' = open + 1 /\ Overwrites(c) /\ at' = next
    ELSE /\ \/ UNCHANGED <<ctrls, overwritten>>         \* no such directory
            \/ Update(c, [c EXCEPT !.fd = FALSE]) /\ Overwrites(c)      \* no such device
         /\ open' = open
         /\ at' = IF call \in {"scan", "count", "list"} THEN "ctrl" ELSE "idle"

Configure ==
    /\ at = "configure"
    /\ nvme_configure_ctrl(inst \in live, IF call = "scan_ctrl" THEN "idle" ELSE "ctrlspaces")
    /\ UNCHANGED <<hosts, subs, nss, paths, made, programVars, scanVars, changed>> /\ Unmoved

----------------------------------------------------------------------------
(* nvme_ctrl_scan_namespaces does not look whether there was a directory:  *)
(* it frees a list it does not have.                                       *)
ScanCtrlSpaces ==
    /\ at = "ctrlspaces"
    /\ LET s == With(subs, sub).nqn IN
       IF inst = Absent THEN Crash /\ UNCHANGED todoSpaces
       ELSE IF inst \in live
       THEN at' = "ctrlspace" /\ todoSpaces' = IF s \in Shared THEN {} ELSE SpacesOf(s)
       ELSE at' \in {"crashed", "paths"} /\ UNCHANGED todoSpaces
    /\ UNCHANGED <<objectVars, programVars, sub, ctrl, inst, todoSubs, todoCtrls, changed>> /\ Unmoved

nvme_ctrl_scan_namespace ==
    /\ at = "ctrlspace" /\ todoSpaces # {}
    /\ OpenSpace(ctrl)
    /\ UNCHANGED <<hosts, subs, ctrls, paths, overwritten, programVars, sub, ctrl, inst,
                   todoSubs, todoCtrls, at, changed>> /\ Unmoved

CtrlSpacesDone ==
    /\ at = "ctrlspace" /\ todoSpaces = {}
    /\ at' = "paths"
    /\ UNCHANGED <<objectVars, programVars, scanVars, changed>> /\ Unmoved

AfterCtrl == IF call = "rescan" THEN "idle" ELSE "ctrl"

(* nvme_ctrl_scan_paths *)
ScanPaths ==
    /\ at = "paths"
    /\ LET s == With(subs, sub).nqn IN
       IF inst \in live
       THEN at' = "path" /\ todoSpaces' = IF s \in Shared THEN SpacesOf(s) ELSE {}
       ELSE at' = AfterCtrl /\ UNCHANGED todoSpaces
    /\ UNCHANGED <<objectVars, programVars, sub, ctrl, inst, todoSubs, todoCtrls, changed>> /\ Unmoved

(* nvme_subsystem_set_path_ns: the last of the list with the name. *)
(* Mutant: the namespaces of all subsystems are searched. *)
PathSpaces_All(n) == {x \in nss : x.name[2] = n[2]}
PathSpaces(n) == {x \in nss : x.sub = sub /\ x.ctrl = 0 /\ x.name = n}

nvme_ctrl_scan_path ==
    /\ at = "path" /\ todoSpaces # {}
    /\ LET n == NextSpace
           found == PathSpaces(n) IN
       /\ paths' = paths \cup {[id |-> made + 1, ctrl |-> ctrl, name |-> n,
                                space |-> IF found = {} THEN 0 ELSE Oldest(found).id]}
       /\ made' = made + 1
       /\ todoSpaces' = todoSpaces \ {n}
    /\ UNCHANGED <<hosts, subs, ctrls, nss, open, overwritten, programVars, sub, ctrl, inst,
                   todoSubs, todoCtrls, at, changed>> /\ Unmoved

PathsDone ==
    /\ at = "path" /\ todoSpaces = {}
    /\ at' = AfterCtrl
    /\ UNCHANGED <<objectVars, programVars, scanVars, changed>> /\ Unmoved

----------------------------------------------------------------------------
(* nvme_scan_ctrl: the files may be gone when they are read; without the   *)
(* first the default host is taken, without the second it gives up.        *)
nvme_scan_ctrl ==
    /\ root = "held"
    /\ \E i \in Instances : Begin("scan_ctrl", "host") /\ inst' = i
    /\ UNCHANGED <<objectVars, root, counted, listed, drifted, historyVars, sub, ctrl,
                   todoSubs, todoCtrls, todoSpaces>> /\ Unmoved

ScanCtrlHost ==
    /\ at = "host"
    /\ LET key == IF inst \in live /\ HostOf[inst] # NoHost THEN HostOf[inst] ELSE DefaultHost
           h == nvme_lookup_host(key)
           x == nvme_lookup_subsystem(h, SubsysOf[inst], FALSE) IN
       IF HostClash(key) THEN Crash /\ UNCHANGED <<hosts, subs, sub, made>>
       ELSE /\ MakeHost(h)
            /\ IF inst \in live
               THEN MakeSub(x, FALSE) /\ sub' = x.id /\ made' = made + 2 /\ at' = "transport"
               ELSE Return /\ UNCHANGED <<subs, sub>> /\ made' = made + 1
    /\ UNCHANGED <<ctrls, nss, paths, open, overwritten, programVars, ctrl, inst,
                   todoSubs, todoCtrls, todoSpaces, changed>> /\ Unmoved

ScanCtrlTransport ==
    /\ at = "transport"
    /\ at' = IF inst \in live THEN "address" ELSE "idle"
    /\ UNCHANGED <<objectVars, programVars, scanVars, changed>> /\ Unmoved

(* nvme_rescan_ctrl; scandir crashes for a subsystem that has no directory *)
(* yet.                                                                    *)
(* Mutant: one that was unlinked is rescanned too. *)
MayRescan_Any(c) == TRUE
MayRescan(c) == c.sub # 0

nvme_rescan_ctrl ==
    /\ root = "held"
    /\ \E c \in ctrls :
        /\ MayRescan(c)
        /\ Begin("rescan", IF c.sub # 0 /\ With(subs, c.sub).named THEN "spaces" ELSE "crashed")
        /\ sub' = c.sub /\ ctrl' = c.id /\ inst' = c.name
    /\ rescanned' = TRUE
    /\ UNCHANGED <<objectVars, root, counted, listed, drifted, connected, todoSubs, todoCtrls, todoSpaces>>
    /\ Unmoved

(* nvme_disconnect_ctrl: the kernel removes the controller, the object     *)
(* stays in the tree.  Or it had none to remove.                           *)
nvme_disconnect_ctrl ==
    /\ root = "held"
    /\ \E c \in ctrls :
        /\ c.name \in live
        /\ Begin("disconnect", "idle")
        /\ live' = live \ {c.name}
        /\ Update(c, [c EXCEPT !.fd = FALSE, !.name = Absent])
        /\ open' = open - (IF c.fd THEN 1 ELSE 0)
    /\ drifted' = TRUE
    /\ UNCHANGED <<hosts, subs, nss, paths, made, overwritten, scanVars, root, counted, listed,
                   historyVars, spaces, changes>>

nvme_unlink_ctrl ==
    /\ root = "held"
    /\ \E c \in ctrls :
        /\ c.sub # 0
        /\ Begin("unlink", "idle")
        /\ Update(c, [c EXCEPT !.sub = 0])
    /\ UNCHANGED <<hosts, subs, nss, paths, made, open, overwritten, scanVars, root, counted,
                   listed, drifted, historyVars>> /\ Unmoved

----------------------------------------------------------------------------
(* nvme_default_host, nvme_create_ctrl and a connect the kernel accepts;   *)
(* then nvme_init_ctrl.                                                    *)
Connect ==
    /\ root = "held" /\ ~ HostClash(DefaultHost)
    /\ MakeHost(nvme_lookup_host(DefaultHost))
    /\ \E i \in Instances \ live :
        /\ Address[i].transport # "pcie"
        /\ Begin("connect", "init")
        /\ live' = live \cup {i} /\ inst' = i
        /\ ctrls' = ctrls \cup {[id |-> made + 2, sub |-> 0, key |-> Address[i], name |-> Absent, fd |-> FALSE]}
    /\ ctrl' = made + 2 /\ made' = made + 2
    /\ connected' = connected \cup {made + 2}
    /\ drifted' = TRUE
    /\ UNCHANGED <<subs, nss, paths, open, overwritten, root, counted, listed, rescanned,
                   spaces, changes, sub, todoSubs, todoCtrls, todoSpaces>>

ConnectClash ==
    /\ root = "held" /\ HostClash(DefaultHost)
    /\ Begin("connect", "crashed")
    /\ UNCHANGED <<objectVars, scanVars, root, counted, listed, drifted, historyVars>> /\ Unmoved

InitConfigure ==
    /\ at = "init"
    /\ nvme_configure_ctrl(inst \in live, "link")
    /\ UNCHANGED <<hosts, subs, nss, paths, made, programVars, scanVars, changed>> /\ Unmoved

(* The address and the name of the subsystem are looked up; the host is    *)
(* the one that the caller has got.                                        *)
nvme_init_ctrl ==
    /\ at = "link"
    /\ LET c == With(ctrls, ctrl)
           h == nvme_lookup_host(DefaultHost)
           x == nvme_lookup_subsystem(h, SubsysOf[inst], TRUE) IN
       IF inst \in live
       THEN /\ MakeSub(x, TRUE) /\ made' = made + 2
            /\ Update(c, [c EXCEPT !.sub = x.id])
       ELSE UNCHANGED <<subs, ctrls, made>>
    /\ Return
    /\ UNCHANGED <<hosts, nss, paths, open, overwritten, programVars, scanVars, changed>> /\ Unmoved

----------------------------------------------------------------------------
(* device.cpp walks the tree. *)

(* count_and_show_all_nvme_devices *)
(* Mutant: the count goes up with each path. *)
Counted_Paths == {p \in paths : With(ctrls, p.ctrl).sub # 0}
Counted == {c \in ctrls : c.sub # 0}
CountCtrls ==
    /\ at = "walk" /\ call = "count"
    /\ counted' = Cardinality(Counted)
    /\ FreeTree /\ root' = "none" /\ Return
    /\ UNCHANGED <<scanVars, call, listed, calls, drifted, historyVars, changed>> /\ Unmoved

(* scan_and_identify_zns_devices writes one element of the list for each   *)
(* namespace of a controller; when one cannot be identified it returns at  *)
(* once and drops the tree.                                                *)
Listed == {n \in nss : n.ctrl # 0 /\ With(ctrls, n.ctrl).sub # 0}
ListSpaces ==
    /\ at = "walk" /\ call = "list"
    /\ Return
    /\ \/ /\ listed' = Cardinality(Listed)
          /\ FreeTree /\ root' = "none"
       \/ /\ \E n \in Listed : ~ Exists(n.name)
          /\ listed' \in 1 .. Cardinality(Listed)
          /\ root' = "lost"
          /\ UNCHANGED objectVars
    /\ UNCHANGED <<scanVars, call, counted, calls, drifted, historyVars, changed>> /\ Unmoved

Library ==
    \/ ScanSubsystems \/ nvme_scan_subsystem \/ ScanDone
    \/ ScanSpaces \/ nvme_subsystem_scan_namespace \/ ScanCtrls
    \/ nvme_subsystem_scan_ctrl \/ CtrlsDone \/ nvme_ctrl_alloc \/ Configure
    \/ ScanCtrlSpaces \/ nvme_ctrl_scan_namespace \/ CtrlSpacesDone
    \/ ScanPaths \/ nvme_ctrl_scan_path \/ PathsDone
    \/ ScanCtrlHost \/ ScanCtrlTransport \/ InitConfigure \/ nvme_init_ctrl
    \/ CountCtrls \/ ListSpaces

Next ==
    \/ Hotplug \/ Library
    \/ nvme_scan \/ nvme_refresh_topology \/ nvme_free_tree
    \/ nvme_scan_ctrl \/ nvme_rescan_ctrl \/ nvme_disconnect_ctrl \/ nvme_unlink_ctrl
    \/ Connect \/ ConnectClash

Spec == Init /\ [][Next]_vars

----------------------------------------------------------------------------
(* Every variable has its type, and every reference its object. *)
TypeOK ==
    /\ live \subseteq Instances /\ spaces \subseteq Spaces
    /\ root \in {"none", "held", "lost"}
    /\ \A h \in hosts : h.id \in 1 .. made
    /\ \A s \in subs : s.host \in {h.id : h \in hosts} /\ s.nqn \in Subsystems
    /\ \A c \in ctrls : c.sub \in {0} \cup {s.id : s \in subs} /\ c.name \in {Absent} \cup Instances
    /\ \A n \in nss : n.ctrl \in {0} \cup {c.id : c \in ctrls} /\ n.name \in Spaces
    /\ \A p \in paths : p.ctrl \in {c.id : c \in ctrls}
    /\ open \in Nat /\ made \in Nat /\ overwritten \in Nat
    /\ at \in {"idle", "crashed", "subsystems", "subsystem", "spaces", "space", "ctrl", "address",
               "configure", "ctrlspaces", "ctrlspace", "paths", "path", "host", "transport",
               "init", "link", "walk"}
    /\ call \in {"none", "scan", "count", "list", "free", "scan_ctrl", "rescan", "disconnect",
                 "unlink", "connect"}
    /\ calls \in 0 .. MaxCalls /\ changes \in 0 .. MaxChanges
    /\ counted \in Nat /\ listed \in Nat

(* Every open descriptor belongs to one controller or namespace that will  *)
(* close it, whatever came or went while it was made (tree.c:1486, :765).  *)
(* Those of controllers that were configured again are lost (:1028).       *)
FdsOwned ==
    open = Cardinality({c \in ctrls : c.fd}) + Cardinality(nss) + overwritten

(* A path of the tree is joined to a namespace of the tree, of its own     *)
(* name and subsystem, or to none (:494).                                  *)
PathsJoin ==
    \A p \in paths :
        LET c == With(ctrls, p.ctrl) IN
        (c.sub # 0 /\ p.space # 0) =>
            \E n \in nss : n.id = p.space /\ n.name = p.name /\ n.sub = c.sub

(* References, descriptors and paths at any moment of any call.            *)
WellFormed == TypeOK /\ FdsOwned /\ PathsJoin

Ambiguous == \E i, j \in live : i # j /\ SubsysOf[i] = SubsysOf[j] /\ Matches([key |-> Parsed(i)], Parsed(j))

(* A scan during which the kernel did not change gives the kernel's own    *)
(* tree: each controller once, under its subsystem and open, each          *)
(* namespace once where the kernel has it, each path joined to its         *)
(* namespace.  Unless two controllers cannot be told apart by their        *)
(* addresses: they become one.                                             *)
ScanMirrors ==
    (at = "idle" /\ call = "scan" /\ ~ changed /\ ~ Ambiguous) =>
        LET linked == {c \in ctrls : c.sub # 0}
            name(c) == With(ctrls, c).name
            seen == {n \in nss : n.ctrl = 0 \/ With(ctrls, n.ctrl).sub # 0}
            found == {p \in paths : With(ctrls, p.ctrl).sub # 0} IN
        /\ {<<c.name, With(subs, c.sub).nqn>> : c \in {x \in linked : x.fd}} = {<<i, SubsysOf[i]>> : i \in live}
        /\ Cardinality(linked) = Cardinality(live)
        /\ {<<n.name, IF n.ctrl = 0 THEN Absent ELSE name(n.ctrl)>> : n \in seen} =
              {<<n, Absent>> : n \in {x \in spaces : x[1] \in Shared /\ Present(x[1])}}
              \cup UNION {{<<n, i>> : n \in SpacesOf(SubsysOf[i])} : i \in {j \in live : SubsysOf[j] \notin Shared}}
        /\ {<<name(p.ctrl), With(nss, p.space).name>> : p \in found} =
              UNION {{<<i, n>> : n \in SpacesOf(SubsysOf[i])} : i \in {j \in live : SubsysOf[j] \in Shared}}

(* The host that a call looks up, and all that may be in the tree. *)
HostOfCall == IF call = "scan_ctrl" /\ inst \in live /\ HostOf[inst] # NoHost THEN HostOf[inst] ELSE DefaultHost
HostKeys == {DefaultHost} \cup {HostOf[i] : i \in Instances}

(* The library crashes in no other cases than these: the kernel changed    *)
(* under a scan (:1125, :983); a host with an identifier is looked up, for *)
(* a single controller, while there is another of the same name that has   *)
(* none (:333); a controller is scanned again that is gone, or was found   *)
(* by itself.                                                              *)
CrashExplained ==
    at = "crashed" =>
        \/ changed
        \/ /\ call \in {"scan_ctrl", "connect"}
           /\ HostOfCall.id # Absent
           /\ \E key \in HostKeys : key.nqn = HostOfCall.nqn /\ key.id = Absent
        \/ /\ call = "rescan"
           /\ sub # 0
           /\ inst \notin live \/ ~ With(subs, sub).named

(* A controller of the kernel is one object of the tree, and a namespace   *)
(* one object of its owner.  Except that a controller is found again under *)
(* its own host if that is not this machine's; that one the caller made is *)
(* found again if its interface has a name (:1139), and added although an  *)
(* object of an earlier controller of its number is left over; and that a  *)
(* namespace is made again by every further scan (:1227).  It needs a      *)
(* hostid of this machine, and addresses that do not fit each other.       *)
OneObjectEach ==
    /\ \A c, d \in ctrls :
          (c.id < d.id /\ c.sub # 0 /\ d.sub # 0 /\ c.name = d.name /\ c.name # Absent) =>
              \/ HostOf[c.name] \notin {NoHost, DefaultHost}
              \/ c.id \in connected /\ Address[c.name].host_iface # Absent
              \/ d.id \in connected
    /\ \A n, m \in nss : (n # m /\ n.ctrl = m.ctrl /\ n.sub = m.sub /\ n.name = m.name) => rescanned

(* The list of device.cpp has an element for each namespace found (:108)   *)
(* and is as long as the number of controllers found before: as long as    *)
(* the kernel does not change in between, it is written past its end       *)
(* exactly when a non-shared namespace is one too many for them.           *)
ListFits ==
    (at = "idle" /\ call = "list" /\ ~ drifted /\ ~ Ambiguous) =>
        LET attached == {x \in live \X spaces : x[2][1] = SubsysOf[x[1]] /\ x[2][1] \notin Shared} IN
        listed > counted <=> Cardinality(attached) > Cardinality(live)

=============================================================================
