----------------------------- MODULE BlockStore -----------------------------
(***************************************************************************)
(* What the user of zns_device.h is promised: an array of blocks.  A call  *)
(* takes effect at one moment between its start and its return, a write by *)
(* storing its block, a read by fetching the block stored last.  A block   *)
(* that was never written reads as anything ("random garbage" in m3.cpp).  *)
(* No call fails but one whose size is no multiple of the block size.      *)
(* Opened anew with force_reset, the device has forgotten everything.      *)
(* Zones, log, merges and threads do not exist at this level.              *)
(***************************************************************************)
CONSTANTS Clients, Addr, Data, Zero, NotWritten

VARIABLES
    store,      \* the block last written to each address
    state,      \* where each client is: idle, busy, done
    op,         \* its call ...
    addr,       \* ... and the block it is about
    val         \* the data of a write, the result of a read

vars == <<store, state, op, addr, val>>

Init ==
    /\ store = [a \in Addr |-> NotWritten]
    /\ state = [c \in Clients |-> "idle"]
    /\ op = [c \in Clients |-> "none"]
    /\ addr = [c \in Clients |-> 0]
    /\ val = [c \in Clients |-> Zero]

Start(c, o, a, d) ==
    /\ state[c] = "idle"
    /\ state' = [state EXCEPT ![c] = "busy"]
    /\ op' = [op EXCEPT ![c] = o]
    /\ addr' = [addr EXCEPT ![c] = a]
    /\ val' = [val EXCEPT ![c] = d]
    /\ UNCHANGED store

Reject(c) ==
    /\ state[c] = "idle"
    /\ state' = [state EXCEPT ![c] = "done"]
    /\ UNCHANGED <<store, op, addr, val>>

Write(c) ==
    /\ state[c] = "busy" /\ op[c] = "write"
    /\ state' = [state EXCEPT ![c] = "done"]
    /\ store' = [store EXCEPT ![addr[c]] = val[c]]
    /\ UNCHANGED <<op, addr, val>>

Read(c) ==
    /\ state[c] = "busy" /\ op[c] = "read"
    /\ state' = [state EXCEPT ![c] = "done"]
    /\ \E d \in Data \cup {Zero} :
          /\ store[addr[c]] # NotWritten => d = store[addr[c]]
          /\ val' = [val EXCEPT ![c] = d]
    /\ UNCHANGED <<store, op, addr>>

Return(c) ==
    /\ state[c] = "done"
    /\ state' = [state EXCEPT ![c] = "idle"]
    /\ op' = [op EXCEPT ![c] = "none"]
    /\ addr' = [addr EXCEPT ![c] = 0]
    /\ val' = [val EXCEPT ![c] = Zero]
    /\ UNCHANGED store

(* Calls that were under way never return. *)
Format ==
    /\ store' = [a \in Addr |-> NotWritten]
    /\ state' = [c \in Clients |-> "idle"]
    /\ op' = [c \in Clients |-> "none"]
    /\ addr' = [c \in Clients |-> 0]
    /\ val' = [c \in Clients |-> Zero]

Next ==
    \/ Format
    \/ \E c \in Clients :
        \/ \E a \in Addr, d \in Data : Start(c, "write", a, d)
        \/ \E a \in Addr : Start(c, "read", a, Zero)
        \/ Reject(c) \/ Write(c) \/ Read(c) \/ Return(c)

Spec == Init /\ [][Next]_vars

=============================================================================
