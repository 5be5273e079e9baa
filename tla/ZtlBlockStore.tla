---------------------------- MODULE ZtlBlockStore ----------------------------
(***************************************************************************)
(* The FTL implements the block store on a device that does not fail, for  *)
(* one client that reads and writes single blocks and for any number of    *)
(* clients that write them.  The store is what the FTL would bring back at *)
(* this moment, wherever it is: in the log, in a data zone or in the merge *)
(* buffer.                                                                 *)
(***************************************************************************)
EXTENDS ZtlLifecycle

Store == [a \in Addr |-> IF last[a] = NotWritten THEN NotWritten ELSE View(a)]

CallState == [c \in Clients |->
                IF pc[c] = "idle" THEN "idle" ELSE IF pc[c] = "ret" THEN "done" ELSE "busy"]

BS == INSTANCE BlockStore WITH
    store <- Store,
    state <- CallState,
    op <- [c \in Clients |-> req[c].op],
    addr <- [c \in Clients |-> req[c].addr],
    val <- [c \in Clients |-> buf[c][0]]

(***************************************************************************)
(* Every step of the FTL is a step of the block store or invisible to its  *)
(* user: collections, merges and resets change nothing the user can see.   *)
(***************************************************************************)
ImplementsBlockStore == BS!Spec

=============================================================================
