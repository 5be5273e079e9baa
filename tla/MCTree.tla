------------------------------- MODULE MCTree -------------------------------
(* A local controller, and two of a fabric that share a subsystem. *)
EXTENDS NvmeTree

MCSubsysOf == (0 :> 0) @@ (1 :> 1) @@ (2 :> 1)
MCAddress == (0 :> [transport |-> "pcie", traddr |-> "a0", host_iface |-> Absent])
    @@ (1 :> [transport |-> "tcp", traddr |-> "a1", host_iface |-> "eth"])
    @@ (2 :> [transport |-> "loop", traddr |-> Absent, host_iface |-> Absent])
MCHostOf == (0 :> NoHost) @@ (1 :> [nqn |-> "h", id |-> "x"]) @@ (2 :> [nqn |-> "h", id |-> Absent])
MCSpaces == {<<0, 1>>, <<0, 2>>, <<1, 1>>}
MCDefaultHost == [nqn |-> "h", id |-> "y"]
=============================================================================
