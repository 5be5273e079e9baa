------------------------------- MODULE MCZtl -------------------------------
(* Instances of Ztl for TLC. *)
EXTENDS Ztl, TLC

(* The payloads are interchangeable, and so are the clients. *)
Symmetry == Permutations(Data) \cup Permutations(Clients)

============================================================================
