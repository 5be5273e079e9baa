---------------------------- MODULE MCLifecycle ----------------------------
(* Instances of ZtlLifecycle for TLC. *)
EXTENDS ZtlBlockStore, TLC

(* The payloads are interchangeable. *)
DataSymmetry == Permutations(Data)

============================================================================
