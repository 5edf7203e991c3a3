------------------------ MODULE MCManagedOperations ------------------------
(* Instances of ManagedOperations for TLC. *)
EXTENDS ManagedOperations

CONSTANTS o1, o2, r1, r2
=============================================================================
