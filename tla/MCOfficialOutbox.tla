-------------------------- MODULE MCOfficialOutbox --------------------------
(* Instances of OfficialOutbox for TLC. *)
EXTENDS OfficialOutbox, TLC

CONSTANTS p1, p2

ProcSymmetry == Permutations(Procs)
=============================================================================
