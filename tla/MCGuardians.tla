----------------------------- MODULE MCGuardians -----------------------------
(* Small instances of Guardians. *)
EXTENDS Guardians, TLC

MCOperations == Guardians \X (1..MaxActions)

\* Nothing tells the two minutes of grace after a deadline from what follows.
Grace == \A o \in Operations : op[o].age # "over"

\* Without deployments.
Calm == Grace /\ ~maintenance

\* Of two repairs, both go over SSH.
OverSsh == Calm /\ \A o \in Operations : op[o].kind # "job"

\* Of two guardians, one still has time.
OneStays == Calm /\ expired # Guardians

MCSymmetry == Permutations(Guardians) \cup Permutations(Checkers) \cup Permutations(Runners)
=============================================================================
