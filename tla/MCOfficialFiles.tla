-------------------------- MODULE MCOfficialFiles --------------------------
(* A small instance of OfficialFiles: two requests of the same bytes. *)
EXTENDS OfficialFiles, TLC

CONSTANTS a1, a2, c1, k1, k2

MCSha == a1 :> c1 @@ a2 :> c1

Alike == Permutations({a1, a2})
=============================================================================
