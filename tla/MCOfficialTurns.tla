-------------------------- MODULE MCOfficialTurns --------------------------
(***************************************************************************)
(* Instance: two processes of the bot, two messages of one conversation.   *)
(***************************************************************************)
EXTENDS OfficialTurns, TLC

CONSTANTS m1, m2, p1, p2

MCMessages == {m1, m2}
MCProcs == {p1, p2}

=============================================================================
