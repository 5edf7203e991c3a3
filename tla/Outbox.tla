------------------------------- MODULE Outbox -------------------------------
(***************************************************************************)
(* What an outbox promises to those who put deliveries into it, whatever   *)
(* its tables, attempts and processes are: a delivery reaches its          *)
(* addressee once at most, it is tried again or given up only if it has    *)
(* not reached him, it is called committed only if it has, and what nobody *)
(* can know is called ambiguous for good unless it turns out that it has.  *)
(*                                                                         *)
(* "reached" is what really happened, which the outbox does not read: a    *)
(* delivery may reach its addressee while it is called sending, or after   *)
(* its sender has been given up for lost.                                  *)
(*                                                                         *)
(* A transaction may settle several deliveries at once, so a step here is  *)
(* a move, or none, for every delivery.                                    *)
(***************************************************************************)
EXTENDS Naturals

CONSTANTS Deliveries

VARIABLES
    says,           \* what the outbox calls each delivery
    reached         \* how often it has reached its addressee

vars == <<says, reached>>

Init ==
    /\ says = [d \in Deliveries |-> "absent"]
    /\ reached = [d \in Deliveries |-> 0]

Stays(d) == says'[d] = says[d] /\ reached'[d] = reached[d]

Calls(d, word) == says'[d] = word /\ reached'[d] = reached[d]

Enqueue(d) == says[d] = "absent" /\ Calls(d, "pending")

Send(d) == says[d] = "pending" /\ Calls(d, "sending")

Reach(d) ==
    /\ says[d] \in {"sending", "ambiguous"} /\ reached[d] = 0
    /\ says'[d] = says[d] /\ reached'[d] = 1

\* The attempt is known not to have reached anybody.
Refuse(d) ==
    /\ says[d] = "sending" /\ reached[d] = 0
    /\ \E word \in {"pending", "failed"} : Calls(d, word)

Lose(d) == says[d] = "sending" /\ Calls(d, "ambiguous")

Confirm(d) == says[d] \in {"sending", "ambiguous"} /\ reached[d] = 1 /\ Calls(d, "committed")

\* Before it is sent; a sender may report the failure of what its caller has cancelled.
GiveUp(d) ==
    \/ says[d] \in {"pending", "cancelled"} /\ Calls(d, "failed")
    \/ says[d] = "pending" /\ Calls(d, "cancelled")

Move(d) ==
    \/ Enqueue(d) \/ Send(d) \/ Reach(d) \/ Refuse(d) \/ Lose(d) \/ Confirm(d) \/ GiveUp(d)

Next ==
    /\ \A d \in Deliveries : Move(d) \/ Stays(d)
    /\ says' = [d \in Deliveries |-> says'[d]]
    /\ reached' = [d \in Deliveries |-> reached'[d]]

Spec == Init /\ [][Next]_vars
=============================================================================
