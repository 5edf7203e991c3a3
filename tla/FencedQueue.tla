---------------------------- MODULE FencedQueue ----------------------------
(***************************************************************************)
(* What a queue with leases promises to those who use it, whatever its     *)
(* tables, clocks and processes are: a job is held in numbered turns, only *)
(* who still has the current turn can make it succeed, a new turn never    *)
(* reuses a number, and a success is for ever.                             *)
(*                                                                         *)
(* DurableJobs and ClusterJobs implement it: their lease generations and   *)
(* fences are the turns, and whatever may still speak for a turn (a task   *)
(* in RAM, a receipt on a disk, a call under way) is out.                  *)
(*                                                                         *)
(* A transaction of either queue may move several jobs at once, so a step  *)
(* here is a move, or none, for every job.                                 *)
(***************************************************************************)
EXTENDS Naturals

CONSTANTS
    Jobs,
    Reopening       \* the jobs that may be brought back after a failure

VARIABLES
    job,            \* the state of each job, its turn, and the turn that made its result
    out             \* the turns someone may still speak for

vars == <<job, out>>

Abandoned == {"failed", "cancelled"}
States == {"absent", "waiting", "held", "succeeded"} \cup Abandoned

Init ==
    /\ job = [j \in Jobs |-> [state |-> "absent", turn |-> 0, result |-> 0]]
    /\ out = {}

Goes(j, s) == job'[j] = [job[j] EXCEPT !.state = s]

Offer(j) == job[j].state = "absent" /\ Goes(j, "waiting")

\* The turn before may have been lost without a word.
Take(j) ==
    /\ job[j].state \in {"waiting", "held"}
    /\ job'[j] = [state |-> "held", turn |-> job[j].turn + 1, result |-> job[j].result]

Return(j) == job[j].state = "held" /\ Goes(j, "waiting")

\* The result may have been computed, and left behind, in an earlier turn.
Succeed(j) ==
    /\ job[j].state = "held"
    /\ <<j, job[j].turn>> \in out
    /\ \E t \in 1 .. job[j].turn :
          job'[j] = [state |-> "succeeded", turn |-> job[j].turn, result |-> t]

Abandon(j) ==
    /\ job[j].state \in {"waiting", "held"} \/ (j \in Reopening /\ job[j].state = "failed")
    /\ \E s \in Abandoned : Goes(j, s)

Reopen(j) == j \in Reopening /\ job[j].state \in Abandoned /\ Goes(j, "waiting")

Move(j) == Offer(j) \/ Take(j) \/ Return(j) \/ Succeed(j) \/ Abandon(j) \/ Reopen(j)

Next ==
    /\ \A j \in Jobs : Move(j) \/ job'[j] = job[j]
    /\ job' = [j \in Jobs |-> job'[j]]
    /\ \A o \in out' \ out : \E j \in Jobs : Take(j) /\ o = <<j, job'[j].turn>>

Spec == Init /\ [][Next]_vars
=============================================================================
