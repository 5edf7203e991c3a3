------------------------------ MODULE HostJobs ------------------------------
(***************************************************************************)
(* The far end of a managed write: the durable jobs of a host              *)
(* (src/ssh_operations.py, one receipt.json and one transient systemd unit *)
(* per operation id), the checked helper that runs commands for it         *)
(* (src/host_control.py), and, for operations of kind call and job, the    *)
(* hub (outside this repository), of which only this is assumed: it keeps  *)
(* a job per idempotency key and ends it.                                  *)
(*                                                                         *)
(* state is what the receipt says, phase how far the unit has come.  A     *)
(* unit that dies leaves its receipt as it was.                            *)
(***************************************************************************)
EXTENDS Integers, FiniteSets

CONSTANTS
    JobIds,         \* operation ids of the control plane
    MaxBoots        \* bound on the reboots of the host

ASSUME HostJobsAssumption == IsFiniteSet(JobIds) /\ MaxBoots \in Nat

VARIABLES
    job,        \* the receipt and the unit of each operation
    boot,       \* the host's boot id
    service     \* the unit an operation of kind service is about

jobVars == <<job, boot, service>>

Terminal == {"succeeded", "failed", "cancelled", "timed_out", "outcome_unknown"}
JobStates == {"none", "dispatching", "running"} \cup Terminal
Phases == {"none", "queued", "begun", "checked", "working", "dead"}

\* What the receipt of a systemd action shows of the unit after it: the state that was asked
\* for, another one, or nothing that proves the action (which includes a restart that left the
\* instance as it was).
Effects == {"none", "asked", "missed", "unproven"}

\* proof is the boot id in the preflight report that the helper printed, -1 before that;
\* refused is its report that it does not start the command; ran counts how often the effect
\* was started.
NoJob == [state |-> "none", phase |-> "none", cancel |-> FALSE, proof |-> -1, refused |-> FALSE,
          ran |-> 0, shows |-> "none"]

JobsInit ==
    /\ job = [o \in JobIds |-> NoJob]
    /\ boot = 0
    /\ service = [o \in JobIds |-> "before"]

Alive(o) == job[o].phase \in {"queued", "begun", "checked", "working"}

\* submit, and the hub accepting a job: an operation id that is known is answered
\* from its receipt.  systemd-run may fail after the receipt was written.
Submit(o, dispatched) ==
    /\ job' = IF job[o].state # "none" THEN job
              ELSE [job EXCEPT ![o].state = "dispatching",
                               ![o].phase = IF dispatched THEN "queued" ELSE "dead"]
    /\ UNCHANGED <<boot, service>>

\* The hub carries out a call at once.
SubmitCall(o) ==
    /\ job' = [job EXCEPT ![o].state = "succeeded", ![o].phase = "dead", ![o].ran = @ + 1]
    /\ UNCHANGED <<boot, service>>

\* The first step of run_job.
JobBegins(o) ==
    /\ job[o].phase = "queued" /\ job[o].state = "dispatching"
    /\ job' = [job EXCEPT ![o].state = "running", ![o].phase = "begun"]
    /\ UNCHANGED <<boot, service>>

\* The last step of run_job: a job that someone asked to cancel says so, whatever
\* it did.
JobEnds(o, state) ==
    /\ job' = [job EXCEPT ![o].state = IF job[o].cancel THEN "cancelled" ELSE state,
                          ![o].phase = "dead"]
    /\ UNCHANGED <<boot, service>>

\* preflight and the report in host_control.execute; a command of the hub's is not checked.
JobChecks(o) ==
    /\ job[o].phase = "begun" /\ ~job[o].refused
    /\ job' = [job EXCEPT ![o].phase = "checked", ![o].proof = boot]
    /\ UNCHANGED <<boot, service>>

\* The helper prints that the command was not started, and then ends.
JobRefuses(o) ==
    /\ job[o].phase = "begun"
    /\ job' = [job EXCEPT ![o].refused = TRUE]
    /\ UNCHANGED <<boot, service>>

\* The effect: a command or a systemd action is started.
JobWorks(o, first) ==
    /\ job[o].phase = first /\ ~job[o].refused
    /\ job' = [job EXCEPT ![o].phase = "working", ![o].ran = @ + 1]
    /\ UNCHANGED <<boot, service>>

\* systemctl returned, and the unit was read once more.
ServiceActed(o, shows) ==
    /\ \E unit \in CASE shows = "asked" -> {"acted"}
                     [] shows = "missed" -> {"other", "failed"}
                     [] OTHER -> {"acted", "other", "failed"} :
            service' = [service EXCEPT ![o] = unit]
    /\ job' = [job EXCEPT ![o].state = IF job[o].cancel THEN "cancelled" ELSE "succeeded",
                          ![o].phase = "dead", ![o].shows = shows]
    /\ UNCHANGED boot

\* jobs.cancel on a job that has not ended, up to the stop of its unit.
AskToStop(o) ==
    /\ job' = IF job[o].state \in Terminal THEN job ELSE [job EXCEPT ![o].cancel = TRUE]
    /\ UNCHANGED <<boot, service>>

\* systemctl stop, after the request was written.
JobStops(o) ==
    /\ job[o].cancel /\ Alive(o)
    /\ job' = [job EXCEPT ![o].phase = "dead"]
    /\ UNCHANGED <<boot, service>>

\* status finds an unfinished receipt whose unit is gone: nothing proves that the
\* command never ran.
Reaped(o) == [job[o] EXCEPT !.state = IF job[o].cancel THEN "cancelled" ELSE "outcome_unknown"]

Abandoned(o) == job[o].state \in {"dispatching", "running"} /\ ~Alive(o)

\* The host goes down, by a job that reboots it or by itself, and comes back.
HostReboots ==
    /\ boot < MaxBoots
    /\ boot' = boot + 1
    /\ job' = [o \in JobIds |-> IF Alive(o) THEN [job[o] EXCEPT !.phase = "dead"] ELSE job[o]]
    /\ service' = [o \in JobIds |-> IF service[o] = "acted" THEN "other" ELSE service[o]]

\* The service leaves the state the action left it in.
ServiceChanges(o) ==
    /\ service[o] = "acted"
    /\ \E s \in {"other", "failed"} : service' = [service EXCEPT ![o] = s]
    /\ UNCHANGED <<job, boot>>
=============================================================================
