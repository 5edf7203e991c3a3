-------------------------- MODULE ManagedOperations --------------------------
(***************************************************************************)
(* Managed writes from end to end: runners (OpsManagementService.run_once  *)
(* in cluster_control/ops_management.py, and host_operation_runner.py for  *)
(* checked commands and reboots) take operations from OperationLedger and  *)
(* carry them out on a host, HostJobs.                                     *)
(*                                                                         *)
(* One round of a runner claims an operation, decides from the row it got  *)
(* what to do, makes one or more calls, and finishes with the lease.       *)
(* Between two calls the lease may run out, another runner may take over,  *)
(* and an administrator may cancel.  A call that fails may have been       *)
(* carried out, or may be carried out after its caller has given up.       *)
(***************************************************************************)
EXTENDS OperationLedger, HostJobs

CONSTANTS
    MaxFaults       \* bound on failing calls, crashes, slow rounds, cancellations

ASSUME ManagedAssumption == JobIds = Operations /\ MaxFaults \in Nat

VARIABLES
    round,      \* what each runner is doing
    stray,      \* writes on their way whose sender no longer waits for them
    sent,       \* history: how many times the write of an operation was sent
    faults

roundVars == <<round, stray, sent, faults>>
vars == <<ledgerVars, jobVars, roundVars>>

\* In a round, started, handle, saw and cancelling are the claimed row's, kept up
\* to date by the round itself; status is the verdict it finishes with.
Idle == [op |-> Nobody, pc |-> "idle", cancelling |-> FALSE, started |-> FALSE,
         handle |-> FALSE, saw |-> "none", view |-> NoJob, status |-> "none"]

Init ==
    /\ LedgerInit /\ JobsInit
    /\ round = [r \in Runners |-> Idle]
    /\ stray = {}
    /\ sent = [o \in Operations |-> 0]
    /\ faults = 0

Interfere == faults < MaxFaults /\ faults' = faults + 1

Op(r) == round[r].op
Kind(r) == op[Op(r)].kind
Late(r) == op[Op(r)].age # "ontime"
Checked(r) == Kind(r) \in HostControlled
OverSsh(r) == Kind(r) \notin {"call", "job"}

\* A runner's next state of its round.
Goes(r, next) == round' = [round EXCEPT ![r] = next]
To(r, pc) == [round[r] EXCEPT !.pc = pc]

Concludes(r, status) == [round[r] EXCEPT !.pc = "finish", !.status = status, !.view = NoJob]

StillGoing(r) == IF round[r].cancelling THEN "cancelling" ELSE "reconciling"

\* An operation whose write may have been sent is worth another round.
Recoverable(r) == round[r].handle \/ (round[r].started /\ OverSsh(r))

\* The except clauses: why is "permission", "retryable" (the call may have been
\* carried out) or "other".
Fails(r, why) ==
    Concludes(r,
        IF ~round[r].started /\ ~round[r].handle
        THEN IF why = "permission" THEN "needs_attention" ELSE "failed"
        ELSE IF Checked(r)
        THEN CASE why = "permission" -> "needs_attention"
               [] why # "permission" /\ ~Late(r) -> StillGoing(r)
               [] OTHER -> "failed"
        ELSE IF Recoverable(r) /\ why = "retryable" /\ ~Late(r)
        THEN StillGoing(r) ELSE "needs_attention")

\* A call that goes wrong, or a management scope that changed under the operation.
GoesWrong(r, why) == Interfere /\ Goes(r, Fails(r, why))

-----------------------------------------------------------------------------
(* The round of a runner.                                                  *)

Claims(r) ==
    /\ round[r].pc = "idle"
    /\ \E o \in Operations :
        \/ /\ Claim(r, o)
           /\ Goes(r, [Idle EXCEPT !.op = o, !.pc = "claimed", !.started = op[o].started,
                                   !.handle = op[o].handle, !.saw = op[o].saw,
                                   !.cancelling = op[o].status = "cancelling"])
        \/ Refuse(o) /\ UNCHANGED round
    /\ UNCHANGED <<jobVars, stray, sent, faults>>

\* The hub's tasks are found by their handle, those over SSH from the operation id.
Locatable(r) == round[r].handle \/ (round[r].started /\ OverSsh(r))

\* Mutant: the deadline is not looked at before a checked command is taken further.
Decision_NoDeadline(r) ==
    IF round[r].handle THEN To(r, "observe")
    ELSE IF round[r].started THEN To(r, "recover")
    ELSE IF round[r].cancelling THEN Concludes(r, "cancelled")
    ELSE To(r, "validate")

\* How the round goes on: run_host_operation, or run_once.
Decision(r) ==
    IF Checked(r)
    THEN IF Late(r) /\ ~round[r].handle /\ ~round[r].started
         THEN Concludes(r, IF round[r].cancelling THEN "cancelled" ELSE "failed")
         ELSE IF Late(r)
         THEN IF round[r].handle /\ Kind(r) # "reboot" /\ op[Op(r)].age = "late"
              THEN [To(r, "observe") EXCEPT !.cancelling = TRUE]
              ELSE Concludes(r, "needs_attention")
         ELSE IF round[r].handle THEN To(r, "observe")
         ELSE IF round[r].started THEN To(r, "recover")
         ELSE IF round[r].cancelling THEN Concludes(r, "cancelled")
         ELSE To(r, "validate")
    ELSE IF Locatable(r)
    THEN IF round[r].saw \in {"receipt", "stable"} THEN To(r, "verify")
         ELSE [To(r, "observe") EXCEPT !.handle = TRUE]
    ELSE To(r, "validate")

Decides(r) ==
    /\ round[r].pc = "claimed"
    /\ \/ Goes(r, Decision(r)) /\ UNCHANGED faults
       \/ GoesWrong(r, "permission")
    /\ UNCHANGED <<ledgerVars, jobVars, stray, sent>>

\* _validate_submission: the row is read once more.
Validates(r) ==
    /\ round[r].pc = "validate"
    /\ \/ /\ op[Op(r)].status = "running" /\ op[Op(r)].fence = r /\ ~Late(r)
          /\ Goes(r, To(r, IF OverSsh(r) THEN "checkpoint" ELSE "send"))
          /\ UNCHANGED faults
       \/ /\ op[Op(r)].status # "running" \/ op[Op(r)].fence # r \/ Late(r)
          /\ Goes(r, Fails(r, "permission"))
          /\ UNCHANGED faults
       \/ \E why \in {"permission", "other"} : GoesWrong(r, why)
    /\ UNCHANGED <<ledgerVars, jobVars, stray, sent>>

\* The checkpoint is committed before the write is sent.  run_once takes the
\* submission for started even when the checkpoint is refused.
Checkpoints(r) ==
    /\ round[r].pc = "checkpoint"
    /\ IF CheckpointAccepted(r, Op(r))
       THEN /\ Checkpoint(Op(r))
            /\ Goes(r, [To(r, "send") EXCEPT !.started = TRUE])
       ELSE /\ Goes(r, [Fails(r, "permission") EXCEPT !.started = ~Checked(r)])
            /\ UNCHANGED ledgerVars
    /\ UNCHANGED <<jobVars, stray, sent, faults>>

\* The one write of an operation, with its id for an idempotency key.
Sends(r) ==
    /\ round[r].pc = "send"
    /\ sent' = [sent EXCEPT ![Op(r)] = @ + 1]
    /\ Goes(r, [To(r, "waiting") EXCEPT !.started = TRUE])
    /\ UNCHANGED <<ledgerVars, jobVars, stray, faults>>

Lands(o) ==
    IF op[o].kind = "call" THEN SubmitCall(o) /\ UNCHANGED faults
    ELSE \/ Submit(o, TRUE) /\ UNCHANGED faults
         \/ Submit(o, FALSE) /\ Interfere

\* The answer names the job; a call is over with its answer.
Accepted(r) ==
    IF Kind(r) = "call" THEN Concludes(r, "succeeded")
    ELSE [Concludes(r, "running") EXCEPT !.handle = TRUE]

\* The write arrives and is answered; or the answer, or the write, is lost or
\* comes too late; or it is refused.
Answered(r) ==
    /\ round[r].pc = "waiting"
    /\ \/ Lands(Op(r)) /\ Goes(r, Accepted(r)) /\ UNCHANGED stray
       \/ /\ GoesWrong(r, "retryable") /\ UNCHANGED jobVars
          /\ stray' \in {stray, stray \cup {Op(r)}}
       \/ GoesWrong(r, "other") /\ UNCHANGED <<jobVars, stray>>
    /\ UNCHANGED <<ledgerVars, sent>>

StrayLands(o) ==
    /\ o \in stray
    /\ stray' = stray \ {o}
    /\ Lands(o)
    /\ UNCHANGED <<ledgerVars, round, sent>>

\* recover_handle looks for the job among those of the host, without sending again.
Recovers(r) ==
    /\ round[r].pc = "recover"
    /\ \/ /\ job[Op(r)].state # "none"
          /\ Goes(r, [To(r, "observe") EXCEPT !.handle = TRUE]) /\ UNCHANGED faults
       \/ /\ job[Op(r)].state = "none"
          /\ Goes(r, Concludes(r, StillGoing(r))) /\ UNCHANGED faults
       \/ GoesWrong(r, "retryable")
    /\ UNCHANGED <<ledgerVars, jobVars, stray, sent>>

\* Mutant: any boot will do, the one the preflight report shows included.
Rebooted_Anyway(r, proof) == proof # -1

\* The host runs with another boot id than the one in the preflight report.
Rebooted(r, proof) == proof # -1 /\ boot # proof

\* What a job's state means for its operation.
Outcome(state) ==
    CASE state = "timed_out"       -> "failed"
      [] state = "outcome_unknown" -> "needs_attention"
      [] state \in {"succeeded", "failed", "cancelled"} -> state
      [] OTHER -> "running"

\* After an observation: a job that goes on and should not is asked to stop.
GoesOnWith(r, seen, view) ==
    IF view.state \notin Terminal /\ seen.cancelling
    THEN [seen EXCEPT !.pc = "cancel", !.view = view]
    ELSE [seen EXCEPT !.pc = "finish", !.status =
             IF view.state = "succeeded" /\ Checked(r) /\ view.proof = -1
             THEN "needs_attention" ELSE Outcome(view.state)]

\* confirm_reboot, told is whether host.facts answers; and what follows when the reboot is not
\* confirmed: a command that failed with an exit code has failed.
AfterReboot(r, seen, view, told) ==
    \E code \in BOOLEAN :
        Goes(r, [seen EXCEPT !.pc = "finish", !.status =
            CASE told /\ Late(r) -> "needs_attention"
              [] told /\ ~Late(r) /\ Rebooted(r, view.proof) -> "succeeded"
              [] OTHER -> IF view.state = "failed" /\ code THEN "failed" ELSE "reconciling"])

\* The round after jobs.status and jobs.logs have shown this much of the job.  The first
\* line of the helper decides: its report, or on an ended job its refusal.
Observed(r, view, told) ==
    LET proven == view.proof # -1 \/ round[r].saw = "proof"
        seen == [round[r] EXCEPT !.saw = IF Checked(r) /\ proven THEN "proof" ELSE @]
    IN IF Checked(r) /\ ~proven /\ view.refused /\ view.state \in Terminal
       THEN Goes(r, Concludes(r, "failed"))
       ELSE IF Kind(r) = "reboot" /\ proven THEN AfterReboot(r, seen, view, told)
       ELSE IF Kind(r) = "service" /\ view.state = "succeeded"
       THEN Goes(r, [seen EXCEPT !.pc = "verify", !.saw = "receipt"])
       ELSE Goes(r, GoesOnWith(r, seen, view))

\* jobs.status of a known job writes what has become of it.
Statused(o) ==
    \/ job' = job
    \/ Abandoned(o) /\ job' = [job EXCEPT ![o] = Reaped(o)]

Observes(r) ==
    LET o == Op(r) IN
    /\ round[r].pc = "observe"
    /\ \/ /\ ~Checked(r) /\ Late(r)
          /\ Goes(r, Fails(r, "other")) /\ UNCHANGED <<job, faults>>
       \/ /\ Checked(r) \/ ~Late(r)
          /\ job[o].state = "none"
          /\ Goes(r, Fails(r, "other")) /\ UNCHANGED <<job, faults>>
       \/ /\ Checked(r) \/ ~Late(r)
          /\ job[o].state # "none"
          /\ Statused(o)
          /\ \/ Observed(r, job'[o], TRUE) /\ UNCHANGED faults
             \/ Observed(r, job'[o], FALSE) /\ Interfere
       \/ /\ Interfere                  \* jobs.status or jobs.logs cannot be read
          /\ Statused(o)
          /\ \/ Goes(r, Fails(r, "retryable"))
             \/ /\ Kind(r) = "reboot" /\ job[o].proof # -1
                /\ \E told \in BOOLEAN :
                      AfterReboot(r, [round[r] EXCEPT !.saw = "proof"],
                                  [job[o] EXCEPT !.state = "running"], told)
    /\ UNCHANGED <<ledgerVars, boot, service, stray, sent>>

\* jobs.cancel, at the revision that was observed.
AsksToStop(r) ==
    /\ round[r].pc = "cancel"
    /\ \/ /\ job[Op(r)].state = round[r].view.state /\ job[Op(r)].cancel = round[r].view.cancel
          /\ AskToStop(Op(r))
          /\ Goes(r, Concludes(r, "cancelling")) /\ UNCHANGED faults
       \/ /\ job[Op(r)] # round[r].view
          /\ Goes(r, Fails(r, "other")) /\ UNCHANGED <<jobVars, faults>>
       \/ /\ GoesWrong(r, "retryable")
          /\ UNCHANGED jobVars \/ AskToStop(Op(r))
    /\ UNCHANGED <<ledgerVars, stray, sent>>

\* verify_service: the receipt must prove the action, and the unit must be seen twice, five
\* seconds apart and not restarted in between, in the state that the action left it in.  Two
\* minutes after the first look, or with the deadline, the verification is over: before a look
\* at the unit or after it.
Verifies(r) ==
    LET finds(status, saw) == Goes(r, [Concludes(r, status) EXCEPT !.saw = saw])
        found == service[Op(r)]
        shows == job[Op(r)].shows
    IN /\ round[r].pc = "verify"
       /\ \/ /\ finds("needs_attention", round[r].saw)        \* time is up
             /\ UNCHANGED faults
          \/ /\ shows = "unproven"
             /\ finds("needs_attention", round[r].saw) /\ UNCHANGED faults
          \/ /\ ~Late(r) /\ shows = "missed"
             /\ finds("failed", "receipt") /\ UNCHANGED faults
          \/ /\ ~Late(r) /\ shows = "asked"
             /\ CASE found = "failed" -> finds("failed", "receipt")
                  [] found = "acted" -> \/ finds("reconciling", "stable")
                                        \/ round[r].saw = "stable" /\ finds("succeeded", "stable")
                  [] OTHER -> finds("reconciling", "receipt")
             /\ UNCHANGED faults
          \/ /\ ~Late(r) /\ shows = "asked"
             /\ Interfere                           \* units.status cannot be read
             /\ finds("reconciling", round[r].saw)
       /\ UNCHANGED <<ledgerVars, jobVars, stray, sent>>

Finishes(r) ==
    /\ round[r].pc = "finish"
    /\ FinishOperation(r, Op(r), round[r].status, round[r].started, round[r].handle, round[r].saw)
    /\ Goes(r, Idle)
    /\ UNCHANGED <<jobVars, stray, sent, faults>>

\* The process dies, or an error that no clause expects ends the round.
Crash(r) ==
    /\ round[r].pc # "idle"
    /\ Interfere
    /\ Goes(r, Idle)
    /\ stray' \in IF round[r].pc = "waiting" THEN {stray, stray \cup {Op(r)}} ELSE {stray}
    /\ UNCHANGED <<ledgerVars, jobVars, sent>>

Round(r) == \/ Claims(r) \/ Decides(r) \/ Validates(r) \/ Checkpoints(r) \/ Sends(r)
            \/ Answered(r) \/ Recovers(r) \/ Observes(r) \/ AsksToStop(r) \/ Verifies(r)
            \/ Finishes(r)

-----------------------------------------------------------------------------
(* The jobs, the administrators and time.                                  *)

\* How a job may end from here: systemctl can be refused, fail or time out; a helper or a
\* command can fail or be killed at its time limit, and succeed only if it was started.
Endings(o) ==
    {"failed", "outcome_unknown"}
        \cup (IF op[o].kind = "service" THEN {} ELSE {"timed_out"})
        \cup (IF op[o].kind # "service" /\ job[o].phase = "working" THEN {"succeeded"} ELSE {})

Works(o) ==
    /\ \/ JobBegins(o)
       \/ op[o].kind \in HostControlled /\ (JobChecks(o) \/ JobRefuses(o))
       \/ op[o].kind \in HostControlled /\ JobWorks(o, "checked")
       \/ op[o].kind \notin HostControlled /\ JobWorks(o, "begun")
       \/ /\ op[o].kind = "service" /\ job[o].phase = "working"
          /\ \E shows \in Effects \ {"none"} : ServiceActed(o, shows)
       \/ /\ job[o].phase \in {"begun", "checked", "working"}
          /\ \E state \in Endings(o) : JobEnds(o, state)
       \/ JobStops(o)
    /\ UNCHANGED <<ledgerVars, roundVars>>

\* A host goes down by an operation that reboots it, or by itself.
Reboots ==
    /\ HostReboots
    /\ IF \E o \in Operations : op[o].kind = "reboot" /\ job[o].ran > 0 /\ job[o].proof = boot
       THEN UNCHANGED faults ELSE Interfere
    /\ UNCHANGED <<ledgerVars, round, stray, sent>>

ServiceDrifts(o) == ServiceChanges(o) /\ Interfere /\ UNCHANGED <<ledgerVars, round, stray, sent>>

Administers(o) ==
    /\ \/ \E k \in Kinds : Prepare(o, k) /\ UNCHANGED faults
       \/ Approve(o) /\ UNCHANGED faults
       \/ CancelOperation(o) /\ Interfere
    /\ UNCHANGED <<jobVars, round, stray, sent>>

\* The lease of a round that is still going on only runs out when the round is slow.
LeaseEnds(o) ==
    /\ LeaseRunsOut(o)
    /\ IF \E r \in Runners : Op(r) = o /\ HoldsLease(r, o) THEN Interfere ELSE UNCHANGED faults
    /\ UNCHANGED <<jobVars, round, stray, sent>>

\* An approval is not looked at any more once the write has been checkpointed.
TimePasses(o) ==
    /\ (~op[o].started /\ ApprovalLapses(o)) \/ DeadlinePasses(o)
    /\ UNCHANGED <<jobVars, roundVars>>

Next ==
    \/ \E r \in Runners : Round(r) \/ Crash(r)
    \/ \E o \in Operations : \/ StrayLands(o) \/ Works(o) \/ ServiceDrifts(o)
                             \/ Administers(o) \/ LeaseEnds(o) \/ TimePasses(o)
    \/ Reboots

Spec == Init /\ [][Next]_vars

\* Runners poll for ever and time passes; neither jobs nor administrators, nor
\* the network, owe anything.
FairSpec ==
    /\ Spec
    /\ \A r \in Runners : WF_vars(Round(r))
    /\ \A o \in Operations : WF_vars(LeaseEnds(o)) /\ WF_vars(TimePasses(o))

-----------------------------------------------------------------------------
(* Properties.                                                             *)

\* The ledger, the rounds, the receipts and the host stay within their types.
TypeOK ==
    /\ \A o \in Operations :
        /\ op[o].kind \in Kinds /\ op[o].status \in Statuses
        /\ {op[o].owner, op[o].fence} \subseteq Runners \cup {Nobody}
        /\ op[o].live => op[o].owner # Nobody
        /\ op[o].saw \in {"none", "proof", "receipt", "stable"}
        /\ approval[o].state \in {"none", "given", "consumed"}
        /\ job[o].state \in JobStates /\ job[o].phase \in Phases
        /\ job[o].shows \in Effects
        /\ Alive(o) => job[o].state \notin Terminal
    /\ \A r \in Runners : round[r] = Idle \/ Op(r) \in Operations
    /\ stray \subseteq Operations

\* The write of an operation is sent once at most and takes effect once at most,
\* and only under an approval that was used up for it: whatever answers are lost,
\* whoever dies, and however often the operation changes hands.
SubmittedOnce ==
    \A o \in Operations :
        /\ sent[o] <= 1
        /\ job[o].ran <= sent[o]
        /\ sent[o] = 1 => approval[o].state = "consumed"

\* What an ended operation says is true.  One that ended without a submission has
\* sent nothing, and never will.  A success means that the job succeeded and that its receipt
\* shows what a systemd action was asked for, or that the host has rebooted since it reported
\* its preflight.  A failure within the deadline means that the job failed, that the command
\* was refused and never ran, or that the unit is not as it was asked for although its job
\* succeeded.  And a cancelled job was cancelled.
OutcomeTruthful ==
    \A o \in Operations :
        LET unsent == ~op[o].started /\ ~op[o].handle
            state == job[o].state
        IN /\ op[o].status \in {"failed", "cancelled"} /\ unsent =>
                  sent[o] = 0 /\ \A r \in Runners : Op(r) = o => round[r].pc # "send"
           /\ op[o].status = "succeeded" =>
                  IF op[o].kind = "reboot" /\ job[o].proof # -1 THEN boot > job[o].proof
                  ELSE /\ state = "succeeded" /\ job[o].ran = 1
                       /\ op[o].kind = "service" => job[o].shows = "asked"
           /\ op[o].status = "failed" /\ ~unsent /\ op[o].age = "ontime" =>
                  \/ state \in {"failed", "timed_out"}
                  \/ job[o].refused /\ job[o].ran = 0
                  \/ /\ op[o].kind = "service" /\ state = "succeeded"
                     /\ job[o].shows = "missed" \/ service[o] = "failed"
           /\ op[o].status = "cancelled" /\ ~unsent => state = "cancelled"

\* An operation that was approved, or asked to stop, ends or is left to an
\* administrator: no dead runner, lost answer or job that never ends holds it up.
OperationsSettle ==
    \A o \in Operations :
        op[o].status \in InFlight ~> op[o].status \in Ended \cup {"needs_attention"}
=============================================================================
