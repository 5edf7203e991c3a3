--------------------------- MODULE OperationLedger ---------------------------
(***************************************************************************)
(* The ledger of managed writes (fleet_operations and fleet_approvals in   *)
(* cluster_control/execution_storage.py): a write on a host is prepared,   *)
(* approved by an administrator, claimed by a runner under a lease,        *)
(* checkpointed before it is sent, and observed until it has ended.        *)
(*                                                                         *)
(* Every method is one transaction and one operator here.  Time is kept as *)
(* facts: "live" is lease_expires_at > now, "lapsed" is the approval's     *)
(* expires_at <= now, and age tells whether deadline_at, and then the two  *)
(* minutes of grace after it, have passed.  Nothing changes the contract   *)
(* of a stored operation, so the comparisons of its hash and version are   *)
(* left out.  Every round of a runner claims again: fence is kept as the   *)
(* runner whose claim is the latest, which is all that is compared.        *)
(***************************************************************************)
EXTENDS Integers, FiniteSets

CONSTANTS
    Operations,     \* operation ids
    Runners,        \* owner ids of OpsManagementService, one per process
    Nobody          \* lease_owner NULL

ASSUME LedgerAssumption == IsFiniteSet(Operations) /\ Nobody \notin Runners

VARIABLES
    op,         \* fleet_operations
    approval    \* fleet_approvals: at most one per operation

ledgerVars == <<op, approval>>

\* How an operation is carried out:
\*   call, job             by the hub, at once or as a job of its own;
\*   service               over SSH, as a systemd action that is verified afterwards;
\*   command, reboot       over SSH, by the checked helper of the host ("host_control").
Kinds == {"call", "job", "service", "command", "reboot"}
HostControlled == {"command", "reboot"}

Ended == {"succeeded", "failed", "cancelled"}
InFlight == {"queued", "running", "reconciling", "cancelling"}
Statuses == {"absent", "awaiting_approval", "needs_attention"} \cup InFlight \cup Ended

\* started and saw are what result_json keeps: submission_started, and the
\* evidence of earlier rounds; handle says that backend_operation_id is known.
NoOperation == [kind |-> "call", status |-> "absent", owner |-> Nobody, live |-> FALSE,
                fence |-> Nobody, started |-> FALSE, handle |-> FALSE, saw |-> "none",
                age |-> "ontime"]

LedgerInit ==
    /\ op = [o \in Operations |-> NoOperation]
    /\ approval = [o \in Operations |-> [state |-> "none", lapsed |-> FALSE]]

\* Mutant: the row is given back with its lease still running.
Released_KeepsLease(row, status) == [row EXCEPT !.status = status, !.owner = Nobody]

Released(row, status) == [row EXCEPT !.status = status, !.owner = Nobody, !.live = FALSE]

-----------------------------------------------------------------------------
\* prepare_operation, with an idempotency key that is not stored yet.
Prepare(o, kind) ==
    /\ op[o].status = "absent"
    /\ op' = [op EXCEPT ![o].kind = kind, ![o].status = "awaiting_approval"]
    /\ UNCHANGED approval

\* approve_operation.
Approve(o) ==
    /\ op[o].status = "awaiting_approval"
    /\ op[o].age = "ontime"
    /\ approval' = [approval EXCEPT ![o].state = "given"]
    /\ op' = [op EXCEPT ![o].status = "queued"]

\* cancel_operation: what has been claimed is only asked to stop.
CancelOperation(o) ==
    /\ op[o].status \notin Ended \cup {"absent"}
    /\ op' = [op EXCEPT ![o].status =
                IF @ \in {"awaiting_approval", "queued"} THEN "cancelled" ELSE "cancelling"]
    /\ UNCHANGED approval

Claimable(o) == op[o].status \in InFlight /\ ~op[o].live

ApprovalUsable(o) == approval[o].state = "given" /\ ~approval[o].lapsed

\* Mutant: an operation that was dispatched without a trace is dispatched again.
OutcomeUnknown_Never(o) == FALSE

\* Dispatched before, and nothing recorded that would find it again.
OutcomeUnknown(o) ==
    op[o].status # "queued" /\ ~op[o].handle /\ op[o].kind \notin HostControlled

\* claim_managed_operation, of an operation that can be taken up.
Claim(r, o) ==
    /\ Claimable(o)
    /\ op[o].status = "queued" => ApprovalUsable(o)
    /\ ~OutcomeUnknown(o)
    /\ op' = [op EXCEPT ![o].status = IF @ = "cancelling" THEN @ ELSE "running",
                        ![o].owner = r, ![o].live = TRUE, ![o].fence = r]
    /\ approval' = IF op[o].status = "queued"
                   THEN [approval EXCEPT ![o].state = "consumed"] ELSE approval

\* claim_managed_operation, of one that is left to an administrator.
Refuse(o) ==
    /\ Claimable(o)
    /\ (op[o].status = "queued" /\ ~ApprovalUsable(o)) \/ OutcomeUnknown(o)
    /\ op' = [op EXCEPT ![o] = Released(@, "needs_attention")]
    /\ UNCHANGED approval

HoldsLease(r, o) == op[o].owner = r /\ op[o].fence = r /\ op[o].live

\* checkpoint_managed_operation accepts: the last look before a write is sent.
CheckpointAccepted(r, o) ==
    /\ HoldsLease(r, o)
    /\ op[o].age = "ontime"
    /\ op[o].status = "running"
    /\ approval[o] = [state |-> "consumed", lapsed |-> FALSE]

Checkpoint(o) ==
    /\ op' = [op EXCEPT ![o].started = TRUE]
    /\ UNCHANGED approval

\* finish_managed_operation: refused without the lease; a cancellation that came
\* in meanwhile is kept while the operation goes on.
FinishOperation(r, o, status, started, handle, saw) ==
    /\ op' = IF ~HoldsLease(r, o) THEN op
             ELSE [op EXCEPT ![o] =
                     [Released(@, IF @.status = "cancelling" /\ status \in {"running", "reconciling"}
                                  THEN "cancelling" ELSE status)
                        EXCEPT !.started = started, !.handle = handle, !.saw = saw]]
    /\ UNCHANGED approval

-----------------------------------------------------------------------------
\* Time.
ApprovalLapses(o) ==
    /\ op[o].status \in InFlight /\ approval[o].state # "none" /\ ~approval[o].lapsed
    /\ approval' = [approval EXCEPT ![o].lapsed = TRUE]
    /\ UNCHANGED op

DeadlinePasses(o) ==
    /\ op[o].status \in InFlight \cup {"awaiting_approval"} /\ op[o].age # "over"
    /\ op' = [op EXCEPT ![o].age = IF @ = "ontime" THEN "late" ELSE "over"]
    /\ UNCHANGED approval

LeaseRunsOut(o) ==
    /\ op[o].live
    /\ op' = [op EXCEPT ![o].live = FALSE]
    /\ UNCHANGED approval
=============================================================================
