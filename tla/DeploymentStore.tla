--------------------------- MODULE DeploymentStore ---------------------------
(***************************************************************************)
(* The deployment ledger of the control plane                              *)
(* (cluster_control/deployment_storage.py): a two-phase deployment         *)
(* (preflight, approval, apply), one row per deployment and target host,   *)
(* and host-scoped maintenance locks.                                      *)
(*                                                                         *)
(* Every method of DeploymentStore is one transaction and one operator     *)
(* here; the modules that drive the ledger turn them into actions.  Time   *)
(* is kept as facts that become true: "live" is lease_expires_at > now,    *)
(* "late" is deadline_at <= now, "lapsed" is the approval's expires_at.    *)
(* A lock row is written and renewed together with its deployment's lease, *)
(* so it is kept as the deployment alone and is live when that lease is.   *)
(* The contract hash covers the proposal, which never changes, and the     *)
(* preflight evidence: the evidence stands for it.                         *)
(***************************************************************************)
EXTENDS Integers, Sequences, FiniteSets, Functions

CONSTANTS
    Deployments,    \* deployment ids
    Hosts,          \* host ids
    Deployers,      \* deployer ids
    Nobody,         \* deployer_id NULL, or no deployment
    Order,          \* target_hosts of each deployment's contract
    NoPreview,      \* no preflight evidence yet
    OpsBacked       \* deployments whose contract says backend = "ops"

ASSUME DeploymentsAssumption ==
    /\ IsFiniteSet(Deployments) /\ IsFiniteSet(Hosts)
    /\ Nobody \notin Deployers \cup Deployments
    /\ Order \in [Deployments -> Seq(Hosts)]
    /\ \A d \in Deployments : Order[d] # <<>> /\ IsInjective(Order[d])
    /\ OpsBacked \subseteq Deployments

VARIABLES
    dep,        \* fleet_deployments
    target,     \* fleet_deployment_targets: a status per deployment and host
    lock,       \* fleet_maintenance_locks: the deployment that has the host
    approval    \* fleet_deployment_approvals: at most one per deployment

storeVars == <<dep, target, lock, approval>>

Terminal == {"succeeded", "partial", "failed", "cancelled", "rolled_back", "needs_attention"}
Waiting == {"preflight_queued", "awaiting_approval", "queued"}
Running == {"preflighting", "deploying", "verifying", "rolling_back"}
DeploymentStatuses == {"absent", "cancelling"} \cup Terminal \cup Waiting \cup Running

TargetStatuses == {"pending", "preflighting", "build_ready", "deploying", "verifying", "unknown",
                   "succeeded", "failed", "rollback_pending", "rolling_back", "rolled_back",
                   "rollback_failed", "skipped"}

TargetHosts(d) == Range(Order[d])

NoApproval == [version |-> 0, preview |-> NoPreview, lapsed |-> FALSE, consumed |-> FALSE]

NewRow == [status |-> "absent", phase |-> "preflight", deployer |-> Nobody, live |-> FALSE,
           fence |-> 0, version |-> 1, cancel |-> FALSE, late |-> FALSE, preview |-> NoPreview]

StoreInit ==
    /\ dep = [d \in Deployments |-> NewRow]
    /\ target = [d \in Deployments |-> [h \in TargetHosts(d) |-> "pending"]]
    /\ lock = [h \in Hosts |-> Nobody]
    /\ approval = [d \in Deployments |-> NoApproval]

\* TARGET_TRANSITIONS.
TargetTransitions(s) ==
    {s} \cup
    CASE s = "pending"          -> {"preflighting", "failed", "skipped"}
      [] s = "preflighting"     -> {"build_ready", "failed", "skipped"}
      [] s = "build_ready"      -> {"deploying", "skipped"}
      [] s = "deploying"        -> {"verifying", "failed", "unknown"}
      [] s = "verifying"        -> {"succeeded", "failed", "unknown"}
      [] s \in {"unknown", "succeeded"} -> {"rollback_pending"}
      [] s = "rollback_pending" -> {"rolling_back", "rollback_failed"}
      [] s = "rolling_back"     -> {"rolled_back", "rollback_failed"}
      [] OTHER                  -> {}

\* Mutant: the row is given back without its lease.
Released_KeepsLease(r) == [r EXCEPT !.deployer = Nobody]

\* Mutant: the row keeps its deployer and its lease.
Released_Never(r) == r

Released(r) == [r EXCEPT !.deployer = Nobody, !.live = FALSE]

Closed(r, s) == [r EXCEPT !.status = s, !.phase = "complete", !.version = @ + 1]

Unlocked(d) == [h \in Hosts |-> IF lock[h] = d THEN Nobody ELSE lock[h]]

-----------------------------------------------------------------------------
\* prepare, with a key that is not stored yet.
Prepare(d) ==
    /\ dep[d].status = "absent"
    /\ dep' = [dep EXCEPT ![d].status = "preflight_queued"]
    /\ UNCHANGED <<target, lock, approval>>

\* Mutant: the sweep leaves rows whose lease has run out to whoever held them.
Stale_Never(d) == FALSE

\* _expire_stale picks the running rows whose lease has run out; a row that is
\* cancelling is not among them, and the "ops" back end resumes its own.
Stale(d) == dep[d].status \in Running /\ ~dep[d].live /\ d \notin OpsBacked

\* The row after _expire_stale: a preflight is queued again, an apply is left to
\* an administrator; then what waits past its deadline fails.
Swept(d) ==
    LET r == IF ~Stale(d) THEN dep[d]
             ELSE [Released(dep[d]) EXCEPT
                      !.version = @ + 1,
                      !.status = IF @ \in Running /\ dep[d].phase = "preflight"
                                 THEN "preflight_queued" ELSE "needs_attention"]
    IN IF r.status \in Waiting /\ r.late THEN Closed(r, "failed") ELSE r

SweptLock == [h \in Hosts |-> IF lock[h] # Nobody /\ Stale(lock[h]) THEN Nobody ELSE lock[h]]

\* No other deployment has a live lock on a host that d would change.
HostsFree(d, table) ==
    table[d].phase = "apply" =>
        \A h \in TargetHosts(d) : SweptLock[h] \in {Nobody, d} \/ ~table[SweptLock[h]].live

\* The approval a queued row refers to still covers it.  It expires with the
\* deadline at the latest.
ApprovalHolds(d, r) ==
    /\ approval[d].preview = r.preview
    /\ approval[d].version = r.version
    /\ ~approval[d].lapsed /\ ~r.late
    /\ ~approval[d].consumed

\* Rows that claim may take up for a caller that serves the deployments in D.
\* Only the "ops" back end takes up a row in flight, its own or an abandoned one.
Claimable(o, D, table) ==
    {d \in D : \/ table[d].status \in {"preflight_queued", "queued"} /\ ~table[d].late
               \/ /\ d \in OpsBacked
                  /\ table[d].status \in Running \cup {"cancelling"}
                  /\ table[d].deployer = o \/ ~table[d].live}

Claimed(o, r) ==
    [r EXCEPT !.status = CASE @ = "preflight_queued" -> "preflighting"
                           [] @ = "queued"           -> "deploying"
                           [] OTHER                  -> @,
              !.deployer = o, !.live = TRUE,
              !.fence = IF r.status \in Waiting \/ r.deployer # o \/ ~r.live THEN @ + 1 ELSE @]

\* claim: the sweep, then the rows in the order they were last touched.  Queued
\* rows whose approval no longer holds are closed on the way to the first row
\* that can be taken (d), or all of them when there is none (d = Nobody).  The
\* order is left open: any of the closable rows may lie in front.
ClaimRow(o, D, d) ==
    LET table == [e \in Deployments |-> Swept(e)]
        free == {e \in Claimable(o, D, table) : HostsFree(e, table)}
        bad == {e \in free : table[e].status = "queued" /\ ~ApprovalHolds(e, table[e])}
    IN \E closed \in SUBSET bad :
        /\ IF d = Nobody THEN free = bad /\ closed = bad ELSE d \in free \ bad
        /\ dep' = [e \in Deployments |->
                     IF e \in closed THEN Closed(table[e], "needs_attention")
                     ELSE IF e = d THEN Claimed(o, table[e]) ELSE table[e]]
        /\ IF d # Nobody /\ table[d].phase = "apply"
           THEN /\ lock' = [h \in Hosts |-> IF h \in TargetHosts(d) THEN d ELSE SweptLock[h]]
                /\ approval' = [approval EXCEPT ![d].consumed = TRUE]
           ELSE lock' = SweptLock /\ UNCHANGED approval
        /\ UNCHANGED target

\* _assert_lease.
HoldsLease(o, d, fence) == dep[d].deployer = o /\ dep[d].fence = fence /\ dep[d].live

\* update_target, once its lease and its transition have been accepted.
TargetUpdateAccepted(o, d, fence, h, s) ==
    HoldsLease(o, d, fence) /\ s \in TargetTransitions(target[d][h])

UpdateTarget(d, h, s) ==
    /\ target' = [target EXCEPT ![d][h] = s]
    /\ dep' = [dep EXCEPT ![d].status =
                 IF @ = "cancelling" THEN @
                 ELSE IF s = "verifying" THEN "verifying"
                 ELSE IF s \in {"rollback_pending", "rolling_back"} THEN "rolling_back"
                 ELSE @]
    /\ UNCHANGED <<lock, approval>>

\* What complete_phase makes of an apply, from the target rows.
ApplyStatus(d, ok) ==
    LET states == Range(target[d])
        doubtful == states \cap {"unknown", "rollback_failed"} # {}
    IN IF dep[d].cancel /\ doubtful THEN "needs_attention"
       ELSE IF dep[d].cancel /\ "succeeded" \notin states
            THEN IF "rolled_back" \in states THEN "rolled_back" ELSE "cancelled"
       ELSE IF ok /\ states = {"succeeded"} THEN "succeeded"
       ELSE IF doubtful THEN "needs_attention"
       ELSE IF "rolled_back" \in states THEN "rolled_back"
       ELSE IF "succeeded" \in states THEN "partial"
       ELSE "failed"

PreflightComplete(d) == \A h \in TargetHosts(d) : target[d][h] = "build_ready"

\* complete_phase, for a caller that holds the lease.
CompletePhase(d, ok, evidence) ==
    LET r == Released(dep[d])
    IN /\ dep' = [dep EXCEPT ![d] =
            IF r.phase = "apply" THEN Closed(r, ApplyStatus(d, ok))
            ELSE IF r.cancel THEN Closed(r, "cancelled")
            ELSE IF ~ok \/ ~PreflightComplete(d) THEN Closed(r, "failed")
            ELSE [r EXCEPT !.status = "awaiting_approval", !.phase = "apply",
                           !.preview = evidence, !.version = @ + 1]]
       /\ lock' = Unlocked(d)
       /\ UNCHANGED <<target, approval>>

\* approve, by an administrator who looked at the row when it had this version.
Approve(d, version) ==
    /\ dep[d].status = "awaiting_approval"
    /\ dep[d].version = version
    /\ ~dep[d].late
    /\ approval' = [approval EXCEPT ![d] = [version |-> version + 1, preview |-> dep[d].preview,
                                            lapsed |-> FALSE, consumed |-> FALSE]]
    /\ dep' = [dep EXCEPT ![d].status = "queued", ![d].version = @ + 1]
    /\ UNCHANGED <<target, lock>>

\* cancel: a running deployment is only asked to stop.
Cancel(d) ==
    /\ dep[d].status \notin Terminal \cup {"absent"}
    /\ IF dep[d].status \in Running \cup {"cancelling"}
       THEN /\ dep' = [dep EXCEPT ![d].status = "cancelling", ![d].cancel = TRUE, ![d].version = @ + 1]
            /\ UNCHANGED lock
       ELSE dep' = [dep EXCEPT ![d] = Closed(@, "cancelled")] /\ lock' = Unlocked(d)
    /\ UNCHANGED <<target, approval>>

-----------------------------------------------------------------------------
\* Time.
DeadlinePasses(d) ==
    /\ dep[d].status \in Waiting \cup Running
    /\ ~dep[d].late
    /\ dep' = [dep EXCEPT ![d].late = TRUE]
    /\ UNCHANGED <<target, lock, approval>>

ApprovalLapses(d) ==
    /\ dep[d].status = "queued" /\ ~approval[d].lapsed
    /\ approval' = [approval EXCEPT ![d].lapsed = TRUE]
    /\ UNCHANGED <<dep, target, lock>>

LeaseRunsOut(d) ==
    /\ dep[d].live
    /\ dep' = [dep EXCEPT ![d].live = FALSE]
    /\ UNCHANGED <<target, lock, approval>>
=============================================================================
