------------------------------ MODULE Guardians ------------------------------
(***************************************************************************)
(* The guardians of a target (cluster_control/guardian.py, guardian_ops.py *)
(* and the guardian and incident tables of reliability.py) with the ledger *)
(* of managed writes, OperationLedger, that their repairs go through.      *)
(*                                                                         *)
(* A control process claims a guardian under a lease, probes its target,   *)
(* opens or closes the incident of the target, may propose a repair, and   *)
(* records the check.  A repair is an operation of the ledger: its owner   *)
(* has to confirm it, which uses up one of the guardian's actions, and a   *)
(* runner asks the guardian again before it sends the write.  Repairs are  *)
(* numbered: the idempotency key of the next one is actions_used + 1.      *)
(*                                                                         *)
(* The guardians here share one target, hence one incident and one host.   *)
(* next_check_at and starts_at only say how long a claim waits, and time   *)
(* may pass between any two steps: they are left out.  So are severity and *)
(* texts of incidents.  What a round of a runner does once the write has   *)
(* been sent is ManagedOperations; here its verdict is any it may reach.   *)
(***************************************************************************)
EXTENDS OperationLedger

CONSTANTS
    Guardians,      \* guardian ids
    Repairing,      \* those in mode "remediate"; the others only observe
    Checkers,       \* owner ids of GuardianService, one per start of the process
    Threshold,      \* failure_threshold
    MaxActions,     \* max_actions of a guardian that repairs
    MaxFailures     \* bound on consecutive_failures

ConstantsOK ==
    /\ Operations = Guardians \X (1..MaxActions)
    /\ Repairing \subseteq Guardians
    /\ Nobody \notin Checkers
    /\ Threshold \in Nat \ {0}
    /\ MaxActions \in Nat \ {0}
    /\ MaxFailures \in Nat

VARIABLES
    status, used, failures,     \* fleet_guardians: status, actions_used,
                                \*   consecutive_failures
    lease, live,                \* check_lease_owner; those whose
                                \*   check_lease_until is not over
    expired,                    \* those whose expires_at is over
    check,                      \* what each control process is doing
    round,                      \* what each runner is doing
    cooled,                     \* repairs that succeeded an interval ago
    incident, maintenance,      \* of the target and of its host
    told,                       \* history: guardians that have reported a
                                \*   failure since they last recorded a pass
    sent                        \* history: repairs whose write was sent

guards == <<status, used, failures, lease, live, expired>>
world == <<cooled, incident, maintenance, told, sent>>
vars == <<op, approval, status, used, failures, lease, live, expired, check,
          round, cooled, incident, maintenance, told, sent>>

\* The guardian and the number of a repair.
Of(o) == o[1]
Number(o) == o[2]

\* failures and used are the claimed row's; late: its lease would be over by now.
NoCheck == [at |-> "idle", g |-> Nobody, failures |-> 0, used |-> 0,
            outcome |-> "unknown", attention |-> FALSE, late |-> FALSE]

NoRound == [at |-> "idle", op |-> Nobody, started |-> FALSE, handle |-> FALSE,
            verdict |-> "failed"]

Init ==
    /\ LedgerInit
    /\ status = [g \in Guardians |-> "absent"]
    /\ used = [g \in Guardians |-> 0]
    /\ failures = [g \in Guardians |-> 0]
    /\ lease = [g \in Guardians |-> Nobody]
    /\ live = {} /\ expired = {}
    /\ check = [c \in Checkers |-> NoCheck]
    /\ round = [r \in Runners |-> NoRound]
    /\ cooled = {} /\ incident = "none" /\ maintenance = FALSE
    /\ told = {} /\ sent = {}

-----------------------------------------------------------------------------
(* The check of a guardian: GuardianService._check.                        *)

\* What the first statement of guardians and of claim_due_guardians makes of a row.
Swept(g) ==
    IF status[g] \in {"scheduled", "active", "paused", "needs_attention"} /\ g \in expired
    THEN "completed" ELSE status[g]

Busy(c) == check[c].at \notin {"idle", "gone"}

ChecksOn(c, next) == check' = [check EXCEPT ![c] = next]

Then(c, at) == [check[c] EXCEPT !.at = at]

ClaimCheck(c) ==
    /\ check[c].at = "idle"
    /\ \E g \in Guardians :
        /\ status[g] \in {"scheduled", "active", "needs_attention"}
        /\ g \notin expired /\ g \notin live
        /\ status' = [h \in Guardians |-> IF h = g THEN "active" ELSE Swept(h)]
        /\ lease' = [lease EXCEPT ![g] = c]
        /\ live' = live \cup {g}
        /\ ChecksOn(c, [NoCheck EXCEPT !.at = "probing", !.g = g,
                                       !.failures = failures[g], !.used = used[g]])
    /\ UNCHANGED <<ledgerVars, used, failures, expired, round, world>>

Sweep ==
    /\ status' = [g \in Guardians |-> Swept(g)]
    /\ UNCHANGED <<ledgerVars, used, failures, lease, live, expired, check, round, world>>

\* The target is not registered as it was, or its probe passes or fails.
Probe(c) ==
    /\ check[c].at = "probing"
    /\ \/ ChecksOn(c, [Then(c, "finishing") EXCEPT !.outcome = "unknown"])
       \/ ChecksOn(c, [Then(c, IF check[c].failures >= Threshold THEN "recovering"
                                                                 ELSE "finishing")
                         EXCEPT !.outcome = "passed"])
       \/ /\ check[c].failures < MaxFailures
          /\ ChecksOn(c, [Then(c, IF check[c].failures + 1 >= Threshold THEN "observing"
                                                                        ELSE "finishing")
                            EXCEPT !.outcome = "failed"])
    /\ UNCHANGED <<ledgerVars, guards, round, world>>

\* recover_incident.
Recover(c) ==
    /\ check[c].at = "recovering"
    /\ incident' = IF incident = "open" THEN "resolved" ELSE incident
    /\ ChecksOn(c, Then(c, "finishing"))
    /\ UNCHANGED <<ledgerVars, guards, round, cooled, maintenance, told, sent>>

\* observe_incident.
Observe(c) ==
    LET g == check[c].g IN
    /\ check[c].at = "observing"
    /\ incident' = "open"
    /\ told' = told \cup {g}
    /\ ChecksOn(c, Then(c, IF g \in Repairing /\ check[c].used < MaxActions
                           THEN "proposing" ELSE "finishing"))
    /\ UNCHANGED <<ledgerVars, guards, round, cooled, maintenance, sent>>

\* A repair that is under way or done needs no attention, any other one does.
Reports(c, repair) ==
    ChecksOn(c, [Then(c, "finishing") EXCEPT
        !.attention = op[repair].status \notin {"queued", "running", "succeeded"}])

\* The last repair was used up and has not succeeded, or not an interval ago.
Unsettled(g, n) == n > 0 /\ (op[<<g, n>>].status # "succeeded" \/ <<g, n>> \notin cooled)

\* GuardianOpsBridge.submit, with the row as it was claimed; whatever it raises
\* calls for attention.
Propose(c) ==
    LET g == check[c].g
        n == check[c].used
        next == <<g, n + 1>>
        refused == ChecksOn(c, [Then(c, "finishing") EXCEPT !.attention = TRUE])
    IN /\ check[c].at = "proposing"
       /\ \/ refused /\ UNCHANGED ledgerVars    \* scope, target or catalog changed
          \/ /\ ~maintenance /\ g \notin expired /\ ~check[c].late
             /\ \/ /\ Unsettled(g, n)
                   /\ Reports(c, <<g, n>>) /\ UNCHANGED ledgerVars
                \/ /\ ~Unsettled(g, n) /\ op[next].status # "absent"
                   /\ Reports(c, next) /\ UNCHANGED ledgerVars
                \/ /\ ~Unsettled(g, n)
                   /\ \E kind \in {"service", "job"} : Prepare(next, kind)
                   /\ refused                   \* it awaits approval
       /\ UNCHANGED <<guards, round, world>>

\* guardian_status_after_check, with the row's counters after this check.
StatusAfter(c, g, counted) ==
    LET spent == g \notin Repairing \/ used[g] >= MaxActions IN
    CASE g \in expired -> "completed"
      [] g \notin expired /\ check[c].outcome = "passed" -> "active"
      [] g \notin expired /\ check[c].outcome # "passed" ->
            IF \/ check[c].outcome = "unknown" \/ check[c].attention
               \/ counted >= Threshold /\ spent
            THEN "needs_attention" ELSE "active"

HoldsCheck(c, g) == lease[g] = c /\ g \in live

\* finish_guardian_check: raises when the lease is stale, which ends the check.
FinishCheck(c) ==
    LET g == check[c].g
        counted == CASE check[c].outcome = "passed"  -> 0
                     [] check[c].outcome = "failed"  -> failures[g] + 1
                     [] check[c].outcome = "unknown" -> failures[g]
    IN /\ check[c].at = "finishing"
       /\ IF HoldsCheck(c, g)
          THEN /\ status' = [status EXCEPT ![g] = StatusAfter(c, g, counted)]
               /\ failures' = [failures EXCEPT ![g] = counted]
               /\ lease' = [lease EXCEPT ![g] = Nobody]
               /\ live' = live \ {g}
               /\ told' = IF check[c].outcome = "passed" THEN told \ {g} ELSE told
          ELSE UNCHANGED <<status, failures, lease, live, told>>
       /\ ChecksOn(c, NoCheck)
       /\ UNCHANGED <<ledgerVars, used, expired, round, cooled, incident, maintenance, sent>>

\* A call of the store fails and run goes on; or the process ends.
BreakOff(c) ==
    /\ Busy(c)
    /\ ChecksOn(c, NoCheck)
    /\ UNCHANGED <<ledgerVars, guards, round, world>>

StopChecking(c) ==
    /\ check[c].at # "gone"
    /\ ChecksOn(c, [NoCheck EXCEPT !.at = "gone"])
    /\ UNCHANGED <<ledgerVars, guards, round, world>>

Checks(c) == \/ ClaimCheck(c) \/ Probe(c) \/ Recover(c) \/ Observe(c) \/ Propose(c)
             \/ FinishCheck(c) \/ BreakOff(c) \/ StopChecking(c)

-----------------------------------------------------------------------------
(* The administrators.                                                     *)

Create(g) ==
    /\ status[g] = "absent"
    /\ status' = [status EXCEPT ![g] = "scheduled"]
    /\ UNCHANGED <<ledgerVars, used, failures, lease, live, expired, check, round, world>>

\* set_guardian_status, of the version that the administrator has seen.
SetStatus(g, new) ==
    /\ status[g] # "absent"
    /\ g \in expired => new = "cancelled"
    /\ status' = [status EXCEPT ![g] = new]
    /\ lease' = [lease EXCEPT ![g] = Nobody]
    /\ live' = live \ {g}
    /\ UNCHANGED <<ledgerVars, used, failures, expired, check, round, world>>

Approved(o) == approval[o].state # "none"

\* The latest other repair of the guardian that was approved, if there is one.
Previous(o) ==
    {p \in Operations \ {o} :
        /\ Of(p) = Of(o) /\ Approved(p)
        /\ \A q \in Operations \ {o} :
              Of(q) = Of(o) /\ Approved(q) => Number(q) =< Number(p)}

\* GuardianOpsBridge.approve: the action is used up (_reserve) in the transaction
\* that approves the operation.
Confirm(o) ==
    LET g == Of(o) IN
    /\ ~maintenance
    /\ g \in Repairing /\ g \notin expired
    /\ status[g] \in {"active", "needs_attention"}
    /\ used[g] < MaxActions
    /\ Number(o) = used[g] + 1
    /\ \A p \in Previous(o) : op[p].status = "succeeded" /\ p \in cooled
    /\ Approve(o)
    /\ used' = [used EXCEPT ![g] = @ + 1]
    /\ UNCHANGED <<status, failures, lease, live, expired, check, round, world>>

CancelRepair(o) == CancelOperation(o) /\ UNCHANGED <<guards, check, round, world>>

\* resolve_incident.
Resolve ==
    /\ incident = "open"
    /\ incident' = "resolved"
    /\ UNCHANGED <<ledgerVars, guards, check, round, cooled, maintenance, told, sent>>

\* A deployment takes the host or gives it back.
Maintain ==
    /\ maintenance' = ~maintenance
    /\ UNCHANGED <<ledgerVars, guards, check, round, cooled, incident, told, sent>>

Administer ==
    \/ \E g \in Guardians : Create(g) \/ \E new \in {"active", "paused", "cancelled"} : SetStatus(g, new)
    \/ \E o \in Operations : Confirm(o) \/ CancelRepair(o)
    \/ Resolve \/ Maintain

-----------------------------------------------------------------------------
(* The round of a runner: OpsManagementService.run_once for a repair.      *)

RunsOn(r, next) == round' = [round EXCEPT ![r] = next]

Ends(r, verdict) == [round[r] EXCEPT !.at = "finishing", !.verdict = verdict]

TakeUp(r) ==
    /\ round[r].at = "idle"
    /\ \E o \in Operations :
        \/ /\ Claim(r, o)
           /\ RunsOn(r, [NoRound EXCEPT !.op = o, !.started = op[o].started,
                                        !.handle = op[o].handle,
                                        !.at = IF op[o].handle THEN "observing"
                                                               ELSE "authorizing"])
        \/ Refuse(o) /\ UNCHANGED round
    /\ UNCHANGED <<guards, check, world>>

\* validate_dispatch reads the guardian, then _validate_submission the operation.
Authorize(r) ==
    LET g == Of(round[r].op) IN
    /\ round[r].at = "authorizing"
    /\ \/ /\ ~maintenance /\ g \notin expired /\ g \in Repairing
          /\ status[g] \in {"scheduled", "active", "needs_attention"}
          /\ Approved(round[r].op) /\ used[g] > 0
          /\ RunsOn(r, [round[r] EXCEPT !.at = "validating"])
       \/ RunsOn(r, Ends(r, "needs_attention"))
       \/ RunsOn(r, Ends(r, "failed"))
    /\ UNCHANGED <<ledgerVars, guards, check, world>>

Validate(r) ==
    LET o == round[r].op IN
    /\ round[r].at = "validating"
    /\ IF op[o].status = "running" /\ op[o].fence = r /\ op[o].age = "ontime"
       THEN RunsOn(r, [round[r] EXCEPT !.started = TRUE,
                       !.at = IF op[o].kind = "service" THEN "committing" ELSE "sending"])
       ELSE RunsOn(r, Ends(r, "needs_attention"))
    /\ UNCHANGED <<ledgerVars, guards, check, world>>

\* checkpoint_managed_operation, over SSH only.
Commit(r) ==
    /\ round[r].at = "committing"
    /\ IF CheckpointAccepted(r, round[r].op)
       THEN Checkpoint(round[r].op) /\ RunsOn(r, [round[r] EXCEPT !.at = "sending"])
       ELSE RunsOn(r, Ends(r, "needs_attention")) /\ UNCHANGED ledgerVars
    /\ UNCHANGED <<guards, check, world>>

\* The answer names the job, or is lost or refused.
Send(r) ==
    /\ round[r].at = "sending"
    /\ sent' = sent \cup {round[r].op}
    /\ \/ RunsOn(r, [Ends(r, "running") EXCEPT !.handle = TRUE])
       \/ \E verdict \in {"reconciling", "needs_attention"} : RunsOn(r, Ends(r, verdict))
    /\ UNCHANGED <<ledgerVars, guards, check, cooled, incident, maintenance, told>>

\* The job of the repair is looked at, and its service when it has ended.
LookAtJob(r) ==
    /\ round[r].at = "observing"
    /\ \E verdict \in Ended \cup {"running", "reconciling", "cancelling", "needs_attention"} :
          RunsOn(r, Ends(r, verdict))
    /\ UNCHANGED <<ledgerVars, guards, check, world>>

FinishRound(r) ==
    /\ round[r].at = "finishing"
    /\ FinishOperation(r, round[r].op, round[r].verdict, round[r].started, round[r].handle, "none")
    /\ RunsOn(r, NoRound)
    /\ UNCHANGED <<guards, check, world>>

StopRunning(r) ==
    /\ round[r].at # "idle"
    /\ RunsOn(r, NoRound)
    /\ UNCHANGED <<ledgerVars, guards, check, world>>

Runs(r) == \/ TakeUp(r) \/ Authorize(r) \/ Validate(r) \/ Commit(r) \/ Send(r)
           \/ LookAtJob(r) \/ FinishRound(r) \/ StopRunning(r)

-----------------------------------------------------------------------------
(* Time.                                                                   *)

\* The lease of a check runs out: 180 seconds after its claim.
CheckLate(c) ==
    LET g == check[c].g IN
    /\ Busy(c) /\ ~check[c].late
    /\ ChecksOn(c, [check[c] EXCEPT !.late = TRUE])
    /\ live' = IF lease[g] = c THEN live \ {g} ELSE live
    /\ UNCHANGED <<ledgerVars, status, used, failures, lease, expired, round, world>>

\* The lease of a check that was broken off runs out.
LeaseLapses(g) ==
    /\ g \in live
    /\ \A c \in Checkers : lease[g] = c /\ Busy(c) => check[c].g # g
    /\ live' = live \ {g}
    /\ UNCHANGED <<ledgerVars, status, used, failures, lease, expired, check, round, world>>

\* An approval is given for no longer than its guardian: it lapses with it.
Expire(g) ==
    /\ status[g] # "absent" /\ g \notin expired
    /\ expired' = expired \cup {g}
    /\ approval' = [o \in Operations |->
          IF Of(o) = g /\ Approved(o) THEN [approval[o] EXCEPT !.lapsed = TRUE] ELSE approval[o]]
    /\ UNCHANGED <<op, status, used, failures, lease, live, check, round, world>>

CoolDown(o) ==
    /\ op[o].status = "succeeded"
    /\ cooled' = cooled \cup {o}
    /\ UNCHANGED <<ledgerVars, guards, check, round, incident, maintenance, told, sent>>

RepairTime(o) ==
    /\ ApprovalLapses(o) \/ DeadlinePasses(o) \/ LeaseRunsOut(o)
    /\ UNCHANGED <<guards, check, round, world>>

TimePasses ==
    \/ \E c \in Checkers : CheckLate(c)
    \/ \E g \in Guardians : LeaseLapses(g) \/ Expire(g)
    \/ \E o \in Operations : CoolDown(o) \/ RepairTime(o)

-----------------------------------------------------------------------------
Next ==
    \/ \E c \in Checkers : Checks(c)
    \/ \E r \in Runners : Runs(r)
    \/ Sweep \/ Administer \/ TimePasses

Spec == Init /\ [][Next]_vars

-----------------------------------------------------------------------------
(* Properties.                                                             *)

GuardianStatuses == {"absent", "scheduled", "active", "paused", "needs_attention",
                     "completed", "cancelled"}

RepairRows == [kind : {"call", "job", "service"}, status : Statuses,
               owner : Runners \cup {Nobody}, live : BOOLEAN, fence : Runners \cup {Nobody},
               started : BOOLEAN, handle : BOOLEAN, saw : {"none"},
               age : {"ontime", "late", "over"}]

ApprovalRows == [state : {"none", "given", "consumed"}, lapsed : BOOLEAN]

LedgerOK == op \in [Operations -> RepairRows] /\ approval \in [Operations -> ApprovalRows]

GuardsOK ==
    /\ status \in [Guardians -> GuardianStatuses]
    /\ used \in [Guardians -> 0..MaxActions]
    /\ failures \in [Guardians -> Nat]
    /\ lease \in [Guardians -> Checkers \cup {Nobody}]
    /\ live \subseteq Guardians /\ expired \subseteq Guardians

ChecksOK ==
    /\ check \in [Checkers ->
          [at : {"idle", "probing", "recovering", "observing", "proposing", "finishing", "gone"},
           g : Guardians \cup {Nobody}, failures : Nat, used : 0..MaxActions,
           outcome : {"passed", "failed", "unknown"}, attention : BOOLEAN, late : BOOLEAN]]
    /\ \A c \in Checkers :
          /\ Busy(c) => check[c].g \in Guardians
          /\ check[c].at = "proposing" => check[c].used < MaxActions

RoundsOK ==
    /\ round \in [Runners ->
          [at : {"idle", "authorizing", "validating", "committing", "sending", "observing",
                 "finishing"},
           op : Operations \cup {Nobody}, started : BOOLEAN, handle : BOOLEAN,
           verdict : Statuses \ {"absent", "awaiting_approval", "queued"}]]
    /\ \A r \in Runners : round[r].at # "idle" => round[r].op \in Operations

WorldOK ==
    /\ cooled \subseteq Operations /\ sent \subseteq Operations /\ told \subseteq Guardians
    /\ incident \in {"none", "open", "resolved"} /\ maintenance \in BOOLEAN

\* The rows, the checks, the rounds and the history stay within their types.
TypeOK == LedgerOK /\ GuardsOK /\ ChecksOK /\ RoundsOK /\ WorldOK

\* actions_used is the number of confirmed repairs, and these are the first ones:
\* no interleaving of checks, confirmations and crashes confirms one that is not
\* counted, counts one twice, or leaves one out.
RepairsCounted ==
    \A o \in Operations : Approved(o) <=> Number(o) =< used[Of(o)]

\* A guardian has one repair under way at a time: every confirmed repair before
\* the latest one was sent, has succeeded, and did so at least an interval ago.
OneRepairAtATime ==
    \A o \in Operations : Number(o) < used[Of(o)] =>
        op[o].status = "succeeded" /\ o \in sent /\ o \in cooled

\* No write is sent for a repair that its owner has not confirmed.
OnlyConfirmedSent ==
    \A o \in sent : Approved(o) /\ Number(o) =< used[Of(o)]

\* A guardian that counts as many failures as its threshold has reported one of
\* them to the incident of its target since it last recorded a pass.
FailuresReported ==
    \A g \in Guardians : failures[g] >= Threshold => g \in told

\* The write of a repair is sent once at most, whatever answers are lost and
\* whoever takes the operation over.
SentOnce == [][\A r \in Runners : Send(r) => round[r].op \notin sent]_vars

\* Over SSH the last look before the write finds the guardian's time not over.
CommittedInTime ==
    [][\A r \in Runners :
          round[r].at = "committing" /\ round'[r].at = "sending" =>
             Of(round[r].op) \notin expired]_vars

\* A guardian that was paused, cancelled or completed is not set going again by a
\* check that was under way: only its owner changes that, or the end of its time.
StopsStay ==
    [][\A g \in Guardians :
          status[g] \in {"paused", "cancelled", "completed"} /\ status'[g] # status[g] =>
             \/ \E new \in {"active", "paused", "cancelled"} : SetStatus(g, new)
             \/ g \in expired /\ status'[g] = "completed"]_vars
=============================================================================
