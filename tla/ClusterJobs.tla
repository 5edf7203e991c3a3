---------------------------- MODULE ClusterJobs ----------------------------
(***************************************************************************)
(* The worker queue of the cluster control service: the job, reservation,  *)
(* grant, checkpoint, preview and artifact rows of execution_storage.py,   *)
(* the completion handler of execution_service.py that writes them, the    *)
(* owner's policy (resource_policy.py), and the workers that claim, renew, *)
(* checkpoint and report over HTTP (cluster_worker/service.py).            *)
(*                                                                         *)
(* A store method is one transaction and one action.  The completion       *)
(* handler is two transactions, hence two actions joined by a call in      *)
(* flight.  A worker keeps its attempts in RAM and its receipts on disk;   *)
(* a crash loses the first and keeps the second, and systemd restarts the  *)
(* process.  Any request or answer may be lost.                            *)
(*                                                                         *)
(* Data abstracted: capacity is one number (cpu, memory and gpu are        *)
(* checked alike), a result is named by the fence of the attempt that      *)
(* computed it, and the queue order is left open (FOR UPDATE SKIP LOCKED   *)
(* may skip any row).  A worker polls only within 15 s of a heartbeat that *)
(* was answered, so it is always fresh and says it is available when it    *)
(* polls.  The status 'verifying' is never written.  A policy or a grant   *)
(* is open ('available') or closed (the other words), and only a completed *)
(* checkpoint counts: nothing in the code decides by the other words.      *)
(***************************************************************************)
EXTENDS Integers, FiniteSets, Functions

CONSTANTS
    Jobs, Workers, Grants,
    None,           \* SQL NULL
    Previews,       \* the jobs of kind preview.static
    Inspections,    \* the jobs whose receipt settles their artifact
    NeedsGrant,     \* jobs that may not run without a borrow grant
    Deadline,       \* Jobs -> time
    Ttl,            \* Jobs -> expires_at of a preview
    Pinned,         \* Jobs -> the only worker that may run it, or None
    Need,           \* Jobs -> capacity units
    Cost,           \* Jobs -> max_cost_microunits
    Capacity,       \* Workers -> units allowed by the worker and by its owner
    Lender,         \* Grants -> the worker it lends
    GrantUntil,     \* Grants -> valid_until
    GrantUnits,     \* Grants -> capacity units lent at a time
    Budget,         \* Grants -> budget_limit_microunits
    Concurrency,    \* KW_CONCURRENCY
    Lease,          \* ticks of one lease
    MaxClock,       \* bound on the clock
    MaxFaults       \* bound on crashes, lost messages, failures and owners' edits

ASSUME ClusterAssumption ==
    /\ IsFiniteSet(Jobs) /\ IsFiniteSet(Workers) /\ IsFiniteSet(Grants)
    /\ Previews \cup Inspections \cup NeedsGrant \subseteq Jobs
    /\ Previews \cap Inspections = {}
    /\ {Deadline, Ttl, Need, Cost} \subseteq [Jobs -> Nat]
    /\ Pinned \in [Jobs -> Workers \cup {None}]
    /\ Capacity \in [Workers -> Nat] /\ Lender \in [Grants -> Workers]
    /\ {GrantUntil, GrantUnits, Budget} \subseteq [Grants -> Nat]
    /\ \A j \in Jobs : Cost[j] > 0 => j \in NeedsGrant
    /\ {Concurrency, Lease} \subseteq Nat \ {0} /\ {MaxClock, MaxFaults} \subseteq Nat
    /\ None \notin Workers \cup Grants

VARIABLES
    clock,      \* the control service's clock
    rows,       \* fleet_worker_jobs with the last row of fleet_job_checkpoints
    resv,       \* fleet_reservations: the active one of each job, if any
    grants,     \* fleet_borrow_grants
    policy,     \* workers whose owner's desired_availability is 'available'
    preview,    \* fleet_previews.state
    verdict,    \* fleet_artifacts.status of the artifact a job inspects
    attempts,   \* jobs being run, in the workers' RAM
    receipts,   \* receipts/<job_id>.json on each worker's disk
    calls,      \* completion calls between their two transactions
    faults      \* interference spent so far

store == <<rows, resv, grants, policy, preview, verdict>>
worker == <<attempts, receipts>>
vars == <<clock, store, worker, calls, faults>>

Ended == {"succeeded", "failed", "cancelled"}
\* Mutant: a receipt is taken for a job that has already succeeded.
Owned_Succeeded == {"running", "cancelling", "succeeded"}

Owned == {"running", "cancelling"}

\* No active reservation: nothing reads one that was released, expired or cancelled.
Idle == [worker |-> None, fence |-> 0, lease |-> 0]

NoReceipt == [fence |-> 0, ok |-> FALSE, by |-> 0]

Init ==
    /\ clock = 0
    /\ rows = [j \in Jobs |-> [status |-> "absent", worker |-> None, fence |-> 0, lease |-> 0,
                               grant |-> None, reserved |-> 0, saved |-> 0, result |-> 0]]
    /\ resv = [j \in Jobs |-> Idle]
    /\ grants = [g \in Grants |-> [open |-> TRUE, reserved |-> 0, spent |-> 0]]
    /\ policy = Workers
    /\ preview = [j \in Jobs |-> "none"]
    /\ verdict = [j \in Jobs |-> "staged"]
    /\ attempts = {}
    /\ receipts = [w \in Workers |-> [j \in Jobs |-> NoReceipt]]
    /\ calls = {}
    /\ faults = 0

-----------------------------------------------------------------------------
(* Helpers.                                                                *)

\* The step costs one unit of the environment's budget if cond holds.
SpendIf(cond) == IF cond THEN faults < MaxFaults /\ faults' = faults + 1 ELSE UNCHANGED faults

Least(a, b) == IF a < b THEN a ELSE b

\* The row is held by this worker under this fence.
Holds(j, w, fence) == rows[j].worker = w /\ rows[j].fence = fence

LeaseFrom(j) == Least(clock + Lease, Deadline[j])

\* What the jobs js hold of a grant's budget.
HeldOf(g, js) ==
    SumFunctionOnSet([j \in Jobs |-> IF rows[j].grant = g THEN rows[j].reserved ELSE 0], js)

\* A grant's reservation after giving back n: never below zero.
GiveBack(g, n) == [grants EXCEPT ![g].reserved = IF @ > n THEN @ - n ELSE 0]

-----------------------------------------------------------------------------
(* The queue's other clients.                                              *)

\* submit_job: a replay of the same request changes nothing.
Submit(j) ==
    /\ rows[j].status = "absent" /\ clock < Deadline[j]
    /\ rows' = [rows EXCEPT ![j].status = "queued"]
    /\ preview' = IF j \in Previews THEN [preview EXCEPT ![j] = "queued"] ELSE preview
    /\ UNCHANGED <<clock, resv, grants, policy, verdict, worker, calls, faults>>

CancelJob(j) ==
    /\ rows[j].status \notin Ended \cup {"absent"}
    /\ rows' = [rows EXCEPT
           ![j].status = IF @ = "queued" THEN "cancelled" ELSE "cancelling",
           ![j].grant = IF rows[j].status = "queued" THEN None ELSE @,
           ![j].reserved = IF rows[j].status = "queued" THEN 0 ELSE @]
    /\ grants' = IF rows[j].status = "queued" /\ rows[j].grant # None
                 THEN GiveBack(rows[j].grant, rows[j].reserved) ELSE grants
    /\ resv' = IF rows[j].status = "queued" THEN [resv EXCEPT ![j] = Idle] ELSE resv
    /\ preview' = IF j \in Previews THEN [preview EXCEPT ![j] = "disabled"] ELSE preview
    /\ UNCHANGED <<clock, policy, verdict, worker, calls, faults>>

\* previews: listing them expires the active ones past their time to live.
ListPreviews ==
    /\ preview' = [j \in Jobs |-> IF preview[j] = "active" /\ Ttl[j] <= clock
                                  THEN "expired" ELSE preview[j]]
    /\ preview' # preview
    /\ UNCHANGED <<clock, rows, resv, grants, policy, verdict, worker, calls, faults>>

\* set_worker_availability: closing a worker closes what it lends; opening it reopens nothing.
SetWorkerAvailability(w) ==
    /\ policy' = IF w \in policy THEN policy \ {w} ELSE policy \cup {w}
    /\ grants' = [g \in Grants |-> [grants[g] EXCEPT !.open = @ /\ ~(Lender[g] = w /\ w \in policy)]]
    /\ SpendIf(TRUE)
    /\ UNCHANGED <<clock, rows, resv, preview, verdict, worker, calls>>

\* set_grant_status: a grant reopens only in time and on an open worker.
SetGrantStatus(g) ==
    /\ ~grants[g].open => clock < GrantUntil[g] /\ Lender[g] \in policy
    /\ grants' = [grants EXCEPT ![g].open = ~@]
    /\ SpendIf(TRUE)
    /\ UNCHANGED <<clock, rows, resv, policy, preview, verdict, worker, calls>>

-----------------------------------------------------------------------------
(* claim_job.  One transaction first settles what time has overtaken, then *)
(* may give the polling worker a job.                                      *)

\* Mutants: the settling ignores the lease; it leaves alone what has no checkpoint.
Lapsed_Unleased == {j \in Jobs : rows[j].status = "running"}
Lapsed_Resumable == {j \in Jobs : rows[j].status = "running" /\ rows[j].lease <= clock /\ rows[j].saved # 0}

Overdue == {j \in Jobs : rows[j].status = "queued" /\ Deadline[j] <= clock}
Lapsed == {j \in Jobs : rows[j].status = "running" /\ rows[j].lease <= clock}

\* Every kind of the catalog is safe to rerun, so a lapsed job is queued again.
ReapedRows == [j \in Jobs |->
    IF j \in Overdue THEN [rows[j] EXCEPT !.status = "failed"]
    ELSE IF j \in Lapsed
    THEN [rows[j] EXCEPT !.status = "queued", !.worker = None, !.lease = 0,
                         !.grant = None, !.reserved = 0]
    ELSE rows[j]]

\* Mutant: the reservation of a lapsed job stays active.
ReapedResv_Kept == resv

ReapedResv == [j \in Jobs |-> IF j \in Lapsed THEN Idle ELSE resv[j]]

\* Mutant: a lapsed job's share of its grant is never given back.
ReapedGrants_Leak == grants

ReapedGrants == [g \in Grants |->
    [grants[g] EXCEPT !.reserved =
        @ - Least(@, HeldOf(g, Lapsed))]]

\* Mutant: the preview of an overdue job is forgotten.
ReapedPreviews_Kept == preview

ReapedPreviews == [j \in Jobs |->
    IF j \in Overdue \cap Previews THEN "failed" ELSE preview[j]]

\* What the scheduler counts against a worker, or against a grant of it.
LiveOn(w, r) == {j \in Jobs : r[j].worker = w /\ r[j].lease > clock}
Load(js) == SumFunctionOnSet(Need, js)

\* eligibility_reason: the grant's terms bind only a job that needs one.
Lends(w, g, j) ==
    /\ Lender[g] = w /\ grants[g].open /\ clock < GrantUntil[g]
    /\ j \in NeedsGrant =>
        /\ Load({i \in LiveOn(w, ReapedResv) : ReapedRows[i].grant = g}) + Need[j] <= GrantUnits[g]
        /\ Cost[j] > 0 => ReapedGrants[g].reserved + grants[g].spent + Cost[j] <= Budget[g]

\* The grants the scheduler may settle on for j: the first that fits, else none.
Offers(w, j) ==
    LET fitting == {g \in Grants : Lends(w, g, j)}
    IN  IF fitting # {} THEN fitting ELSE IF j \in NeedsGrant THEN {} ELSE {None}

Candidates(w) ==
    {j \in Jobs : /\ ReapedRows[j].status = "queued" /\ clock < Deadline[j]
                  /\ Pinned[j] \in {w, None}
                  /\ Load(LiveOn(w, ReapedResv)) + Need[j] <= Capacity[w]
                  /\ Offers(w, j) # {}}

\* Mutant: a reclaimed job is handed out without its checkpoint.
Attempt_Fresh(j, w, fence) ==
    [job |-> j, worker |-> w, fence |-> fence, at |-> "exec", ok |-> FALSE, by |-> 0,
     resumed |-> 0, cancelSeen |-> FALSE, renewing |-> TRUE]

Attempt(j, w, fence) ==
    [job |-> j, worker |-> w, fence |-> fence, at |-> "exec", ok |-> FALSE, by |-> 0,
     resumed |-> rows[j].saved, cancelSeen |-> FALSE, renewing |-> TRUE]

\* What is left of claim_job when it has no job to give: the settling.
Reap ==
    /\ rows' = ReapedRows /\ resv' = ReapedResv
    /\ grants' = ReapedGrants /\ preview' = ReapedPreviews

\* claim_job gives j to w under grant g.
Give(w, j, g) ==
    LET reserved == IF g = None THEN 0 ELSE Cost[j]
        fence == rows[j].fence + 1
    IN  /\ rows' = [ReapedRows EXCEPT ![j] =
               [@ EXCEPT !.status = "running", !.worker = w, !.fence = fence,
                         !.lease = LeaseFrom(j), !.grant = g, !.reserved = reserved]]
        /\ resv' = [ReapedResv EXCEPT ![j] =
               [worker |-> w, fence |-> fence, lease |-> LeaseFrom(j)]]
        /\ grants' = IF g = None THEN ReapedGrants
                     ELSE [ReapedGrants EXCEPT ![g].reserved = @ + reserved]
        /\ preview' = ReapedPreviews

Busy(w) == {a \in attempts : a.worker = w}

\* A worker with a free slot polls, and nothing is given to it.
PollInVain(w) ==
    /\ Cardinality(Busy(w)) < Concurrency
    /\ UNCHANGED <<clock, policy, verdict, worker, calls, faults>>
    /\ w \in policy => Candidates(w) = {}
    /\ Overdue \cup Lapsed # {}
    /\ Reap

\* A worker with a free slot polls and is given a job; the answer may be lost.
Claim(w) ==
    /\ Cardinality(Busy(w)) < Concurrency /\ w \in policy
    /\ UNCHANGED <<clock, policy, verdict, receipts, calls>>
    /\ \E j \in Candidates(w), delivered \in BOOLEAN : \E g \in Offers(w, j) :
        /\ Give(w, j, g)
        /\ attempts' = IF delivered THEN attempts \cup {Attempt(j, w, rows[j].fence + 1)}
                       ELSE attempts
        /\ SpendIf(~delivered)

-----------------------------------------------------------------------------
(* What a worker does with the jobs it was given.                          *)

Becomes(a, b) == attempts' = (attempts \ {a}) \cup {b}

\* renew_job and the loop that calls it.  A cancellation ends the loop, and so does an error:
\* a refused renewal would be refused for ever, so only a lost one has to be remembered.
Renew(a) ==
    LET j == a.job
        held == Holds(j, a.worker, a.fence)
        extends == held /\ rows[j].status = "running" /\ clock < Deadline[j]
        cancels == held /\ rows[j].status = "cancelling"
    IN  /\ a.renewing /\ ~a.cancelSeen /\ (extends \/ cancels)
        /\ \E arrives, answered \in BOOLEAN :
            /\ answered => arrives
            /\ SpendIf(~answered)
            /\ IF arrives /\ extends
               THEN /\ rows' = [rows EXCEPT ![j].lease = LeaseFrom(j)]
                    /\ resv' = IF resv[j].fence = a.fence
                               THEN [resv EXCEPT ![j].lease = LeaseFrom(j)] ELSE resv
               ELSE UNCHANGED <<rows, resv>>
            /\ Becomes(a, [a EXCEPT !.renewing = answered, !.cancelSeen = answered /\ cancels])
    /\ UNCHANGED <<clock, grants, policy, preview, verdict, receipts, calls>>

\* save_checkpoint("completed"): only for the holder, and never over an earlier one.
SaveCheckpoint(a, by) ==
    IF rows[a.job].status = "running" /\ Holds(a.job, a.worker, a.fence) /\ rows[a.job].saved = 0
    THEN rows' = [rows EXCEPT ![a.job].saved = by]
    ELSE UNCHANGED rows

\* _execute computes a result, or reuses the saved one except for a preview, and the
\* checkpoint of it is sent; whatever becomes of that request the attempt carries on.
Execute(a) ==
    LET by == IF a.resumed # 0 /\ a.job \notin Previews THEN a.resumed ELSE a.fence
    IN  /\ a.at = "exec"
        /\ Becomes(a, [a EXCEPT !.at = "report", !.ok = TRUE, !.by = by])
        /\ \E arrives \in BOOLEAN :
            /\ IF arrives THEN SaveCheckpoint(a, by) ELSE UNCHANGED rows
            /\ SpendIf(~arrives)
        /\ UNCHANGED <<clock, resv, grants, policy, preview, verdict, receipts, calls>>

\* The attempt raises: its download was refused, its input was bad, a tool failed.
Raise(a) ==
    /\ a.at = "exec" /\ (a.resumed = 0 \/ a.job \in Previews)
    /\ Becomes(a, [a EXCEPT !.at = "report"])
    /\ SpendIf(TRUE)
    /\ UNCHANGED <<clock, store, receipts, calls>>

\* The receipt replaces whatever receipts/<job_id>.json held, and the attempt ends.
SaveReceipt(a) ==
    /\ a.at = "report"
    /\ receipts' = [receipts EXCEPT ![a.worker][a.job] =
           [fence |-> a.fence, ok |-> a.ok /\ ~a.cancelSeen, by |-> IF a.cancelSeen THEN 0 ELSE a.by]]
    /\ attempts' = attempts \ {a}
    /\ UNCHANGED <<clock, store, calls, faults>>

-----------------------------------------------------------------------------
(* ExecutionService.complete_job: read the row and settle the artifact in  *)
(* one transaction, settle the job in the next.                            *)

\* The receipt on disk is sent (by _run_job, or by a heartbeat's _flush_receipts).  Bound: one
\* call at a time for each worker and job; a repeated one differs only if the file changed.
SendReceipt(w, j) ==
    LET r == receipts[w][j]
        refused == r.ok /\ j \in Previews /\ rows[j].status # "cancelling" /\ Ttl[j] <= clock
    IN  /\ r.fence # 0
        /\ \A c \in calls : c.worker # w \/ c.job # j
        /\ verdict' = IF j \in Inspections /\ rows[j].status # "cancelling"
                      THEN [verdict EXCEPT ![j] = IF r.ok THEN "validated" ELSE "rejected"]
                      ELSE verdict
        /\ calls' = calls \cup {[worker |-> w, job |-> j, fence |-> r.fence,
                                 ok |-> r.ok /\ ~refused, by |-> r.by]}
        /\ UNCHANGED <<clock, rows, resv, grants, policy, preview, worker, faults>>

\* settle_reported_cost: at most the maximum is charged, and more than it is a failure.
Settled(c, cost) == Least(cost, Cost[c.job])

StatusOf(c, cost) ==
    IF rows[c.job].status = "cancelling" THEN "cancelled"
    ELSE IF c.ok /\ cost <= Cost[c.job] THEN "succeeded" ELSE "failed"

\* _finish_preview: a preview is active only for a success within its time to live.
Published(j, status) ==
    CASE status = "cancelled" -> "disabled"
      [] status = "failed" -> "failed"
      [] OTHER -> IF Ttl[j] > clock THEN "active" ELSE "expired"

\* complete_job, for a call that names the holder of an unfinished job.
Finish(c, cost) ==
    LET j == c.job
        g == rows[j].grant
        status == StatusOf(c, cost)
    IN  /\ grants' = IF g = None THEN grants
                     ELSE [GiveBack(g, rows[j].reserved) EXCEPT ![g].spent = @ + Settled(c, cost)]
        /\ rows' = [rows EXCEPT ![j].status = status, ![j].lease = 0, ![j].reserved = 0,
                                ![j].result = IF status = "succeeded" THEN c.by ELSE 0]
        /\ resv' = IF resv[j].fence = c.fence THEN [resv EXCEPT ![j] = Idle] ELSE resv
        /\ preview' = IF j \in Previews THEN [preview EXCEPT ![j] = Published(j, status)]
                      ELSE preview

\* The second transaction.  An answer, of success or of refusal, removes the receipt file,
\* whichever attempt wrote it; without one the file stays to be sent again.
CompleteJob(c, cost) ==
    /\ UNCHANGED <<clock, policy, verdict, attempts>>
    /\ IF Holds(c.job, c.worker, c.fence) /\ rows[c.job].status \in Owned
       THEN Finish(c, cost) ELSE UNCHANGED <<rows, resv, grants, preview>>
    /\ calls' = calls \ {c}
    /\ \E answered \in BOOLEAN :
        /\ receipts' = IF answered THEN [receipts EXCEPT ![c.worker][c.job] = NoReceipt]
                       ELSE receipts
        /\ SpendIf(~answered)

-----------------------------------------------------------------------------
(* The environment.                                                        *)

\* The worker process dies and is restarted: its attempts are gone, its receipts are not.
Crash(w) ==
    /\ Busy(w) # {}
    /\ attempts' = attempts \ Busy(w)
    /\ SpendIf(TRUE)
    /\ UNCHANGED <<clock, store, receipts, calls>>

Tick ==
    /\ clock < MaxClock
    /\ clock' = clock + 1
    /\ UNCHANGED <<store, attempts, receipts, calls, faults>>

Clients ==
    \/ \E j \in Jobs : Submit(j) \/ CancelJob(j)
    \/ ListPreviews
    \/ \E w \in Workers : SetWorkerAvailability(w)
    \/ \E g \in Grants : SetGrantStatus(g)

Poll(w) == PollInVain(w) \/ Claim(w)

Work(w) ==
    \/ \E a \in Busy(w) : Execute(a) \/ Raise(a) \/ SaveReceipt(a)
    \/ \E j \in Jobs : SendReceipt(w, j)

Answer(w) == \E c \in calls : c.worker = w /\ \E cost \in 0 .. Cost[c.job] + 1 : CompleteJob(c, cost)

Next ==
    \/ Clients \/ Tick
    \/ \E w \in Workers : Poll(w) \/ Work(w) \/ Answer(w) \/ Crash(w)
    \/ \E a \in attempts : Renew(a)

\* Some worker keeps polling, what was given is run, saved receipts are sent and sent
\* calls are answered: the loops of the workers, restarted by systemd.  Nothing makes a
\* client or an owner act.
Fairness ==
    /\ WF_vars(Tick)
    /\ WF_vars(\E w \in Workers : Poll(w))
    /\ WF_vars(\E w \in Workers : Work(w) \/ Answer(w))

Spec == Init /\ [][Next]_vars /\ Fairness

-----------------------------------------------------------------------------
(* Properties.                                                             *)

Fences == 0 .. MaxClock + 1

Row == [status : {"absent", "queued", "running", "cancelling"} \cup Ended,
        worker : Workers \cup {None}, fence : Fences, lease : 0 .. MaxClock + Lease,
        grant : Grants \cup {None}, reserved : Nat,
        saved : Fences, result : Fences]

\* Types of the tables, of what the workers keep, and of the calls in flight.
TypeOK ==
    /\ clock \in 0 .. MaxClock /\ faults \in 0 .. MaxFaults
    /\ rows \in [Jobs -> Row]
    /\ resv \in [Jobs -> [worker : Workers \cup {None}, fence : Fences, lease : 0 .. MaxClock + Lease]]
    /\ grants \in [Grants -> [open : BOOLEAN, reserved : Nat, spent : Nat]]
    /\ policy \subseteq Workers
    /\ preview \in [Jobs -> {"none", "queued", "active", "expired", "failed", "disabled"}]
    /\ verdict \in [Jobs -> {"staged", "validated", "rejected"}]
    /\ attempts \subseteq [job : Jobs, worker : Workers, fence : Fences, ok : BOOLEAN, by : Fences,
                          at : {"exec", "report"}, resumed : Fences,
                          cancelSeen : BOOLEAN, renewing : BOOLEAN]
    /\ receipts \in [Workers -> [Jobs -> [fence : Fences, ok : BOOLEAN, by : Fences]]]
    /\ calls \subseteq [worker : Workers, job : Jobs, fence : Fences, ok : BOOLEAN, by : Fences]

\* Through claims, expiries, cancellations and receipts: what a grant has reserved is what
\* the unfinished jobs hold of it, with what it has spent it never exceeds its budget, and
\* the jobs whose lease on a worker is live fit that worker.
NothingLentTwice ==
    /\ \A g \in Grants :
        /\ grants[g].reserved = HeldOf(g, Jobs)
        /\ grants[g].reserved + grants[g].spent <= Budget[g]
    /\ \A w \in Workers : Load(LiveOn(w, resv)) <= Capacity[w]

\* A reservation is active exactly while its job is owned, and names the same worker,
\* fence and lease: the scheduler's two tables never disagree.
ReservationMirrorsRow ==
    \A j \in Jobs :
        /\ resv[j] # Idle <=> rows[j].status \in Owned
        /\ resv[j] # Idle =>
            <<resv[j].worker, resv[j].fence, resv[j].lease>>
                = <<rows[j].worker, rows[j].fence, rows[j].lease>>

\* Once a computed result is committed as a completed checkpoint, a success reports that
\* result and no other, whichever worker finishes the job and however often it moved.
CommittedResultReused ==
    \A j \in Jobs \ Previews :
        rows[j].status = "succeeded" /\ rows[j].saved # 0 => rows[j].result = rows[j].saved

\* A preview is served only for a job that succeeded, and a job that ended otherwise has
\* no preview still waiting.
PreviewFollowsJob ==
    \A j \in Previews :
        /\ preview[j] \in {"active", "expired"} => rows[j].status = "succeeded"
        /\ rows[j].status = "cancelled" => preview[j] = "disabled"
        /\ rows[j].status = "failed" => preview[j] = "failed"

\* A submitted job does not stay queued or running: it ends, or somebody cancels it.
JobsSettle ==
    \A j \in Jobs : rows[j].status \in {"queued", "running"} ~>
                    rows[j].status \in Ended \cup {"cancelling"}

\* An old fence cannot overwrite a new result: the artifact of a job that succeeded keeps
\* the verdict of the attempt that finished it.
VerdictOfFinisher ==
    \A j \in Inspections : rows[j].status = "succeeded" => verdict[j] = "validated"

\* A cancellation that was accepted ends.
CancellationEnds ==
    \A j \in Jobs : rows[j].status = "cancelling" ~> rows[j].status \in Ended

-----------------------------------------------------------------------------
(* The queue as its users see it.                                          *)

StateOf(status) == CASE status = "queued" -> "waiting"
                     [] status \in Owned  -> "held"
                     [] OTHER             -> status

Queue == INSTANCE FencedQueue WITH
             Reopening <- {},
             job <- [j \in Jobs |-> [state |-> StateOf(rows[j].status), turn |-> rows[j].fence,
                                      result |-> rows[j].result]],
             out <- {<<a.job, a.fence>> : a \in attempts}
                    \cup {<<c.job, c.fence>> : c \in calls}
                    \cup {<<x[2], receipts[x[1]][x[2]].fence>> :
                            x \in {y \in Workers \X Jobs : receipts[y[1]][y[2]] # NoReceipt}}

\* The tables, the workers and what they have under way are a queue with fenced
\* turns: a receipt that outlived its lease, a file written over by another
\* attempt or a repeated call never makes a job succeed, nor changes one that ended.
ImplementsFencedQueue == Queue!Spec
=============================================================================
