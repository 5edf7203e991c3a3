---------------------------- MODULE DurableJobs ----------------------------
(***************************************************************************)
(* The lease-based job queue (storage/jobs.py, one PostgreSQL table) and   *)
(* the worker that drives it (workers/durable_jobs.py).                    *)
(*                                                                         *)
(* Every method of DurableJobStore is one database transaction.  All but   *)
(* claim_due are one statement that changes one row (or recovers expired   *)
(* ones), and one action.  A claim locks the rows it selects, counts their *)
(* scopes row after row and commits; at READ COMMITTED it sees what others *)
(* have committed and not what they are about to, so it is three actions   *)
(* and the claims of several processes overlap.                            *)
(*                                                                         *)
(* A worker execution (a "run") is an asyncio task between two             *)
(* transactions: it carries the row as it was claimed, so it may act on a  *)
(* row that has since been recovered, cancelled or claimed again.          *)
(*                                                                         *)
(* Time is kept as distance: "left" is lease_until - now and "wait" is     *)
(* next_attempt_at - now, both counted down by Tick and stopped at zero.   *)
(* Everything the environment may do against the queue (crash, stop,       *)
(* cancel, requeue, defer, a missed heartbeat) spends one of MaxFaults.    *)
(***************************************************************************)
EXTENDS Integers, FiniteSets

CONSTANTS
    Jobs,           \* job ids
    Workers,        \* worker_id: one DurableJobWorker in a process of its own
    NoWorker,       \* lease_owner = ''
    MaxAttempts,    \* max_attempts of each job
    Resume,         \* the jobs enqueued with resume_on_lease_loss
    Scope,          \* (scope_key, kind) of each job
    Priority,       \* priority of each job; smaller goes first
    PerScope,       \* per_scope_limit of the workers
    Concurrency,    \* concurrency of each worker
    Lease,          \* lease_seconds, in ticks
    Delay,          \* retry and deferral delay, in ticks
    MaxFaults       \* bound on the environment's interference

ASSUME JobsAssumption ==
    /\ IsFiniteSet(Jobs)
    /\ MaxAttempts \in [Jobs -> Nat \ {0}]
    /\ Resume \subseteq Jobs
    /\ Priority \in [Jobs -> Int]
    /\ NoWorker \notin Workers
    /\ PerScope \in Nat \ {0} /\ Concurrency \in [Workers -> Nat \ {0}]
    /\ Lease \in Nat \ {0} /\ Delay \in Nat /\ MaxFaults \in Nat

VARIABLES
    rows,       \* the durable_jobs table
    claims,     \* the claim_due transaction each worker is in, if any
    runs,       \* the executions the workers have in flight
    registry,   \* DurableJobWorker._running: the run a worker knows per job
    charged,    \* history: executions charged to the job since its last reset
    faults      \* interference spent so far

vars == <<rows, claims, runs, registry, charged, faults>>

Statuses == {"absent", "pending", "running", "succeeded", "failed", "cancelled"}

\* What a handler can do: return, raise, raise something final (a timeout or
\* RouteAuthorityLost), or raise JobDeferred.
Outcomes == {"success", "error", "fatal", "deferred"}

\* A run is executing its handler, has an outcome to settle, has had its
\* handler cancelled, or is about to hand its lease back.
Phases == {"running", "cancelled", "release"} \cup Outcomes

Row == [status : Statuses, attempts : Nat, gen : Nat, owner : Workers \cup {NoWorker},
        left : Nat, wait : Nat, result : Nat]

\* The rows a claim has locked, those it has yet to count, those it takes, and
\* whether the worker still waits for its answer.
ClaimUnderWay == [locks : SUBSET Jobs, todo : SUBSET Jobs, taken : SUBSET Jobs, heard : BOOLEAN]

NoClaim == [locks |-> {}, todo |-> {}, taken |-> {}, heard |-> TRUE]

Run == [job : Jobs, gen : Nat, att : Nat, worker : Workers, phase : Phases]

Init ==
    /\ rows = [j \in Jobs |-> [status |-> "absent", attempts |-> 0, gen |-> 0,
                               owner |-> NoWorker, left |-> 0, wait |-> 0, result |-> 0]]
    /\ claims = [w \in Workers |-> NoClaim]
    /\ runs = {}
    /\ registry = [w \in Workers |-> [j \in Jobs |-> 0]]
    /\ charged = [j \in Jobs |-> 0]
    /\ faults = 0

-----------------------------------------------------------------------------
(* The store: what each statement does to one row.                         *)

\* UPDATE ... SET lease_owner = '', lease_until = NULL, status = s.
Released(row, s) == [row EXCEPT !.status = s, !.owner = NoWorker, !.left = 0]

\* Mutant: settle by the worker's name alone, whatever its generation.
Holds_ByOwner(r, row) == row.status = "running" /\ row.owner = r.worker /\ row.left > 0

\* The row is running under exactly this run's lease, and the lease is live:
\* the WHERE clause of every settlement that carries a lease_generation.
Holds(r, row) ==
    /\ row.status = "running"
    /\ row.owner = r.worker
    /\ row.gen = r.gen
    /\ row.left > 0

Expired(row) == row.status = "running" /\ row.left = 0

\* Mutant: the attempt a resumable job lost is not refunded.
Recovered_NoRefund(j, row) ==
    IF ~Expired(row) THEN row
    ELSE [Released(row, IF j \in Resume \/ row.attempts < MaxAttempts[j] THEN "pending" ELSE "failed")
             EXCEPT !.wait = 0]

\* _recover_expired: a resumable job is refunded the attempt it lost.
Recovered(j, row) ==
    IF ~Expired(row) THEN row
    ELSE IF j \in Resume
         THEN [Released(row, "pending") EXCEPT !.attempts = IF @ > 0 THEN @ - 1 ELSE @,
                                               !.wait = 0]
         ELSE [Released(row, IF row.attempts < MaxAttempts[j] THEN "pending" ELSE "failed")
                  EXCEPT !.wait = 0]

\* Mutant: nobody recovers expired leases.
RecoveredRows_Never == rows

RecoveredRows == [j \in Jobs |-> Recovered(j, rows[j])]

\* History: a lease lost by a job that is not resumable stays charged.
RecoveredCharges ==
    [j \in Jobs |-> IF Expired(rows[j]) /\ j \notin Resume THEN charged[j] + 1 ELSE charged[j]]

\* Mutant: a claim does not start a new lease generation.
ClaimedRow_SameGeneration(row, w) ==
    [row EXCEPT !.status = "running", !.attempts = @ + 1, !.owner = w, !.left = Lease]

ClaimedRow(row, w) ==
    [row EXCEPT !.status = "running", !.attempts = @ + 1, !.gen = @ + 1,
                !.owner = w, !.left = Lease]

Active(table, s) == {j \in Jobs : Scope[j] = s /\ table[j].status = "running"}

Due(table) == {j \in Jobs : /\ table[j].status = "pending"
                            /\ table[j].wait = 0
                            /\ table[j].attempts < MaxAttempts[j]
                            /\ Cardinality(Active(table, Scope[j])) < PerScope}

-----------------------------------------------------------------------------
(* Locks.                                                                  *)

\* The worker is in no claim.  Its store serves one transaction at a time, so
\* its other calls wait for the claim to end.
Idle(w) == claims[w].locks = {}

\* The rows that a claim under way has selected, or recovered.
Locked == {j \in Jobs : \/ \E w \in Workers : j \in claims[w].locks
                        \/ Expired(rows[j]) /\ \E w \in Workers : ~Idle(w)}

\* The update that recovers expired leases waits for a claim that has done so.
RecoveryFree == (\A w \in Workers : Idle(w)) \/ (\A j \in Jobs : ~Expired(rows[j]))

-----------------------------------------------------------------------------
(* The store's operations that no run takes part in.                       *)

Interfere == faults < MaxFaults /\ faults' = faults + 1

\* enqueue: a key that is already stored is left alone.
Enqueue(j) ==
    /\ rows[j].status = "absent"
    /\ rows' = [rows EXCEPT ![j].status = "pending"]
    /\ UNCHANGED <<claims, runs, registry, charged, faults>>

\* cancel, called from the admin console of any process.
Cancellable(row) == row.status \in {"pending", "running", "failed"}

ChargeIfRunning(j) ==
    charged' = [charged EXCEPT ![j] = IF rows[j].status = "running" THEN @ + 1 ELSE @]

Cancel(j) ==
    /\ Interfere
    /\ Cancellable(rows[j]) /\ j \notin Locked
    /\ rows' = [rows EXCEPT ![j] = Released(@, "cancelled")]
    /\ ChargeIfRunning(j)
    /\ UNCHANGED <<claims, runs, registry>>

\* requeue: a fresh attempt budget; the lease generation goes on counting.
Requeueable(row) == row.status \in {"failed", "cancelled"}

Requeue(j) ==
    /\ Interfere
    /\ Requeueable(rows[j])
    /\ rows' = [rows EXCEPT ![j] = [Released(@, "pending") EXCEPT
                                        !.attempts = 0, !.wait = 0, !.result = 0]]
    /\ charged' = [charged EXCEPT ![j] = 0]
    /\ UNCHANGED <<claims, runs, registry>>

\* Opening the store in any process recovers every expired lease.
OpenStore ==
    /\ RecoveryFree
    /\ rows' = RecoveredRows
    /\ charged' = RecoveredCharges
    /\ UNCHANGED <<claims, runs, registry, faults>>

-----------------------------------------------------------------------------
(* The worker.                                                             *)

RunsOf(w) == {r \in runs : r.worker = w}

NewRun(table, w, j) ==
    LET row == ClaimedRow(table[j], w)
    IN [job |-> j, gen |-> row.gen, att |-> row.attempts, worker |-> w, phase |-> "running"]

\* SELECT ... ORDER BY priority, next_attempt_at, job_id LIMIT room FOR UPDATE
\* SKIP LOCKED.  The distances do not order rows that are all due, so only
\* priority is kept.
Selections(table, room) ==
    LET free == Due(table) \ UNION {claims[w].locks : w \in Workers}
    IN {S \in SUBSET free :
           /\ Cardinality(S) = IF Cardinality(free) < room THEN Cardinality(free) ELSE room
           /\ \A j \in S, k \in free \ S : Priority[j] <= Priority[k]}

\* claim_due begins: expired leases are recovered, in this transaction alone
\* until it commits, and due rows are locked.  If there are none it ends.
Selects(w) ==
    /\ Idle(w) /\ RecoveryFree
    /\ Cardinality(RunsOf(w)) < Concurrency[w]
    /\ \E S \in Selections(RecoveredRows, Concurrency[w] - Cardinality(RunsOf(w))) :
          /\ claims' = [claims EXCEPT ![w] = [NoClaim EXCEPT !.locks = S, !.todo = S]]
          /\ IF S = {}
             THEN rows' = RecoveredRows /\ charged' = RecoveredCharges
             ELSE UNCHANGED <<rows, charged>>
    /\ UNCHANGED <<runs, registry, faults>>

\* Mutant: the scope is only counted by the query, not again per row.
HasRoom_NoRecount(w, j) == TRUE

\* The second count of a row's scope: what is committed by now, and what this
\* transaction has taken itself.
HasRoom(w, j) ==
    Cardinality(Active(RecoveredRows, Scope[j]) \cup {k \in claims[w].taken : Scope[k] = Scope[j]}) < PerScope

\* The next row of the selection is taken, or left where it is.
Counts(w, j) ==
    /\ j \in claims[w].todo
    /\ \A k \in claims[w].todo : Priority[j] <= Priority[k]
    /\ claims' = [claims EXCEPT ![w].todo = @ \ {j},
                               ![w].taken = IF HasRoom(w, j) THEN @ \cup {j} ELSE @]
    /\ UNCHANGED <<rows, runs, registry, charged, faults>>

\* claim_due commits, and an _execute task is created for every row it returns,
\* unless the worker was stopped in the meantime: then nobody executes them.
Claim(w) ==
    LET table == RecoveredRows
        T == claims[w].taken
    IN /\ ~Idle(w) /\ claims[w].todo = {}
       /\ rows' = [j \in Jobs |-> IF j \in T THEN ClaimedRow(table[j], w) ELSE table[j]]
       /\ charged' = RecoveredCharges
       /\ IF claims[w].heard
          THEN /\ runs' = runs \cup {NewRun(table, w, j) : j \in T}
               /\ registry' = [registry EXCEPT ![w] = [j \in Jobs |->
                                   IF j \in T THEN NewRun(table, w, j).gen ELSE @[j]]]
          ELSE UNCHANGED <<runs, registry>>
       /\ claims' = [claims EXCEPT ![w] = NoClaim]
       /\ UNCHANGED faults

\* A statement of the claim, or its commit, raises: all of it is undone.
ClaimRaises(w) ==
    /\ Interfere
    /\ ~Idle(w)
    /\ claims' = [claims EXCEPT ![w] = NoClaim]
    /\ UNCHANGED <<rows, runs, registry, charged>>

\* The handler ends by itself.  Deferrals are spent, or they could go on for ever.
HandlerEnds(r, o) ==
    /\ r.phase = "running"
    /\ runs' = (runs \ {r}) \cup {[r EXCEPT !.phase = o]}
    /\ IF o = "deferred" THEN Interfere ELSE UNCHANGED faults
    /\ UNCHANGED <<rows, claims, registry, charged>>

\* The finally clause of _execute: the run ends, and takes the registry entry
\* of its job with it, whichever run put it there.
EndRun(r) ==
    /\ runs' = runs \ {r}
    /\ registry' = [registry EXCEPT ![r.worker][r.job] = 0]

\* Mutant: the success of a run is stored without looking at the row.
MarkSucceeded_Unfenced(r) ==
    /\ r.phase = "success" /\ Idle(r.worker)
    /\ rows' = [rows EXCEPT ![r.job] = [Released(@, "succeeded") EXCEPT !.result = r.gen]]
    /\ EndRun(r)
    /\ UNCHANGED <<claims, charged, faults>>

\* mark_succeeded; a lost lease is only logged.
MarkSucceeded(r) ==
    /\ r.phase = "success" /\ Idle(r.worker)
    /\ IF Holds(r, rows[r.job])
       THEN /\ rows' = [rows EXCEPT ![r.job] = [Released(@, "succeeded") EXCEPT !.result = r.gen]]
            /\ charged' = [charged EXCEPT ![r.job] = @ + 1]
       ELSE UNCHANGED <<rows, charged>>
    /\ EndRun(r)
    /\ UNCHANGED <<claims, faults>>

\* mark_failed: pending again while the budget lasts, if the error is retryable.
MarkFailed(r) ==
    /\ r.phase \in {"error", "fatal"} /\ Idle(r.worker)
    /\ LET j == r.job
           retry == r.phase = "error" /\ r.att < MaxAttempts[j] /\ rows[j].attempts < MaxAttempts[j]
       IN IF Holds(r, rows[j])
          THEN /\ rows' = [rows EXCEPT ![j] = [Released(@, IF retry THEN "pending" ELSE "failed")
                                                  EXCEPT !.wait = Delay]]
               /\ charged' = [charged EXCEPT ![j] = @ + 1]
          ELSE UNCHANGED <<rows, charged>>
    /\ EndRun(r)
    /\ UNCHANGED <<claims, faults>>

\* Mutant: a deferral is charged like a failure.
DeferredRow_Charged(row, delay) == [Released(row, "pending") EXCEPT !.wait = delay]

\* defer: the lease goes back and the attempt is refunded.
DeferredRow(row, delay) == [Released(row, "pending") EXCEPT !.attempts = @ - 1, !.wait = delay]

\* Mutant: the refund does not ask whether the run still holds the row.
Defer_Unfenced(r) ==
    /\ r.phase \in {"deferred", "release"} /\ Idle(r.worker)
    /\ rows' = [rows EXCEPT ![r.job] = DeferredRow(@, 0)]
    /\ EndRun(r)
    /\ UNCHANGED <<claims, charged, faults>>

Defer(r) ==
    /\ r.phase \in {"deferred", "release"} /\ Idle(r.worker)
    /\ rows' = IF Holds(r, rows[r.job]) /\ rows[r.job].attempts = r.att
               THEN [rows EXCEPT ![r.job] = DeferredRow(@, IF r.phase = "deferred" THEN Delay ELSE 0)]
               ELSE rows
    /\ EndRun(r)
    /\ UNCHANGED <<claims, charged, faults>>

\* A cancelled handler: the row is read first, the lease is given back in a
\* second transaction.  (No job kind registers a compensator.)
ReadAfterCancel(r) ==
    /\ r.phase = "cancelled" /\ Idle(r.worker)
    /\ IF rows[r.job].status = "cancelled"
       THEN EndRun(r)
       ELSE /\ runs' = (runs \ {r}) \cup {[r EXCEPT !.phase = "release"]}
            /\ UNCHANGED registry
    /\ UNCHANGED <<rows, claims, charged, faults>>

\* The database call of a settlement raises: the row waits for its lease to expire.
SettlementRaises(r) ==
    /\ Interfere
    /\ r.phase # "running" /\ Idle(r.worker)
    /\ EndRun(r)
    /\ UNCHANGED <<rows, claims, charged>>

\* task.cancel() on the handler of every run in R that is still executing.
CancelHandlers(R) ==
    runs' = {IF r \in R /\ r.phase = "running" THEN [r EXCEPT !.phase = "cancelled"] ELSE r : r \in runs}

\* _heartbeat, when renew_lease finds the run's own live lease.
Renew(r) ==
    /\ Holds(r, rows[r.job]) /\ Idle(r.worker)
    /\ rows' = [rows EXCEPT ![r.job].left = Lease]
    /\ UNCHANGED <<claims, runs, registry, charged, faults>>

\* Mutant: only a newer claim, and not a cancellation, stops the handler.
LeaseLost_OnlyIfReclaimed(r) ==
    /\ r.phase = "running" /\ Idle(r.worker)
    /\ rows[r.job].gen # r.gen
    /\ CancelHandlers({r})
    /\ UNCHANGED <<rows, claims, registry, charged, faults>>

\* _heartbeat, when it does not: unless the row has succeeded under this very
\* generation, the handler is cancelled.
LeaseLost(r) ==
    /\ r.phase = "running" /\ Idle(r.worker)
    /\ ~Holds(r, rows[r.job])
    /\ ~(rows[r.job].status = "succeeded" /\ rows[r.job].gen = r.gen)
    /\ CancelHandlers({r})
    /\ UNCHANGED <<rows, claims, registry, charged, faults>>

\* _heartbeat, when the database call itself raises.
HeartbeatRaises(r) ==
    /\ Interfere
    /\ r.phase = "running" /\ Idle(r.worker)
    /\ CancelHandlers({r})
    /\ UNCHANGED <<rows, claims, registry, charged>>

\* DurableJobWorker.cancel: the row and, through the registry, the local handler.
WorkerCancel(w, j) ==
    /\ Interfere
    /\ Idle(w) /\ j \notin Locked
    /\ rows' = IF Cancellable(rows[j]) THEN [rows EXCEPT ![j] = Released(@, "cancelled")] ELSE rows
    /\ ChargeIfRunning(j)
    /\ CancelHandlers({r \in RunsOf(w) : r.job = j /\ r.gen = registry[w][j]})
    /\ UNCHANGED <<claims, registry>>

\* run_forever is cancelled: so is every run it has in flight.  The claim it
\* waits for goes on in its thread, but its answer is dropped.
Stop(w) ==
    /\ Interfere
    /\ CancelHandlers(RunsOf(w))
    /\ claims' = [claims EXCEPT ![w].heard = Idle(w)]
    /\ UNCHANGED <<rows, registry, charged>>

\* The process dies.  Its successor has a worker_id of its own; since nothing
\* of the old incarnation is left to use the old one, the name is reused here.
Crash(w) ==
    /\ Interfere
    /\ claims' = [claims EXCEPT ![w] = NoClaim]
    /\ runs' = runs \ RunsOf(w)
    /\ registry' = [registry EXCEPT ![w] = [j \in Jobs |-> 0]]
    /\ UNCHANGED <<rows, charged>>

-----------------------------------------------------------------------------
Dec(n) == IF n > 0 THEN n - 1 ELSE 0

\* The clock.  A lease that expires under a run that is still alive is a
\* missed heartbeat and is spent; a lease nobody is left to renew is not.  A
\* claim takes less than a tick.
Tick ==
    /\ \A w \in Workers : Idle(w)
    /\ rows' = [j \in Jobs |-> [rows[j] EXCEPT !.left = Dec(@), !.wait = Dec(@)]]
    /\ IF \E r \in runs : Holds(r, rows[r.job]) /\ rows[r.job].left = 1
       THEN Interfere ELSE UNCHANGED faults
    /\ UNCHANGED <<claims, runs, registry, charged>>

Settle(r) == MarkSucceeded(r) \/ MarkFailed(r) \/ Defer(r) \/ ReadAfterCancel(r)

Claims(w) == Selects(w) \/ (\E j \in Jobs : Counts(w, j)) \/ Claim(w)

Next ==
    \/ \E j \in Jobs : Enqueue(j) \/ Cancel(j) \/ Requeue(j)
    \/ OpenStore
    \/ \E w \in Workers : Claims(w) \/ ClaimRaises(w) \/ Stop(w) \/ Crash(w)
    \/ \E w \in Workers, j \in Jobs : WorkerCancel(w, j)
    \/ \E r \in runs, o \in Outcomes : HandlerEnds(r, o)
    \/ \E r \in runs : \/ Settle(r) \/ SettlementRaises(r)
                       \/ Renew(r) \/ LeaseLost(r) \/ HeartbeatRaises(r)
    \/ Tick

Spec == Init /\ [][Next]_vars

\* The loops that the worker keeps running: polling, settling, the heartbeat
\* of every run, and time itself.
WorkerFairness ==
    /\ WF_vars(\E w \in Workers : Claims(w))
    /\ WF_vars(\E r \in runs : Settle(r))
    /\ WF_vars(\E r \in runs : Renew(r))
    /\ WF_vars(\E r \in runs : LeaseLost(r))
    /\ WF_vars(Tick)

\* Handlers themselves may run for ever.
FairSpec == Spec /\ WorkerFairness

HandlersEnd == WF_vars(\E r \in runs : \E o \in Outcomes : HandlerEnds(r, o))

-----------------------------------------------------------------------------
(* Properties.                                                             *)

\* The table, the runs, the registry and the history stay within their types:
\* in particular no refund ever takes attempts below zero.
TypeOK ==
    /\ rows \in [Jobs -> Row]
    /\ claims \in [Workers -> ClaimUnderWay]
    /\ runs \subseteq Run
    /\ registry \in [Workers -> [Jobs -> Nat]]
    /\ charged \in [Jobs -> Nat]
    /\ faults \in 0..MaxFaults

\* A pending job can always be claimed some day: whatever mixture of retries,
\* deferrals, refunds, recoveries and requeues brought it there, it has not
\* used up the budget that claim_due insists on.
NoStrandedJob == \A j \in Jobs : rows[j].status = "pending" => rows[j].attempts < MaxAttempts[j]

\* attempts is exactly what the job has been charged for, plus the execution in
\* progress: deferrals, stopped workers and resumable lease losses are refunded
\* once and never twice, and everything else is paid for.
AttemptAccounting ==
    \A j \in Jobs : rows[j].attempts = charged[j] + (IF rows[j].status = "running" THEN 1 ELSE 0)

\* At most one run can settle or renew a job, however many are still executing
\* it after lost leases, under the same worker name or another.
OneHolder ==
    \A r, s \in runs : r.job = s.job /\ Holds(r, rows[r.job]) /\ Holds(s, rows[s.job]) => r = s

\* The stored result was produced by the last execution that was given the job,
\* never by an earlier one that came back late.
ResultOfLatestClaim ==
    \A j \in Jobs : rows[j].status = "succeeded" => rows[j].result = rows[j].gen

\* One worker never has more leases in a scope than per_scope_limit, whatever
\* it claims while earlier leases of its own are settled, expire or are
\* recovered, and however many rows of a scope one claim selects.  Workers of
\* different processes may exceed the limit together: neither count sees what
\* the other is about to commit.
WorkerScopeLimit ==
    \A w \in Workers, j \in Jobs :
        Cardinality({k \in Active(rows, Scope[j]) : rows[k].owner = w}) <= PerScope

\* Success is for ever, and a failed or cancelled job is only ever brought back
\* with a fresh budget (requeue) or, if failed, cancelled: no late settlement,
\* heartbeat or recovery revives it.
TerminalIsFinal ==
    [][\A j \in Jobs :
        /\ rows[j].status = "succeeded" => rows'[j] = rows[j]
        /\ rows[j].status \in {"failed", "cancelled"} /\ rows'[j].status # rows[j].status
              => \/ rows'[j].status = "pending" /\ rows'[j].attempts = 0
                 \/ rows[j].status = "failed" /\ rows'[j].status = "cancelled"]_vars

\* Every enqueued job ends, if handlers do: nothing is left pending or running
\* for ever behind a crash, a lost lease, a full scope or a higher priority.
EnqueuedIsSettled ==
    HandlersEnd => \A j \in Jobs :
        rows[j].status = "pending" ~> rows[j].status \in {"succeeded", "failed", "cancelled"}

\* A handler that is still executing a job it no longer holds.
Stray(r) == r.phase = "running" /\ ~Holds(r, rows[r.job])

\* Handlers whose job was cancelled, recovered or taken by another run are
\* stopped even if they would never return: the heartbeats see to it.
LostHandlerStops == (\E r \in runs : Stray(r)) ~> ~(\E r \in runs : Stray(r))

-----------------------------------------------------------------------------
(* The queue as its users see it.                                          *)

StateOf(status) == CASE status = "pending" -> "waiting"
                     [] status = "running" -> "held"
                     [] OTHER -> status

SeenJob(j) == [state |-> StateOf(rows[j].status), turn |-> rows[j].gen,
               result |-> IF rows[j].status = "succeeded" THEN rows[j].result ELSE 0]

Queue == INSTANCE FencedQueue WITH
             Reopening <- Jobs,
             job <- [j \in Jobs |-> SeenJob(j)],
             out <- {<<r.job, r.gen>> : r \in runs}

\* The table and its workers are a queue with fenced turns: a new lease
\* generation is never one that an execution still speaks for, and only an
\* execution of the current one, which must still be alive, makes a job succeed.
ImplementsFencedQueue == Queue!Spec
=============================================================================
