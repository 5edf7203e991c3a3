# Formal models of gaoji

gaoji is a chat agent for the official QQ platform. One PostgreSQL database holds everything that must
survive; around it run the bot process (Python, one event loop), a cluster control service, workers and
deployers on other hosts, and virtual machines where background tasks execute. This directory holds TLA+
models of the parts where several of those actors, their crashes and the network's losses meet in the same
rows, the TLC runs that check them on small instances, and proofs that TLAPS checks for every instance.

All paths below are relative to the repository's root (`src/...` is the Python package directory).
`PROJECT.json` lists, for every definition, the lines it was translated from.

```
tlc -workers 2 -config MCDurableJobs.cfg MCDurableJobs     # a run: the cfg and module of PROJECT.json
tlapm DurableJobsProofs.tla                                # the proofs
tlapm OfficialOutboxProofs.tla
tlapm ClusterControlProofs.tla
tlapm OfficialTurnsProofs.tla
tlapm OfficialAccountProofs.tla
tlapm HealthProofs.tla
tlapm ManagedOperationsProofs.tla
tlapm BackgroundJobsProofs.tla
```

## 1. Inventory

### 1.1 Components, their state and their operations

| Component | State | Operations | Model |
|---|---|---|---|
| Durable job queue (`plugins/ai_chat/storage/jobs.py`, `workers/durable_jobs.py`) | `durable_jobs` rows: status, attempts, lease owner, generation and end; in RAM the executions of each worker | enqueue, claim, renew, succeed, fail, defer, cancel, requeue, recover; worker claim loop, heartbeat, handler, stop | `DurableJobs` |
| Official outbox (`adapters/qq_official/send_store.py`, `send_ledger.py`, `sender.py`, `plans.py`) | `deliveries`, `delivery_attempts`, `delivery_receipts`; RAM: queue, futures, one-time payloads, passive counters, unrecorded receipts | enqueue, list due, prepare, POST, capture and apply a receipt, defer, fail, mark ambiguous, recover | `OfficialOutbox` |
| Official account and turns (`lease.py`, `runtime.py`, `inbox.py`, `ingest.py`, `message_batch.py`, `turn_source.py`, `turns.py`, `turn_platform.py`, `application/chat_orchestrator.py`) | `qq_official_accounts` (epoch, paused), an advisory lock, `qq_official_inbound_events`, `qq_official_turn_executions`, `agent_turns`, plans; RAM: token, batches, tasks | acquire, recover, probe, serve, pause, resume, stop; accept and promote a message, batch, prepare, begin, capture, hand off, fail, report | `OfficialTurns` |
| Cluster worker queue (`cluster_control/execution_storage.py`, `execution_service.py`, `scheduling.py`, `resource_policy.py`, `cluster_worker/service.py`) | `fleet_jobs`, reservations, grants, checkpoints, previews, artifacts; worker RAM and receipt files | submit, cancel, claim (which also reaps), renew, checkpoint, complete; worker poll, renew, execute, save and flush receipts | `ClusterJobs` |
| Deployments (`cluster_control/deployment_storage.py`, `cluster_deployer/`) | `fleet_deployments`, targets, maintenance locks, approvals; receipt files of the deployer | prepare, claim, renew, update a target, complete a phase, approve, cancel; preflight, activate, roll back | `DeploymentStore`, `FleetDeployments` |
| Managed host operations (`execution_storage.py`, `ops_management.py`, `host_operation_runner.py`, `src/ssh_operations.py`, `src/host_control.py`) | `fleet_operations`, `fleet_approvals`; the host's own job files | propose, approve, claim, checkpoint, finish, reconcile | `OperationLedger`, `HostJobs`, `ManagedOperations` |
| Background Codex jobs (`background_jobs.py`, `background_agents.py`, `codex_engine.py`) | `background_jobs` row beside the durable job; the VM session in RAM | submit (at most three), steer, cancel, recover, deliver the report | `BackgroundJobs` |
| Legacy deliveries (`delivery.py`) | the account-less rows of `deliveries` | claim, commit, park expired and interrupted attempts, reconcile an echo | not modelled: nothing drives it any more |
| Gateway connection (`qq_official/gateway.py`, `token.py`) | session id, last sequence number, heartbeat, bounded queue; durable checkpoint | identify, resume, dispatch, heartbeat, reconnect | `GatewaySession` |
| Official files (`qq_official/file_artifacts.py`, `file_dispatcher.py`, `file_services.py`, `file_upload.py`, `file_authority.py`, `blob_store.py`) | objects on disk, artifact and delivery rows; RAM: calls, one lock per file | register, read, upload, queue, notify; collect expired artifacts, pending clean-ups, orphans | `OfficialFiles` |
| Approvals, quorum, bindings (`bot_security/`, `approval.py`, `binding.py`) | requests, one-time codes, votes, bindings | propose, send code, confirm, vote, claim, execute, cancel | not modelled: approvals have no live driver, bindings are a candidate |
| Media, vision, archive (`media_library.py`, `vision_worker.py`, `cold_archive.py`) | media jobs, cached analyses, blobs and references | claim, complete, fail, collect | not modelled: nothing puts new work into these queues |
| Model gateway and budgets (`llm_gateway.py`, `local_model.py`, `model_budget.py`, `quota.py`, `qq_official/media_budget.py`) | RAM: a circuit per profile, readiness of the local model, budgets; `usage_events` | choose a candidate, acquire, release, record success or failure; probe, start and stop the local model; reserve, charge, settle | `ModelGateway` |
| Reliability (`cluster_control/reliability.py`, `guardian.py`, `guardian_ops.py`) | `fleet_guardians` (status, counters, check lease), `fleet_incidents`; repairs are `fleet_operations` | create, pause, resume, cancel; claim, probe, observe or recover an incident, propose a repair, finish a check; confirm, validate before dispatch | `Guardians` |
| Agent loop and tools, ledger, memory, proactive chat, sandboxes, console, migrations | per-turn RAM, append-only tables, external systems | see PROJECT.json | not modelled |

### 1.2 How they interact

* The **runtime** owns the account: it acquires the lease, recovers what earlier holders left and starts, in
  one process, the gateway, the durable-job worker, the sender and the turn tasks. All of them carry the same
  *token* (epoch and database session), and every transaction begins with `assert_epoch`.
* A gateway event becomes an inbox row (transaction), then a **turn** (RAM), whose answer becomes a plan in the
  **outbox** in the same transaction that marks the turn handed off. The outbox sends it later.
* Long work goes through **durable jobs** (schedules, background agents, files). Their handlers call back into
  the outbox and the journal.
* **Workers** and **deployers** know the control service only through HTTP. A lease and a *fence* number stand
  for ownership; receipts are kept on disk until they are answered.

### 1.3 What is hard

* *Leases under live holders.* A lease ends while its holder still computes: job handlers, turn tasks,
  cluster attempts. Everything they write later must be refused, or be harmless.
* *Two or three tables for one fact.* Job and reservation and grant; turn and journal and plan; delivery and
  attempt and receipt. Each is changed by four to six handlers.
* *Unknown outcomes.* A POST, an HTTP answer or a dispatched host operation may or may not have happened.
* *Restart at any line.* What is in RAM (queues, passive counters, results, one-time codes) is lost, and the
  recovery code decides from rows alone.
* *Error handlers that fail.* The code that cleans up makes database calls of its own.
* *Priority, capacity, quota.* Waiting work must neither starve, nor be admitted beyond a limit through the
  difference between two tables' ideas of what is running.

The hazards, one by one and with their lines, are in `PROJECT.json`; those of components that are not modelled
yet say so.

### 1.4 What makes each component correct

* **Durable jobs**: at most one execution can settle a job; a stored result is the latest claimant's; attempts are
  charged exactly once per execution that counts; a pending job can always be claimed some day; no worker takes more
  of a scope than its limit (two processes together may); an ended job is not revived; every job ends if handlers do.
* **Outbox**: the platform accepts a delivery at most once; an unknown outcome is never replayed; what is called
  failed was not accepted and what is called committed was; reply numbers and quotas survive restarts; the parts
  of a plan keep their order.
* **Account and turns**: a new holder leaves no turn of an old one open; a turn is run once; a person is told one
  thing; row, journal and outbox agree; an account that is not paused comes to be served.
* **Cluster queue**: reservations mirror rows; budgets and capacities hold; a committed result is the one
  reported; a preview follows its job; an ended job keeps its outcome; every job ends.
* **Deployments**: a host changes only as an approved preview shows, under its lock or through a switch that was left
  behind by the one who had it; what the ledger says of a host is true; an ended deployment is left alone; none stays
  in a dead deployer's hands.
* **Managed operations**: a write is sent once and takes effect once, under an approval that was used up for it; what
  an ended operation says is true; each ends or is handed to an administrator.
* **Background jobs**: one engine run for a job; nobody is told that an unfinished job is complete; the report reaches
  its conversation; a cancelled engine stops.
* **Gateway**: the platform is never told that an event is done with before it is stored, whatever connection, replay
  or change of the lease lies between.
* **Model gateway**: a profile that is said to be probed is being probed; the local model is offered only on news from
  after the last command; what an OCR request costs is charged before it is sent.
* **Guardians**: no repair without its owner's confirmation, one at a time and each sent once; the used actions are the
  confirmed ones; a counted threshold of failures was reported; a check under way does not undo a pause.
* **Files**: an artifact that is called available has its bytes; a file whose bytes were given up is waited for by
  nobody; an accepted file stays accepted; objects that nobody needs are removed.
* **Approvals, bindings** (not modelled): a code is used once, by the channel it was issued to; a vote counts once.

## 2. The modules

Each model keeps all the control of its code and abstracts data. One store method is one action, because it is one
transaction (row locks, or an advisory lock, make it atomic); the exception is `claim_due`, which skips locked rows
and counts others and is therefore taken apart (2.1). Code between two transactions of the same task is where other
actors act, so a task is a record with a phase, and its steps are actions of their own. Every interference of the
environment (a crash, a lost answer, a cancelled job, a failed call) spends one unit of `MaxFaults` (`MaxTrouble` in
`FleetDeployments`): the bound keeps the state space finite and, since a fault can be spent anywhere, still reaches
every single-fault and every two-fault interleaving (three for `OfficialTurns`, one for `ClusterJobs` and
`FleetDeployments`; in the latter, copies to one of the hosts may fail for nothing besides). `GatewaySession`,
`OfficialFiles`, `ModelGateway` and `Guardians` have no such bound: there platform, network and processes may fail at
any time.

### 2.1 `DurableJobs`

`rows` is the table, `runs` the executions in flight with the row they were given, `registry` the worker's
`_running` dictionary, `charged` a history variable that counts the executions a job has paid for. Time is a
distance: `left` (to the lease's end) and `wait` (to the next attempt) are counted down by `Tick`.

`claims[w]` is the claim a worker is in. Workers are processes, and a claim locks only the rows it selects (`FOR
UPDATE SKIP LOCKED`); its counts see, at READ COMMITTED, what others have committed and what it has done itself. So a
claim is a `Selects`, a `Counts` for each row it has locked, and the commit (`Claim`), and everything that locks do
not exclude may happen in between: other claims, settlements of other rows, an enqueue, the crash or the stop of the
worker. Two workers can take a job of one scope each, beyond `per_scope_limit`; what the code does guarantee is
`WorkerScopeLimit`, of one worker.

| Action | Code |
|---|---|
| `Enqueue`, `Cancel`, `Requeue`, `OpenStore` | `enqueue`, `cancel`, `requeue`, the constructor's recovery |
| `Selects`, `Counts`, `Claim`, `ClaimRaises` | `claim_due`: recovery and selection, the second count of a row's scope, the commit with the new generations; the worker's loop around it; a statement that fails |
| `HandlerEnds`, `MarkSucceeded`, `MarkFailed`, `Defer`, `ReadAfterCancel`, `SettlementRaises` | `_execute` and the settlement methods |
| `Renew`, `LeaseLost`, `HeartbeatRaises` | the heartbeat |
| `WorkerCancel`, `Stop`, `Crash`, `Tick` | `cancel` and `stop` of the worker; process end; time |

### 2.2 `OfficialOutbox`

One endpoint, several processes. `row`, `att` are the three tables (a receipt is a field of its attempt);
`proc[p]` is what a process keeps in RAM, with a program counter `lane.pc` for the endpoint's worker; `holder`
is the process whose token is good. `plat`, a field of an attempt, records what the platform really did: no guard
reads it. `LaneStep` walks `_send` and its error handling, `LoopStep` the polling loop, `Recover` the start of a
new process, `Environment` whatever else changes the rows, the route and the inbound messages: `Enqueue` stores a plan,
`SendDelivery` submits a stored delivery at once as `send_delivery` does, without waiting for the poll, and
`CancelEphemeral` is every end of `emit_ephemeral`: whether it was answered, timed out or failed, it cancels a delivery
that is still pending and forgets its payload.

`Outbox` is what this promises to whoever enqueues a delivery, without attempts, receipts, leases or processes: what
the outbox says of a delivery, and how often it has reached its addressee, which the outbox cannot read. A delivery
may reach him once, while it is called sending or has been given up for lost (`Reach`); it is tried again or failed
only if it has not (`Refuse`), called committed only if it has (`Confirm`), and what is ambiguous stays so unless it
turns out to have arrived. `ImplementsOutbox` maps `says` to the status of the row and `reached` to the number of POSTs
that the platform accepted (`plat`). It implies `AtMostOnce` and `SettledStaysSettled`, and says of every *step* what
`TruthfulOutcome` says of states: a retry, too, is only made of what nobody has got.

### 2.3 `OfficialTurns`

The account row, the lock and the processes; one conversation; a message has an inbox row, an execution row, a
journal turn and the set `said` of the conclusions enqueued for it. `tasks` are the turns in RAM.

| Action | Code |
|---|---|
| `Acquire`, `Recover`, `Notice`, `GatewayStops`, `Resume`, `Stop`, `Crash`, `LoseLock` | `lease.acquire`, `_recover_interrupted_turns`, `probe` and the monitor, the end of `_serve`, `resume`, `_stop_locked` |
| `Receive`, `DispatchFails` | `accept` with `process_inbox` and `run_inbox`; a gateway callback that raises |
| `Due`, `Prepare`, `Begin`, `Capture`, `HandOff`, `Undeliverable` | the batcher's timer, `claim_execution`, `begin`, `finish`, `_enqueue_frozen_result`, the early return of `_execute` |
| `Fail`, `Refused`, `Report` | the handlers of the orchestrator and the consumer, and `_run`'s apology |
| `SetAdmission` | bindings, membership and configuration, outside the model |

`OfficialTurns` and `OfficialOutbox` overlap in the account lease: the first models how it is acquired and lost,
the second takes it as given (`holder` moves). The result of the first (`said`) is the input of the second
(`Enqueue`).

### 2.4 `ClusterJobs`

`rows`, `resv`, `grants`, `preview`, `verdict` are tables; `attempts` and `receipts` the RAM and disk of the
workers; `calls` the completions in the service between its two transactions. `Claim` is the whole of
`claim_job`: the expiry of overdue and lapsed jobs, with their reservations, grants and previews, then the
selection under the owner's policy, the worker's capacity and a grant's. `PollInVain` is a claim that only expires.
`SendReceipt` is the first transaction of a completion (the artifact's verdict), `CompleteJob` the second.

### 2.5 `FencedQueue`, the promise of both queues

A job is held in numbered turns; only who still has the current turn can make it succeed; a new turn reuses no
number; a success is for ever. `DurableJobs` implements it with its lease generations, `ClusterJobs` with its fences;
in both, `out` is everything that may still speak for a turn: executions in RAM, and for the workers also the receipts
on disk and the completions under way. `ImplementsFencedQueue` is a PROPERTY of both runs, and is proved for both
(section 4). What it adds to the invariants is that it speaks of *every* step: nothing but a fresh claim makes
a turn, and no success comes from anyone but the holder of the current one.

### 2.6 `DeploymentStore` and `FleetDeployments`

`DeploymentStore` is the ledger: one operator per transaction of `deployment_storage.py`, from `Prepare` to
`CompletePhase`. `ClaimRow` is the whole of `claim`: the sweep of stale and late rows with their locks, the queued rows
that are closed because their approval no longer holds, and the row that is taken. `FleetDeployments` drives it:
`proc[p]` is a deployer with a program counter, `host` the closure each host runs, `diskReceipts` the directory of
completions that could not be reported, `adrift` the switches that were left behind.

A switch runs on the host, the deployer has only an ssh client. When that fails, is killed by the guard or dies with
the deployer, nothing is known of the far end (`docs/ssh-operations-migration.md:79`): `Severed` leaves the host as it
was, or switched, or leaves the switch there, and `AdriftLands` lets it take effect at any time after, when the row has
ended, the lease has run out or another deployment has the lock. `HostRowsTruthful` and `PreviewRespected` are stated
with that in view: a row `succeeded` or `rolled_back` still means that its deployment left nothing behind on the host,
but no deployment can be sure of a host on which another one did, and a change of a host is either under a live lock or
of such a switch. What the fence does guarantee is that only a deployment with a live lock leaves one behind.

| Action | Code |
|---|---|
| `Administer`, `TimePasses`, `LeaseEnds` | the console and the clock |
| `ClaimDeployment`, `ClaimAnswerLost`, `PolicyChanged`, `Start` | `run_forever`, `claim` in the service and the client, `_validate_claim` |
| `Preflight`, `CheckHost`, `Activate`, `HandleFailure`, `Rollback`, `FinishPhase`, `GiveUp` | `_preflight`, `_apply`, `_activate_target`, the failure branch, `_rollback_target`, the end of `_run_deployment`, `_complete_best_effort` |
| `RenewLoop`, `Flush`, `DeployerCrashes` | the lease guard, `_flush_local_receipts`, the process |
| `AdriftLands` | the host, where nobody watches any more |

### 2.7 `OperationLedger`, `HostJobs` and `ManagedOperations`

`OperationLedger` is the transactions on `fleet_operations`, `HostJobs` the receipts and systemd units at the far end,
`ManagedOperations` the rounds of the runners between them. A round is one pass of `run_once` (or of
`run_host_operation`, for checked commands and reboots): `Claims`, `Decides`, `Validates`, `Checkpoints`, `Sends`,
`Answered`, `Recovers`, `Observes`, `AsksToStop`, `Verifies`, `Finishes`. `stray` holds the writes whose sender has
given up waiting and that may still arrive. The hub that carries out the kinds `call` and `job` is outside the
repository: of it only its idempotency key is assumed.

What a job did and what its operation may say of it are kept apart. The helper of a checked command reports its
preflight (`proof`) or that it does not start the command (`refused`), and the receipt of a systemd action shows the
unit in the state that was asked for, in another one, or proves nothing (`shows`). `Observed` and `Verifies` decide
from these as `observe` and `verify_service` do: a refusal ends the operation as `failed` however the job ended, a job
that succeeded ends its operation as `failed` when its receipt shows another state (asserted by
`tests/test_service_verification.py:168-172`) and leaves it to an administrator when nothing is proved, when a restart
left the instance as it was, or when the two minutes of the verification are over. `OutcomeTruthful` is stated over
that evidence: not "failed means that the job failed", which the code does not promise.

### 2.8 `BackgroundJobs`

`BackgroundJobs` EXTENDS `DurableJobs`, whose actions it uses as they are: a durable job's handler is a `runner` here,
and the handler is over when its runner is. `back` is the second table; `holder` and `up` are the account lease
and the runtimes as `OfficialTurns` has them; `cancels` are a user's cancellations between their two transactions,
`reports` the deliveries under way. `Submit`, `CancelRow`, `CancelJob`, `Revoke` are the users; `StartRuntime`,
`StopRuntime`, `Release`, `CrashRuntime`, `LoseAccount` the runtimes (one that is stopped first waits for its tasks and
for a claim under way, whose rows then have nobody to execute them and wait for the end of their leases); `ClaimJobs` and
`ClaimFails` the queue's claims, step by step; `Reads` to `Saves` the lines of
`BackgroundRunner.execute`, each database call a step; `Reconcile`, `Answers`, `Delivers`, `DeliveryFails` the return
of results.

### 2.9 `GatewaySession`

The connection of one account, below `OfficialTurns`: `row` is the resume point in the account row, `stored` the
receipts of the inbox, `point` the copy of the resume point in the RAM of each process, which is what its heartbeats
and its Resume tell the platform.

| Action | Code |
|---|---|
| `Acquire`, `LeaseLost`, `Stop` | the runtime's start and end of a gateway |
| `Connect`, `Disconnect`, `Reject`, `AuthFails`, `Clear`, `ClearUnheard` | `run`, `_session` and the close policies; `_clear_checkpoint` |
| `TakeReady`, `TakeEvent`, `TakeResumed`, `TakeGap` | `_dispatch`, up to the first await: kind, session and number of the frame |
| `AcceptDuplicate`, `AcceptNew` | `inbox.accept`, one transaction |
| `Acknowledge`, `Publish` | the checkpoint transaction, and the copy that follows it |

### 2.10 `OfficialFiles`

The files of one account. An object on disk is shared by all artifacts with the same digest and is not part of any
transaction, so the model has both: the rows (`bytes`, `pending`, `due`, `state`, `plan`), the directory (`disk`,
`fresh`) and `tx`, the transaction that holds the advisory lock between its last query and its commit. A call of
`send_artifact` carries the epoch of the service that runs it (`since`). Every caller is either a turn or a durable
job; a job may be delivered again at any time, which is more than the queue does. `out` is the status of the delivery,
a summary of `OfficialOutbox`.

| Action | Code |
|---|---|
| `RegisterBegin`, `StoreBlob`, `RegisterCommit` | `register`: the lock and the first look at the source, the file, the rows |
| `CollectExpired`; `CleanupShared`, `CleanupBegin`, `CleanupUnlink`, `CleanupCommit` | `collect_expired`, then `retry_cleanup` for each tombstone |
| `OrphanBegin`, `OrphanUnlink` | `collect_orphans`, for each old object of its page |
| `Cut`, `LateUnlink` (only with `SessionLoss`) | the lock's database session ends before the unlink it allowed |
| `Enter`, `Lock`, `Load`, `Read`, `Upload`, `Queue`, `Sent`, `Fail`, `Notify` | `send_artifact` and the job's handler, each database call a step |
| `Prepare`, `Accept`, `Refused` | the sender, with `assert_file_current` and `apply_file_receipt` |

### 2.11 `ModelGateway`

The calls of one process to its model profiles. `opened`, `failureCount`, `probed` and `last` are the circuits; `phase`,
`left` and `fit` say how far each call is in `create_completion_with_profile` and which candidates it has left. `loop`
is the call that is choosing: it does so without an await, so no other task of the event loop moves meanwhile, while
time, the threads of the store and an administrator's command do. A call is a request of the agent, one that asks for
a stream, or an OCR call (`Ocr`), which alone has a budget and a durable charge. What the provider really used is
`uses`, which the code learns only if a receipt comes back.

| Action | Code |
|---|---|
| `Start`, `Skip`, `SkipOpen`, `Admit`, `GiveUp` | `_completion_candidates` and the loop over them; `acquire` |
| `PrepareCharge`, `Reserve`, `Ask`, `Settle` | `_create_single` under a budget: `prepare`, `OCRUsage.reserve`, the request; `OCRUsage.settle` |
| `Answer`, `Fail`, `Interrupt` | the three ways out of the request, each with its `finally` |
| `OpenStream`, `FailPriming`, `CloseRaw`, `EndStream`, `Abandon` | `_CompletionStream`, whose end comes after the call has returned |
| `CircuitCools`, `Crash` | the cooling time is over; the process ends |
| `BeginProbe`, `EndProbe`, `GoStale` | `probe_once` and the age of its answer |
| `BeginCommand`, `CommandAnswered`, `EndCommand` | `LocalModelRuntime.control` under `AdminControlStore.mutate`: three separate critical sections |

### 2.12 `Guardians`

The guardians of one target, whose incident and host they share, with `OperationLedger` for their repairs: a repair is
the pair of its guardian and its number, as in the idempotency key. `check[c]` is what a control process is doing with
the row it claimed (`failures` and `used` are the claimed values, `late` says that its lease would be over), `round[r]`
what a runner is doing. `told` and `sent` are history variables: which guardians have reported a failure since they
last recorded a pass, and which repairs were sent.

| Action | Code |
|---|---|
| `ClaimCheck`, `Sweep` | `claim_due_guardians`; the completion of expired guardians that listing them makes too |
| `Probe`, `Recover`, `Observe`, `Propose` | `_check` with `recover_incident`, `observe_incident`, `GuardianOpsBridge.submit` |
| `FinishCheck`, `BreakOff`, `StopChecking` | `finish_guardian_check`; an error that `run` logs; the process ends |
| `Create`, `SetStatus`, `Confirm`, `CancelRepair`, `Resolve`, `Maintain` | the console; `Confirm` is `approve` with `_reserve` in the transaction of the approval |
| `TakeUp`, `Authorize`, `Validate`, `Commit`, `Send`, `LookAtJob`, `FinishRound`, `StopRunning` | `run_once` for an operation of a guardian, with `validate_dispatch` |
| `CheckLate`, `LeaseLapses`, `Expire`, `CoolDown`, `RepairTime` | the clock: leases, the guardian's time with the approvals given under it, the interval after a repair |

What `ManagedOperations` has in detail (the host's job, its receipts and its verification) is any verdict here; what
that module leaves to "a check that may fail" (the parent's authorization) is the subject here.

## 3. The runs

| Run | Instance | Shows |
|---|---|---|
| `durable_jobs` | 2 jobs of one scope (one resumable), 2 workers (one takes two jobs at a time, one takes one) whose claims overlap, scope limit 1, lease 2, 2 faults; 354 k states | no job stranded, no double settlement, exact accounting, the limit of each worker, the fenced queue, every job settled |
| `official_outbox` | a stored and a one-time delivery, 2 processes, 1 inbound message with 1 reply, 2 faults; 1.9 M states | at most once, truthful outcomes, traceable replies are counted after restarts, the promise of `Outbox` at every step |
| `official_outbox_order` | two stored parts | **violation** of `PartsInOrder` |
| `official_outbox_seq` | two one-time deliveries, two inbound messages | **violation** of `PassiveSeqFresh` |
| `official_turns` | 2 messages, 2 processes, 3 faults; 1.26 M states | recovery, single conclusion, agreement of the tables, service |
| `official_lease` | the same, 2 faults | **violation** of `LeaseContendedAgain` |
| `cluster_jobs` | a borrowed inspection that may move between 2 workers and a preview of the owner's own, clock to 2, 1 fault; 483 k states | nothing lent twice, mirrors, reuse of a committed result, the fenced queue, outcomes |
| `cluster_verdict`, `cluster_cancel` | the same | **violations** of `VerdictOfFinisher`, `CancellationEnds` |
| `fleet_deployments` | 2 deployments that share a host (one rolls back, one does not), 2 deployers, 1 fault, switches left behind; 372 k states | truthful host rows, an approved preview respected, ended is final, no deployment left in dead hands |
| `managed_operations` | 1 operation of any of the 5 kinds, 2 runners, 2 reboots, 2 faults; 793 k states | sent and run once, truthful ends, every operation ends or is handed over |
| `background_jobs` | 1 job, 2 runtimes, 2 faults; 163 k states | one engine run, no false success, the report returned, a cancelled engine stops |

`MCGatewaySession` is one more instance, to be run by hand like the others (2 processes, numbers 1 to 3, 2 sessions;
about four minutes): it checks what `OfficialAccountProofs` proves in general. `MCOfficialFiles` (two requests of the
same bytes, two calls, two epochs; 1.1 M states, half a minute) does so for the second half of that module, and
`MCOfficialFilesLeftovers.cfg` checks with the same module that an object nobody needs is removed in the end.
`MCModelGateway` has three configurations of two profiles: three calls, one OCR and one stream (3.5 M states); two
calls with a local profile and one command (`MCModelGatewayLocal.cfg`, 4.4 M); and, with fairness, that every probe and
every call comes to an end (`MCModelGatewayEnds.cfg`, 31 k). The first two take a minute and a half each.
`MCGuardians` has four: one guardian with two repairs over SSH (1.6 M states, two minutes), two guardians that only
observe, checked by two processes with a threshold of two, of which one keeps its time (`MCGuardiansWatch.cfg`, 2.6 M,
four minutes), one repair of any kind between two runners (`MCGuardiansRunners.cfg`, 3.3 M, four minutes) and one on a
host that deployments take and give back (`MCGuardiansHost.cfg`, 1.4 M, one minute). All but the last leave
maintenance out. None looks past the two minutes of grace after a deadline: no guard of `Guardians` tells them from what
follows.

Why these bounds are enough to be interesting: two jobs, messages or parts are the fewest that compete for a
scope, a conversation or an order; two processes or workers are the fewest that can hold the same thing one after
the other while the first is still alive; a lease of one or two ticks can end at every step of its holder; and
one fault more than the scenario of each property needs has been allowed where the run still takes minutes. Every
property is paired in `PROJECT.json` with a mutant, a plausible bug of a mapped definition, that breaks it under
the same instance. Deadlock is not checked where the system may really stop: jobs ended, turns over.
`official_outbox` uses symmetry of the processes and has safety properties only.

### 3.1 Fairness

* `DurableJobs`: the worker's loop with the claims it begins, heartbeat and settlement and the passage of time are
  weakly fair (`WorkerFairness`: they are coroutines of a loop that never blocks, under systemd). Handlers are not
  assumed to end; `EnqueuedIsSettled` states that assumption (`HandlersEnd`) in front of it, `LostHandlerStops` does
  without.
* `OfficialTurns`: acquire, recover and the monitor's probe are weakly fair, as the runtime's loop retries with a
  capped delay for ever. Nothing is assumed of messages, models, gateways or operators.
* `ClusterJobs`: time, polls and the steps of a worker are weakly fair; systemd restarts workers. Clients and owners
  are not assumed to do anything; a request or an answer may be lost, but each loss is a fault, so a saved receipt
  is answered in the end.
* `FleetDeployments`: the loop of each deployer is weakly fair (every call and command has a timeout) and leases run
  out. Administrators, deadlines, the lease guard and switches left behind owe nothing. A lease runs out only when
  nobody renews it and its deployer waits for no switch, whatever goes on at the host: a renewal every 20 of 120
  seconds, a 30-second limit on it and 5 seconds to kill a command leave a margin that the model takes for granted.
* `ManagedOperations`: the rounds of each runner are weakly fair, leases run out and time passes. Jobs, hosts and
  administrators owe nothing: an operation whose job never ends is handed over at its deadline.
* `BackgroundJobs`: one runtime or the other starts, worker, heartbeat, runner steps, reconciliation and deliveries
  are weakly fair. Engines need not return: `EnginesEnd` stands in front of `ReportReturned`, and `CancelledJobStops`
  does without it.
* `OfficialFiles`: somebody acquires the lease again, transactions end, objects grow old, and an orphan whose removal
  fails is tried again on a later round of `maintain`, every 30 seconds.
* `ModelGateway`: each call goes on: clients have timeouts, and whoever got a stream reads it to its end or closes it.
  Providers need not answer and an open circuit need not cool down.

### 3.2 Findings

Five statements of the documentation are not what the code does. Each is a run whose counterexample is the
evidence; the quoted lines are in `PROJECT.json`.

1. `PartsInOrder`: a send worker that fails inside its own error handler dies with the delivery's future still
   registered; later parts go to a new worker and overtake the part that was interrupted.
2. `PassiveSeqFresh`: a one-time code answers the newest inbound message but is recorded under the message that
   asked; after a restart the counter of the former is seeded too low and a `msg_seq` is used twice.
3. `VerdictOfFinisher`: the completion handler settles an artifact in a transaction of its own before the fence is
   compared, so a stale failure marks the validated artifact of a succeeded job as rejected.
4. `CancellationEnds`: no query recovers a job in `cancelling` when its worker is gone; reservation and budget stay.
5. `LeaseContendedAgain`: if a gateway event meets the lost lease before the monitor does, `GatewayCallbackError`
   hides the cause, and the runtime waits for an operator instead of contending again.

Further behaviour met on the way, stated in comments, hazards or the properties' exceptions rather than as runs.

*Turns.* The text of a captured result
lives only in RAM (nothing writes `result_body_json`), so the branch of the recovery that would hand it off is
never taken and the person is asked to repeat; and a request that waits in the batcher, or is accepted but not yet
prepared, is lost silently at a restart, which ADR 004 accepts for ordinary chat.

*Durable jobs.* `per_scope_limit` bounds each worker and not the table: two processes that claim at once each miss
what the other is about to commit (`jobs.py:174-199`). Nothing in the repository promises more.

*Deployments.* When the calls that follow an activation are lost, the target row stays `deploying` or `verifying`, and
a completion with `ok = False` makes the deployment `failed` though the host runs the new closure. A cancellation
during a roll-back ends as `cancelled` or `rolled_back` with a host in between. A deployment that is `cancelling` when
its deployer dies is picked up by nobody (the counterpart of finding 4). The retry of a preflight whose lease expired
("safe_retry") cannot succeed if a host is already `build_ready`: the transition back is refused.

*Managed operations.* A lost answer or a failed observation at or after the deadline ends a checked command as
`failed` though it may be running (`host_operation_runner.py:207`), against the comment in `ops_management.py` that "an
unavailable observation must not turn an existing remote job into a failure" and `docs/ssh-operations-migration.md:80`;
`OutcomeTruthful` therefore speaks of failures within the deadline. The take-over by "deterministic handle" that
`ops_management.py:272` describes is unreachable for the systemd kind: the claim has marked such a row
`needs_attention` before. The kinds of the hub have no checkpoint, so a cancellation between validation and call is
not seen.

*Background jobs.* The runner's two updates are unconditional, so a cancellation that commits between its read and
its update, or between the engine's return and the last update, is overwritten: the user is told `cancelled` and the
job goes on or ends `completed` (docstring of `background_jobs.py`: "keeps the job's state honest"). A second
cancellation while the first is handled leaves `completed` with an empty report (`torn` in the model). A stop that
lands in an update leaves the row `running`, in one of the three places, until a runtime starts (`Orphaned`). Twenty
results whose conversations were revoked are retried for ever and keep later results from being looked at (`Starved`).
A new runtime may report a job as failed whose old runner then writes `completed`.

*Gateway.* If the connection breaks while the READY of a new session is being stored, the row has the session and RAM
has not. The process identifies again, the next READY names another session, `accept` refuses it ("Official READY
does not match checkpoint session"), and the account waits for an operator, for what was a passing network failure.
The gap check of the connection is not what keeps events from being skipped: `accept` takes only the next number. A
RESUMED that names a later number is believed, so those numbers are waived by the platform's word.

*Files.* The lock is the database's, the unlink is the file system's. If the session of a collector ends between its
last query and its unlink, another registration of the same bytes may find the object there, commit, and then lose it:
`MCOfficialFiles` with `SessionLoss = TRUE` breaks `AvailableHasBytes` in twelve steps, against the comment in
`collect_expired` that "a database rollback must never leave an available manifest pointing at bytes deleted by this
collector". The window is a few instructions wide. The job of a file starts while the turn still sends it: if the
job's upload fails, the person is told so and asked to try again, and the turn's own call, next in the line of the
lock, may deliver the file a moment later. The handler returns its failures as results, so the five attempts the job
was given are used for crashes only.

*Model gateway.* A circuit does not know whose its probe is. A call that began before the circuit opened clears the
flag when it ends, so that a second probe may run beside the first, and its outcome closes or opens the circuit
whatever the probe finds; `NoDeadProbe` is the half of the promise that holds. A timeout set by the caller is a
cancellation and counts as no failure of the profile. The budget of an OCR call allows one request, so the fallback
that follows a failure is always refused by `prepare`, after it acquired the next profile. "A probe begun before a
start/stop command cannot undo its routing gate" (`local_model.py:133`) holds, but no more than that: the command
makes the model not ready and raises the revision in two critical sections, and the answer of a probe that began while
the command was under way may come between them and open the gate (with `wordOf = revision` in its place,
`GateFollowsCommand` fails in `MCModelGatewayLocal.cfg`).

*Guardians.* `Guardians` allows behaviours that their state suggests are excluded; TLC finds a trace of each. A repair
can be sent although its guardian was cancelled, or its host went into maintenance, after the runner's last look;
over SSH the checkpoint still refuses what has expired (`CommittedInTime`), while the hub's kinds have no such look at
all. A check that was under way when its guardian was paused may still propose a repair; the owner's confirmation is
then refused. If a check breaks off between reporting a failure and recording it, the count may stay below the
threshold, and the pass that follows then does not call `recover_incident`: the incident stays open until somebody
resolves it. A repair that ends as anything but `succeeded`, and a proposal that is cancelled unconfirmed, whose key
is then taken, is the last one its guardian can have, whatever `max_actions` is. The `action_used` of
`finish_guardian_check` is never true: `actions_used` grows in `_reserve` alone.

## 4. Proofs

`DurableJobsProofs` proves, for any finite set of jobs, any workers, budgets, scopes, priorities, limits and
leases that satisfy `JobsAssumption`:

| Theorem | Property |
|---|---|
| `TypeCorrect` | `TypeOK` |
| `PendingHasBudget` | `NoStrandedJob` |
| `Accounting` | `AttemptAccounting` |
| `Fencing` | `OneHolder` |
| `ResultIsCurrent` | `ResultOfLatestClaim` (not a run's property: it follows from `IInv`) |
| `ScopeBound` | `WorkerScopeLimit` |
| `EndedStaysEnded` | `TerminalIsFinal` (an action property) |

None of these is inductive alone. The invariant `IInv` is a conjunction of these parts:

* `TableOK`: every row is well formed (`RowOK`): its attempts are what it was charged plus the execution in progress;
  a pending row has budget left and a running one does not exceed it; only a running row has a lease; the result of a
  succeeded row is that of its current generation. Budget and accounting need each other: a refund keeps attempts at
  or above zero only because the execution refunded is in the count.
* `RunsFit`: every run's generation is at most its row's, and two runs of one job and one generation are the same
  run. That is what makes the fence a fence: a claim takes a generation no run has.
* `ClaimsFit`: a claim under way counts and takes only rows it has locked, no two claims lock the same row, and a
  locked row stays as ready as it was selected. That is what makes the commit sound that comes several steps later.
* the types of the registry and of the fault counter.

The proof has lemmas about a row (`ReleasedRow`, `RecoveredRow`, `ClaimKeepsRow`, `DeferKeepsRow`, ...), about the
table and the runs (`OneRowStep`, `RecoveredTable`, `FewerRunning`, `RunsEnd`, `PhaseChanges`), one lemma per
action, and `NextInv`, which puts them together; the theorems follow by one temporal step each. The assumptions
are those of the module and nothing else; the fault bound is arbitrary, so it bounds nothing the theorems say.

`ScopeBound` has an invariant of its own on top, `ScopeInv`: a worker's leases in a scope are within the limit, and so
are its live ones together with what its claim has taken so far. The second half is what `Counts` establishes row by
row and what survives until the commit, because nobody else gives a worker a lease (`RowKept`); the expired leases,
which the count left out, are recovered by the commit itself. The leases of the other workers are no part of it, and
the table as a whole has no bound: two claims that overlap may each find room for one.

The same module proves `Refinement`: `Spec => ImplementsFencedQueue`, under the same assumptions. `IInv`
is not enough for it, because the abstract queue wants a success to come from a turn that is out and a result from a
turn between one and the current; `TurnsStartAtOne` supplies that a run in flight, a running and a succeeded row
carry a generation of at least one. Each action is then shown to be a `Move` of every job, or none, with the turns
that disappear and the at most one fresh turn per job that appears.

`OfficialOutboxProofs` proves, for any deliveries, processes, plans, one-time payloads, limit of passive replies and
number of faults (`OutboxAssumption`):

| Theorem | Property |
|---|---|
| `TypeCorrect` | `TypeOK` |
| `NothingSentTwice` | `AtMostOnce` |
| `OutcomesTruthful` | `TruthfulOutcome` |
| `RepliesCounted` | `TraceableRepliesCounted` |
| `Refinement` | `ImplementsOutbox` |
| `SettledForGood` | `SettledStaysSettled` (an action property that `ImplementsOutbox` implies; no run of its own) |

`IInv` has three parts. `Types` is `TypeOK` without the bound on the slots, which needs the third part. `Once` says
what the rows, the lanes and the RAM of the processes owe each other:

* `RowFits`: an attempt recorded as unaccepted was not accepted by the platform; only the last attempt of a delivery
  may be anything else, and not that one either while the delivery may still be sent. Hence at most one attempt of a
  delivery was ever accepted.
* `LaneFits`: between the committed attempt and the settlement, a lane's attempt is the last one of its delivery and
  has not been given up; in the process that holds the lease the row says `sending`, and before the attempt it says
  that the delivery may still be sent. A process that lost the lease is only held to what nobody else can change.
* `QueueFits`, `HeardFits`: a delivery is in the queue or in the lane, once, and has a future; a receipt in RAM is of
  an attempt that was accepted.
* `Apart` and `Silent`: two processes never have one delivery under way at once, and a process that waits for an
  answer is not overtaken by a receipt of the same delivery in another one's RAM. These are what a lease that moves
  during a request puts to the test.

`Numbered` is about the passive replies. `Kept(m)` are the replies to `m` that may have reached somebody and that the
history attributes to `m`; a lane that took a slot which no recorded attempt accounts for is `Uncounted`. The counter
of the current process is at least the kept replies to its message plus that slot, and its next number is above theirs
(`Numbers`); `SlotFits` relates a lane's slot to the counter. The counter is seeded from history whenever the newest
message changes, which restores both from the database alone. It stays within the limit because a slot is taken below
it only, and a refund gives back the slot that the lane holds and never a recorded one. What the history attributes
wrongly is outside `Traceable`: there `PassiveSeqFresh` is false, as the run `official_outbox_seq` shows.

There is a lemma for each handler. For `Refinement`, `ReachedOnce` takes from `RowFits` that the accepted attempts of a
delivery are none or the last one; `Moves` lists what one step may do to a status and what it knows when it does (a
refused lane holds an attempt that is the last and was not accepted, so none was; a receipt is of an accepted one);
`NextMoves` shows it of every handler but `Post`, all of which leave the accepted attempts alone, and `PostMoves` shows
that a POST is of a delivery that nobody has got and that is called sending or, when the lease has moved meanwhile,
ambiguous. `SettledForGood` is a corollary.

`ClusterControlProofs` proves two things. Of the worker queue, for any jobs, workers, grants, capacities, budgets and
costs (`ClusterAssumption`):

| Theorem | Property |
|---|---|
| `TypeCorrect` | `TypeOK` |
| `NothingIsLentTwice` | `NothingLentTwice` |
| `ReservationsMirrorRows` | `ReservationMirrorsRow` |
| `CheckpointsAreReused` | `CommittedResultReused` |
| `PreviewsFollowJobs` | `PreviewFollowsJob` |
| `Refinement` | `ImplementsFencedQueue` |

First it says once what a step may do to one row and its reservation (submit it, give it, renew it, cancel it, reap it
back to the queue or into failure, finish it, ...), and shows that every action moves every row so; most
parts of the invariant then follow case by case from these moves.

* `RowOK` relates a row to its reservation and its checkpoint. It is stronger than `ReservationMirrorsRow`, as it also
  says what a row holds of a grant, and that a fence is at most the ticks that have begun.
* `WordsOK` is what everything that speaks for an attempt knows: the attempts, the receipts on the workers' disks and
  the calls under way. A success reported under the fence the row is in names the committed checkpoint, or the attempt
  itself if there is none, so it does not matter which of them arrives, how often, or after which restart.
* `BudgetOK` equates what a grant has reserved with a sum over the jobs. Each handler subtracts what its own rows
  held, `GREATEST(..., 0)` included; equality shows that the clamp never hides an error.
* `RoomOK` bounds the load of `Booked`, which is more than the live reservations: a running row whose lease has lapsed
  may still renew it, as long as no poll has reaped it. With live leases alone the invariant is not inductive. A
  cancelling row is not renewed and may drop out, so its worker can run more than it booked: a listed
  hazard, not covered by the property.

The sums are a fold of the community modules. Their lemmas (a sum splits, is monotonic, follows a change of one
summand) are proved from the fold's definition without an induction schema: a property of the finite subsets that fails
somewhere fails at a minimal one (`SubsetsByOne`, from the well-foundedness of strict inclusion).

`Refinement` maps a row to `FencedQueue`'s job, its fence to the turn, and the attempts, receipts and calls that are
under way to the turns that are out.

Of the deployments, for any finite sets of deployments and hosts, any deployers, any non-empty order of distinct hosts
in each deployment and any amount of trouble (`DeploymentsAssumption`, `FleetAssumption`):

| Theorem | Property |
|---|---|
| `FleetTypes` | `FleetTypeOK` |
| `RowsTellTheTruth` | `HostRowsTruthful` |
| `EndsAreFinal` | `EndedIsFinal` (an action property) |
| `PreviewsRule` | `PreviewRespected` (an action property) |

What a deployer does next follows from where it is in its loop, not from the rows, so none of these is inductive: whether
a row may be called `succeeded` was settled three calls earlier, perhaps under a lease that has ended since. The
invariant `FleetSound` (`FleetInvariance`) has these parts:

* `Ledger`: a live row is in flight and has a deployer; an apply has a complete preview, the locks of all its hosts and
  an approval that is used up and was given by someone who had looked at the version before; a deployment that has
  started an activation never waits in a queue again (`SoundPast`), so it is applied once.
* `Truth`: `HostRowsTruthful`, and why it survives the deployments that come later. A switch that was left behind is of a
  deployment that touched the host and leads to one of the two closures of its preview (`DriftFits`), so that nothing else
  can turn up on a host whenever it takes effect. The closure of a deployment is only
  on hosts that it touched (`HostFits`), and what a deployment found on a host is the work of one that is not live any
  more (`Supersedes`), which can no longer say anything of that host.
* `Team`: what a deployer knows as long as it holds the current fence (`Knows`): in a preflight, that it has read as many
  hosts as it has passed; in an apply, that the hosts after the one it is at are as the preview shows and untouched, that
  those before it were touched and it left no switch behind there, and that every host it touched runs the old closure or
  its own (`KnowsPast`), in each case unless another deployment left a switch behind (`Strayed`). A deployer
  whose guard still trusts the lease, or that waits for a switch, holds it (`Vouches`): this is where the timing of the
  lease guard enters, through `LeaseEnds`. Nothing is said of what the others know; their calls are refused.
* `ReceiptsFit`: a receipt on disk names a deployment and a fence. Nothing else need be known of it: it can only
  report a failure, and is refused once the fence has moved or the deployment has ended.

A step of one deployer disturbs what another one knows only if both work on the same host under live leases. The locks
exclude it (`SoundLocks`). So `Turns` and `Stays` name what a transaction may do to a row, lemmas show it of every
transaction, and `WorkerStays` shows that what other deployers know survives it. The proofs made two definitions of
the model stricter: the arms of the two `CASE`s that choose a status overlapped, and TLA+ leaves the choice open where
the code takes the first; and what a deployer asks for has one name (`SshBacked`).

`OfficialTurnsProofs` proves, for any messages, processes and number of faults (`TurnsAssumption`):

| Theorem | Property |
|---|---|
| `TypeCorrect` | `TypeOK` |
| `OldTurnsStayClosed` | `OldTurnsClosed` |
| `ToldOnce` | `OneConclusion` |
| `OneStory` | `RowJournalOutboxAgree` |
| `ConcludedIsFinal` | `NothingRunsTwice` (an action property) |

`IInv` adds to the types:

* `Leased`: who has the lock has the epoch of the account's row.
* `RowOK`: what the row, the journal entry and the outbox owe each other. It is `RowJournalOutboxAgree` and
  `OneConclusion` in one, since each needs the other: only a row that is still open can be given a conclusion, and an
  open row has none.
* `TaskOK`: what a turn in RAM may rely on. Its row has the epoch under which the process took the account, and is
  where the turn is, or it is `cancelled` with an epoch that has passed (`Keeps`). That is the case a late step of an
  earlier holder meets; `Fenced` refuses it, and `Report`, which is not fenced by the row, is refused because its
  process cannot be `Current` any more (`Upheld`).
* `OneTurnEach`: a message has one turn, of one process, because the inbox lets it be asked for once. Without it two
  turns could each conclude the same row.
* `ServedAfterRecovery`: `OldTurnsClosed` without the condition that the account is not paused, which a resumption
  may change.

Each step of one turn is an instance of `MoveStep` (row, journal, conclusion and turn move together), of `QuietTurn`
(nothing is written) or of `Prepare`; `DropStep` is a process that marks its turns and leaves, in good order or because
a dispatch failed.

`OfficialAccountProofs` holds the proofs about two models that share no variable (the prefix `Files` keeps their names
apart). For `GatewaySession` it proves, for any set of processes and any `Numbers \subseteq Nat`:

| Theorem | Property |
|---|---|
| `NothingSkipped` | `AcknowledgedIsStored` and `ResumesCovered` |
| `CopyBehindRow` | `NeverAhead` |
| `RowAdvances` | `DurableAdvances` (an action property) |

The invariant adds to these and the types: every session in the row, in a process or in the history was issued
(`Issued`), so that a READY on its way to the inbox names a session with no receipts and no other user
(`FreshReady`); a process with a checkpoint works under that checkpoint's session and only while connected
(`Coherent`); no receipt of the row's session is ahead of the row (`StoredBehind`), so that a duplicate is never
beyond what the row covers; what was accepted is in the holder's row when it comes to be acknowledged (`InFlight`);
and what is about to be copied is covered, and in the holder's row (`Publishing`). The last three are what the
cancellation of a dispatch between its three steps puts to the test: each step may be the last one, and the copy
still follows the row.

and for `OfficialFiles`, for any requests, objects and calls (`ConstantsOK`):

| Theorem | Property |
|---|---|
| `FilesTypeCorrect` | `FilesTypeOK` |
| `BytesStay` | `AvailableHasBytes`, provided `SessionLoss = FALSE` |
| `RowsTruthful` | `NothingWaitsForLostBytes` and `AcceptedIsTrue` |
| `AcceptedIsFinal` | `AcceptedStays` (an action property) |

There are two invariants, which need nothing of each other but the types. `DiskInv` adds `LockedView`: what the
transaction that holds the lock has written or seen (the object it is going to refer to; that nobody refers to the
object it is going to unlink) is still so. `RowInv` adds that a call on its way to a plan found none and, if its
service holds the lease, still would (`NoPlanYet`). That takes two locks at once: within a service the asyncio lock
lets one call of a file in (`OneInside`), and between services the epoch lets only one of them commit; without either
a second call would turn `message_accepted` back into `handed_off`. Deleted bytes are past their deadline
(`DeletedIsDue`), and past the deadline no plan is accepted, so no call reopens an expired delivery.

`HealthProofs` too holds the proofs about two models without a variable in common. For `ModelGateway` it proves, for any
calls, profiles, routes and limits (`GatewayConstantsOK`):

| Theorem | Property |
|---|---|
| `GatewayTypeCorrect` | `GatewayTypeOK` |
| `ProbesAlive` | `NoDeadProbe` |
| `GateRight` | `GateFollowsCommand` |
| `ChargesRight` | `NothingFree` and `BudgetKept` |

`TypeInv` adds to the types that an engaged call still has the candidate it is engaged with (`EngagedSomewhere`): the
`finally` then releases a circuit of the registry. A step of one call leaves the others where they are
(`CallMovesAlone`), so a set flag can only lose its witness when that very call leaves, and every way of leaving clears
the flag (`LeavingClears`). The gate needs `WordIsFresh`: between the two critical sections that end a command, "ready"
can only be the word of a probe begun since it was sent. The charges need `PaidInv`, which follows each OCR call from
untouched to reserved, asked and settled: the row is there, with the bound, before `uses` is anything but zero
(`RowFirst`), and the budget holds the bound until a receipt replaces it (`Held`). `QuotaKept`, a sum over all calls,
is only model-checked.

and for `Guardians`, for any guardians, processes, thresholds and limits (`ConstantsOK`):

| Theorem | Property |
|---|---|
| `TypeCorrect` | `TypeOK` |
| `ActionsCounted` | `RepairsCounted` |
| `RepairsInTurn` | `OneRepairAtATime` |
| `SendsConfirmed`, `SendsOnce` | `OnlyConfirmedSent`, `SentOnce` (the latter an action property) |
| `CommitsInTime` | `CommittedInTime` (an action property) |
| `FailuresAreReported` | `FailuresReported` |
| `StopsHold` | `StopsStay` (an action property) |

`LedgerMoves` says once for all steps what none of them undoes: a succeeded operation stays succeeded, an approval is
not taken back, an operation that has left the queue does not return to it. `SendInv` follows the runners' rounds: one
that has not sent yet is the only such round of its operation, and no earlier one has sent (`FreshRounds`), because a
row that was dispatched and has no handle is left to an administrator (`OutcomeUnknown`); a handle and a success are
only known of what was sent (`SentIsKnown`, `RoundsKnow`). `CountInv` relates `used` to the approvals, which
`Confirm` alone changes, and changes together, and adds that an approval lapses with its guardian's time
(`LapsesTogether`). `CheckInv` holds that a check that still has the lease has the row's count of failures and has
reported the failure it is going to count as the threshold's (`ChecksKnow`), and that a lease is held on nothing that
was paused or cancelled (`LeasedIsActive`).

`ManagedOperationsProofs` proves, for any finite set of operations of any kinds, any runners, reboots and faults
(`LedgerAssumption`, `HostJobsAssumption`, `ManagedAssumption`):

| Theorem | Property |
|---|---|
| `TypeCorrect` | `TypeOK` |
| `SentAndDoneOnce` | `SubmittedOnce` |
| `EndedWithTheTruth` | `OutcomeTruthful` |

Neither property is inductive, since both speak of the row and its job alone, while what happens next is decided by
rounds that read the row earlier, perhaps under a lease they have lost. `IInv` is:

* `JobSound`: a job exists only for a write that was sent, its unit runs once at most, a command that was refused never
  runs, and what its receipt says of its end is what the unit did.
* `RowFits`: an operation nobody has claimed has sent nothing and has no round; what a row says of its end is
  `Warranted` by the job, its refusal, its receipt, the boot id or the service; a write still in the network is a
  write whose job does not exist.
* `RoundFits`: the same of a round, at each of its steps: one that is about to send knows that nothing was sent, one
  that is about to finish has a warranted verdict, one that verifies a service has seen its receipt.
* `Informed` and `Alone` are why those facts survive a takeover. A holder of the lease knows what the row records
  (`Informed`), so the checkpoint, which only the holder passes, lets one checked command through. The other kinds
  have no checkpoint: they rely on the operation not being claimed again until it has a handle, so that until then
  it has one round, and afterwards every round has the handle (`Alone`).
* `OneSender`: of all rounds of an operation one at most is sending or waits for an answer.

There is a lemma for each step of a round, of a host and of an administrator. Every step of a round keeps its own
`RoundFits` and what the rounds of others rely on, which is that rows, jobs and boot ids only move forward
(`Warranted` is kept by every move of a job).

`BackgroundJobsProofs` proves, for any jobs with one attempt, workers, leases and amount of interference
(`BackgroundAssumption`, `JobsAssumption`), and with the lemmas of `DurableJobsProofs` for the queue underneath:

| Theorem | Property |
|---|---|
| `EngineRunsOnce` | `OneEngineRun` |
| `SuccessIsTrue` | `NoFalseSuccess` |
| `QueueStaysSound` | `NoStrandedJob`, `AttemptAccounting` and `OneHolder` of `DurableJobs`, here under `BackSpec` |

The table of background jobs cannot carry the first argument: recovery, cancellation and the runner's last write set
its state without a look at it. The queue does. `BackInv` has `DurableJobs`' own `IInv` and

* `OneRun`: a job that was not requeued has one run at a time, and none while it is pending. An expired lease is not
  retried, since a background job has one attempt and is not resumable; the only way back into the queue is a
  deferral by the run that holds the row, which is then over, and its handler (`RunnersFit`) was over before.
* `OneEngine` and `Begun`: as long as the row is queued the engine has not been started, nor while a runner is between
  its look at the row and the session, and from the session on the row is not queued. With `OneRun` there is no other
  runner that could have looked before the row was set, and a later one finds it set.
* `Honest`: whoever says completed (a row, a stored answer, a report under way, a runner about to write) knows of an
  engine that returned, or of the second cancellation that leaves the verdict as it was.

Most steps are `Calm`: they give nothing back to the queue, make nothing queued or complete, and bring no runner
nearer to the engine; `CalmKeeps` is proved once for all of them. A claim is calm until it commits
(`ClaimBeginsCalm`). `SubmitKeeps`, `ClaimKeeps`, `DeferKeeps`, `RunAgainKeeps` and the lemmas on the runner's own
steps are the others.

Only model-checked: every liveness property (the prover used has no rules for fairness and `ENABLED`). The safety
properties of all passing runs are stated by the theorems above.

## 5. What is left out

* *Data.* Texts, rendering, model output, the contents of files. A capacity is one number; a policy is open or closed.
* *Inside the database.* PostgreSQL's isolation is taken as the row and advisory locks the code asks for, and a
  transaction as one step. The exception is `claim_due`, whose statements see each other's commits at READ COMMITTED;
  a claim is assumed to take less than a tick of the clock.
* *Clock skew.* Times are compared on the side that compares them; the models have one clock.
* *OfficialOutbox*: one endpoint, so the shared rate limits and the daily proactive limit are out; so are rich
  media and the authority checks behind one-time codes.
* *OfficialTurns*: one conversation; bindings and membership are one Boolean that may change at any time; streamed
  fragments are out, and the numbering of gateway events is `GatewaySession`'s.
* *ClusterJobs*: edits of capacity; the bytes of artifacts.
* *FleetDeployments*: whether and when a switch that was left behind ends, of which nothing is assumed; that it
  changes the host at one instant, as one that is waited for does when it ends; the second back end
  (`ops_deployment_runner.py`, `deployment_ops_protocol.py`; the ledger's branches for it are there, but no deployment
  of the instance uses them); reboots of a host in a deployment.
* *ManagedOperations*: the hub's own execution; permissions and scopes, which are one failing check.
* *BackgroundJobs*: steering, questions and usage; the engine, which returns, fails or is cancelled.
* *GatewaySession*: the timing of heartbeats, the Identify budget and back-off; the pausing of the account.
* *OfficialFiles*: quotas and formats, the parts of an upload, its cache and daily budget; `capture_verified` and
  publications (nothing calls or creates them); migrated sources; the tools of `media_runtime.py`; the limits of a
  collector's page, which only delay it.
* *ModelGateway*: the providers' protocols; the second request after a refused `tool_choice`, which is part of "asking";
  edits of the catalog; budgets of several requests; an OCR call under the budget of a background job; the quota of
  ordinary chat, which is read before a call and charged after it.
* *Guardians*: severity, texts and events of incidents, cases; `starts_at` and `next_check_at`, which only delay a claim;
  several targets or hosts; the catalog's bindings, whose change is one refusal; runbooks, diagnostics and the fleet
  view, a cache over read-only back ends.
* *Not modelled at all*: the agent loop (sequential within a turn, driven by what a model writes), the VMs and
  containers (libvirt, Docker), the console, migrations, packaging. Legacy deliveries, approvals and the media and
  vision queues have no live driver left in the code: nothing outside their tests and the schema calls what would be
  their first actions (`ingest_message`, `submit`; `VisionWorker` is used for its analysis alone).

## 6. Plan

Done: `DurableJobs`, `OfficialOutbox`, `ClusterJobs`, `OfficialTurns`, `FleetDeployments`, `ManagedOperations`,
`BackgroundJobs`, `GatewaySession`, `OfficialFiles`, `ModelGateway`, `Guardians`, the abstract `FencedQueue` and
`Outbox`, and the proofs of section 4.
