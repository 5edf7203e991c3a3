--------------------------- MODULE BackgroundJobs ---------------------------
(***************************************************************************)
(* Background jobs (background_jobs.py, background_agents.py,              *)
(* background_delivery.py) on top of DurableJobs: a job is a row of its    *)
(* own beside the durable job, and three parties write that row without    *)
(* looking at it first: the runner in the durable job's handler, a user    *)
(* who cancels, and the account's runtime, which fails the rows it finds   *)
(* running when it starts and reports the rows that have ended.            *)
(*                                                                         *)
(* A worker is the agent worker of one runtime.  Runtimes take the account *)
(* lease from each other; one that lost it goes on until it notices.       *)
(* A cancellation of a handler reaches its runner at the next await: a     *)
(* database call is finished first (DatabaseCalls), and then raises.       *)
(***************************************************************************)
EXTENDS DurableJobs

CONSTANTS
    MaxActive,      \* background jobs that may be queued or running: three
    Page            \* results that one look for them returns: twenty

ASSUME BackgroundAssumption ==
    /\ Jobs \subseteq Nat /\ MaxActive \in Nat \ {0} /\ Page \in Nat \ {0}
    /\ Resume = {} /\ \A j \in Jobs : MaxAttempts[j] = 1

VARIABLES
    back,       \* the background_jobs table; answer is frontend_answer
    runners,    \* the BackgroundRunner.execute coroutines
    up,         \* the workers whose runtime is running
    holder,     \* the runtime that holds the account lease
    cancels,    \* cancellations between their two transactions
    reports,    \* OfficialBackgroundAgents.results: reports being delivered
    admitted,   \* the jobs whose conversation and permission still stand
    past        \* history: engine runs, returns, cancellations, what was told

backVars == <<back, runners, up, holder, cancels, reports, admitted, past>>
allVars == <<vars, backVars>>

Active2 == {"queued", "running"}
Over == {"completed", "failed", "cancelled"}

NotSubmitted == [state |-> "absent", answer |-> "none", delivered |-> FALSE]

BackInit ==
    /\ Init
    /\ back = [j \in Jobs |-> NotSubmitted]
    /\ runners = {} /\ up = {} /\ holder = NoWorker
    /\ cancels = {} /\ reports = {} /\ admitted = Jobs
    /\ past = [j \in Jobs |-> [starts |-> 0, returned |-> FALSE, cancelled |-> FALSE,
                               requeued |-> FALSE, torn |-> FALSE, told |-> "none"]]

Sets(j, state) == back' = [back EXCEPT ![j].state = state]

-----------------------------------------------------------------------------
(* The users.                                                              *)

\* submit: the durable job, which takes the next number, and its row, in one
\* transaction.
Submit(j) ==
    /\ holder \in up
    /\ \A k \in Jobs : k < j => back[k].state # "absent"
    /\ Cardinality({k \in Jobs : back[k].state \in Active2}) < MaxActive
    /\ Enqueue(j)
    /\ Sets(j, "queued")
    /\ UNCHANGED <<runners, up, holder, cancels, reports, admitted, past>>

\* cancel, the first transaction: the row.
CancelRow(w, j) ==
    /\ w \in up /\ back[j].state \in Active2
    /\ Sets(j, "cancelled")
    /\ cancels' = cancels \cup {[job |-> j, worker |-> w]}
    /\ Interfere
    /\ UNCHANGED <<rows, claims, runs, registry, charged, runners, up, holder, reports, admitted, past>>

\* Mutant: the durable job goes on.
CancelJob_Never(c) ==
    /\ cancels' = cancels \ {c}
    /\ past' = [past EXCEPT ![c.job].cancelled = TRUE]
    /\ UNCHANGED <<vars, back, runners, up, holder, reports, admitted>>

\* The second: the durable job, if it can still be cancelled.
CancelJob(c) ==
    /\ Idle(c.worker) /\ c.job \notin Locked
    /\ cancels' = cancels \ {c}
    /\ rows' = IF Cancellable(rows[c.job])
               THEN [rows EXCEPT ![c.job] = Released(@, "cancelled")] ELSE rows
    /\ ChargeIfRunning(c.job)
    /\ past' = [past EXCEPT ![c.job].cancelled = TRUE]
    /\ UNCHANGED <<claims, runs, registry, faults, back, runners, up, holder, reports, admitted>>

\* The conversation moves, or the user is no longer admitted.
Revoke(j) ==
    /\ j \in admitted /\ back[j].state # "absent"
    /\ admitted' = admitted \ {j}
    /\ UNCHANGED <<vars, back, runners, up, holder, cancels, reports, past>>

-----------------------------------------------------------------------------
(* The runtimes.                                                           *)

\* recover: what a new runtime finds running was interrupted.
Recover == [j \in Jobs |-> IF back[j].state = "running" THEN [back[j] EXCEPT !.state = "failed"] ELSE back[j]]

StartRuntime(w) ==
    /\ w \notin up /\ holder = NoWorker /\ RunsOf(w) = {} /\ Idle(w)
    /\ up' = up \cup {w} /\ holder' = w
    /\ back' = Recover
    /\ UNCHANGED <<vars, runners, cancels, reports, admitted, past>>

\* task.cancel() reaches the runners of the runs in R.
Hit(R) == {IF \E r \in R : r.job = a.job /\ r.gen = a.gen THEN [a EXCEPT !.hit = TRUE] ELSE a : a \in runners}

LoseAccount ==
    /\ holder # NoWorker
    /\ Interfere
    /\ holder' = NoWorker
    /\ UNCHANGED <<rows, claims, runs, registry, charged, back, runners, up, cancels, reports, admitted, past>>

\* The runtime is stopped, or finds that it has lost the lease: it cancels its
\* tasks, waits for them and for a claim under way, whose answer is dropped, and
\* only then gives the lease back.
StopRuntime(w) ==
    /\ w \in up
    /\ IF holder = w THEN Interfere ELSE UNCHANGED faults
    /\ CancelHandlers(RunsOf(w))
    /\ claims' = [claims EXCEPT ![w].heard = Idle(w)]
    /\ runners' = Hit(RunsOf(w))
    /\ up' = up \ {w}
    /\ reports' = {t \in reports : t.worker # w}
    /\ UNCHANGED <<rows, registry, charged, back, holder, cancels, admitted, past>>

Release(w) ==
    /\ w \notin up /\ holder = w /\ RunsOf(w) = {} /\ Idle(w)
    /\ holder' = NoWorker
    /\ UNCHANGED <<vars, back, runners, up, cancels, reports, admitted, past>>

CrashRuntime(w) ==
    /\ Crash(w)
    /\ up' = up \ {w}
    /\ holder' = IF holder = w THEN NoWorker ELSE holder
    /\ runners' = {a \in runners : a.worker # w}
    /\ cancels' = {c \in cancels : c.worker # w}
    /\ reports' = {t \in reports : t.worker # w}
    /\ UNCHANGED <<back, admitted, past>>

-----------------------------------------------------------------------------
(* The runner.                                                             *)

NewRunner(r) == [job |-> r.job, gen |-> r.gen, worker |-> r.worker, pc |-> "reads",
                 hit |-> FALSE, verdict |-> "completed", raises |-> FALSE]

\* A new claim is begun by a running runtime only; one under way goes on.
ClaimJobs(w) ==
    /\ w \in up \/ ~Idle(w)
    /\ Claims(w)
    /\ runners' = runners \cup {NewRunner(r) : r \in runs' \ runs}
    /\ UNCHANGED <<back, up, holder, cancels, reports, admitted, past>>

RunOf(a) == CHOOSE r \in runs : r.job = a.job /\ r.gen = a.gen
RunnerOf(r) == {a \in runners : a.job = r.job /\ a.gen = r.gen}

Steps(a, b) == runners' = (runners \ {a}) \cup {b}

\* The coroutine is over; its run goes on with what it left.
Leaves(a, phase) ==
    /\ runners' = runners \ {a}
    /\ runs' = (runs \ {RunOf(a)}) \cup {[RunOf(a) EXCEPT !.phase = phase]}

\* Mutant: whatever the row says, the engine is run.
Queued_Anyway(j) == TRUE

Queued(j) == back[j].state = "queued"

\* get: only a queued job is run.
Reads(a) ==
    /\ a.pc = "reads"
    /\ IF a.hit THEN Leaves(a, "cancelled")
       ELSE IF Queued(a.job) THEN Steps(a, [a EXCEPT !.pc = "starts"]) /\ UNCHANGED runs
       ELSE Leaves(a, "success")
    /\ UNCHANGED <<back, past, faults>>

\* The row is set running, outside any try.
Starts(a) ==
    /\ a.pc = "starts"
    /\ IF a.hit
       THEN Leaves(a, "cancelled") /\ (Sets(a.job, "running") \/ UNCHANGED back)
       ELSE Steps(a, [a EXCEPT !.pc = "opens"]) /\ UNCHANGED runs /\ Sets(a.job, "running")
    /\ UNCHANGED <<past, faults>>

Concludes(a, verdict, raises) == [a EXCEPT !.pc = "ends", !.verdict = verdict, !.raises = raises]

\* session_factory restores the conversation, if it and the account still stand.
Opens(a) ==
    /\ a.pc = "opens"
    /\ IF a.hit
       THEN Steps(a, [a EXCEPT !.pc = "stopped", !.hit = FALSE]) /\ UNCHANGED past
       ELSE IF a.worker = holder /\ a.job \in admitted
       THEN /\ Steps(a, [a EXCEPT !.pc = "works"])
            /\ past' = [past EXCEPT ![a.job].starts = @ + 1]
       ELSE Steps(a, Concludes(a, "failed", FALSE)) /\ UNCHANGED past
    /\ UNCHANGED <<runs, back, faults>>

\* The engine returns, or fails, or is stopped at its deadline.
Returns(a) ==
    /\ a.pc = "works"
    /\ \/ /\ Steps(a, Concludes(a, "completed", FALSE))
          /\ past' = [past EXCEPT ![a.job].returned = TRUE]
       \/ /\ Steps(a, Concludes(a, "failed", FALSE))
          /\ UNCHANGED past
    /\ UNCHANGED <<runs, back, faults>>

\* The engine is cancelled, or its feedback finds the row cancelled.
Interrupted(a) ==
    /\ a.pc = "works"
    /\ a.hit \/ back[a.job].state = "cancelled"
    /\ Steps(a, [a EXCEPT !.pc = "stopped", !.hit = FALSE])
    /\ UNCHANGED <<runs, back, past, faults>>

\* Mutant: the handler of a cancellation does not set the state.
Verdict_AsBefore(a) == a.verdict

\* except CancelledError: the row decides whether the user or a stop was the cause.
Verdict(a) == IF back[a.job].state = "cancelled" THEN "cancelled" ELSE "failed"

\* Another cancellation while the row is read leaves the state as it was set
\* before the engine was started: completed.
Stopped(a) ==
    /\ a.pc = "stopped"
    /\ Steps(a, Concludes(a, IF a.hit THEN a.verdict ELSE Verdict(a), TRUE))
    /\ past' = [past EXCEPT ![a.job].torn = @ \/ a.hit]
    /\ UNCHANGED <<runs, back, faults>>

\* finally: the verdict is written, whatever the row says by now.
Ends(a) ==
    /\ a.pc = "ends"
    /\ \/ Sets(a.job, a.verdict)
       \/ a.hit /\ UNCHANGED back
    /\ Steps(a, [a EXCEPT !.pc = "saves"])
    /\ UNCHANGED <<runs, past, faults>>

\* The report is copied, the usage recorded, and the handler returns.
Saves(a) ==
    /\ a.pc = "saves"
    /\ Leaves(a, IF a.raises \/ a.hit THEN "cancelled" ELSE "success")
    /\ UNCHANGED <<back, past, faults>>

\* A call of the runner's that no clause expects to fail, in the database.
CallRaises(a) ==
    /\ a.pc \in {"reads", "starts", "ends", "saves"}
    /\ Interfere
    /\ Leaves(a, IF a.raises \/ a.hit THEN "cancelled" ELSE "error")
    /\ UNCHANGED <<back, past>>

RunnerStep(a) ==
    /\ Reads(a) \/ Starts(a) \/ Opens(a) \/ Interrupted(a) \/ Stopped(a) \/ Ends(a) \/ Saves(a)
    /\ UNCHANGED <<rows, claims, registry, charged, up, holder, cancels, reports, admitted>>

EngineStep(a) ==
    /\ Returns(a)
    /\ UNCHANGED <<rows, claims, registry, charged, up, holder, cancels, reports, admitted>>

Raise(a) == CallRaises(a) /\ UNCHANGED <<rows, claims, registry, charged, up, holder, cancels, reports, admitted>>

-----------------------------------------------------------------------------
(* The results.                                                            *)

\* Mutant: jobs that never started are left alone.
NeverStarted_Ignored(j) == FALSE

\* The durable job has ended without its runner.
NeverStarted(j) == back[j].state = "queued" /\ rows[j].status \in {"succeeded", "failed", "cancelled"}

Due2(table) == {j \in Jobs : table[j].state \in Over /\ ~table[j].delivered}

\* ORDER BY job_id LIMIT 20.
FirstPage(D) == {j \in D : Cardinality({k \in D : k < j}) < Page}

\* reconcile: pending_results, and a task for every result that has none.
Reconcile(w) ==
    LET table == [j \in Jobs |-> IF NeverStarted(j) THEN [back[j] EXCEPT !.state = "failed"] ELSE back[j]]
        mine == {t.job : t \in {t \in reports : t.worker = w}}
    IN /\ w \in up /\ w = holder
       /\ reports' = reports \cup
              {[job |-> j, worker |-> w, state |-> table[j].state] : j \in FirstPage(Due2(table)) \ mine}
       /\ back' = table
       /\ <<back', reports'>> # <<back, reports>>
       /\ UNCHANGED <<vars, runners, up, holder, cancels, admitted, past>>

Stands(t) == t.worker = holder /\ t.job \in admitted

\* present asks the foreground model for the words and keeps them.
Answers(t) ==
    /\ back[t.job].answer = "none"
    /\ Stands(t)
    /\ back' = [back EXCEPT ![t.job].answer = t.state]
    /\ UNCHANGED <<vars, runners, up, holder, cancels, reports, admitted, past>>

\* The plan and delivered_at, in one transaction; without a stored answer the
\* report itself is told.
Delivers(t) ==
    /\ Stands(t)
    /\ back' = [back EXCEPT ![t.job].delivered = TRUE]
    /\ past' = [past EXCEPT ![t.job].told =
                   IF @ # "none" THEN @ ELSE IF back[t.job].answer # "none" THEN back[t.job].answer ELSE t.state]
    /\ reports' = reports \ {t}
    /\ UNCHANGED <<vars, runners, up, holder, cancels, admitted>>

\* The task ends with an error: the next look starts another.
DeliveryFails(t) ==
    /\ IF Stands(t) THEN Interfere ELSE UNCHANGED faults
    /\ reports' = reports \ {t}
    /\ UNCHANGED <<rows, claims, runs, registry, charged, back, runners, up, holder, cancels, admitted, past>>

-----------------------------------------------------------------------------
(* The durable queue underneath.                                           *)

Beside == UNCHANGED <<back, up, holder, cancels, reports, admitted>>

Kept == Beside /\ UNCHANGED past

\* _execute goes on when the handler is over.
Settles(r) == RunnerOf(r) = {} /\ (Settle(r) \/ SettlementRaises(r)) /\ UNCHANGED runners /\ Kept

\* A claim that raises is tried again.
ClaimFails(w) == ClaimRaises(w) /\ UNCHANGED runners /\ Kept

Beats(r) == Renew(r) /\ UNCHANGED runners /\ Kept

LosesLease(r) == (LeaseLost(r) \/ HeartbeatRaises(r)) /\ runners' = Hit({r}) /\ Kept

\* The admin console, and time.
Around == (OpenStore \/ Tick \/ \E j \in Jobs : Cancel(j)) /\ UNCHANGED runners /\ Kept

RunAgain(j) ==
    /\ Requeue(j)
    /\ past' = [past EXCEPT ![j].requeued = TRUE]
    /\ UNCHANGED runners /\ Beside

BackNext ==
    \/ \E j \in Jobs : Submit(j) \/ Revoke(j) \/ RunAgain(j)
    \/ \E w \in Workers : \/ StartRuntime(w) \/ StopRuntime(w) \/ Release(w) \/ CrashRuntime(w)
                          \/ ClaimJobs(w) \/ ClaimFails(w) \/ Reconcile(w)
                          \/ \E j \in Jobs : CancelRow(w, j)
    \/ LoseAccount
    \/ \E c \in cancels : CancelJob(c)
    \/ \E a \in runners : RunnerStep(a) \/ EngineStep(a) \/ Raise(a)
    \/ \E t \in reports : Answers(t) \/ Delivers(t) \/ DeliveryFails(t)
    \/ \E r \in runs : Settles(r) \/ Beats(r) \/ LosesLease(r)
    \/ Around

BackSpec == BackInit /\ [][BackNext]_allVars

FairBackSpec ==
    /\ BackSpec
    /\ WF_allVars(\E w \in Workers : StartRuntime(w) \/ Release(w) \/ (w # holder /\ StopRuntime(w)))
    /\ WF_allVars(\E w \in Workers : ClaimJobs(w))
    /\ WF_allVars(\E w \in Workers : Reconcile(w))
    /\ WF_allVars(\E c \in cancels : CancelJob(c))
    /\ WF_allVars(\E a \in runners : RunnerStep(a))
    /\ WF_allVars(\E t \in reports : Delivers(t) \/ (~Stands(t) /\ DeliveryFails(t)))
    /\ WF_allVars(\E r \in runs : RunnerOf(r) = {} /\ Settle(r) /\ UNCHANGED runners /\ Kept)
    /\ WF_allVars(\E r \in runs : Beats(r))
    /\ WF_allVars(\E r \in runs : LeaseLost(r) /\ runners' = Hit({r}) /\ Kept)
    /\ WF_allVars(Tick /\ UNCHANGED runners /\ Kept)

EnginesEnd == WF_allVars(\E a \in runners : EngineStep(a))

-----------------------------------------------------------------------------
(* Properties.                                                             *)

\* "One durable job, one engine run": whatever stops, crashes, lost leases and
\* late answers do, the engine is started again for a job only if an
\* administrator has put the durable job back in the queue.
OneEngineRun == \A j \in Jobs : past[j].starts <= 1 \/ past[j].requeued

\* Nobody is told that a job is complete whose engine has not returned.
NoFalseSuccess == \A j \in Jobs : past[j].told = "completed" => past[j].returned \/ past[j].torn

\* A row left running by a runner that is gone, until a runtime starts.
Orphaned(j) == back[j].state = "running" /\ holder \in up /\ \A a \in runners : a.job # j

\* A page of earlier results whose conversations are gone, which no look for
\* results gets past.
Starved(j) == Cardinality({k \in Due2(back) \ admitted : k < j}) >= Page

\* A submitted job is reported to its conversation in the end, even if it was
\* never started, was stopped, or its runtime was lost; the rows left running
\* wait for the next start of a runtime, and those behind a page of results
\* that can no longer be told wait for ever.
ReportReturned ==
    EnginesEnd => \A j \in Jobs :
        back[j].state # "absent" ~> back[j].delivered \/ j \notin admitted \/ Orphaned(j) \/ Starved(j)

\* An engine whose job a user has cancelled is stopped, even if it would never
\* return by itself and the cancellation came before the engine was started.
CancelledJobStops ==
    \A j \in Jobs :
        (past[j].cancelled /\ \E a \in runners : a.job = j /\ a.pc = "works")
            ~> ~\E a \in runners : a.job = j /\ a.pc = "works"
=============================================================================
