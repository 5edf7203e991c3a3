------------------------ MODULE BackgroundJobsProofs ------------------------
(***************************************************************************)
(* One durable job, one engine run, and no false report of success, for    *)
(* any jobs, workers, leases and amount of interference.                   *)
(*                                                                         *)
(* The table of background jobs is written by parties that do not look at  *)
(* it first, so it cannot carry the argument alone.  What carries it is    *)
(* the queue underneath: unless an administrator requeues it, a job is     *)
(* back in the queue only after the handler that had it gave it back, and  *)
(* the handler is over when its runner is (OneRun).  So one runner at most *)
(* is between its look at the row and the start of the engine, and a later *)
(* one finds the row no longer queued (OneEngine).                         *)
(***************************************************************************)
EXTENDS BackgroundJobs, DurableJobsProofs

Stages == {"reads", "starts", "opens", "works", "stopped", "ends", "saves"}

Runner == [job : Jobs, gen : Nat, worker : Workers, pc : Stages, hit : BOOLEAN,
           verdict : Over, raises : BOOLEAN]

BackRow == [state : {"absent"} \cup Active2 \cup Over, answer : {"none"} \cup Over,
            delivered : BOOLEAN]

Report == [job : Jobs, worker : Workers, state : Over]

Past == [starts : Nat, returned : BOOLEAN, cancelled : BOOLEAN, requeued : BOOLEAN,
         torn : BOOLEAN, told : {"none"} \cup Over]

BackTypes ==
    /\ back \in [Jobs -> BackRow]
    /\ runners \subseteq Runner
    /\ cancels \subseteq [job : Jobs, worker : Workers]
    /\ reports \subseteq Report
    /\ past \in [Jobs -> Past]

-----------------------------------------------------------------------------
(* The invariant.                                                          *)

Same(a, b) == a.job = b.job /\ a.gen = b.gen /\ a.worker = b.worker

\* A runner is the handler of a run, and the only one.
RunnersFit ==
    /\ \A a \in runners : \E r \in runs : Same(a, r)
    /\ \A a, b \in runners : a.job = b.job /\ a.gen = b.gen => a = b

\* A job that nobody requeued has one run at a time, and none while it waits.
OneRun(j) ==
    ~past[j].requeued =>
        /\ \A r, s \in runs : r.job = j /\ s.job = j => r.gen = s.gen
        /\ rows[j].status = "pending" => \A r \in runs : r.job # j

\* Neither table has a job that was not submitted.
Unborn(j) ==
    rows[j].status = "absent" => back[j].state = "absent" /\ \A r \in runs : r.job # j

\* The engine of a job that is still queued has not been started, nor that of
\* one whose runner is about to start it.
OneEngine(j) ==
    ~past[j].requeued =>
        /\ past[j].starts <= 1
        /\ back[j].state \in {"absent", "queued"} => past[j].starts = 0
        /\ \A a \in runners : a.job = j /\ a.pc \in {"starts", "opens"} => past[j].starts = 0

\* The row of a runner that opens the session is not queued any more.
Begun(a) == a.pc = "opens" => back[a.job].state \notin {"absent", "queued"}

Known(j) == past[j].returned \/ past[j].torn

\* Whatever says completed knows of an engine that returned.
Honest ==
    /\ \A j \in Jobs : "completed" \in {back[j].state, back[j].answer, past[j].told} => Known(j)
    /\ \A t \in reports : t.state = "completed" => Known(t.job)
    /\ \A a \in runners : a.pc = "ends" /\ a.verdict = "completed" => Known(a.job)

BackInv ==
    /\ IInv /\ BackTypes /\ RunnersFit /\ Honest
    /\ \A j \in Jobs : OneRun(j) /\ Unborn(j) /\ OneEngine(j)
    /\ \A a \in runners : Begun(a)

-----------------------------------------------------------------------------
(* The queue underneath keeps its own invariant.                           *)

\* A runner's run is one of the runs, of the same worker.
LEMMA RunOfRunner ==
    ASSUME IInv, RunnersFit, NEW a \in runners
    PROVE  RunOf(a) \in runs /\ Same(a, RunOf(a))
  <1>1. PICK r \in runs : Same(a, r) BY DEF RunnersFit
  <1>2. /\ RunOf(a) \in runs
        /\ RunOf(a).job = a.job /\ RunOf(a).gen = a.gen
    BY <1>1 DEF RunOf, Same
  <1>3. RunOf(a) = r BY <1>1, <1>2 DEF IInv, RunsFit, Same
  <1> QED BY <1>1, <1>3

\* Interference that is not the queue's.
LEMMA FaultsOnly ==
    ASSUME IInv, rows' = rows, claims' = claims, runs' = runs, registry' = registry,
           charged' = charged, Interfere \/ UNCHANGED faults
    PROVE  IInv'
  <1>1. faults' \in 0..MaxFaults BY InterfereBound DEF IInv
  <1> QED BY <1>1 DEF IInv

\* A run whose handler is over is a run.
LEMMA LeavesKeepsQueue ==
    ASSUME IInv, RunnersFit, NEW a \in runners, NEW phase \in Phases, Leaves(a, phase),
           rows' = rows, claims' = claims, registry' = registry, charged' = charged,
           Interfere \/ UNCHANGED faults
    PROVE  IInv'
  <1>1. faults' \in 0..MaxFaults BY InterfereBound DEF IInv
  <1>2. RunOf(a) \in runs BY RunOfRunner
  <1>3. RunsFit((runs \ {RunOf(a)}) \cup {[RunOf(a) EXCEPT !.phase = phase]}, rows)
    BY <1>2, PhaseChanges DEF IInv
  <1>4. RunsFit(runs', rows') BY <1>3 DEF Leaves
  <1> QED BY <1>1, <1>4 DEF IInv

\* The second transaction of a cancellation.
LEMMA CancelJobKeepsQueue ==
    ASSUME IInv, BackTypes, NEW c \in cancels, CancelJob(c)
    PROVE  IInv'
  <1>1. c.job \in Jobs BY DEF BackTypes
  <1>2. CASE Cancellable(rows[c.job])
    <2>1. rows' = [rows EXCEPT ![c.job] = Released(@, "cancelled")] /\ ChargeIfRunning(c.job)
      BY <1>2 DEF CancelJob
    <2>2. TableOK(rows', charged') /\ \A k \in Jobs : rows'[k].gen = rows[k].gen
      BY <1>1, <1>2, <2>1, CancelTable
    <2>3. /\ runs' = runs /\ registry' = registry /\ faults' = faults
          /\ claims' = claims /\ c.job \notin Locked
      BY DEF CancelJob
    <2>4. RunsFit(runs', rows') BY <2>2, <2>3, RunsEnd DEF IInv
    <2>5. ClaimsFit(claims', rows') BY <1>1, <2>1, <2>3, OneRowClaims DEF IInv, Locked, TableOK
    <2> QED BY <2>2, <2>3, <2>4, <2>5 DEF IInv
  <1>3. CASE ~Cancellable(rows[c.job])
    <2>1. rows[c.job].status # "running" BY <1>3 DEF Cancellable
    <2>2. charged \in [Jobs -> Nat] BY DEF IInv, TableOK
    <2>3. charged' = charged BY <2>1, <2>2, <1>1 DEF CancelJob, ChargeIfRunning
    <2> QED BY <1>3, <2>3, FaultsOnly DEF CancelJob
  <1> QED BY <1>2, <1>3

\* What a runner leaves its run with.
LEMMA RunnerKeepsQueue ==
    ASSUME IInv, RunnersFit, NEW a \in runners, RunnerStep(a) \/ EngineStep(a) \/ Raise(a)
    PROVE  IInv'
  <1> DEFINE Still == rows' = rows /\ claims' = claims /\ registry' = registry /\ charged' = charged
  <1>1. Still BY DEF RunnerStep, EngineStep, Raise
  <1>2. {"cancelled", "success", "error"} \subseteq Phases BY DEF Phases, Outcomes
  <1>3. Interfere \/ UNCHANGED faults
    BY DEF RunnerStep, EngineStep, Raise, Reads, Starts, Opens, Returns, Interrupted, Stopped,
           Ends, Saves, CallRaises
  <1>4. runs' = runs \/ \E phase \in {"cancelled", "success", "error"} : Leaves(a, phase)
    BY DEF RunnerStep, EngineStep, Raise, Reads, Starts, Opens, Returns, Interrupted, Stopped,
           Ends, Saves, CallRaises
  <1>5. CASE runs' = runs BY <1>1, <1>3, <1>5, FaultsOnly
  <1>6. ASSUME NEW phase \in {"cancelled", "success", "error"}, Leaves(a, phase) PROVE IInv'
    <2>1. phase \in Phases BY <1>2
    <2> QED BY <1>1, <1>3, <1>6, <2>1, LeavesKeepsQueue
  <1> QED BY <1>4, <1>5, <1>6

\* Every step does.
LEMMA QueueKept ==
    ASSUME IInv, BackTypes, RunnersFit, [BackNext]_allVars
    PROVE  IInv'
  <1>1. CASE UNCHANGED allVars
    BY <1>1, FaultsOnly DEF allVars, vars
  <1>2. ASSUME NEW j \in Jobs, Submit(j) \/ Revoke(j) \/ RunAgain(j) PROVE IInv'
    <2>1. CASE Submit(j) BY <2>1, EnqueueInv DEF Submit
    <2>2. CASE Revoke(j) BY <2>2, FaultsOnly DEF Revoke, vars
    <2>3. CASE RunAgain(j) BY <2>3, RequeueInv DEF RunAgain
    <2> QED BY <1>2, <2>1, <2>2, <2>3
  <1>3. ASSUME NEW w \in Workers,
               StartRuntime(w) \/ StopRuntime(w) \/ Release(w) \/ CrashRuntime(w)
                 \/ ClaimJobs(w) \/ ClaimFails(w) \/ Reconcile(w) \/ \E j \in Jobs : CancelRow(w, j)
        PROVE  IInv'
    <2>1. CASE StartRuntime(w) BY <2>1, FaultsOnly DEF StartRuntime, vars
    <2>2. CASE StopRuntime(w)
      <3>1. Interfere \/ UNCHANGED faults BY <2>2 DEF StopRuntime
      <3>2. faults' \in 0..MaxFaults BY <3>1, InterfereBound DEF IInv
      <3>3. Idle(w) \in BOOLEAN BY DEF Idle
      <3>4. ClaimsFit(claims', rows) BY <2>2, <3>3, ClaimUnheard DEF StopRuntime, IInv
      <3> QED BY <2>2, <3>2, <3>4, CancelHandlersOnly DEF StopRuntime
    <2>3. CASE Release(w) BY <2>3, FaultsOnly DEF Release, vars
    <2>4. CASE CrashRuntime(w) BY <2>4, CrashInv DEF CrashRuntime
    <2>5. CASE ClaimJobs(w) BY <2>5, SelectsInv, CountsInv, ClaimInv DEF ClaimJobs, Claims
    <2>8. CASE ClaimFails(w) BY <2>8, ClaimRaisesInv DEF ClaimFails
    <2>6. CASE Reconcile(w) BY <2>6, FaultsOnly DEF Reconcile, vars
    <2>7. CASE \E j \in Jobs : CancelRow(w, j) BY <2>7, FaultsOnly DEF CancelRow
    <2> QED BY <1>3, <2>1, <2>2, <2>3, <2>4, <2>5, <2>6, <2>7, <2>8
  <1>4. CASE LoseAccount BY <1>4, FaultsOnly DEF LoseAccount
  <1>5. ASSUME NEW c \in cancels, CancelJob(c) PROVE IInv'
    BY <1>5, CancelJobKeepsQueue
  <1>6. ASSUME NEW a \in runners, RunnerStep(a) \/ EngineStep(a) \/ Raise(a) PROVE IInv'
    BY <1>6, RunnerKeepsQueue
  <1>7. ASSUME NEW t \in reports, Answers(t) \/ Delivers(t) \/ DeliveryFails(t) PROVE IInv'
    BY <1>7, FaultsOnly DEF Answers, Delivers, DeliveryFails, vars
  <1>8. ASSUME NEW r \in runs, Settles(r) \/ Beats(r) \/ LosesLease(r) PROVE IInv'
    <2>1. CASE Settles(r)
      <3>1. CASE Settle(r)
        BY <3>1, MarkSucceededInv, MarkFailedInv, DeferInv, ReadAfterCancelInv DEF Settle
      <3>2. CASE SettlementRaises(r) BY <3>2, SettlementRaisesInv
      <3> QED BY <2>1, <3>1, <3>2 DEF Settles
    <2>2. CASE Beats(r) BY <2>2, RenewInv DEF Beats
    <2>3. CASE LosesLease(r)
      <3>1. Interfere \/ UNCHANGED faults BY <2>3 DEF LosesLease, LeaseLost, HeartbeatRaises
      <3>2. faults' \in 0..MaxFaults BY <3>1, InterfereBound DEF IInv
      <3> QED BY <2>3, <3>2, CancelHandlersOnly DEF LosesLease, LeaseLost, HeartbeatRaises, IInv
    <2> QED BY <1>8, <2>1, <2>2, <2>3
  <1>9. CASE Around
    BY <1>9, OpenStoreInv, TickInv, CancelInv DEF Around
  <1> QED BY <1>1, <1>2, <1>3, <1>4, <1>5, <1>6, <1>7, <1>8, <1>9 DEF BackNext

-----------------------------------------------------------------------------
(* Types.                                                                  *)

\* A changed field of a row.
LEMMA BackRowType ==
    ASSUME NEW row \in BackRow
    PROVE  /\ \A s \in {"absent"} \cup Active2 \cup Over : [row EXCEPT !.state = s] \in BackRow
           /\ \A s \in {"none"} \cup Over : [row EXCEPT !.answer = s] \in BackRow
           /\ [row EXCEPT !.delivered = TRUE] \in BackRow
  BY DEF BackRow

\* A changed field of the history.
LEMMA PastType ==
    ASSUME NEW h \in Past
    PROVE  /\ [h EXCEPT !.starts = @ + 1] \in Past
           /\ [h EXCEPT !.returned = TRUE] \in Past
           /\ [h EXCEPT !.cancelled = TRUE] \in Past
           /\ [h EXCEPT !.requeued = TRUE] \in Past
           /\ \A b \in BOOLEAN : [h EXCEPT !.torn = b] \in Past
           /\ \A s \in {"none"} \cup Over : [h EXCEPT !.told = s] \in Past
  <1>1. h.starts \in Nat /\ h.starts + 1 \in Nat BY DEF Past
  <1>2. [h EXCEPT !.starts = @ + 1] \in Past BY <1>1 DEF Past
  <1>3. [h EXCEPT !.returned = TRUE] \in Past BY DEF Past
  <1>4. [h EXCEPT !.cancelled = TRUE] \in Past BY DEF Past
  <1>5. [h EXCEPT !.requeued = TRUE] \in Past BY DEF Past
  <1>6. \A b \in BOOLEAN : [h EXCEPT !.torn = b] \in Past BY DEF Past
  <1>7. \A s \in {"none"} \cup Over : [h EXCEPT !.told = s] \in Past BY DEF Past
  <1> QED BY <1>2, <1>3, <1>4, <1>5, <1>6, <1>7

\* A changed field of a runner.
LEMMA RunnerType ==
    ASSUME NEW a \in Runner
    PROVE  /\ \A s \in Stages : [a EXCEPT !.pc = s] \in Runner
           /\ [a EXCEPT !.hit = TRUE] \in Runner
           /\ [a EXCEPT !.pc = "stopped", !.hit = FALSE] \in Runner
           /\ \A v \in Over, b \in BOOLEAN : Concludes(a, v, b) \in Runner
  BY DEF Runner, Stages, Concludes

\* The table after one row was set.
LEMMA SetsType ==
    ASSUME back \in [Jobs -> BackRow], NEW j \in Jobs,
           NEW s \in {"absent"} \cup Active2 \cup Over, Sets(j, s)
    PROVE  back' \in [Jobs -> BackRow]
  BY BackRowType DEF Sets

\* A step of a runner keeps the types.
LEMMA RunnerTypes ==
    ASSUME BackTypes, NEW a \in runners, RunnerStep(a) \/ EngineStep(a) \/ Raise(a)
    PROVE  BackTypes'
  <1>1. a \in Runner /\ a.job \in Jobs /\ a.verdict \in Over /\ a.hit \in BOOLEAN
    BY DEF BackTypes, Runner
  <1>2. cancels' = cancels /\ reports' = reports BY DEF RunnerStep, EngineStep, Raise
  <1>3. /\ "running" \in Active2 /\ {"completed", "failed", "cancelled"} \subseteq Over
        /\ {"reads", "starts", "opens", "works", "stopped", "ends", "saves"} \subseteq Stages
    BY DEF Active2, Over, Stages
  <1>4. back' \in [Jobs -> BackRow]
    <2>1. back' = back \/ Sets(a.job, "running") \/ Sets(a.job, a.verdict)
      BY DEF RunnerStep, EngineStep, Raise, Reads, Starts, Opens, Returns, Interrupted, Stopped,
             Ends, Saves, CallRaises
    <2>2. back \in [Jobs -> BackRow] BY DEF BackTypes
    <2>3. "running" \in {"absent"} \cup Active2 \cup Over /\ a.verdict \in {"absent"} \cup Active2 \cup Over
      BY <1>1, <1>3
    <2>4. CASE Sets(a.job, "running") BY <1>1, <2>2, <2>3, <2>4, SetsType
    <2>5. CASE Sets(a.job, a.verdict) BY <1>1, <2>2, <2>3, <2>5, SetsType
    <2> QED BY <2>1, <2>2, <2>4, <2>5
  <1>5. past' \in [Jobs -> Past]
    <2>1. past \in [Jobs -> Past] /\ past[a.job] \in Past /\ past[a.job].torn \in BOOLEAN
      BY <1>1 DEF BackTypes, Past
    <2>2. \/ past' = past
          \/ past' = [past EXCEPT ![a.job].starts = @ + 1]
          \/ past' = [past EXCEPT ![a.job].returned = TRUE]
          \/ past' = [past EXCEPT ![a.job].torn = @ \/ a.hit]
      BY DEF RunnerStep, EngineStep, Raise, Reads, Starts, Opens, Returns, Interrupted, Stopped,
             Ends, Saves, CallRaises
    <2>3. CASE past' = [past EXCEPT ![a.job].starts = @ + 1] BY <2>1, <2>3, PastType
    <2>4. CASE past' = [past EXCEPT ![a.job].returned = TRUE] BY <2>1, <2>4, PastType
    <2>5. CASE past' = [past EXCEPT ![a.job].torn = @ \/ a.hit]
      <3>1. (past[a.job].torn \/ a.hit) \in BOOLEAN OBVIOUS
      <3>2. [past[a.job] EXCEPT !.torn = past[a.job].torn \/ a.hit] \in Past BY <2>1, <3>1, PastType
      <3> QED BY <2>1, <2>5, <3>2
    <2> QED BY <2>1, <2>2, <2>3, <2>4, <2>5
  <1>6. runners' \subseteq Runner
    <2>1. /\ \A s \in Stages : [a EXCEPT !.pc = s] \in Runner
          /\ [a EXCEPT !.pc = "stopped", !.hit = FALSE] \in Runner
          /\ \A v \in Over, b \in BOOLEAN : Concludes(a, v, b) \in Runner
      BY <1>1, RunnerType
    <2>2. (IF a.hit THEN a.verdict ELSE Verdict(a)) \in Over BY <1>1, <1>3 DEF Verdict
    <2>3. \/ \E phase : Leaves(a, phase)
          \/ \E b \in Runner : Steps(a, b)
      <3>1. CASE Reads(a) \/ Starts(a) \/ Saves(a) \/ Ends(a)
        BY <1>3, <2>1, <3>1 DEF Reads, Starts, Saves, Ends
      <3>2. CASE Opens(a) BY <1>3, <2>1, <3>2 DEF Opens
      <3>3. CASE Interrupted(a) BY <2>1, <3>3 DEF Interrupted
      <3>4. CASE Stopped(a) BY <2>1, <2>2, <3>4 DEF Stopped
      <3>5. CASE Returns(a) BY <1>3, <2>1, <3>5 DEF Returns
      <3>6. CASE CallRaises(a) BY <3>6 DEF CallRaises
      <3> QED BY <3>1, <3>2, <3>3, <3>4, <3>5, <3>6 DEF RunnerStep, EngineStep, Raise
    <2> QED BY <2>3 DEF Leaves, Steps, BackTypes
  <1> QED BY <1>2, <1>4, <1>5, <1>6 DEF BackTypes


\* Runners whose handlers were cancelled.
LEMMA HitRunners ==
    ASSUME NEW R, runners \subseteq Runner
    PROVE  /\ Hit(R) \subseteq Runner
           /\ \A b \in Hit(R) : \E a \in runners : Same(a, b) /\ a.pc = b.pc /\ a.verdict = b.verdict
           /\ \A b, c \in Hit(R) : \A a \in runners :
                 RunnersFit /\ Same(a, b) /\ Same(a, c) => b = c
  <1> DEFINE f(a) == IF \E r \in R : r.job = a.job /\ r.gen = a.gen
                     THEN [a EXCEPT !.hit = TRUE] ELSE a
  <1>1. ASSUME NEW a \in runners
        PROVE  f(a) \in Runner /\ Same(a, f(a)) /\ a.pc = f(a).pc /\ a.verdict = f(a).verdict
    <2>1. a \in Runner /\ [a EXCEPT !.hit = TRUE] \in Runner BY RunnerType
    <2> QED BY <2>1 DEF Same, Runner
  <1>2. Hit(R) = {f(a) : a \in runners} BY DEF Hit
  <1> HIDE DEF f
  <1>3. \A b \in Hit(R) : \E a \in runners : b = f(a) /\ Same(a, b) /\ a.pc = b.pc /\ a.verdict = b.verdict
    BY <1>1, <1>2
  <1>4. ASSUME NEW b \in Hit(R), NEW c \in Hit(R), NEW a \in runners, RunnersFit, Same(a, b), Same(a, c)
        PROVE  b = c
    <2>1. PICK d \in runners : b = f(d) /\ Same(d, b) BY <1>3
    <2>2. PICK e \in runners : c = f(e) /\ Same(e, c) BY <1>3
    <2>3. d = a /\ e = a BY <1>4, <2>1, <2>2 DEF RunnersFit, Same
    <2> QED BY <2>1, <2>2, <2>3
  <1>5. Hit(R) \subseteq Runner BY <1>1, <1>2
  <1> QED BY <1>3, <1>4, <1>5

\* A step of the results keeps the types.
LEMMA ReportTypes ==
    ASSUME BackTypes, NEW t \in reports, Answers(t) \/ Delivers(t) \/ DeliveryFails(t)
    PROVE  BackTypes'
  <1>1. /\ t.job \in Jobs /\ t.state \in Over /\ back[t.job] \in BackRow /\ past[t.job] \in Past
        /\ back[t.job].answer \in {"none"} \cup Over /\ past[t.job].told \in {"none"} \cup Over
    BY DEF BackTypes, Report, BackRow, Past
  <1>2. runners' = runners /\ cancels' = cancels BY DEF Answers, Delivers, DeliveryFails
  <1>3. reports' \subseteq reports BY DEF Answers, Delivers, DeliveryFails
  <1>4. back' \in [Jobs -> BackRow]
    <2>1. CASE Answers(t)
      <3>1. [back[t.job] EXCEPT !.answer = t.state] \in BackRow BY <1>1, BackRowType
      <3> QED BY <1>1, <2>1, <3>1 DEF Answers, BackTypes
    <2>2. CASE Delivers(t)
      <3>1. [back[t.job] EXCEPT !.delivered = TRUE] \in BackRow BY <1>1, BackRowType
      <3> QED BY <1>1, <2>2, <3>1 DEF Delivers, BackTypes
    <2>3. CASE DeliveryFails(t) BY <2>3 DEF DeliveryFails, BackTypes
    <2> QED BY <2>1, <2>2, <2>3
  <1>5. past' \in [Jobs -> Past]
    <2>1. CASE Delivers(t)
      <3> DEFINE s == IF past[t.job].told # "none" THEN past[t.job].told
                      ELSE IF back[t.job].answer # "none" THEN back[t.job].answer ELSE t.state
      <3>1. s \in {"none"} \cup Over BY <1>1
      <3> HIDE DEF s
      <3>2. [past[t.job] EXCEPT !.told = s] \in Past BY <1>1, <3>1, PastType
      <3>3. past' = [past EXCEPT ![t.job].told = s] BY <2>1 DEF Delivers, s
      <3> QED BY <1>1, <3>2, <3>3 DEF BackTypes
    <2>2. CASE Answers(t) \/ DeliveryFails(t) BY <2>2 DEF Answers, DeliveryFails, BackTypes
    <2> QED BY <2>1, <2>2
  <1> QED BY <1>2, <1>3, <1>4, <1>5 DEF BackTypes

\* A step of a runtime keeps the types.
LEMMA RuntimeTypes ==
    ASSUME IInv', BackTypes, NEW w \in Workers,
           StartRuntime(w) \/ StopRuntime(w) \/ Release(w) \/ CrashRuntime(w)
             \/ ClaimJobs(w) \/ ClaimFails(w) \/ Reconcile(w) \/ \E j \in Jobs : CancelRow(w, j)
    PROVE  BackTypes'
  <1>0. /\ back \in [Jobs -> BackRow] /\ runners \subseteq Runner /\ reports \subseteq Report
        /\ "failed" \in {"absent"} \cup Active2 \cup Over
        /\ "cancelled" \in {"absent"} \cup Active2 \cup Over
    BY DEF BackTypes, Over
  <1>a. \A j \in Jobs : [back[j] EXCEPT !.state = "failed"] \in BackRow BY <1>0, BackRowType
  <1>1. CASE StartRuntime(w)
    <2>1. back' \in [Jobs -> BackRow] BY <1>0, <1>1, <1>a DEF StartRuntime, Recover
    <2> QED BY <1>1, <2>1 DEF StartRuntime, BackTypes
  <1>2. CASE StopRuntime(w)
    <2>1. runners' = Hit(RunsOf(w)) BY <1>2 DEF StopRuntime
    <2>2. runners' \subseteq Runner BY <1>0, <2>1, HitRunners
    <2> QED BY <1>2, <2>2 DEF StopRuntime, BackTypes
  <1>3. CASE Release(w) BY <1>3 DEF Release, BackTypes
  <1>4. CASE CrashRuntime(w) BY <1>4 DEF CrashRuntime, BackTypes
  <1>5. CASE ClaimJobs(w)
    <2>1. \A r \in runs' : r \in Run BY DEF IInv, RunsFit
    <2>2. \A r \in runs' : NewRunner(r) \in Runner
      BY <2>1 DEF NewRunner, Runner, Run, Stages, Over
    <2>3. runners' = runners \cup {NewRunner(r) : r \in runs' \ runs} BY <1>5 DEF ClaimJobs
    <2>4. runners' \subseteq Runner BY <1>0, <2>2, <2>3
    <2> QED BY <1>5, <2>4 DEF ClaimJobs, BackTypes
  <1>6. CASE Reconcile(w)
    <2> DEFINE table == [j \in Jobs |-> IF NeverStarted(j) THEN [back[j] EXCEPT !.state = "failed"] ELSE back[j]]
               new == FirstPage(Due2(table)) \ {t.job : t \in {t \in reports : t.worker = w}}
    <2>1. table \in [Jobs -> BackRow] BY <1>0, <1>a
    <2>2. back' = table /\ reports' = reports \cup {[job |-> j, worker |-> w, state |-> table[j].state] : j \in new}
      BY <1>6 DEF Reconcile
    <2>3. \A j \in new : j \in Jobs /\ table[j].state \in Over BY DEF FirstPage, Due2
    <2> HIDE DEF table, new
    <2>4. reports' \subseteq Report BY <1>0, <2>2, <2>3 DEF Report
    <2> QED BY <1>6, <2>1, <2>2, <2>4 DEF Reconcile, BackTypes
  <1>7. ASSUME NEW j \in Jobs, CancelRow(w, j) PROVE BackTypes'
    <2>1. back' \in [Jobs -> BackRow] BY <1>0, <1>7, SetsType DEF CancelRow
    <2>2. cancels' \subseteq [job : Jobs, worker : Workers] BY <1>7 DEF CancelRow, BackTypes
    <2> QED BY <1>7, <2>1, <2>2 DEF CancelRow, BackTypes
  <1>8. CASE ClaimFails(w) BY <1>8 DEF ClaimFails, Kept, Beside, BackTypes
  <1> QED BY <1>1, <1>2, <1>3, <1>4, <1>5, <1>6, <1>7, <1>8

\* Every step keeps the types.
LEMMA TypesKept ==
    ASSUME IInv', BackTypes, [BackNext]_allVars
    PROVE  BackTypes'
  <1>0. back \in [Jobs -> BackRow] /\ past \in [Jobs -> Past] /\ runners \subseteq Runner
    BY DEF BackTypes
  <1>1. CASE UNCHANGED allVars BY <1>1 DEF allVars, backVars, BackTypes
  <1>2. ASSUME NEW j \in Jobs, Submit(j) \/ Revoke(j) \/ RunAgain(j) PROVE BackTypes'
    <2>1. CASE Submit(j)
      <3>1. "queued" \in {"absent"} \cup Active2 \cup Over BY DEF Active2
      <3>2. back' \in [Jobs -> BackRow] BY <1>0, <2>1, <3>1, SetsType DEF Submit
      <3> QED BY <2>1, <3>2 DEF Submit, BackTypes
    <2>2. CASE Revoke(j) BY <2>2 DEF Revoke, BackTypes
    <2>3. CASE RunAgain(j)
      <3>1. [past[j] EXCEPT !.requeued = TRUE] \in Past BY <1>0, PastType
      <3>2. past' \in [Jobs -> Past] BY <1>0, <2>3, <3>1 DEF RunAgain
      <3> QED BY <2>3, <3>2 DEF RunAgain, Beside, BackTypes
    <2> QED BY <1>2, <2>1, <2>2, <2>3
  <1>3. ASSUME NEW w \in Workers,
               StartRuntime(w) \/ StopRuntime(w) \/ Release(w) \/ CrashRuntime(w)
                 \/ ClaimJobs(w) \/ ClaimFails(w) \/ Reconcile(w) \/ \E j \in Jobs : CancelRow(w, j)
        PROVE  BackTypes'
    BY <1>3, RuntimeTypes
  <1>4. CASE LoseAccount BY <1>4 DEF LoseAccount, BackTypes
  <1>5. ASSUME NEW c \in cancels, CancelJob(c) PROVE BackTypes'
    <2>1. [past[c.job] EXCEPT !.cancelled = TRUE] \in Past BY <1>0, PastType DEF BackTypes
    <2>2. past' \in [Jobs -> Past] BY <1>0, <1>5, <2>1 DEF CancelJob
    <2> QED BY <1>5, <2>2 DEF CancelJob, BackTypes
  <1>6. ASSUME NEW a \in runners, RunnerStep(a) \/ EngineStep(a) \/ Raise(a) PROVE BackTypes'
    BY <1>6, RunnerTypes
  <1>7. ASSUME NEW t \in reports, Answers(t) \/ Delivers(t) \/ DeliveryFails(t) PROVE BackTypes'
    BY <1>7, ReportTypes
  <1>8. ASSUME NEW r \in runs, Settles(r) \/ Beats(r) \/ LosesLease(r) PROVE BackTypes'
    <2>1. CASE LosesLease(r)
      <3>1. runners' = Hit({r}) BY <2>1 DEF LosesLease
      <3>2. runners' \subseteq Runner BY <1>0, <3>1, HitRunners
      <3> QED BY <2>1, <3>2 DEF LosesLease, Kept, Beside, BackTypes
    <2>2. CASE Settles(r) \/ Beats(r) BY <2>2 DEF Settles, Beats, Kept, Beside, BackTypes
    <2> QED BY <1>8, <2>1, <2>2
  <1>9. CASE Around BY <1>9 DEF Around, Kept, Beside, BackTypes
  <1> QED BY <1>1, <1>2, <1>3, <1>4, <1>5, <1>6, <1>7, <1>8, <1>9 DEF BackNext

-----------------------------------------------------------------------------
(* Most steps neither give a job back to the queue nor start an engine.    *)

\* The rows of the jobs: nothing becomes queued, or complete out of nothing.
CalmTable ==
    /\ \A j \in Jobs :
          /\ past'[j].starts = past[j].starts /\ past'[j].requeued = past[j].requeued
          /\ Known(j) => Known(j)'
          /\ back'[j].state \in {"absent", "queued"} => back'[j].state = back[j].state
          /\ rows[j].status = "absent" => back'[j].state = back[j].state
          /\ "completed" \in {back'[j].state, back'[j].answer, past'[j].told} => Known(j)'
    /\ \A t \in reports' : t.state = "completed" => Known(t.job)'

\* The runners: none gets nearer to the engine.
CalmRunners ==
    /\ \A b \in runners' : \E a \in runners : Same(a, b) /\ a.pc = b.pc /\ a.verdict = b.verdict
    /\ \A b, c \in runners' : \A a \in runners : Same(a, b) /\ Same(a, c) => b = c

\* The runs: none is new, and those with a runner stay.
CalmRuns ==
    /\ \A q \in runs' : \E r \in runs : Same(q, r)
    /\ \A b \in runners', r \in runs : Same(b, r) => \E q \in runs' : Same(b, q)

\* The queue: nothing is given back to it.
CalmQueue ==
    \A j \in Jobs : rows'[j].status \in {"pending", "absent"} => rows'[j].status = rows[j].status

\* The runners still fit their runs.
LEMMA FitKept ==
    ASSUME RunnersFit, CalmRuns,
           \A b \in runners' : \E a \in runners : Same(a, b),
           \A b, c \in runners' : \A a \in runners : Same(a, b) /\ Same(a, c) => b = c
    PROVE  RunnersFit'
  <1>1. ASSUME NEW b \in runners' PROVE \E q \in runs' : Same(b, q)
    <2>1. PICK a \in runners : Same(a, b) OBVIOUS
    <2>2. PICK r \in runs : Same(a, r) BY DEF RunnersFit
    <2>3. Same(b, r) BY <2>1, <2>2 DEF Same
    <2> QED BY <2>3 DEF CalmRuns
  <1>2. ASSUME NEW b \in runners', NEW c \in runners', b.job = c.job, b.gen = c.gen
        PROVE  b = c
    <2>1. PICK a \in runners : Same(a, b) OBVIOUS
    <2>2. PICK d \in runners : Same(d, c) OBVIOUS
    <2>3. a = d BY <1>2, <2>1, <2>2 DEF RunnersFit, Same
    <2> QED BY <2>1, <2>2, <2>3
  <1> QED BY <1>1, <1>2 DEF RunnersFit

\* The runs of a job that is not given back to the queue.
LEMMA OneRunKept ==
    ASSUME NEW j \in Jobs, OneRun(j), Unborn(j),
           past'[j].requeued = past[j].requeued,
           \A q \in runs' : \E r \in runs : Same(q, r),
           rows'[j].status \in {"pending", "absent"} => rows'[j].status = rows[j].status,
           rows[j].status = "absent" => back'[j].state = back[j].state
    PROVE  OneRun(j)' /\ Unborn(j)'
  <1>1. ASSUME ~past[j].requeued, NEW q \in runs', NEW p \in runs', q.job = j, p.job = j
        PROVE  q.gen = p.gen
    <2>1. PICK r \in runs : Same(q, r) OBVIOUS
    <2>2. PICK s \in runs : Same(p, s) OBVIOUS
    <2> QED BY <1>1, <2>1, <2>2 DEF OneRun, Same
  <1>2. ASSUME \A r \in runs : r.job # j PROVE \A q \in runs' : q.job # j
    BY <1>2 DEF Same
  <1>3. OneRun(j)' BY <1>1, <1>2 DEF OneRun
  <1>4. Unborn(j)' BY <1>2 DEF Unborn
  <1> QED BY <1>3, <1>4

\* The engine of a job whose runners get no nearer to it.
LEMMA EngineKept ==
    ASSUME NEW j \in Jobs, OneEngine(j),
           past'[j].starts = past[j].starts, past'[j].requeued = past[j].requeued,
           back'[j].state \in {"absent", "queued"} => back'[j].state = back[j].state,
           \A b \in runners' : b.job = j /\ b.pc \in {"starts", "opens"} =>
               \E a \in runners : a.job = j /\ a.pc \in {"starts", "opens"}
    PROVE  OneEngine(j)'
  BY DEF OneEngine

\* What CalmTable and CalmRunners are enough for.
LEMMA BesideQueue ==
    ASSUME BackInv, CalmTable, CalmRunners
    PROVE  /\ Honest'
           /\ \A j \in Jobs : OneEngine(j)'
           /\ \A b \in runners' : Begun(b)'
  <1>2. \A b \in runners' : \E a \in runners : a.job = b.job /\ a.pc = b.pc /\ a.verdict = b.verdict
    BY DEF CalmRunners, Same
  <1>3. ASSUME NEW j \in Jobs PROVE OneEngine(j)'
    <2>1. OneEngine(j) BY DEF BackInv
    <2> QED BY <1>2, <2>1, EngineKept DEF CalmTable
  <1>4. ASSUME NEW b \in runners' PROVE Begun(b)'
    <2>1. PICK a \in runners : a.job = b.job /\ a.pc = b.pc BY <1>2
    <2>2. Begun(a) /\ a.job \in Jobs BY DEF BackInv, BackTypes, Runner
    <2> QED BY <2>1, <2>2 DEF Begun, CalmTable
  <1>5. ASSUME NEW b \in runners', b.pc = "ends", b.verdict = "completed" PROVE Known(b.job)'
    <2>1. PICK a \in runners : a.job = b.job /\ a.pc = b.pc /\ a.verdict = b.verdict BY <1>2
    <2>2. Known(a.job) /\ a.job \in Jobs BY <1>5, <2>1 DEF BackInv, Honest, BackTypes, Runner
    <2> QED BY <2>1, <2>2 DEF CalmTable
  <1> QED BY <1>3, <1>4, <1>5 DEF Honest, CalmTable

\* Steps that are calm in all four ways keep the invariant.
LEMMA CalmKeeps ==
    ASSUME BackInv, IInv', BackTypes', CalmTable, CalmRunners, CalmRuns, CalmQueue
    PROVE  BackInv'
  <1>1. RunnersFit'
    BY FitKept DEF BackInv, CalmRunners
  <1>2. ASSUME NEW j \in Jobs PROVE OneRun(j)' /\ Unborn(j)'
    <2>1. OneRun(j) /\ Unborn(j) BY DEF BackInv
    <2> QED BY <2>1, OneRunKept DEF CalmTable, CalmRuns, CalmQueue
  <1>3. Honest' /\ (\A j \in Jobs : OneEngine(j)') /\ (\A b \in runners' : Begun(b)')
    BY BesideQueue
  <1> QED BY <1>1, <1>2, <1>3 DEF BackInv

-----------------------------------------------------------------------------
(* What the calm steps leave alone.                                        *)

\* Rows and history that stay as they were.
LEMMA TableStill ==
    ASSUME BackInv, back' = back, past' = past, reports' \subseteq reports
    PROVE  CalmTable
  <1>1. \A j \in Jobs : Known(j)' <=> Known(j) BY DEF Known
  <1>2. \A t \in reports' : t.state = "completed" => Known(t.job)'
    BY DEF BackInv, Honest, Known
  <1>3. \A j \in Jobs : "completed" \in {back[j].state, back[j].answer, past[j].told} => Known(j)
    BY DEF BackInv, Honest
  <1> QED BY <1>1, <1>2, <1>3 DEF CalmTable

\* Runners that do, or of which some are gone.
LEMMA RunnersStill ==
    ASSUME BackInv, runners' \subseteq runners
    PROVE  CalmRunners
  <1>1. \A b \in runners' : Same(b, b) /\ b \in runners BY DEF Same
  <1>2. \A b, c \in runners' : \A a \in runners : Same(a, b) /\ Same(a, c) => b = c
    BY <1>1 DEF BackInv, RunnersFit, Same
  <1> QED BY <1>1, <1>2 DEF CalmRunners

\* Runners whose handlers were cancelled.
LEMMA RunnersHit ==
    ASSUME BackInv, NEW R, runners' = Hit(R)
    PROVE  CalmRunners
  BY HitRunners DEF BackInv, BackTypes, CalmRunners

\* Runs that stay, and runs whose handlers were cancelled.
LEMMA RunsStill ==
    ASSUME runs' = runs
    PROVE  CalmRuns
  BY DEF CalmRuns, Same

LEMMA RunsCancelled ==
    ASSUME IInv, NEW R, CancelHandlers(R)
    PROVE  CalmRuns
  <1> DEFINE f(r) == IF r \in R /\ r.phase = "running" THEN [r EXCEPT !.phase = "cancelled"] ELSE r
  <1>1. \A r \in runs : Same(f(r), r) /\ \A b \in runners' : Same(b, r) => Same(b, f(r))
    BY DEF IInv, RunsFit, Run, Same
  <1>2. runs' = {f(r) : r \in runs} BY DEF CancelHandlers
  <1> HIDE DEF f
  <1> QED BY <1>1, <1>2 DEF CalmRuns

\* A run that ends without a runner.
LEMMA RunOver ==
    ASSUME NEW r \in runs, RunnerOf(r) = {}, runners' = runners, runs \ {r} \subseteq runs',
           \A q \in runs' : \E s \in runs : Same(q, s)
    PROVE  CalmRuns
  <1>1. \A b \in runners : ~Same(b, r) BY DEF RunnerOf, Same
  <1> QED BY <1>1 DEF CalmRuns

\* A table that stays, of which only the times change.
LEMMA QueueStill ==
    ASSUME rows' = rows
    PROVE  CalmQueue
  BY DEF CalmQueue

\* A row that is set to another state than pending.
LEMMA OneRowCalm ==
    ASSUME IInv, NEW j \in Jobs, NEW row, rows' = [rows EXCEPT ![j] = row],
           row.status \in {"pending", "absent"} => row.status = rows[j].status
    PROVE  CalmQueue
  BY DEF IInv, TableOK, CalmQueue

\* Recovery ends a job that is not resumable and has one attempt.
LEMMA RecoveredCalm ==
    ASSUME IInv, NEW j \in Jobs
    PROVE  RecoveredRows[j].status \in {"pending", "absent"} => RecoveredRows[j] = rows[j]
  <1>1. RecoveredRows[j] = Recovered(j, rows[j]) BY DEF RecoveredRows
  <1>2. RowOK(j, rows[j], charged[j]) /\ rows[j] \in Row BY DEF IInv, TableOK
  <1>3. CASE ~Expired(rows[j]) BY <1>1, <1>3 DEF Recovered
  <1>4. CASE Expired(rows[j])
    <2>1. rows[j].attempts \in Nat /\ charged[j] \in Nat /\ rows[j].attempts = charged[j] + 1
      BY <1>2, <1>4 DEF RowOK, Busy, Expired
    <2>2. MaxAttempts[j] = 1 /\ j \notin Resume BY BackgroundAssumption
    <2>3. ~(rows[j].attempts < MaxAttempts[j]) BY <2>1, <2>2
    <2> DEFINE q == Released(rows[j], "failed")
    <2>4. RecoveredRows[j] = [q EXCEPT !.wait = 0] BY <1>1, <1>4, <2>2, <2>3 DEF Recovered
    <2>5. q \in Row /\ q.status = "failed" BY <1>2, ReleasedRow DEF Statuses
    <2> HIDE DEF q
    <2>6. RecoveredRows[j].status = "failed" BY <2>4, <2>5 DEF Row
    <2> QED BY <2>6
  <1> QED BY <1>3, <1>4

-----------------------------------------------------------------------------
(* The calm steps.                                                         *)

\* The runtimes, and the cancellations of the users.
LEMMA RuntimeCalm ==
    ASSUME BackInv, NEW w \in Workers,
           StartRuntime(w) \/ StopRuntime(w) \/ Release(w) \/ CrashRuntime(w)
             \/ ClaimFails(w) \/ Reconcile(w) \/ \E j \in Jobs : CancelRow(w, j)
    PROVE  CalmTable /\ CalmRunners /\ CalmRuns /\ CalmQueue
  <1>0. /\ back \in [Jobs -> BackRow] /\ reports \subseteq Report
        /\ \A j \in Jobs : "completed" \in {back[j].state, back[j].answer, past[j].told} => Known(j)
        /\ \A t \in reports : t.state = "completed" => Known(t.job)
        /\ IInv
    BY DEF BackInv, BackTypes, Honest
  <1>1. CASE StartRuntime(w)
    <2>1. rows' = rows /\ runs' = runs /\ runners' = runners /\ past' = past /\ reports' = reports
      BY <1>1 DEF StartRuntime, vars
    <2>2. ASSUME NEW j \in Jobs
          PROVE  \/ back'[j] = back[j]
                 \/ /\ back[j].state = "running" /\ back'[j].state = "failed"
                    /\ back'[j].answer = back[j].answer
      <3>1. back'[j] = IF back[j].state = "running" THEN [back[j] EXCEPT !.state = "failed"] ELSE back[j]
        BY <1>1 DEF StartRuntime, Recover
      <3> QED BY <1>0, <3>1 DEF BackRow
    <2>3. \A j \in Jobs : rows[j].status = "absent" => back[j].state = "absent"
      BY DEF BackInv, Unborn
    <2>4. CalmTable BY <1>0, <2>1, <2>2, <2>3 DEF CalmTable, Known
    <2> QED BY <2>1, <2>4, RunnersStill, RunsStill, QueueStill
  <1>2. CASE StopRuntime(w)
    <2>1. /\ rows' = rows /\ back' = back /\ past' = past /\ reports' \subseteq reports
          /\ runners' = Hit(RunsOf(w)) /\ CancelHandlers(RunsOf(w))
      BY <1>2 DEF StopRuntime
    <2> QED BY <1>0, <2>1, TableStill, RunnersHit, RunsCancelled, QueueStill
  <1>3. CASE Release(w)
    BY <1>3, TableStill, RunnersStill, RunsStill, QueueStill DEF Release, vars
  <1>4. CASE CrashRuntime(w)
    <2>1. /\ rows' = rows /\ back' = back /\ past' = past /\ reports' \subseteq reports
          /\ runners' = {a \in runners : a.worker # w} /\ runs' = runs \ RunsOf(w)
      BY <1>4 DEF CrashRuntime, Crash
    <2>2. CalmRuns BY <2>1 DEF CalmRuns, RunsOf, Same
    <2> QED BY <2>1, <2>2, TableStill, RunnersStill, QueueStill
  <1>5. CASE Reconcile(w)
    <2> DEFINE table == [j \in Jobs |-> IF NeverStarted(j) THEN [back[j] EXCEPT !.state = "failed"] ELSE back[j]]
               new == FirstPage(Due2(table)) \ {t.job : t \in {t \in reports : t.worker = w}}
    <2>1. /\ back' = table
          /\ reports' = reports \cup {[job |-> j, worker |-> w, state |-> table[j].state] : j \in new}
          /\ rows' = rows /\ runs' = runs /\ runners' = runners /\ past' = past
      BY <1>5 DEF Reconcile, vars
    <2>2. ASSUME NEW j \in Jobs
          PROVE  \/ table[j] = back[j]
                 \/ /\ back[j].state = "queued" /\ table[j].state = "failed"
                    /\ table[j].answer = back[j].answer
                    /\ rows[j].status # "absent"
      <3>1. table[j] = IF NeverStarted(j) THEN [back[j] EXCEPT !.state = "failed"] ELSE back[j]
        OBVIOUS
      <3> QED BY <1>0, <3>1 DEF BackRow, NeverStarted
    <2>3. new \subseteq Jobs BY DEF FirstPage, Due2
    <2> HIDE DEF table, new
    <2>4. \A j \in Jobs : Known(j)' <=> Known(j) BY <2>1 DEF Known
    <2>5. \A t \in reports' : t.state = "completed" => Known(t.job)'
      <3>1. \A t \in reports : t.state = "completed" => Known(t.job)'
        BY <1>0, <2>4 DEF Report
      <3>2. \A j \in new : table[j].state = "completed" => Known(j)'
        BY <1>0, <2>2, <2>3, <2>4
      <3> QED BY <2>1, <3>1, <3>2
    <2>6. CalmTable BY <1>0, <2>1, <2>2, <2>4, <2>5 DEF CalmTable
    <2> QED BY <2>1, <2>6, RunnersStill, RunsStill, QueueStill
  <1>6. ASSUME NEW j \in Jobs, CancelRow(w, j)
        PROVE  CalmTable /\ CalmRunners /\ CalmRuns /\ CalmQueue
    <2>1. /\ rows' = rows /\ runs' = runs /\ runners' = runners /\ past' = past /\ reports' = reports
          /\ back[j].state \in Active2
          /\ back' = [back EXCEPT ![j].state = "cancelled"]
      BY <1>6 DEF CancelRow, Sets
    <2>2. \A k \in Jobs : back'[k] = IF k = j THEN [back[k] EXCEPT !.state = "cancelled"] ELSE back[k]
      BY <1>0, <2>1
    <2>3. back[j] \in BackRow BY <1>0
    <2>4. back'[j].state = "cancelled" /\ back'[j].answer = back[j].answer BY <2>2, <2>3 DEF BackRow
    <2>5. rows[j].status # "absent" BY <2>1 DEF BackInv, Unborn, Active2
    <2>6. \A k \in Jobs : Known(k)' <=> Known(k) BY <2>1 DEF Known
    <2>7. \A t \in reports' : t.state = "completed" => Known(t.job)'
      BY <1>0, <2>1, <2>6 DEF Report
    <2>8. CalmTable BY <1>0, <2>1, <2>2, <2>4, <2>5, <2>6, <2>7 DEF CalmTable
    <2> QED BY <2>1, <2>8, RunnersStill, RunsStill, QueueStill
  <1>7. CASE ClaimFails(w)
    BY <1>7, TableStill, RunnersStill, RunsStill, QueueStill DEF ClaimFails, ClaimRaises, Kept, Beside
  <1> QED BY <1>1, <1>2, <1>3, <1>4, <1>5, <1>6, <1>7

\* The results.
LEMMA ResultsCalm ==
    ASSUME BackInv, NEW t \in reports, Answers(t) \/ Delivers(t) \/ DeliveryFails(t)
    PROVE  CalmTable /\ CalmRunners /\ CalmRuns /\ CalmQueue
  <1>0. /\ back \in [Jobs -> BackRow] /\ past \in [Jobs -> Past] /\ reports \subseteq Report
        /\ \A j \in Jobs : "completed" \in {back[j].state, back[j].answer, past[j].told} => Known(j)
        /\ \A s \in reports : s.state = "completed" => Known(s.job)
    BY DEF BackInv, BackTypes, Honest
  <1>1. rows' = rows /\ runs' = runs /\ runners' = runners /\ reports' \subseteq reports
    BY DEF Answers, Delivers, DeliveryFails, vars
  <1>2. CalmRunners /\ CalmRuns /\ CalmQueue BY <1>1, RunnersStill, RunsStill, QueueStill
  <1>3. t.job \in Jobs /\ back[t.job] \in BackRow /\ past[t.job] \in Past BY <1>0 DEF Report
  <1>4. CASE Answers(t)
    <2>1. past' = past /\ back' = [back EXCEPT ![t.job].answer = t.state]
      BY <1>4 DEF Answers
    <2>2. \A k \in Jobs : back'[k] = IF k = t.job THEN [back[k] EXCEPT !.answer = t.state] ELSE back[k]
      BY <1>0, <2>1
    <2>3. back'[t.job].state = back[t.job].state /\ back'[t.job].answer = t.state
      BY <1>3, <2>2 DEF BackRow
    <2>4. \A k \in Jobs : Known(k)' <=> Known(k) BY <2>1 DEF Known
    <2>5. \A s \in reports' : s.state = "completed" => Known(s.job)'
      BY <1>0, <1>1, <2>4 DEF Report
    <2>6. CalmTable BY <1>0, <1>3, <2>1, <2>2, <2>3, <2>4, <2>5 DEF CalmTable
    <2> QED BY <1>2, <2>6
  <1>5. CASE Delivers(t)
    <2> DEFINE s == IF past[t.job].told # "none" THEN past[t.job].told
                    ELSE IF back[t.job].answer # "none" THEN back[t.job].answer ELSE t.state
    <2>1. past' = [past EXCEPT ![t.job].told = s] /\ back' = [back EXCEPT ![t.job].delivered = TRUE]
      BY <1>5 DEF Delivers
    <2>2. s = "completed" => Known(t.job) BY <1>0, <1>3
    <2> HIDE DEF s
    <2>3. \A k \in Jobs : back'[k].state = back[k].state /\ back'[k].answer = back[k].answer
      BY <1>0, <2>1 DEF BackRow
    <2>4. \A k \in Jobs : /\ past'[k].starts = past[k].starts /\ past'[k].requeued = past[k].requeued
                          /\ past'[k].returned = past[k].returned /\ past'[k].torn = past[k].torn
                          /\ past'[k].told = IF k = t.job THEN s ELSE past[k].told
      BY <1>0, <2>1 DEF Past
    <2>5. \A k \in Jobs : Known(k)' <=> Known(k) BY <2>4 DEF Known
    <2>6. \A u \in reports' : u.state = "completed" => Known(u.job)'
      BY <1>0, <1>1, <2>5 DEF Report
    <2>7. CalmTable BY <1>0, <2>2, <2>3, <2>4, <2>5, <2>6 DEF CalmTable
    <2> QED BY <1>2, <2>7
  <1>6. CASE DeliveryFails(t) BY <1>1, <1>2, <1>6, TableStill DEF DeliveryFails
  <1> QED BY <1>4, <1>5, <1>6

\* The queue underneath, but for a deferral.
LEMMA QueueCalm ==
    ASSUME BackInv, NEW r \in runs,
           Beats(r) \/ LosesLease(r) \/ (Settles(r) /\ ~Defer(r))
    PROVE  CalmTable /\ CalmRunners /\ CalmRuns /\ CalmQueue
  <1>0. IInv BY DEF BackInv
  <1>1. back' = back /\ past' = past /\ reports' = reports
    BY DEF Beats, LosesLease, Settles, Kept, Beside
  <1>2. CalmTable BY <1>1, TableStill
  <1>3. CASE Beats(r)
    <2>1. runners' = runners /\ runs' = runs /\ rows' = [rows EXCEPT ![r.job].left = Lease]
      BY <1>3 DEF Beats, Renew
    <2>2. rows[r.job] \in Row BY <1>0, HeldRow
    <2>3. [rows[r.job] EXCEPT !.left = Lease].status = rows[r.job].status BY <2>2 DEF Row
    <2>4. r.job \in Jobs /\ rows' = [rows EXCEPT ![r.job] = [rows[r.job] EXCEPT !.left = Lease]]
      BY <1>0, <2>1, HeldRow
    <2>5. CalmQueue BY <1>0, <2>3, <2>4, OneRowCalm
    <2> QED BY <1>2, <2>1, <2>5, RunnersStill, RunsStill
  <1>4. CASE LosesLease(r)
    <2>1. runners' = Hit({r}) /\ CancelHandlers({r}) /\ rows' = rows
      BY <1>4 DEF LosesLease, LeaseLost, HeartbeatRaises
    <2> QED BY <1>0, <1>2, <2>1, RunnersHit, RunsCancelled, QueueStill
  <1>5. CASE Settles(r) /\ ~Defer(r)
    <2>1. RunnerOf(r) = {} /\ runners' = runners BY <1>5 DEF Settles
    <2>2. /\ runs \ {r} \subseteq runs'
          /\ \A q \in runs' : \E s \in runs : Same(q, s)
      <3>1. runs' = runs \ {r} \/ runs' = (runs \ {r}) \cup {[r EXCEPT !.phase = "release"]}
        BY <1>5 DEF Settles, Settle, MarkSucceeded, MarkFailed, ReadAfterCancel, SettlementRaises, EndRun
      <3>2. Same([r EXCEPT !.phase = "release"], r)
        <4>1. r \in Run BY <1>0, HeldRow
        <4> QED BY <4>1 DEF Same, Run
      <3>3. \A s \in runs : Same(s, s) BY DEF Same
      <3> QED BY <3>1, <3>2, <3>3
    <2>3. CalmRuns BY <2>1, <2>2, RunOver
    <2>4. CalmQueue
      <3> DEFINE row == rows[r.job]
      <3>1. r.job \in Jobs /\ row \in Row /\ RowOK(r.job, row, charged[r.job]) BY <1>0, HeldRow
      <3>2. CASE MarkSucceeded(r) /\ Holds(r, row)
        <4> DEFINE q == Released(row, "succeeded")
        <4>1. rows' = [rows EXCEPT ![r.job] = [q EXCEPT !.result = r.gen]]
          BY <3>2 DEF MarkSucceeded
        <4>2. q \in Row /\ q.status = "succeeded" BY <3>1, ReleasedRow DEF Statuses
        <4> HIDE DEF q
        <4>3. [q EXCEPT !.result = r.gen].status = "succeeded" BY <4>2 DEF Row
        <4> QED BY <1>0, <3>1, <4>1, <4>3, OneRowCalm
      <3>3. CASE MarkFailed(r) /\ Holds(r, row)
        <4>1. row.attempts \in Nat /\ charged[r.job] \in Nat /\ row.attempts = charged[r.job] + 1
          BY <3>1, <3>3 DEF RowOK, Busy, Holds
        <4>2. ~(row.attempts < MaxAttempts[r.job])
          <5>1. MaxAttempts[r.job] = 1 BY <3>1, BackgroundAssumption
          <5> QED BY <4>1, <5>1
        <4> DEFINE q == Released(row, "failed")
        <4>3. rows' = [rows EXCEPT ![r.job] = [q EXCEPT !.wait = Delay]]
          BY <3>3, <4>2 DEF MarkFailed
        <4>4. q \in Row /\ q.status = "failed" BY <3>1, ReleasedRow DEF Statuses
        <4> HIDE DEF q
        <4>5. [q EXCEPT !.wait = Delay].status = "failed" BY <4>4 DEF Row
        <4> QED BY <1>0, <3>1, <4>3, <4>5, OneRowCalm
      <3>4. CASE ReadAfterCancel(r) \/ SettlementRaises(r)
                 \/ ((MarkSucceeded(r) \/ MarkFailed(r)) /\ ~Holds(r, row))
        <4>1. rows' = rows BY <3>4 DEF ReadAfterCancel, SettlementRaises, MarkSucceeded, MarkFailed
        <4> QED BY <4>1, QueueStill
      <3> QED BY <1>5, <3>2, <3>3, <3>4 DEF Settles, Settle
    <2> QED BY <1>2, <2>1, <2>3, <2>4, RunnersStill
  <1> QED BY <1>3, <1>4, <1>5

\* The administrator, time, the lease of the account, and the second
\* transaction of a cancellation.
LEMMA AroundCalm ==
    ASSUME BackInv,
           Around \/ LoseAccount \/ (\E j \in Jobs : Revoke(j)) \/ (\E c \in cancels : CancelJob(c))
    PROVE  CalmTable /\ CalmRunners /\ CalmRuns /\ CalmQueue
  <1>0. /\ IInv /\ back \in [Jobs -> BackRow] /\ past \in [Jobs -> Past] /\ rows \in [Jobs -> Row]
    BY DEF BackInv, BackTypes, IInv, TableOK
  <1>1. runs' = runs /\ runners' = runners /\ back' = back /\ reports' = reports
    BY DEF Around, LoseAccount, Revoke, CancelJob, Kept, Beside, OpenStore, Tick, Cancel, vars
  <1>2. CalmRunners /\ CalmRuns BY <1>1, RunnersStill, RunsStill
  <1>3. ASSUME NEW j \in Jobs, Cancellable(rows[j]),
               rows' = [rows EXCEPT ![j] = Released(@, "cancelled")]
        PROVE  CalmQueue
    <2>1. rows' = [rows EXCEPT ![j] = Released(rows[j], "cancelled")] BY <1>3
    <2>2. Released(rows[j], "cancelled").status = "cancelled"
      BY <1>0, ReleasedRow DEF Statuses
    <2> QED BY <1>0, <2>1, <2>2, OneRowCalm
  <1>4. CASE Around
    <2>1. CalmTable BY <1>1, <1>4, TableStill DEF Around, Kept
    <2>2. CASE OpenStore
      <3>1. rows' = RecoveredRows BY <2>2 DEF OpenStore
      <3>2. CalmQueue BY <1>0, <3>1, RecoveredCalm DEF CalmQueue
      <3> QED BY <1>2, <2>1, <3>2
    <2>3. CASE Tick
      <3>1. \A j \in Jobs : rows'[j] = [rows[j] EXCEPT !.left = Dec(@), !.wait = Dec(@)]
        BY <2>3 DEF Tick
      <3>2. \A j \in Jobs : rows'[j].status = rows[j].status
        <4> SUFFICES ASSUME NEW j \in Jobs PROVE rows'[j].status = rows[j].status OBVIOUS
        <4>1. rows[j] \in Row BY <1>0
        <4> QED BY <3>1, <4>1 DEF Row
      <3>3. CalmQueue BY <3>2 DEF CalmQueue
      <3> QED BY <1>2, <2>1, <3>3
    <2>4. CASE \E j \in Jobs : Cancel(j)
      <3>1. PICK j \in Jobs : Cancel(j) BY <2>4
      <3>2. CalmQueue BY <1>3, <3>1 DEF Cancel
      <3> QED BY <1>2, <2>1, <3>2
    <2> QED BY <1>4, <2>2, <2>3, <2>4 DEF Around
  <1>5. CASE LoseAccount \/ \E j \in Jobs : Revoke(j)
    <2>1. rows' = rows /\ past' = past BY <1>5 DEF LoseAccount, Revoke, vars
    <2> QED BY <1>1, <1>2, <2>1, TableStill, QueueStill
  <1>6. ASSUME NEW c \in cancels, CancelJob(c)
        PROVE  CalmTable /\ CalmRunners /\ CalmRuns /\ CalmQueue
    <2>1. c.job \in Jobs BY DEF BackInv, BackTypes
    <2>2. CalmQueue
      <3>1. CASE Cancellable(rows[c.job])
        <4>1. rows' = [rows EXCEPT ![c.job] = Released(@, "cancelled")] BY <1>6, <3>1 DEF CancelJob
        <4> QED BY <1>3, <2>1, <3>1, <4>1
      <3>2. CASE ~Cancellable(rows[c.job])
        <4>1. rows' = rows BY <1>6, <3>2 DEF CancelJob
        <4> QED BY <4>1, QueueStill
      <3> QED BY <3>1, <3>2
    <2>3. past' = [past EXCEPT ![c.job].cancelled = TRUE] BY <1>6 DEF CancelJob
    <2>4. \A k \in Jobs : /\ past'[k].starts = past[k].starts /\ past'[k].requeued = past[k].requeued
                          /\ past'[k].returned = past[k].returned /\ past'[k].torn = past[k].torn
                          /\ past'[k].told = past[k].told
      BY <1>0, <2>1, <2>3 DEF Past
    <2>5. \A k \in Jobs : Known(k)' <=> Known(k) BY <2>4 DEF Known
    <2>6. \A u \in reports' : u.state = "completed" => Known(u.job)'
      BY <1>1, <2>5 DEF Report, BackInv, BackTypes, Honest
    <2>7. \A k \in Jobs : "completed" \in {back[k].state, back[k].answer, past[k].told} => Known(k)
      BY DEF BackInv, Honest
    <2>8. CalmTable BY <1>1, <2>4, <2>5, <2>6, <2>7 DEF CalmTable
    <2> QED BY <1>2, <2>2, <2>8
  <1> QED BY <1>4, <1>5, <1>6

-----------------------------------------------------------------------------
(* The steps that give a job to the queue, or take it from there.          *)

\* A deferral gives the job back, and its run is over.
LEMMA DeferKeeps ==
    ASSUME BackInv, IInv', BackTypes', NEW r \in runs, Settles(r), Defer(r)
    PROVE  BackInv'
  <1>0. /\ IInv /\ RunnerOf(r) = {} /\ runners' = runners
        /\ back' = back /\ past' = past /\ reports' = reports /\ runs' = runs \ {r}
    BY DEF BackInv, Settles, Kept, Beside, Defer, EndRun
  <1>1. CalmTable /\ CalmRunners BY <1>0, TableStill, RunnersStill
  <1>2. \A q \in runs' : \E s \in runs : Same(q, s)
    BY <1>0 DEF Same
  <1>3. CalmRuns BY <1>0, <1>2, RunOver
  <1>4. RunnersFit' BY <1>1, <1>3, FitKept DEF BackInv, CalmRunners
  <1>5. r.job \in Jobs /\ rows[r.job] \in Row /\ rows \in [Jobs -> Row]
    BY <1>0, HeldRow DEF IInv, TableOK
  <1>6. \A j \in Jobs : j # r.job => rows'[j] = rows[j]
    BY <1>5 DEF Defer
  <1>7. rows'[r.job] = rows[r.job] \/ rows'[r.job].status = "pending"
    <2>1. CASE Holds(r, rows[r.job]) /\ rows[r.job].attempts = r.att
      <3> DEFINE d == IF r.phase = "deferred" THEN Delay ELSE 0
      <3>1. rows'[r.job] = DeferredRow(rows[r.job], d) BY <1>5, <2>1 DEF Defer
      <3>2. d \in Nat /\ rows[r.job].status = "running" BY <2>1, JobsAssumption DEF Holds
      <3>3. RowOK(r.job, rows[r.job], charged[r.job]) BY <1>0, HeldRow
      <3> HIDE DEF d
      <3> QED BY <1>5, <3>1, <3>2, <3>3, DeferKeepsRow
    <2>2. CASE ~(Holds(r, rows[r.job]) /\ rows[r.job].attempts = r.att)
      BY <2>2 DEF Defer
    <2> QED BY <2>1, <2>2
  <1>8. ASSUME NEW j \in Jobs PROVE OneRun(j)' /\ Unborn(j)'
    <2>1. OneRun(j) /\ Unborn(j) BY DEF BackInv
    <2>2. CASE j # r.job \/ rows'[j] = rows[j]
      <3>1. rows'[j] = rows[j] BY <1>6, <2>2
      <3> QED BY <1>0, <1>2, <2>1, <3>1, OneRunKept
    <2>3. CASE j = r.job /\ rows'[j].status = "pending"
      <3>1. ~past[j].requeued => \A s \in runs : s.job = j => s = r
        BY <1>0, <2>1, <2>3 DEF OneRun, IInv, RunsFit
      <3>2. OneRun(j)' BY <1>0, <2>1, <3>1 DEF OneRun
      <3>3. Unborn(j)' BY <2>3 DEF Unborn
      <3> QED BY <3>2, <3>3
    <2> QED BY <1>7, <2>2, <2>3
  <1>9. Honest' /\ (\A j \in Jobs : OneEngine(j)') /\ (\A b \in runners' : Begun(b)')
    BY <1>1, BesideQueue
  <1> QED BY <1>4, <1>8, <1>9 DEF BackInv

\* A new job has no engine yet.
LEMMA SubmitKeeps ==
    ASSUME BackInv, IInv', BackTypes', NEW j \in Jobs, Submit(j)
    PROVE  BackInv'
  <1>0. /\ runs' = runs /\ runners' = runners /\ past' = past /\ reports' = reports
        /\ rows[j].status = "absent" /\ rows' = [rows EXCEPT ![j].status = "pending"]
        /\ back' = [back EXCEPT ![j].state = "queued"]
    BY DEF Submit, Enqueue, Sets
  <1>1. /\ rows \in [Jobs -> Row] /\ back \in [Jobs -> BackRow]
    BY DEF BackInv, IInv, TableOK, BackTypes
  <1>2. /\ \A k \in Jobs : k # j => rows'[k] = rows[k] /\ back'[k] = back[k]
        /\ rows'[j].status = "pending"
        /\ back'[j].state = "queued" /\ back'[j].answer = back[j].answer
    BY <1>0, <1>1 DEF Row, BackRow
  <1>3. back[j].state = "absent" /\ \A r \in runs : r.job # j
    BY <1>0 DEF BackInv, Unborn
  <1>4. \A a \in runners : a.job # j BY <1>3 DEF BackInv, RunnersFit, Same
  <1>5. RunnersFit' BY <1>0 DEF BackInv, RunnersFit
  <1>6. \A a \in runners' : Begun(a)'
    BY <1>0, <1>2, <1>4 DEF BackInv, BackTypes, Runner, Begun
  <1>7. ASSUME NEW k \in Jobs PROVE OneRun(k)' /\ Unborn(k)' /\ OneEngine(k)'
    <2>1. OneRun(k) /\ Unborn(k) /\ OneEngine(k) BY DEF BackInv
    <2>2. CASE k = j BY <1>0, <1>2, <1>3, <2>1, <2>2 DEF OneRun, Unborn, OneEngine
    <2>3. CASE k # j BY <1>0, <1>2, <2>1, <2>3 DEF OneRun, Unborn, OneEngine
    <2> QED BY <2>2, <2>3
  <1>8. Honest' BY <1>0, <1>2 DEF BackInv, Honest, Known
  <1> QED BY <1>5, <1>6, <1>7, <1>8 DEF BackInv

\* What the administrator puts back in the queue is not promised anything.
LEMMA RunAgainKeeps ==
    ASSUME BackInv, IInv', BackTypes', NEW j \in Jobs, RunAgain(j)
    PROVE  BackInv'
  <1>0. /\ runs' = runs /\ runners' = runners /\ back' = back /\ reports' = reports
        /\ past' = [past EXCEPT ![j].requeued = TRUE]
        /\ rows' = [rows EXCEPT ![j] = [Released(@, "pending") EXCEPT
                                            !.attempts = 0, !.wait = 0, !.result = 0]]
    BY DEF RunAgain, Requeue, Beside
  <1>1. rows \in [Jobs -> Row] /\ past \in [Jobs -> Past] BY DEF BackInv, IInv, TableOK, BackTypes
  <1>2. /\ \A k \in Jobs : k # j => rows'[k] = rows[k] /\ past'[k] = past[k]
        /\ past'[j] = [past[j] EXCEPT !.requeued = TRUE]
    BY <1>0, <1>1
  <1>3. rows'[j].status = "pending"
    <2> DEFINE q == Released(rows[j], "pending")
    <2>1. q \in Row /\ q.status = "pending" BY <1>1, ReleasedRow DEF Statuses
    <2>2. rows'[j] = [q EXCEPT !.attempts = 0, !.wait = 0, !.result = 0] BY <1>0, <1>1
    <2> HIDE DEF q
    <2> QED BY <2>1, <2>2 DEF Row
  <1>4. /\ past'[j].requeued /\ past'[j].told = past[j].told
        /\ past'[j].returned = past[j].returned /\ past'[j].torn = past[j].torn
    BY <1>1, <1>2 DEF Past
  <1>5. \A k \in Jobs : /\ past'[k].told = past[k].told
                        /\ Known(k)' <=> Known(k)
    BY <1>2, <1>4 DEF Known
  <1>6. RunnersFit' BY <1>0 DEF BackInv, RunnersFit
  <1>7. \A a \in runners' : Begun(a)' BY <1>0 DEF BackInv, Begun
  <1>8. ASSUME NEW k \in Jobs PROVE OneRun(k)' /\ Unborn(k)' /\ OneEngine(k)'
    <2>1. OneRun(k) /\ Unborn(k) /\ OneEngine(k) BY DEF BackInv
    <2>2. CASE k = j BY <1>3, <1>4, <2>2 DEF OneRun, Unborn, OneEngine
    <2>3. CASE k # j BY <1>0, <1>2, <2>1, <2>3 DEF OneRun, Unborn, OneEngine
    <2> QED BY <2>2, <2>3
  <1>9. Honest'
    <2>1. (\A t \in reports : t.job \in Jobs) /\ (\A a \in runners : a.job \in Jobs)
      BY DEF BackInv, BackTypes, Report, Runner
    <2> QED BY <1>0, <1>5, <2>1 DEF BackInv, Honest
  <1> QED BY <1>6, <1>7, <1>8, <1>9 DEF BackInv

\* Until it commits, a claim takes no job; one that finds none to lock has only
\* recovered what was expired.
LEMMA ClaimBeginsCalm ==
    ASSUME BackInv, NEW w \in Workers, ClaimJobs(w), ~Claim(w)
    PROVE  CalmTable /\ CalmRunners /\ CalmRuns /\ CalmQueue
  <1>1. runs' = runs /\ (rows' = rows \/ rows' = RecoveredRows)
    BY DEF ClaimJobs, Claims, Selects, Counts
  <1>2. runners' = runners BY <1>1 DEF ClaimJobs
  <1>3. back' = back /\ past' = past /\ reports' = reports BY DEF ClaimJobs
  <1>4. CalmTable /\ CalmRunners /\ CalmRuns BY <1>1, <1>2, <1>3, TableStill, RunnersStill, RunsStill
  <1>5. CalmQueue
    <2>1. CASE rows' = rows BY <2>1, QueueStill
    <2>2. CASE rows' = RecoveredRows BY <2>2, RecoveredCalm DEF CalmQueue, BackInv
    <2> QED BY <1>1, <2>1, <2>2
  <1> QED BY <1>4, <1>5

\* A claim takes jobs that nobody has, and starts one runner for each, unless
\* its worker was stopped.
LEMMA ClaimKeeps ==
    ASSUME BackInv, IInv', BackTypes', NEW w \in Workers, ClaimJobs(w), Claim(w)
    PROVE  BackInv'
  <1> DEFINE table == RecoveredRows
             T == claims[w].taken
  <1>2. /\ rows' = [j \in Jobs |-> IF j \in T THEN ClaimedRow(table[j], w) ELSE table[j]]
        /\ runs' = runs \/ runs' = runs \cup {NewRun(table, w, j) : j \in T}
    BY DEF Claim
  <1>4. \A j \in T : j \in Jobs /\ table[j].status = "pending"
    BY DEF BackInv, IInv, ClaimsFit, ClaimUnderWay, Ready, RecoveredRows
  <1> HIDE DEF T
  <1>5. /\ IInv /\ back' = back /\ past' = past /\ reports' = reports
        /\ runners' = runners \cup {NewRunner(r) : r \in runs' \ runs}
    BY DEF BackInv, ClaimJobs
  <1>6. \A j \in Jobs : table[j].status \in {"pending", "absent"} => table[j] = rows[j]
    BY <1>5, RecoveredCalm
  <1>7. \A j \in Jobs : j \notin T => rows'[j] = table[j] BY <1>2
  <1>8. \A j \in T : rows'[j].status = "running"
    <2> SUFFICES ASSUME NEW j \in T PROVE rows'[j].status = "running" OBVIOUS
    <2>1. j \in Jobs /\ table[j].status = "pending" /\ table[j] = rows[j] BY <1>4, <1>6
    <2>2. rows[j] \in Row BY <1>5, <2>1 DEF IInv, TableOK
    <2>3. rows'[j] = ClaimedRow(rows[j], w) BY <1>2, <2>1
    <2> QED BY <2>2, <2>3 DEF ClaimedRow, Row
  <1>9. \A j \in Jobs : rows'[j].status \in {"pending", "absent"} => j \notin T /\ rows'[j] = rows[j]
    BY <1>6, <1>7, <1>8
  <1>10. /\ runs \subseteq runs'
         /\ \A q \in runs' \ runs : \E j \in T : q = NewRun(table, w, j) /\ q.job = j
    BY <1>2 DEF NewRun
  <1>11. /\ \A b \in runners' : \/ b \in runners
                                \/ \E r \in runs' \ runs : b = NewRunner(r) /\ Same(b, r) /\ b.pc = "reads"
         /\ runners \subseteq runners'
    BY <1>5 DEF NewRunner, Same
  <1> HIDE DEF table
  <1>12. RunnersFit'
    <2>1. \A b \in runners' : \E r \in runs' : Same(b, r)
      BY <1>10, <1>11 DEF BackInv, RunnersFit
    <2>2. ASSUME NEW b \in runners', NEW c \in runners', b.job = c.job, b.gen = c.gen
          PROVE  b = c
      <3>1. CASE b \in runners /\ c \in runners BY <2>2, <3>1 DEF BackInv, RunnersFit
      <3>2. \A a \in runners, r \in runs' \ runs : ~(a.job = r.job /\ a.gen = r.gen)
        <4> SUFFICES ASSUME NEW a \in runners, NEW r \in runs' \ runs, a.job = r.job, a.gen = r.gen
                     PROVE  FALSE
          OBVIOUS
        <4>1. PICK s \in runs : Same(a, s) BY DEF BackInv, RunnersFit
        <4>2. s = r BY <1>10, <4>1 DEF IInv, RunsFit, Same
        <4> QED BY <4>2
      <3>3. CASE b \notin runners /\ c \notin runners
        <4>1. PICK r \in runs' \ runs : b = NewRunner(r) /\ Same(b, r) BY <1>11, <3>3
        <4>2. PICK s \in runs' \ runs : c = NewRunner(s) /\ Same(c, s) BY <1>11, <3>3
        <4>3. r = s BY <2>2, <4>1, <4>2 DEF IInv, RunsFit, Same
        <4> QED BY <4>1, <4>2, <4>3
      <3> QED BY <1>11, <2>2, <3>1, <3>2, <3>3 DEF Same
    <2> QED BY <2>1, <2>2 DEF RunnersFit
  <1>13. ASSUME NEW j \in Jobs PROVE OneRun(j)' /\ Unborn(j)' /\ OneEngine(j)'
    <2>1. OneRun(j) /\ Unborn(j) /\ OneEngine(j) BY DEF BackInv
    <2>2. j \notin T => \A q \in runs' : q.job = j => q \in runs BY <1>10
    <2>3. OneEngine(j)' BY <1>5, <1>11, <2>1 DEF OneEngine
    <2>4. CASE j \notin T
      <3>1. rows'[j].status \in {"pending", "absent"} => rows'[j] = rows[j] BY <1>9
      <3>2. past'[j].requeued = past[j].requeued BY <1>5
      <3>3. OneRun(j)' BY <2>1, <2>2, <2>4, <3>1, <3>2 DEF OneRun
      <3>4. Unborn(j)' BY <1>5, <2>1, <2>2, <2>4, <3>1 DEF Unborn
      <3> QED BY <2>3, <3>3, <3>4
    <2>5. CASE j \in T
      <3>1. rows'[j].status = "running" /\ rows[j].status = "pending" BY <1>4, <1>6, <1>8, <2>5
      <3>2. ~past[j].requeued => \A q \in runs' : q.job = j => q = NewRun(table, w, j)
        BY <1>10, <2>1, <3>1 DEF OneRun
      <3>3. OneRun(j)'
        <4>1. past'[j].requeued = past[j].requeued BY <1>5
        <4> QED BY <3>1, <3>2, <4>1 DEF OneRun
      <3>4. Unborn(j)' BY <3>1 DEF Unborn
      <3> QED BY <2>3, <3>3, <3>4
    <2> QED BY <2>3, <2>4, <2>5
  <1>14. \A b \in runners' : Begun(b)' BY <1>5, <1>11 DEF BackInv, Begun
  <1>15. Honest' BY <1>5, <1>11 DEF BackInv, Honest, Known
  <1> QED BY <1>12, <1>13, <1>14, <1>15 DEF BackInv

-----------------------------------------------------------------------------
(* The steps of a runner.                                                  *)

\* A runner goes on, or is over: it is the handler of the same run.
LEMMA RunnerSide ==
    ASSUME BackInv, NEW a \in runners, RunnerStep(a) \/ EngineStep(a) \/ Raise(a)
    PROVE  RunnersFit' /\ \A j \in Jobs : OneRun(j)' /\ Unborn(j)'
  <1>0. IInv /\ RunnersFit /\ runners \subseteq Runner /\ a \in Runner /\ back \in [Jobs -> BackRow]
    BY DEF BackInv, BackTypes
  <1>1. /\ runs' = runs /\ \E b : Same(a, b) /\ Steps(a, b)
        \/ \E phase : Leaves(a, phase)
    <2>1. /\ \A s : Same(a, [a EXCEPT !.pc = s])
          /\ Same(a, [a EXCEPT !.pc = "stopped", !.hit = FALSE])
          /\ \A v, r : Same(a, Concludes(a, v, r))
      BY <1>0 DEF Same, Concludes, Runner
    <2>2. CASE Reads(a) \/ Starts(a) \/ Saves(a) \/ Ends(a) \/ CallRaises(a)
      BY <2>1, <2>2 DEF Reads, Starts, Saves, Ends, CallRaises
    <2>3. CASE Opens(a) \/ Interrupted(a) \/ Stopped(a) \/ Returns(a)
      BY <2>1, <2>3 DEF Opens, Interrupted, Stopped, Returns
    <2> QED BY <2>2, <2>3 DEF RunnerStep, EngineStep, Raise
  <1>2. /\ RunnersFit'
        /\ \A q \in runs' : \E r \in runs : Same(q, r)
    <2>1. \A r \in runs : Same(r, r) BY DEF Same
    <2>2. ASSUME runs' = runs, NEW b, Same(a, b), Steps(a, b) PROVE RunnersFit'
      <3>1. \A c \in runners' : c = b \/ (c \in runners /\ c # a) BY <2>2 DEF Steps
      <3>2. \A c \in runners' : \E d \in runners : Same(d, c) BY <2>2, <3>1 DEF Same
      <3>3. \A c, e \in runners' : \A d \in runners : Same(d, c) /\ Same(d, e) => c = e
        <4>1. \A c, d \in runners : Same(d, c) => d = c BY <1>0 DEF RunnersFit, Same
        <4>2. \A d \in runners : Same(d, b) => d = a BY <1>0, <2>2 DEF RunnersFit, Same
        <4> QED BY <3>1, <4>1, <4>2
      <3> QED BY <1>0, <2>2, <3>2, <3>3, RunsStill, FitKept
    <2>3. ASSUME NEW phase, Leaves(a, phase)
          PROVE  RunnersFit' /\ \A q \in runs' : \E r \in runs : Same(q, r)
      <3>1. RunOf(a) \in runs /\ Same(a, RunOf(a)) BY <1>0, RunOfRunner
      <3> DEFINE q == [RunOf(a) EXCEPT !.phase = phase]
      <3>2. Same(q, RunOf(a)) BY <1>0, <3>1 DEF IInv, RunsFit, Run, Same
      <3>3. runners' = runners \ {a} /\ runs' = (runs \ {RunOf(a)}) \cup {q} BY <2>3 DEF Leaves
      <3> HIDE DEF q
      <3>4. \A p \in runs' : \E r \in runs : Same(p, r) BY <2>1, <3>1, <3>2, <3>3
      <3>5. CalmRuns BY <3>2, <3>3, <3>4 DEF CalmRuns, Same
      <3>6. CalmRunners BY <3>3, RunnersStill
      <3> QED BY <1>0, <3>4, <3>5, <3>6, FitKept DEF CalmRunners
    <2> QED BY <1>1, <2>1, <2>2, <2>3
  <1>3. rows' = rows BY DEF RunnerStep, EngineStep, Raise
  <1>4. a.job \in Jobs /\ rows[a.job].status # "absent"
    <2>1. PICK r \in runs : Same(a, r) BY <1>0 DEF RunnersFit
    <2> QED BY <1>0, <2>1 DEF Runner, Same, BackInv, Unborn
  <1>5. \A j \in Jobs : rows[j].status = "absent" => back'[j].state = back[j].state
    <2>1. back' = back \/ \E s : Sets(a.job, s)
      BY DEF RunnerStep, EngineStep, Raise, Reads, Starts, Opens, Returns, Interrupted, Stopped,
             Ends, Saves, CallRaises
    <2> QED BY <1>0, <1>4, <2>1 DEF Sets
  <1>6. \A j \in Jobs : past'[j].requeued = past[j].requeued
    <2>1. past \in [Jobs -> Past] BY DEF BackInv, BackTypes
    <2>2. \/ past' = past
          \/ past' = [past EXCEPT ![a.job].starts = @ + 1]
          \/ past' = [past EXCEPT ![a.job].returned = TRUE]
          \/ past' = [past EXCEPT ![a.job].torn = @ \/ a.hit]
      BY DEF RunnerStep, EngineStep, Raise, Reads, Starts, Opens, Returns, Interrupted, Stopped,
             Ends, Saves, CallRaises
    <2> QED BY <2>1, <2>2 DEF Past
  <1>7. ASSUME NEW j \in Jobs PROVE OneRun(j)' /\ Unborn(j)'
    <2>1. OneRun(j) /\ Unborn(j) BY DEF BackInv
    <2> QED BY <1>2, <1>3, <1>5, <1>6, <2>1, OneRunKept
  <1> QED BY <1>2, <1>7

\* Steps that neither start an engine nor bring a runner nearer to it.
LEMMA QuietEngine ==
    ASSUME BackInv, BackTypes',
           \A j \in Jobs :
              /\ past'[j].starts = past[j].starts /\ past'[j].requeued = past[j].requeued
              /\ back'[j].state \in {"absent", "queued"} => back'[j].state = back[j].state,
           \A b \in runners' : b.pc \in {"starts", "opens"} => b \in runners
    PROVE  (\A j \in Jobs : OneEngine(j)') /\ (\A b \in runners' : Begun(b)')
  <1>1. ASSUME NEW j \in Jobs PROVE OneEngine(j)'
    <2>1. OneEngine(j) BY DEF BackInv
    <2> QED BY <2>1, EngineKept
  <1>2. \A b \in runners' : b.job \in Jobs BY DEF BackTypes, Runner
  <1>3. ASSUME NEW b \in runners' PROVE Begun(b)'
    BY <1>2 DEF BackInv, Begun
  <1> QED BY <1>1, <1>3

\* An engine is started by the runner that found its job queued, once.
LEMMA RunnerEngine ==
    ASSUME BackInv, BackTypes', NEW a \in runners, RunnerStep(a) \/ EngineStep(a) \/ Raise(a)
    PROVE  (\A j \in Jobs : OneEngine(j)') /\ (\A b \in runners' : Begun(b)')
  <1>0. /\ back \in [Jobs -> BackRow] /\ past \in [Jobs -> Past] /\ a \in Runner /\ a.job \in Jobs
        /\ a.verdict \in Over /\ RunnersFit /\ \A b \in runners : b.job \in Jobs
    BY DEF BackInv, BackTypes, Runner
  <1>1. \A j \in Jobs : OneEngine(j) /\ OneRun(j) BY DEF BackInv
  <1>2. CASE Reads(a) /\ ~a.hit /\ Queued(a.job)
    <2> DEFINE b == [a EXCEPT !.pc = "starts"]
    <2>1. runners' = (runners \ {a}) \cup {b} /\ back' = back /\ past' = past
      BY <1>2 DEF Reads, Steps
    <2>2. b.job = a.job /\ b.pc = "starts" BY <1>0 DEF Runner
    <2> HIDE DEF b
    <2>3. back[a.job].state = "queued" BY <1>2 DEF Queued
    <2>4. ASSUME NEW j \in Jobs PROVE OneEngine(j)'
      BY <1>1, <2>1, <2>2, <2>3 DEF OneEngine
    <2>5. \A c \in runners' : Begun(c)' BY <2>1, <2>2 DEF BackInv, Begun
    <2> QED BY <2>4, <2>5
  <1>3. CASE Starts(a) /\ ~a.hit
    <2> DEFINE b == [a EXCEPT !.pc = "opens"]
    <2>1. /\ runners' = (runners \ {a}) \cup {b} /\ past' = past
          /\ back' = [back EXCEPT ![a.job].state = "running"]
      BY <1>3 DEF Starts, Steps, Sets
    <2>2. b.job = a.job /\ b.pc = "opens" BY <1>0 DEF Runner
    <2>3. a.pc = "starts" BY <1>3 DEF Starts
    <2> HIDE DEF b
    <2>4. /\ \A j \in Jobs : j # a.job => back'[j] = back[j]
          /\ back'[a.job].state = "running"
      BY <1>0, <2>1 DEF BackRow
    <2>5. ASSUME NEW j \in Jobs PROVE OneEngine(j)'
      BY <1>1, <2>1, <2>2, <2>3, <2>4 DEF OneEngine
    <2>6. \A c \in runners' : Begun(c)' BY <1>0, <2>1, <2>2, <2>4 DEF BackInv, Begun
    <2> QED BY <2>5, <2>6
  <1>4. CASE Opens(a) /\ ~a.hit /\ a.worker = holder /\ a.job \in admitted
    <2> DEFINE b == [a EXCEPT !.pc = "works"]
    <2>1. /\ runners' = (runners \ {a}) \cup {b} /\ back' = back
          /\ past' = [past EXCEPT ![a.job].starts = @ + 1]
      BY <1>4 DEF Opens, Steps
    <2>2. b.job = a.job /\ b.pc = "works" BY <1>0 DEF Runner
    <2>3. a.pc = "opens" BY <1>4 DEF Opens
    <2> HIDE DEF b
    <2>4. /\ \A j \in Jobs : j # a.job => past'[j] = past[j]
          /\ past'[a.job].starts = past[a.job].starts + 1
          /\ past'[a.job].requeued = past[a.job].requeued
      BY <1>0, <2>1 DEF Past
    <2>5. back[a.job].state \notin {"absent", "queued"} BY <2>3 DEF BackInv, Begun
    <2>6. ASSUME ~past[a.job].requeued, NEW c \in runners, c.job = a.job PROVE c = a
      <3>1. PICK r \in runs : Same(c, r) BY <1>0 DEF RunnersFit
      <3>2. PICK s \in runs : Same(a, s) BY <1>0 DEF RunnersFit
      <3>3. r.job = a.job /\ s.job = a.job /\ r.gen = c.gen /\ s.gen = a.gen
        BY <2>6, <3>1, <3>2 DEF Same
      <3>4. OneRun(a.job) BY <1>0, <1>1
      <3>5. c.gen = a.gen BY <2>6, <3>3, <3>4 DEF OneRun
      <3> QED BY <1>0, <2>6, <3>5 DEF RunnersFit
    <2>7. ASSUME NEW j \in Jobs PROVE OneEngine(j)'
      <3>1. CASE j # a.job BY <1>1, <2>1, <2>2, <2>4, <3>1 DEF OneEngine
      <3>2. CASE j = a.job
        <4>1. ~past[j].requeued => past[j].starts = 0 BY <1>1, <2>3, <3>2 DEF OneEngine
        <4>2. ~past[j].requeued => past'[j].starts <= 1 BY <2>4, <3>2, <4>1
        <4>3. ~past[j].requeued =>
                  \A c \in runners' : ~(c.job = j /\ c.pc \in {"starts", "opens"})
          BY <2>1, <2>2, <2>6, <3>2
        <4> QED BY <2>1, <2>4, <2>5, <3>2, <4>2, <4>3 DEF OneEngine
      <3> QED BY <3>1, <3>2
    <2>8. \A c \in runners' : Begun(c)' BY <2>1, <2>2 DEF BackInv, Begun
    <2> QED BY <2>7, <2>8
  <1>5. CASE ~(Reads(a) /\ ~a.hit /\ Queued(a.job)) /\ ~(Starts(a) /\ ~a.hit)
             /\ ~(Opens(a) /\ ~a.hit /\ a.worker = holder /\ a.job \in admitted)
    <2>1. \A b \in runners' : b.pc \in {"starts", "opens"} => b \in runners
      <3>1. /\ [a EXCEPT !.pc = "saves"].pc = "saves"
            /\ [a EXCEPT !.pc = "stopped", !.hit = FALSE].pc = "stopped"
            /\ \A v : Concludes(a, v, TRUE).pc = "ends" /\ Concludes(a, v, FALSE).pc = "ends"
        BY <1>0 DEF Runner, Concludes
      <3>2. CASE Reads(a) \/ Starts(a) \/ Saves(a) \/ CallRaises(a)
        <4>1. runners' = runners \ {a}
          BY <1>5, <3>2 DEF Reads, Starts, Saves, CallRaises, Leaves
        <4> QED BY <4>1
      <3>3. CASE Opens(a) \/ Interrupted(a) \/ Stopped(a) \/ Returns(a) \/ Ends(a)
        <4>1. \/ Steps(a, [a EXCEPT !.pc = "saves"])
              \/ Steps(a, [a EXCEPT !.pc = "stopped", !.hit = FALSE])
              \/ Steps(a, Concludes(a, "failed", FALSE))
              \/ Steps(a, Concludes(a, "completed", FALSE))
              \/ Steps(a, Concludes(a, IF a.hit THEN a.verdict ELSE Verdict(a), TRUE))
          BY <1>5, <3>3 DEF Opens, Interrupted, Stopped, Returns, Ends
        <4>2. ASSUME NEW b, Steps(a, b), b.pc \in {"saves", "stopped", "ends"}
              PROVE  \A c \in runners' : c.pc \in {"starts", "opens"} => c \in runners
          BY <4>2 DEF Steps
        <4> QED BY <3>1, <4>1, <4>2
      <3> QED BY <3>2, <3>3 DEF RunnerStep, EngineStep, Raise
    <2>2. \A j \in Jobs : past'[j].starts = past[j].starts /\ past'[j].requeued = past[j].requeued
      <3>1. \/ past' = past
            \/ past' = [past EXCEPT ![a.job].returned = TRUE]
            \/ past' = [past EXCEPT ![a.job].torn = @ \/ a.hit]
        BY <1>5 DEF RunnerStep, EngineStep, Raise, Reads, Starts, Opens, Returns, Interrupted,
               Stopped, Ends, Saves, CallRaises
      <3> QED BY <1>0, <3>1 DEF Past
    <2>3. \A j \in Jobs : back'[j].state \in {"absent", "queued"} => back'[j].state = back[j].state
      <3>1. back' = back \/ \E s \in {"running"} \cup Over : Sets(a.job, s)
        BY <1>0 DEF RunnerStep, EngineStep, Raise, Reads, Starts, Opens, Returns, Interrupted, Stopped,
               Ends, Saves, CallRaises
      <3> QED BY <1>0, <3>1 DEF Sets, BackRow, Over
    <2> QED BY <2>1, <2>2, <2>3, QuietEngine
  <1> QED BY <1>2, <1>3, <1>4, <1>5

\* A runner calls a job complete whose engine returned, or whose handler was
\* cancelled again while it asked for the row.
LEMMA RunnerHonest ==
    ASSUME BackInv, NEW a \in runners, RunnerStep(a) \/ EngineStep(a) \/ Raise(a)
    PROVE  Honest'
  <1>0. /\ back \in [Jobs -> BackRow] /\ past \in [Jobs -> Past] /\ a \in Runner /\ a.job \in Jobs
        /\ (\A b \in runners : b.job \in Jobs) /\ (\A t \in reports : t.job \in Jobs)
    BY DEF BackInv, BackTypes, Runner, Report
  <1>1. Honest BY DEF BackInv
  <1>2. reports' = reports BY DEF RunnerStep, EngineStep, Raise
  <1>3. \/ past' = past
        \/ past' = [past EXCEPT ![a.job].starts = @ + 1]
        \/ past' = [past EXCEPT ![a.job].returned = TRUE] /\ Returns(a)
        \/ past' = [past EXCEPT ![a.job].torn = @ \/ a.hit] /\ Stopped(a)
    BY DEF RunnerStep, EngineStep, Raise, Reads, Starts, Opens, Returns, Interrupted, Stopped,
           Ends, Saves, CallRaises
  <1>4. \A j \in Jobs : past'[j].told = past[j].told /\ (Known(j) => Known(j)')
    BY <1>0, <1>3 DEF Past, Known
  <1>5. \A j \in Jobs : /\ back'[j].answer = back[j].answer
                        /\ back'[j].state = "completed" => back[j].state = "completed" \/ Known(j)
    <2>1. \/ back' = back
          \/ Sets(a.job, "running")
          \/ Sets(a.job, a.verdict) /\ a.pc = "ends"
      BY DEF RunnerStep, EngineStep, Raise, Reads, Starts, Opens, Returns, Interrupted, Stopped,
             Ends, Saves, CallRaises
    <2>2. ASSUME NEW s, Sets(a.job, s)
          PROVE  \A j \in Jobs : /\ back'[j].answer = back[j].answer
                                 /\ back'[j].state = IF j = a.job THEN s ELSE back[j].state
      BY <1>0, <2>2 DEF Sets, BackRow
    <2>3. a.pc = "ends" /\ a.verdict = "completed" => Known(a.job) BY <1>1 DEF Honest
    <2> QED BY <2>1, <2>2, <2>3
  <1>6. ASSUME NEW b \in runners', b.pc = "ends", b.verdict = "completed"
        PROVE  Known(b.job)'
    <2>1. CASE b \in runners BY <1>0, <1>1, <1>4, <1>6, <2>1 DEF Honest
    <2>2. CASE b \notin runners
      <3>1. /\ Concludes(a, "failed", FALSE).verdict = "failed"
            /\ \A s : [a EXCEPT !.pc = s].pc = s
            /\ [a EXCEPT !.pc = "stopped", !.hit = FALSE].pc = "stopped"
            /\ \A v : /\ Concludes(a, v, TRUE).job = a.job /\ Concludes(a, v, TRUE).verdict = v
                     /\ Concludes(a, v, FALSE).job = a.job
        BY <1>0 DEF Runner, Concludes
      <3>2. CASE Returns(a)
        <4>1. b = Concludes(a, "completed", FALSE) \/ b = Concludes(a, "failed", FALSE)
          BY <2>2, <3>2 DEF Returns, Steps
        <4>2. b # Concludes(a, "failed", FALSE) BY <1>6, <3>1
        <4>3. b.job = a.job
          <5>1. Concludes(a, "completed", FALSE).job = a.job BY <3>1
          <5> QED BY <4>1, <4>2, <5>1
        <4>4. past' = [past EXCEPT ![a.job].returned = TRUE]
          BY <2>2, <3>2, <4>2 DEF Returns, Steps
        <4> QED BY <1>0, <4>3, <4>4 DEF Past, Known
      <3>3. CASE Stopped(a)
        <4> DEFINE v == IF a.hit THEN a.verdict ELSE Verdict(a)
        <4>1. b = Concludes(a, v, TRUE) BY <2>2, <3>3 DEF Stopped, Steps
        <4>2. b.job = a.job /\ a.hit
          <5>1. b.job = a.job /\ b.verdict = v BY <3>1, <4>1
          <5>2. Verdict(a) # "completed" BY DEF Verdict
          <5> QED BY <1>6, <5>1, <5>2
        <4>3. past' = [past EXCEPT ![a.job].torn = TRUE] BY <3>3, <4>2 DEF Stopped
        <4> QED BY <1>0, <4>2, <4>3 DEF Past, Known
      <3>4. CASE Reads(a) \/ Starts(a) \/ Opens(a) \/ Interrupted(a) \/ Ends(a) \/ Saves(a) \/ CallRaises(a)
        <4>1. \/ b = [a EXCEPT !.pc = "starts"] \/ b = [a EXCEPT !.pc = "opens"]
              \/ b = [a EXCEPT !.pc = "works"] \/ b = [a EXCEPT !.pc = "saves"]
              \/ b = [a EXCEPT !.pc = "stopped", !.hit = FALSE]
              \/ b = Concludes(a, "failed", FALSE)
          BY <2>2, <3>4 DEF Reads, Starts, Opens, Interrupted, Ends, Saves, CallRaises, Steps, Leaves
        <4> QED BY <1>6, <3>1, <4>1
      <3> QED BY <3>2, <3>3, <3>4 DEF RunnerStep, EngineStep, Raise
    <2> QED BY <2>1, <2>2
  <1> QED BY <1>0, <1>1, <1>2, <1>4, <1>5, <1>6 DEF Honest

\* A step of a runner keeps the invariant.
LEMMA RunnerKeeps ==
    ASSUME BackInv, IInv', BackTypes', NEW a \in runners, RunnerStep(a) \/ EngineStep(a) \/ Raise(a)
    PROVE  BackInv'
  <1>1. RunnersFit' /\ \A j \in Jobs : OneRun(j)' /\ Unborn(j)' BY RunnerSide
  <1>2. (\A j \in Jobs : OneEngine(j)') /\ (\A b \in runners' : Begun(b)') BY RunnerEngine
  <1>3. Honest' BY RunnerHonest
  <1> QED BY <1>1, <1>2, <1>3 DEF BackInv

-----------------------------------------------------------------------------
(* The theorems.                                                           *)

LEMMA BackInitInv == BackInit => BackInv
  <1> SUFFICES ASSUME BackInit PROVE BackInv OBVIOUS
  <1>1. IInv BY InitInv DEF BackInit
  <1>2. BackTypes
    <2>1. NotSubmitted \in BackRow BY DEF NotSubmitted, BackRow
    <2>2. [starts |-> 0, returned |-> FALSE, cancelled |-> FALSE,
           requeued |-> FALSE, torn |-> FALSE, told |-> "none"] \in Past
      BY DEF Past
    <2> QED BY <2>1, <2>2 DEF BackInit, BackTypes
  <1>3. runs = {} /\ runners = {} /\ reports = {} BY DEF BackInit, Init
  <1>4. ASSUME NEW j \in Jobs
        PROVE  /\ back[j].state = "absent" /\ back[j].answer = "none"
               /\ past[j].starts = 0 /\ past[j].told = "none"
    BY DEF BackInit, NotSubmitted
  <1>5. RunnersFit /\ Honest BY <1>3, <1>4 DEF RunnersFit, Honest
  <1>6. ASSUME NEW j \in Jobs PROVE OneRun(j) /\ Unborn(j) /\ OneEngine(j)
    BY <1>3, <1>4 DEF OneRun, Unborn, OneEngine
  <1> QED BY <1>1, <1>2, <1>3, <1>5, <1>6 DEF BackInv

LEMMA BackStep == BackInv /\ [BackNext]_allVars => BackInv'
  <1> SUFFICES ASSUME BackInv, [BackNext]_allVars PROVE BackInv' OBVIOUS
  <1>1. IInv' BY QueueKept DEF BackInv
  <1>2. BackTypes' BY <1>1, TypesKept DEF BackInv
  <1> DEFINE Calm == CalmTable /\ CalmRunners /\ CalmRuns /\ CalmQueue
  <1>3. Calm => BackInv' BY <1>1, <1>2, CalmKeeps
  <1>4. CASE UNCHANGED allVars
    <2>1. /\ rows' = rows /\ runs' = runs /\ back' = back /\ runners' = runners
          /\ reports' = reports /\ past' = past
      BY <1>4 DEF allVars, vars, backVars
    <2>2. Calm BY <2>1, TableStill, RunnersStill, RunsStill, QueueStill
    <2> QED BY <1>3, <2>2
  <1>5. ASSUME NEW j \in Jobs, Submit(j) \/ Revoke(j) \/ RunAgain(j) PROVE BackInv'
    <2>1. CASE Submit(j) BY <1>1, <1>2, <2>1, SubmitKeeps
    <2>2. CASE Revoke(j)
      <3>1. Calm BY <2>2, AroundCalm
      <3> QED BY <1>3, <3>1
    <2>3. CASE RunAgain(j) BY <1>1, <1>2, <2>3, RunAgainKeeps
    <2> QED BY <1>5, <2>1, <2>2, <2>3
  <1>6. ASSUME NEW w \in Workers,
               StartRuntime(w) \/ StopRuntime(w) \/ Release(w) \/ CrashRuntime(w)
                 \/ ClaimJobs(w) \/ ClaimFails(w) \/ Reconcile(w) \/ \E j \in Jobs : CancelRow(w, j)
        PROVE  BackInv'
    <2>1. CASE ClaimJobs(w) /\ Claim(w) BY <1>1, <1>2, <2>1, ClaimKeeps
    <2>2. CASE ClaimJobs(w) /\ ~Claim(w)
      <3>1. Calm BY <2>2, ClaimBeginsCalm
      <3> QED BY <1>3, <3>1
    <2>3. CASE ~ClaimJobs(w)
      <3>1. Calm BY <1>6, <2>3, RuntimeCalm
      <3> QED BY <1>3, <3>1
    <2> QED BY <2>1, <2>2, <2>3
  <1>7. CASE LoseAccount \/ Around \/ \E c \in cancels : CancelJob(c)
    <2>1. Calm BY <1>7, AroundCalm
    <2> QED BY <1>3, <2>1
  <1>8. ASSUME NEW a \in runners, RunnerStep(a) \/ EngineStep(a) \/ Raise(a) PROVE BackInv'
    BY <1>1, <1>2, <1>8, RunnerKeeps
  <1>9. ASSUME NEW t \in reports, Answers(t) \/ Delivers(t) \/ DeliveryFails(t) PROVE BackInv'
    <2>1. Calm BY <1>9, ResultsCalm
    <2> QED BY <1>3, <2>1
  <1>10. ASSUME NEW r \in runs, Settles(r) \/ Beats(r) \/ LosesLease(r) PROVE BackInv'
    <2>1. CASE Settles(r) /\ Defer(r) BY <1>1, <1>2, <2>1, DeferKeeps
    <2>2. CASE ~(Settles(r) /\ Defer(r))
      <3>1. Calm BY <1>10, <2>2, QueueCalm
      <3> QED BY <1>3, <3>1
    <2> QED BY <2>1, <2>2
  <1> QED BY <1>4, <1>5, <1>6, <1>7, <1>8, <1>9, <1>10 DEF BackNext

\* Every state of a run satisfies the invariant.
THEOREM BackInvariance == BackSpec => []BackInv
  <1>1. BackInit => BackInv BY BackInitInv
  <1>2. BackInv /\ [BackNext]_allVars => BackInv' BY BackStep
  <1> QED BY <1>1, <1>2, PTL DEF BackSpec

\* background_agents.py: the engine of a job is started once, whatever stops,
\* crashes, lost leases and late answers do, unless an administrator requeued
\* the durable job.
THEOREM EngineRunsOnce == BackSpec => []OneEngineRun
  <1>1. BackInv => OneEngineRun BY DEF BackInv, OneEngine, OneEngineRun
  <1> QED BY <1>1, BackInvariance, PTL

\* background_delivery.py: a conversation is told that its job is complete only
\* if the engine returned, or the handler was cancelled a second time while it
\* asked what had cancelled it.
THEOREM SuccessIsTrue == BackSpec => []NoFalseSuccess
  <1>1. BackInv => NoFalseSuccess BY DEF BackInv, Honest, Known, NoFalseSuccess
  <1> QED BY <1>1, BackInvariance, PTL

\* storage/jobs.py under the background jobs: with a runner in every handler and
\* an account that changes hands, the queue still accounts for every attempt,
\* strands no job and has one holder for each.
THEOREM QueueStaysSound == BackSpec => [](NoStrandedJob /\ AttemptAccounting /\ OneHolder)
  <1>1. BackInv => NoStrandedJob /\ AttemptAccounting /\ OneHolder
    <2> SUFFICES ASSUME IInv PROVE NoStrandedJob /\ AttemptAccounting /\ OneHolder
      BY DEF BackInv
    <2>1. NoStrandedJob BY DEF IInv, TableOK, RowOK, NoStrandedJob
    <2>2. AttemptAccounting BY DEF IInv, TableOK, RowOK, Busy, AttemptAccounting
    <2>3. OneHolder BY DEF IInv, RunsFit, OneHolder, Holds
    <2> QED BY <2>1, <2>2, <2>3
  <1> QED BY <1>1, BackInvariance, PTL

=============================================================================
