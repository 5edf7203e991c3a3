------------------------- MODULE DurableJobsProofs -------------------------
(***************************************************************************)
(* Safety of the job queue for every number of jobs and workers, every     *)
(* budget, scope, lease length and amount of interference.                 *)
(*                                                                         *)
(* The invariants are not inductive one by one: that a deferral never      *)
(* takes attempts below zero needs the accounting, the accounting needs to *)
(* know what a lease implies, and that success is for ever needs the clock *)
(* to have nothing left to count down in a row that has succeeded.  IInv   *)
(* puts what is needed about one row in RowOK, about the runs in RunsFit,  *)
(* and about the claims under way in ClaimsFit: the rows they have locked  *)
(* stay as they were selected, which is what a commit relies on.           *)
(***************************************************************************)
EXTENDS DurableJobs, FiniteSetTheorems, TLAPS

Busy(row) == IF row.status = "running" THEN 1 ELSE 0

\* What holds of every row of the table by itself, given the job's charges.
RowOK(j, row, c) ==
    /\ row \in Row
    /\ c \in Nat
    /\ row.attempts = c + Busy(row)
    /\ row.status = "absent" => row.attempts = 0
    /\ row.status = "pending" => row.attempts < MaxAttempts[j]
    /\ row.status = "running" => row.attempts <= MaxAttempts[j] /\ row.wait = 0
    /\ row.status = "succeeded" => row.result = row.gen /\ row.wait = 0
    /\ row.status # "running" => row.left = 0

\* The table and the history agree, row by row.
TableOK(table, charges) ==
    /\ table \in [Jobs -> Row]
    /\ charges \in [Jobs -> Nat]
    /\ \A j \in Jobs : RowOK(j, table[j], charges[j])

\* No run is ahead of the table, and two runs of a job differ in generation.
RunsFit(R, table) ==
    /\ R \subseteq Run
    /\ \A r \in R : r.gen <= table[r.job].gen
    /\ \A r, s \in R : r.job = s.job /\ r.gen = s.gen => r = s

\* A claim may take the row, which it has recovered first if that was due.
Ready(j, row) ==
    /\ Recovered(j, row).status = "pending"
    /\ Recovered(j, row).wait = 0

\* A claim counts and takes rows it has locked, no two claims lock the same one,
\* and a locked row stays ready.
ClaimsFit(cl, table) ==
    /\ cl \in [Workers -> ClaimUnderWay]
    /\ \A w \in Workers : cl[w].todo \subseteq cl[w].locks /\ cl[w].taken \subseteq cl[w].locks
    /\ \A w, v \in Workers : w # v => cl[w].locks \cap cl[v].locks = {}
    /\ \A w \in Workers : \A j \in cl[w].locks : Ready(j, table[j])

\* The inductive invariant.
IInv ==
    /\ TableOK(rows, charged)
    /\ RunsFit(runs, rows)
    /\ ClaimsFit(claims, rows)
    /\ registry \in [Workers -> [Jobs -> Nat]]
    /\ faults \in 0..MaxFaults

-----------------------------------------------------------------------------
(* One row.                                                                *)

\* A lease given back leaves a well-formed row with no lease.
LEMMA ReleasedRow ==
    ASSUME NEW row \in Row, NEW s \in Statuses
    PROVE  /\ Released(row, s) \in Row
           /\ Released(row, s).status = s
           /\ Released(row, s).left = 0
           /\ Released(row, s).attempts = row.attempts
           /\ Released(row, s).gen = row.gen
           /\ Released(row, s).wait = row.wait
           /\ Released(row, s).result = row.result
  BY DEF Released, Row

\* Recovery keeps a row well formed, whether or not its attempt is refunded; it
\* leaves a lease that is not expired alone and never makes a row running.
LEMMA RecoveredRow ==
    ASSUME NEW j \in Jobs, NEW row, NEW c, RowOK(j, row, c)
    PROVE  /\ RowOK(j, Recovered(j, row), IF Expired(row) /\ j \notin Resume THEN c + 1 ELSE c)
           /\ Recovered(j, row).gen = row.gen
           /\ row.status # "running" => Recovered(j, row) = row
           /\ Recovered(j, row).status = "running" => row.status = "running"
  <1> DEFINE s == IF j \in Resume \/ row.attempts < MaxAttempts[j] THEN "pending" ELSE "failed"
  <1> USE JobsAssumption
  <1>1. row \in Row BY DEF RowOK
  <1>2. CASE ~Expired(row)
    <2>1. Recovered(j, row) = row BY <1>2 DEF Recovered
    <2> QED BY <2>1, <1>2
  <1>3. CASE Expired(row) /\ j \in Resume
    <2>1. Released(row, "pending") \in Row /\ Released(row, "pending").status = "pending"
            /\ Released(row, "pending").left = 0 /\ Released(row, "pending").attempts = row.attempts
            /\ Released(row, "pending").gen = row.gen
      BY <1>1, ReleasedRow DEF Statuses
    <2>2. row.status = "running" /\ row.attempts = c + 1 /\ row.attempts <= MaxAttempts[j] /\ c \in Nat
      BY <1>3 DEF Expired, RowOK, Busy
    <2> DEFINE q == Released(row, "pending")
    <2> HIDE DEF q
    <2>3. q \in Row /\ q.attempts = c + 1 /\ q.status = "pending" /\ q.left = 0 /\ q.gen = row.gen
      BY <2>1, <2>2 DEF q
    <2> DEFINE a == IF q.attempts > 0 THEN q.attempts - 1 ELSE q.attempts
    <2>5. a = c BY <2>2, <2>3
    <2> HIDE DEF a
    <2>6. Recovered(j, row) = [q EXCEPT !.attempts = a, !.wait = 0]
      BY <1>3 DEF Recovered, q, a
    <2>4. /\ Recovered(j, row) \in Row
          /\ Recovered(j, row).status = "pending" /\ Recovered(j, row).attempts = c
          /\ Recovered(j, row).left = 0 /\ Recovered(j, row).gen = row.gen
      BY <2>2, <2>3, <2>5, <2>6 DEF Row
    <2> QED BY <1>3, <2>2, <2>4 DEF RowOK, Busy
  <1>4. CASE Expired(row) /\ j \notin Resume
    <2>1. s \in Statuses BY DEF Statuses
    <2>2. Released(row, s) \in Row /\ Released(row, s).status = s
            /\ Released(row, s).left = 0 /\ Released(row, s).attempts = row.attempts
            /\ Released(row, s).gen = row.gen
      BY <1>1, <2>1, ReleasedRow
    <2>3. row.status = "running" /\ row.attempts = c + 1 /\ c \in Nat
      BY <1>4 DEF Expired, RowOK, Busy
    <2>4. Recovered(j, row) = [Released(row, s) EXCEPT !.wait = 0]
      BY <1>4 DEF Recovered
    <2>5. /\ Recovered(j, row) \in Row
          /\ Recovered(j, row).status = s /\ Recovered(j, row).attempts = row.attempts
          /\ Recovered(j, row).left = 0 /\ Recovered(j, row).gen = row.gen
      BY <2>2, <2>4 DEF Row
    <2> QED BY <1>4, <2>3, <2>5 DEF RowOK, Busy
  <1> QED BY <1>2, <1>3, <1>4

\* Claiming a due row starts its next lease generation within its budget.
LEMMA ClaimKeepsRow ==
    ASSUME NEW j \in Jobs, NEW row, NEW c, NEW w \in Workers, RowOK(j, row, c),
           row.status = "pending", row.wait = 0
    PROVE  /\ RowOK(j, ClaimedRow(row, w), c)
           /\ ClaimedRow(row, w).gen = row.gen + 1
           /\ ClaimedRow(row, w).attempts \in Nat
           /\ ClaimedRow(row, w).status = "running"
  <1> USE JobsAssumption
  <1>1. row \in Row /\ row.attempts = c /\ row.attempts < MaxAttempts[j] /\ c \in Nat
    BY DEF RowOK, Busy
  <1> DEFINE a == row.attempts + 1
             g == row.gen + 1
  <1>3. a \in Nat /\ g \in Nat BY <1>1 DEF Row
  <1> HIDE DEF a, g
  <1>4. ClaimedRow(row, w) = [row EXCEPT !.status = "running", !.attempts = a, !.gen = g,
                                         !.owner = w, !.left = Lease]
    BY DEF ClaimedRow, a, g
  <1>5. /\ ClaimedRow(row, w) \in Row
        /\ ClaimedRow(row, w).status = "running" /\ ClaimedRow(row, w).attempts = a
        /\ ClaimedRow(row, w).gen = g /\ ClaimedRow(row, w).wait = row.wait
    BY <1>1, <1>3, <1>4 DEF Row, Statuses
  <1>2. /\ ClaimedRow(row, w) \in Row
        /\ ClaimedRow(row, w).status = "running" /\ ClaimedRow(row, w).attempts = row.attempts + 1
        /\ ClaimedRow(row, w).gen = row.gen + 1 /\ ClaimedRow(row, w).wait = row.wait
    BY <1>5 DEF a, g
  <1> QED BY <1>1, <1>2 DEF RowOK, Busy

\* A running row that is given back with status s is charged for its attempt.
LEMMA GiveBackCharged ==
    ASSUME NEW j \in Jobs, NEW row, NEW c, NEW s \in Statuses \ {"absent", "running"}, NEW d \in Nat,
           RowOK(j, row, c), row.status = "running",
           s = "pending" => row.attempts < MaxAttempts[j], s # "succeeded"
    PROVE  RowOK(j, [Released(row, s) EXCEPT !.wait = d], c + 1)
  <1>1. row \in Row /\ row.attempts = c + 1 /\ c \in Nat BY DEF RowOK, Busy
  <1> DEFINE new == [Released(row, s) EXCEPT !.wait = d]
  <1>2. /\ new \in Row
        /\ new.status = s /\ new.attempts = row.attempts /\ new.left = 0
    BY <1>1 DEF Released, Row
  <1> QED BY <1>1, <1>2 DEF RowOK, Busy

\* A deferral gives the attempt back.
LEMMA DeferKeepsRow ==
    ASSUME NEW j \in Jobs, NEW row, NEW c, NEW d \in Nat, RowOK(j, row, c), row.status = "running"
    PROVE  /\ RowOK(j, DeferredRow(row, d), c)
           /\ DeferredRow(row, d).gen = row.gen
           /\ DeferredRow(row, d).status = "pending"
  <1> USE JobsAssumption
  <1>1. row \in Row /\ row.attempts = c + 1 /\ row.attempts <= MaxAttempts[j] /\ c \in Nat
    BY DEF RowOK, Busy
  <1> DEFINE q == Released(row, "pending")
             a == q.attempts - 1
  <1>2. q \in Row /\ q.attempts = c + 1 /\ q.status = "pending" /\ q.left = 0 /\ q.gen = row.gen
    BY <1>1, ReleasedRow DEF Statuses
  <1> HIDE DEF q
  <1>3. a = c BY <1>1, <1>2
  <1> HIDE DEF a
  <1>4. DeferredRow(row, d) = [q EXCEPT !.attempts = a, !.wait = d] BY DEF DeferredRow, q, a
  <1>5. /\ DeferredRow(row, d) \in Row
        /\ DeferredRow(row, d).status = "pending" /\ DeferredRow(row, d).attempts = c
        /\ DeferredRow(row, d).left = 0 /\ DeferredRow(row, d).gen = row.gen
    BY <1>1, <1>2, <1>3, <1>4 DEF Row
  <1> QED BY <1>1, <1>5 DEF RowOK, Busy

\* A cancelled row is charged for the execution it interrupts, if any.
LEMMA CancelKeepsRow ==
    ASSUME NEW j \in Jobs, NEW row, NEW c, RowOK(j, row, c), Cancellable(row)
    PROVE  /\ RowOK(j, Released(row, "cancelled"), IF row.status = "running" THEN c + 1 ELSE c)
           /\ Released(row, "cancelled").gen = row.gen
           /\ Released(row, "cancelled").status = "cancelled"
  <1>1. row \in Row /\ c \in Nat BY DEF RowOK
  <1> DEFINE q == Released(row, "cancelled")
  <1>2. /\ q \in Row /\ q.status = "cancelled" /\ q.left = 0
        /\ q.attempts = row.attempts /\ q.gen = row.gen
    BY <1>1, ReleasedRow DEF Statuses
  <1> HIDE DEF q
  <1>3. RowOK(j, q, IF row.status = "running" THEN c + 1 ELSE c)
    BY <1>1, <1>2 DEF RowOK, Busy, Cancellable
  <1> QED BY <1>2, <1>3 DEF q

-----------------------------------------------------------------------------
(* The whole table.                                                        *)

\* One row is replaced by a well-formed one of the same generation.
LEMMA OneRowStep ==
    ASSUME TableOK(rows, charged),
           NEW j \in Jobs, NEW row, NEW c, RowOK(j, row, c),
           row.gen = rows[j].gen,
           rows' = [rows EXCEPT ![j] = row],
           charged' = [charged EXCEPT ![j] = c] \/ (charged' = charged /\ c = charged[j])
    PROVE  /\ TableOK(rows', charged')
           /\ \A k \in Jobs : rows'[k].gen = rows[k].gen
  <1>1. row \in Row /\ c \in Nat BY DEF RowOK
  <1>2. \A k \in Jobs : rows'[k] = IF k = j THEN row ELSE rows[k] BY DEF TableOK
  <1>3. \A k \in Jobs : charged'[k] = IF k = j THEN c ELSE charged[k] BY DEF TableOK
  <1>4. rows' \in [Jobs -> Row] /\ charged' \in [Jobs -> Nat] BY <1>1 DEF TableOK
  <1>5. \A k \in Jobs : RowOK(k, rows'[k], charged'[k]) BY <1>2, <1>3 DEF TableOK
  <1>6. \A k \in Jobs : rows'[k].gen = rows[k].gen BY <1>2
  <1> QED BY <1>4, <1>5, <1>6 DEF TableOK

\* recover_expired keeps the table well formed, and no row becomes running.
LEMMA RecoveredTable ==
    ASSUME TableOK(rows, charged)
    PROVE  /\ TableOK(RecoveredRows, RecoveredCharges)
           /\ \A k \in Jobs : RecoveredRows[k].gen = rows[k].gen
  <1>1. \A k \in Jobs : RecoveredRows[k] = Recovered(k, rows[k]) BY DEF RecoveredRows
  <1>2. \A k \in Jobs : RecoveredCharges[k] =
                            IF Expired(rows[k]) /\ k \notin Resume THEN charged[k] + 1 ELSE charged[k]
    BY DEF RecoveredCharges
  <1>3. ASSUME NEW k \in Jobs
        PROVE  /\ RowOK(k, RecoveredRows[k], RecoveredCharges[k])
               /\ RecoveredRows[k].gen = rows[k].gen
               /\ RecoveredRows[k].status = "running" => rows[k].status = "running"
    <2>1. RowOK(k, rows[k], charged[k]) BY DEF TableOK
    <2> QED BY <1>1, <1>2, <2>1, RecoveredRow
  <1>4. RecoveredRows \in [Jobs -> Row] BY <1>3 DEF RecoveredRows, RowOK
  <1>5. RecoveredCharges \in [Jobs -> Nat] BY <1>3 DEF RecoveredCharges, RowOK
  <1> QED BY <1>3, <1>4, <1>5 DEF TableOK

-----------------------------------------------------------------------------
(* The claims under way.                                                   *)

\* A row that is neither pending nor expired is locked by nobody.
LEMMA NotLocked ==
    ASSUME ClaimsFit(claims, rows), NEW j \in Jobs, ~Expired(rows[j]), rows[j].status # "pending"
    PROVE  \A w \in Workers : j \notin claims[w].locks
  BY DEF ClaimsFit, Ready, Recovered

\* Recovering a row once more changes nothing.
LEMMA RecoveredTwice ==
    ASSUME NEW j \in Jobs, NEW row \in Row
    PROVE  Recovered(j, Recovered(j, row)) = Recovered(j, row)
  <1> DEFINE new == Recovered(j, row)
  <1>1. CASE ~Expired(row) BY <1>1 DEF Recovered
  <1>2. CASE Expired(row)
    <2>1. /\ Released(row, "pending") \in Row /\ Released(row, "pending").status = "pending"
          /\ Released(row, "failed") \in Row /\ Released(row, "failed").status = "failed"
      BY ReleasedRow DEF Statuses
    <2>2. new.status \in {"pending", "failed"} BY <1>2, <2>1 DEF Recovered, Row
    <2>3. ~Expired(new) BY <2>2 DEF Expired
    <2> QED BY <2>3 DEF Recovered
  <1> QED BY <1>1, <1>2

\* A row that nobody has locked is replaced.
LEMMA OneRowClaims ==
    ASSUME ClaimsFit(claims, rows), rows \in [Jobs -> Row], NEW j \in Jobs, NEW row,
           \A w \in Workers : j \notin claims[w].locks,
           claims' = claims, rows' = [rows EXCEPT ![j] = row]
    PROVE  ClaimsFit(claims', rows')
  <1>1. ASSUME NEW w \in Workers, NEW k \in claims[w].locks PROVE Ready(k, rows'[k])
    <2>1. k \in Jobs /\ k # j BY DEF ClaimsFit, ClaimUnderWay
    <2>2. rows'[k] = rows[k] BY <2>1
    <2> QED BY <2>2 DEF ClaimsFit
  <1> QED BY <1>1 DEF ClaimsFit

\* A claim is over, with nothing of it left.
LEMMA ClaimGone ==
    ASSUME NEW table, ClaimsFit(claims, table), NEW w \in Workers,
           claims' = [claims EXCEPT ![w] = NoClaim]
    PROVE  ClaimsFit(claims', table)
  <1>1. NoClaim \in ClaimUnderWay BY DEF NoClaim, ClaimUnderWay
  <1>2. claims' \in [Workers -> ClaimUnderWay] BY <1>1 DEF ClaimsFit
  <1>3. \A v \in Workers : claims'[v] = IF v = w THEN NoClaim ELSE claims[v] BY DEF ClaimsFit
  <1> QED BY <1>2, <1>3 DEF ClaimsFit, NoClaim

\* Nobody waits for the claim any more.
LEMMA ClaimUnheard ==
    ASSUME NEW table, ClaimsFit(claims, table), NEW w \in Workers, NEW b \in BOOLEAN,
           claims' = [claims EXCEPT ![w].heard = b]
    PROVE  ClaimsFit(claims', table)
  <1> DEFINE new == [claims[w] EXCEPT !.heard = b]
  <1>1. /\ new \in ClaimUnderWay /\ new.locks = claims[w].locks
        /\ new.todo = claims[w].todo /\ new.taken = claims[w].taken
    BY DEF ClaimsFit, ClaimUnderWay
  <1>2. claims' = [claims EXCEPT ![w] = new] OBVIOUS
  <1> HIDE DEF new
  <1>3. claims' \in [Workers -> ClaimUnderWay] BY <1>1, <1>2 DEF ClaimsFit
  <1>4. \A v \in Workers : /\ claims'[v].locks = claims[v].locks /\ claims'[v].todo = claims[v].todo
                           /\ claims'[v].taken = claims[v].taken
    BY <1>1, <1>2 DEF ClaimsFit
  <1> QED BY <1>3, <1>4 DEF ClaimsFit

\* The expired rows are recovered for good.
LEMMA RecoveredClaims ==
    ASSUME NEW cl, ClaimsFit(cl, rows), rows \in [Jobs -> Row]
    PROVE  ClaimsFit(cl, RecoveredRows)
  <1>1. ASSUME NEW w \in Workers, NEW j \in cl[w].locks PROVE Ready(j, RecoveredRows[j])
    <2>1. j \in Jobs BY DEF ClaimsFit, ClaimUnderWay
    <2>2. RecoveredRows[j] = Recovered(j, rows[j]) BY <2>1 DEF RecoveredRows
    <2>3. Recovered(j, RecoveredRows[j]) = Recovered(j, rows[j]) BY <2>1, <2>2, RecoveredTwice
    <2> QED BY <2>3 DEF ClaimsFit, Ready
  <1> QED BY <1>1 DEF ClaimsFit

-----------------------------------------------------------------------------
(* The runs.                                                               *)

\* Runs may end while the generations of the table stay.
LEMMA RunsEnd ==
    ASSUME NEW R, NEW S, NEW table, NEW new, RunsFit(R, table), S \subseteq R,
           \A k \in Jobs : new[k].gen = table[k].gen
    PROVE  RunsFit(S, new)
  BY DEF RunsFit, Run

\* A run changes its phase.
LEMMA PhaseChanges ==
    ASSUME NEW R, NEW table, RunsFit(R, table), NEW r \in R, NEW o \in Phases
    PROVE  RunsFit((R \ {r}) \cup {[r EXCEPT !.phase = o]}, table)
  <1> DEFINE q == [r EXCEPT !.phase = o]
  <1>1. q \in Run /\ q.job = r.job /\ q.gen = r.gen BY DEF RunsFit, Run
  <1> HIDE DEF q
  <1>2. RunsFit((R \ {r}) \cup {q}, table) BY <1>1 DEF RunsFit
  <1> QED BY <1>2 DEF q

\* The handlers of some runs are cancelled.
LEMMA HandlersCancelled ==
    ASSUME NEW R, NEW table, NEW new, RunsFit(runs, table), CancelHandlers(R),
           \A k \in Jobs : new[k].gen = table[k].gen
    PROVE  RunsFit(runs', new)
  <1> DEFINE f(r) == IF r \in R /\ r.phase = "running" THEN [r EXCEPT !.phase = "cancelled"] ELSE r
  <1>1. \A r \in runs : f(r) \in Run /\ f(r).job = r.job /\ f(r).gen = r.gen
    BY DEF RunsFit, Run, Phases
  <1>2. runs' = {f(r) : r \in runs} BY DEF CancelHandlers
  <1> HIDE DEF f
  <1>3. \A q \in runs' : \E r \in runs : q = f(r) BY <1>2
  <1>4. runs' \subseteq Run BY <1>1, <1>3
  <1>5. \A q \in runs' : q.gen <= new[q.job].gen
    <2> SUFFICES ASSUME NEW q \in runs' PROVE q.gen <= new[q.job].gen OBVIOUS
    <2>1. PICK r \in runs : q = f(r) BY <1>3
    <2>2. r.job \in Jobs BY DEF RunsFit, Run
    <2> QED BY <1>1, <2>1, <2>2 DEF RunsFit
  <1>6. \A q, s \in runs' : q.job = s.job /\ q.gen = s.gen => q = s
    BY <1>1, <1>3 DEF RunsFit
  <1> QED BY <1>4, <1>5, <1>6 DEF RunsFit

-----------------------------------------------------------------------------
(* Every action preserves the invariant.                                   *)

LEMMA InterfereBound == ASSUME faults \in 0..MaxFaults, Interfere PROVE faults' \in 0..MaxFaults
  BY JobsAssumption DEF Interfere

LEMMA InitInv == Init => IInv
  <1> SUFFICES ASSUME Init PROVE IInv OBVIOUS
  <1> USE JobsAssumption
  <1> DEFINE new == [status |-> "absent", attempts |-> 0, gen |-> 0,
                     owner |-> NoWorker, left |-> 0, wait |-> 0, result |-> 0]
  <1>1. new \in Row BY DEF Row, Statuses
  <1>2. \A j \in Jobs : rows[j] = new BY DEF Init
  <1>3. TableOK(rows, charged)
    <2>1. \A j \in Jobs : RowOK(j, rows[j], charged[j]) BY <1>1, <1>2 DEF Init, RowOK, Busy
    <2> QED BY <1>1, <2>1 DEF Init, TableOK
  <1>4. ClaimsFit(claims, rows)
    BY DEF Init, ClaimsFit, NoClaim, ClaimUnderWay
  <1> QED BY <1>3, <1>4 DEF Init, IInv, RunsFit

LEMMA EnqueueInv == ASSUME IInv, NEW j \in Jobs, Enqueue(j) PROVE IInv'
  <1> USE JobsAssumption DEF IInv
  <1> DEFINE row == [rows[j] EXCEPT !.status = "pending"]
  <1>1. RowOK(j, rows[j], charged[j]) /\ rows[j].status = "absent" /\ rows[j] \in Row
    BY DEF TableOK, Enqueue
  <1>2. /\ row \in Row /\ row.status = "pending" /\ row.attempts = rows[j].attempts
        /\ row.left = rows[j].left /\ row.gen = rows[j].gen
    BY <1>1 DEF Row, Statuses
  <1>3. rows' = [rows EXCEPT ![j] = row] /\ charged' = charged BY DEF Enqueue
  <1> HIDE DEF row
  <1>4. RowOK(j, row, charged[j]) BY <1>1, <1>2 DEF RowOK, Busy
  <1>5. TableOK(rows', charged') /\ \A k \in Jobs : rows'[k].gen = rows[k].gen
    BY <1>2, <1>3, <1>4, OneRowStep
  <1>6. RunsFit(runs', rows')
    <2>1. runs' = runs BY DEF Enqueue
    <2>2. RunsFit(runs, rows) BY DEF IInv
    <2> QED BY <1>5, <2>1, <2>2, RunsEnd
  <1>7. ClaimsFit(claims', rows')
    BY <1>1, <1>3, NotLocked, OneRowClaims DEF Enqueue, Expired, TableOK
  <1> QED BY <1>5, <1>6, <1>7 DEF Enqueue

\* What Cancel and WorkerCancel do to the table.
LEMMA CancelTable ==
    ASSUME IInv, NEW j \in Jobs, Cancellable(rows[j]), ChargeIfRunning(j),
           rows' = [rows EXCEPT ![j] = Released(@, "cancelled")]
    PROVE  /\ TableOK(rows', charged')
           /\ \A k \in Jobs : rows'[k].gen = rows[k].gen
  <1> DEFINE row == Released(rows[j], "cancelled")
             c == IF rows[j].status = "running" THEN charged[j] + 1 ELSE charged[j]
  <1>1. RowOK(j, rows[j], charged[j]) BY DEF TableOK, IInv
  <1>2. RowOK(j, row, c) /\ row.gen = rows[j].gen /\ row.status = "cancelled"
    BY <1>1, CancelKeepsRow
  <1>3. charged' = [charged EXCEPT ![j] = c] BY DEF ChargeIfRunning
  <1>4. rows' = [rows EXCEPT ![j] = row] OBVIOUS
  <1> HIDE DEF row, c
  <1> QED BY <1>2, <1>3, <1>4, OneRowStep DEF IInv

LEMMA CancelInv == ASSUME IInv, NEW j \in Jobs, Cancel(j) PROVE IInv'
  <1>1. TableOK(rows', charged') /\ \A k \in Jobs : rows'[k].gen = rows[k].gen
    BY CancelTable DEF Cancel
  <1>2. RunsFit(runs', rows')
    <2>1. runs' = runs BY DEF Cancel
    <2>2. RunsFit(runs, rows) BY DEF IInv
    <2> QED BY <1>1, <2>1, <2>2, RunsEnd
  <1>3. faults' \in 0..MaxFaults BY InterfereBound DEF Cancel, IInv
  <1>4. ClaimsFit(claims', rows') BY OneRowClaims DEF Cancel, IInv, Locked, TableOK
  <1> QED BY <1>1, <1>2, <1>3, <1>4 DEF Cancel, IInv

LEMMA RequeueInv == ASSUME IInv, NEW j \in Jobs, Requeue(j) PROVE IInv'
  <1> USE JobsAssumption
  <1> DEFINE q == Released(rows[j], "pending")
             row == [q EXCEPT !.attempts = 0, !.wait = 0, !.result = 0]
  <1>1. RowOK(j, rows[j], charged[j]) /\ rows[j] \in Row BY DEF TableOK, IInv
  <1>2. q \in Row /\ q.status = "pending" /\ q.left = 0 /\ q.gen = rows[j].gen
    BY <1>1, ReleasedRow DEF Statuses
  <1>3. rows' = [rows EXCEPT ![j] = row] /\ charged' = [charged EXCEPT ![j] = 0] BY DEF Requeue
  <1> HIDE DEF q
  <1>4. /\ row \in Row /\ row.status = "pending" /\ row.left = 0 /\ row.attempts = 0
        /\ row.gen = rows[j].gen
    BY <1>2 DEF Row
  <1> HIDE DEF row
  <1>5. RowOK(j, row, 0) BY <1>4 DEF RowOK, Busy
  <1>6. TableOK(rows', charged') /\ \A k \in Jobs : rows'[k].gen = rows[k].gen
    BY <1>3, <1>4, <1>5, OneRowStep DEF IInv
  <1>7. RunsFit(runs', rows')
    <2>1. runs' = runs BY DEF Requeue
    <2>2. RunsFit(runs, rows) BY DEF IInv
    <2> QED BY <1>6, <2>1, <2>2, RunsEnd
  <1>8. faults' \in 0..MaxFaults BY InterfereBound DEF Requeue, IInv
  <1>9. ClaimsFit(claims', rows')
    <2>1. ~Expired(rows[j]) /\ rows[j].status # "pending" BY DEF Requeue, Requeueable, Expired
    <2> QED BY <1>3, <2>1, NotLocked, OneRowClaims DEF Requeue, IInv, TableOK
  <1> QED BY <1>6, <1>7, <1>8, <1>9 DEF Requeue, IInv

LEMMA OpenStoreInv == ASSUME IInv, OpenStore PROVE IInv'
  <1>1. TableOK(rows', charged') /\ \A k \in Jobs : rows'[k].gen = rows[k].gen
    BY RecoveredTable DEF OpenStore, IInv
  <1>2. RunsFit(runs', rows')
    <2>1. runs' = runs BY DEF OpenStore
    <2>2. RunsFit(runs, rows) BY DEF IInv
    <2> QED BY <1>1, <2>1, <2>2, RunsEnd
  <1>3. ClaimsFit(claims', rows') BY RecoveredClaims DEF OpenStore, IInv, TableOK
  <1> QED BY <1>1, <1>2, <1>3 DEF OpenStore, IInv

\* A claim locks rows that are free and ready, or ends at once.
LEMMA SelectsInv == ASSUME IInv, NEW w \in Workers, Selects(w) PROVE IInv'
  <1> DEFINE room == Concurrency[w] - Cardinality(RunsOf(w))
             Fresh(S) == [NoClaim EXCEPT !.locks = S, !.todo = S]
  <1>1. PICK S \in Selections(RecoveredRows, room) :
            /\ claims' = [claims EXCEPT ![w] = Fresh(S)]
            /\ IF S = {} THEN rows' = RecoveredRows /\ charged' = RecoveredCharges
               ELSE UNCHANGED <<rows, charged>>
    BY DEF Selects
  <1>2. /\ S \subseteq Due(RecoveredRows) /\ S \subseteq Jobs
        /\ \A v \in Workers : S \cap claims[v].locks = {}
    BY DEF Selections, Due
  <1>3. runs' = runs /\ registry' = registry /\ faults' = faults /\ rows \in [Jobs -> Row]
    BY DEF Selects, IInv, TableOK
  <1>4. NoClaim \in ClaimUnderWay /\ NoClaim.taken = {} BY DEF NoClaim, ClaimUnderWay
  <1>5. /\ Fresh(S) \in ClaimUnderWay
        /\ Fresh(S).locks = S /\ Fresh(S).todo = S /\ Fresh(S).taken = {}
    BY <1>2, <1>4 DEF ClaimUnderWay
  <1>6. \A j \in S : Ready(j, rows[j]) BY <1>2 DEF Ready, Due, RecoveredRows
  <1>7. ClaimsFit(claims', rows)
    <2> DEFINE f == Fresh(S)
    <2>1. f \in ClaimUnderWay /\ f.locks = S /\ f.todo = S /\ f.taken = {} BY <1>5
    <2>2. claims' = [claims EXCEPT ![w] = f] BY <1>1
    <2> HIDE DEF f, Fresh
    <2>3. ClaimsFit(claims, rows) BY DEF IInv
    <2>4. claims' \in [Workers -> ClaimUnderWay] BY <2>1, <2>2, <2>3 DEF ClaimsFit
    <2>5. \A v \in Workers : claims'[v] = IF v = w THEN f ELSE claims[v] BY <2>2, <2>3 DEF ClaimsFit
    <2>6. \A v \in Workers : claims'[v].todo \subseteq claims'[v].locks
                            /\ claims'[v].taken \subseteq claims'[v].locks
      BY <2>1, <2>3, <2>5 DEF ClaimsFit
    <2>7. \A u, v \in Workers : u # v => claims'[u].locks \cap claims'[v].locks = {}
      BY <1>2, <2>1, <2>3, <2>5 DEF ClaimsFit
    <2>8. \A v \in Workers : \A j \in claims'[v].locks : Ready(j, rows[j])
      BY <1>6, <2>1, <2>3, <2>5 DEF ClaimsFit
    <2> QED BY <2>4, <2>6, <2>7, <2>8 DEF ClaimsFit
  <1>8. CASE S # {}
    <2>1. rows' = rows /\ charged' = charged BY <1>1, <1>8
    <2> QED BY <1>3, <1>7, <2>1 DEF IInv
  <1>9. CASE S = {}
    <2>1. rows' = RecoveredRows /\ charged' = RecoveredCharges BY <1>1, <1>9
    <2>2. ClaimsFit(claims', RecoveredRows) BY <1>3, <1>7, RecoveredClaims
    <2>3. TableOK(RecoveredRows, RecoveredCharges) /\ \A k \in Jobs : RecoveredRows[k].gen = rows[k].gen
      BY RecoveredTable DEF IInv
    <2>4. RunsFit(runs, RecoveredRows)
      <3>1. RunsFit(runs, rows) BY DEF IInv
      <3> QED BY <2>3, <3>1, RunsEnd
    <2> QED BY <1>3, <2>1, <2>2, <2>3, <2>4 DEF IInv
  <1> QED BY <1>8, <1>9

\* Counting takes a row the claim has locked, or leaves it.
LEMMA CountsInv == ASSUME IInv, NEW w \in Workers, NEW j \in Jobs, Counts(w, j) PROVE IInv'
  <1> DEFINE T == IF HasRoom(w, j) THEN claims[w].taken \cup {j} ELSE claims[w].taken
             R == claims[w].todo \ {j}
             new == [claims[w] EXCEPT !.todo = R, !.taken = T]
  <1>1. ClaimsFit(claims, rows) BY DEF IInv
  <1>2. j \in claims[w].todo BY DEF Counts
  <1>3. T \subseteq claims[w].locks /\ T \in SUBSET Jobs BY <1>1, <1>2 DEF ClaimsFit, ClaimUnderWay
  <1>a. R \subseteq claims[w].locks /\ R \in SUBSET Jobs BY <1>1 DEF ClaimsFit, ClaimUnderWay
  <1>4. claims' = [claims EXCEPT ![w] = new] BY DEF Counts
  <1> HIDE DEF T, R
  <1>b. claims[w] \in ClaimUnderWay BY <1>1 DEF ClaimsFit
  <1>5. /\ new \in ClaimUnderWay /\ new.locks = claims[w].locks /\ new.taken = T
        /\ new.todo = R
    BY <1>3, <1>a, <1>b DEF ClaimUnderWay
  <1> HIDE DEF new
  <1>6. \A v \in Workers : claims'[v] = IF v = w THEN new ELSE claims[v] BY <1>1, <1>4 DEF ClaimsFit
  <1>7. claims' \in [Workers -> ClaimUnderWay] BY <1>1, <1>4, <1>5 DEF ClaimsFit
  <1>8. \A v \in Workers : claims'[v].locks = claims[v].locks BY <1>5, <1>6
  <1>9. \A v \in Workers : claims'[v].todo \subseteq claims'[v].locks
                          /\ claims'[v].taken \subseteq claims'[v].locks
    BY <1>1, <1>3, <1>a, <1>5, <1>6 DEF ClaimsFit
  <1>10. ClaimsFit(claims', rows) BY <1>1, <1>7, <1>8, <1>9 DEF ClaimsFit
  <1> QED BY <1>10 DEF Counts, IInv

\* The commit of a claim starts a lease of every row it has taken.
LEMMA ClaimInv == ASSUME IInv, NEW w \in Workers, Claim(w) PROVE IInv'
  <1> DEFINE table == RecoveredRows
             T == claims[w].taken
  <1>1. /\ rows' = [j \in Jobs |-> IF j \in T THEN ClaimedRow(table[j], w) ELSE table[j]]
        /\ charged' = RecoveredCharges /\ faults' = faults
        /\ claims' = [claims EXCEPT ![w] = NoClaim]
    BY DEF Claim
  <1>2. \/ /\ runs' = runs \cup {NewRun(table, w, j) : j \in T}
           /\ registry' = [registry EXCEPT ![w] = [j \in Jobs |->
                                IF j \in T THEN NewRun(table, w, j).gen ELSE @[j]]]
        \/ runs' = runs /\ registry' = registry
    BY DEF Claim
  <1>3. charged' = RecoveredCharges /\ faults' = faults BY <1>1
  <1>4. TableOK(table, RecoveredCharges) /\ \A j \in Jobs : table[j].gen = rows[j].gen
    BY RecoveredTable DEF IInv
  <1>5. RunsFit(runs, table)
    <2>1. RunsFit(runs, rows) BY DEF IInv
    <2> QED BY <1>4, <2>1, RunsEnd
  <1>0. ClaimsFit(claims, rows) /\ rows \in [Jobs -> Row] BY DEF IInv, TableOK
  <1>6. T \subseteq Jobs /\ T \subseteq claims[w].locks BY <1>0 DEF ClaimsFit, ClaimUnderWay
  <1>a. \A j \in T : table[j].status = "pending" /\ table[j].wait = 0
    BY <1>0, <1>6 DEF ClaimsFit, Ready, RecoveredRows
  <1> HIDE DEF table, T
  <1>7. ASSUME NEW j \in T
        PROVE  /\ RowOK(j, ClaimedRow(table[j], w), RecoveredCharges[j])
               /\ ClaimedRow(table[j], w).gen = table[j].gen + 1
               /\ ClaimedRow(table[j], w).attempts \in Nat
               /\ ClaimedRow(table[j], w).status = "running"
    <2>1. table[j].status = "pending" /\ table[j].wait = 0 BY <1>a
    <2>2. RowOK(j, table[j], RecoveredCharges[j]) BY <1>4, <1>6 DEF TableOK
    <2> QED BY <1>6, <2>1, <2>2, ClaimKeepsRow
  <1>8. \A j \in Jobs : rows'[j] = IF j \in T THEN ClaimedRow(table[j], w) ELSE table[j] BY <1>1
  <1>9. TableOK(rows', charged')
    <2>1. \A j \in Jobs : RowOK(j, rows'[j], RecoveredCharges[j])
      BY <1>4, <1>7, <1>8 DEF TableOK
    <2>2. rows' \in [Jobs -> Row] BY <1>1, <1>8, <2>1 DEF RowOK
    <2> QED BY <1>3, <1>4, <2>1, <2>2 DEF TableOK
  <1>10. \A j \in T : /\ NewRun(table, w, j).job = j /\ NewRun(table, w, j).gen = table[j].gen + 1
                       /\ NewRun(table, w, j) \in Run
    <2> SUFFICES ASSUME NEW j \in T
                 PROVE  /\ NewRun(table, w, j).job = j /\ NewRun(table, w, j).gen = table[j].gen + 1
                        /\ NewRun(table, w, j) \in Run
      OBVIOUS
    <2> DEFINE row == ClaimedRow(table[j], w)
    <2>1. row.gen = table[j].gen + 1 /\ row.gen \in Nat /\ row.attempts \in Nat /\ j \in Jobs
      BY <1>6, <1>7 DEF RowOK, Row
    <2>2. NewRun(table, w, j) = [job |-> j, gen |-> row.gen, att |-> row.attempts,
                                 worker |-> w, phase |-> "running"]
      BY DEF NewRun
    <2> HIDE DEF row
    <2> QED BY <2>1, <2>2 DEF Run, Phases
  <1>11. RunsFit(runs', rows')
    <2>1. runs' \subseteq Run BY <1>2, <1>5, <1>10 DEF RunsFit
    <2>2. \A j \in Jobs : /\ table[j].gen \in Nat
                          /\ rows'[j].gen = IF j \in T THEN table[j].gen + 1 ELSE table[j].gen
      BY <1>4, <1>7, <1>8 DEF TableOK, Row
    <2>3. \A r \in runs : r.job \in Jobs /\ r.gen \in Nat /\ r.gen <= table[r.job].gen
      BY <1>5 DEF RunsFit, Run
    <2>4. \A r \in runs' : r \in runs \/ (\E j \in T : r = NewRun(table, w, j)) BY <1>2
    <2>5. \A r \in runs' : r.gen <= rows'[r.job].gen
      <3> SUFFICES ASSUME NEW r \in runs' PROVE r.gen <= rows'[r.job].gen OBVIOUS
      <3>1. CASE r \in runs BY <2>2, <2>3, <3>1
      <3>2. CASE \E j \in T : r = NewRun(table, w, j)
        <4>1. PICK j \in T : r = NewRun(table, w, j) BY <3>2
        <4>2. r.job = j /\ r.gen = table[j].gen + 1 /\ j \in Jobs BY <1>6, <1>10, <4>1
        <4> QED BY <2>2, <4>2
      <3> QED BY <2>4, <3>1, <3>2
    <2>6. ASSUME NEW r \in runs', NEW s \in runs', r.job = s.job, r.gen = s.gen PROVE r = s
      <3>1. CASE r \in runs /\ s \in runs BY <1>5, <2>6, <3>1 DEF RunsFit
      <3>2. \A q \in runs, j \in T : q.job = j => q.gen # NewRun(table, w, j).gen
        BY <1>6, <1>10, <2>2, <2>3
      <3>3. CASE r \notin runs \/ s \notin runs
        <4>1. \A q \in runs' : q \in runs \/ (q = NewRun(table, w, q.job) /\ q.job \in T)
          BY <1>10, <2>4
        <4> QED BY <2>6, <3>2, <3>3, <4>1
      <3> QED BY <3>1, <3>3
    <2> QED BY <2>1, <2>5, <2>6 DEF RunsFit
  <1>12. ClaimsFit(claims', rows')
    <2>1. ClaimsFit(claims, table) BY <1>0, RecoveredClaims DEF table
    <2>2. ClaimsFit(claims', table) BY <1>1, <2>1, ClaimGone
    <2>3. ASSUME NEW v \in Workers, NEW j \in claims'[v].locks PROVE Ready(j, rows'[j])
      <3>1. j \in Jobs BY <2>2 DEF ClaimsFit, ClaimUnderWay
      <3>2. v # w /\ claims'[v] = claims[v] BY <1>0, <1>1, <2>3 DEF ClaimsFit, NoClaim
      <3>3. j \notin T BY <1>0, <1>6, <2>3, <3>2 DEF ClaimsFit
      <3>4. rows'[j] = table[j] BY <1>8, <3>1, <3>3
      <3> QED BY <2>2, <3>4 DEF ClaimsFit
    <2> QED BY <2>2, <2>3 DEF ClaimsFit
  <1>13. registry' \in [Workers -> [Jobs -> Nat]]
    <2> DEFINE f == [j \in Jobs |-> IF j \in T THEN NewRun(table, w, j).gen ELSE registry[w][j]]
    <2>1. registry \in [Workers -> [Jobs -> Nat]] BY DEF IInv
    <2>2. f \in [Jobs -> Nat] BY <1>10, <2>1 DEF Run
    <2>3. registry' = [registry EXCEPT ![w] = f] \/ registry' = registry BY <1>2
    <2> HIDE DEF f
    <2> QED BY <2>1, <2>2, <2>3
  <1> QED BY <1>3, <1>9, <1>11, <1>12, <1>13 DEF IInv

LEMMA ClaimRaisesInv == ASSUME IInv, NEW w \in Workers, ClaimRaises(w) PROVE IInv'
  <1>1. faults' \in 0..MaxFaults BY InterfereBound DEF ClaimRaises, IInv
  <1>2. ClaimsFit(claims', rows) BY ClaimGone DEF ClaimRaises, IInv
  <1> QED BY <1>1, <1>2 DEF ClaimRaises, IInv

LEMMA HandlerEndsInv == ASSUME IInv, NEW r \in runs, NEW o \in Outcomes, HandlerEnds(r, o) PROVE IInv'
  <1>1. RunsFit((runs \ {r}) \cup {[r EXCEPT !.phase = o]}, rows)
    BY PhaseChanges DEF IInv, Phases
  <1>2. RunsFit(runs', rows') BY <1>1 DEF HandlerEnds
  <1>3. faults' \in 0..MaxFaults BY InterfereBound DEF HandlerEnds, IInv
  <1> QED BY <1>2, <1>3 DEF HandlerEnds, IInv

\* A run that ends leaves the runs and the registry in order.
LEMMA EndRunKeeps ==
    ASSUME IInv, NEW r \in runs, EndRun(r), \A k \in Jobs : rows'[k].gen = rows[k].gen
    PROVE  RunsFit(runs', rows') /\ registry' \in [Workers -> [Jobs -> Nat]]
  <1>1. RunsFit(runs, rows) /\ runs' \subseteq runs BY DEF IInv, EndRun
  <1>2. RunsFit(runs', rows') BY <1>1, RunsEnd
  <1>3. r.job \in Jobs /\ r.worker \in Workers BY <1>1 DEF RunsFit, Run
  <1>4. registry' \in [Workers -> [Jobs -> Nat]] BY <1>3 DEF IInv, EndRun
  <1> QED BY <1>2, <1>4

\* An action that ends a run and leaves the table alone.
LEMMA EndRunOnly ==
    ASSUME IInv, NEW r \in runs, EndRun(r), rows' = rows, claims' = claims, charged' = charged,
           faults' \in 0..MaxFaults
    PROVE  IInv'
  <1>1. RunsFit(runs', rows') /\ registry' \in [Workers -> [Jobs -> Nat]] BY EndRunKeeps
  <1> QED BY <1>1 DEF IInv

\* No claim has locked the row of a run that holds it.
LEMMA HeldClaims ==
    ASSUME IInv, NEW r \in runs, NEW row, Holds(r, rows[r.job]),
           claims' = claims, rows' = [rows EXCEPT ![r.job] = row]
    PROVE  ClaimsFit(claims', rows')
  <1>1. r.job \in Jobs BY DEF IInv, RunsFit, Run
  <1>2. ~Expired(rows[r.job]) /\ rows[r.job].status # "pending"
    <2>1. rows[r.job] \in Row BY <1>1 DEF IInv, TableOK
    <2> QED BY <2>1 DEF Holds, Expired, Row
  <1> QED BY <1>1, <1>2, NotLocked, OneRowClaims DEF IInv, TableOK

\* What a run that holds its row knows about it.
LEMMA HeldRow ==
    ASSUME IInv, NEW r \in runs
    PROVE  /\ r.job \in Jobs /\ r \in Run
           /\ RowOK(r.job, rows[r.job], charged[r.job])
           /\ rows[r.job] \in Row
  BY DEF IInv, RunsFit, Run, TableOK

LEMMA MarkSucceededInv == ASSUME IInv, NEW r \in runs, MarkSucceeded(r) PROVE IInv'
  <1> DEFINE j == r.job
             q == Released(rows[j], "succeeded")
             row == [q EXCEPT !.result = r.gen]
  <1>1. j \in Jobs /\ RowOK(j, rows[j], charged[j]) /\ rows[j] \in Row /\ r.gen \in Nat
    BY HeldRow DEF Run
  <1>2. EndRun(r) /\ claims' = claims /\ faults' = faults BY DEF MarkSucceeded
  <1>3. CASE ~Holds(r, rows[j])
    BY <1>2, <1>3, EndRunOnly DEF MarkSucceeded, IInv
  <1>4. CASE Holds(r, rows[j])
    <2>1. rows' = [rows EXCEPT ![j] = row] /\ charged' = [charged EXCEPT ![j] = charged[j] + 1]
      BY <1>4 DEF MarkSucceeded
    <2>2. /\ q \in Row /\ q.status = "succeeded" /\ q.left = 0 /\ q.gen = rows[j].gen
          /\ q.attempts = rows[j].attempts /\ q.wait = rows[j].wait
      BY <1>1, ReleasedRow DEF Statuses
    <2> HIDE DEF q
    <2>3. /\ row \in Row /\ row.status = "succeeded" /\ row.left = 0 /\ row.gen = rows[j].gen
          /\ row.attempts = rows[j].attempts /\ row.wait = rows[j].wait /\ row.result = r.gen
      BY <1>1, <2>2 DEF Row
    <2> HIDE DEF row
    <2>4. RowOK(j, row, charged[j] + 1)
      BY <1>1, <1>4, <2>3 DEF RowOK, Busy, Holds
    <2>5. TableOK(rows', charged') /\ \A k \in Jobs : rows'[k].gen = rows[k].gen
      BY <1>1, <2>1, <2>3, <2>4, OneRowStep DEF IInv
    <2>6. RunsFit(runs', rows') /\ registry' \in [Workers -> [Jobs -> Nat]]
      BY <1>2, <2>5, EndRunKeeps
    <2>8. ClaimsFit(claims', rows') BY <1>2, <1>4, <2>1, HeldClaims
    <2> QED BY <1>2, <2>5, <2>6, <2>8 DEF IInv
  <1> QED BY <1>3, <1>4

LEMMA MarkFailedInv == ASSUME IInv, NEW r \in runs, MarkFailed(r) PROVE IInv'
  <1> DEFINE j == r.job
             retry == r.phase = "error" /\ r.att < MaxAttempts[j] /\ rows[j].attempts < MaxAttempts[j]
             s == IF retry THEN "pending" ELSE "failed"
             row == [Released(rows[j], s) EXCEPT !.wait = Delay]
  <1>1. j \in Jobs /\ RowOK(j, rows[j], charged[j]) /\ rows[j] \in Row
    BY HeldRow
  <1>2. EndRun(r) /\ claims' = claims /\ faults' = faults BY DEF MarkFailed
  <1>3. CASE ~Holds(r, rows[j])
    BY <1>2, <1>3, EndRunOnly DEF MarkFailed, IInv
  <1>4. CASE Holds(r, rows[j])
    <2>1. rows' = [rows EXCEPT ![j] = row] /\ charged' = [charged EXCEPT ![j] = charged[j] + 1]
      BY <1>4 DEF MarkFailed
    <2>2. s \in Statuses \ {"absent", "running"} /\ s # "succeeded"
            /\ (s = "pending" => rows[j].attempts < MaxAttempts[j])
      BY DEF Statuses
    <2>3. rows[j].status = "running" BY <1>4 DEF Holds
    <2> HIDE DEF s
    <2>4. RowOK(j, row, charged[j] + 1) BY <1>1, <2>2, <2>3, GiveBackCharged, JobsAssumption
    <2>5. row.gen = rows[j].gen /\ row.status = s BY <1>1, <2>2 DEF Released, Row
    <2> HIDE DEF row
    <2>6. TableOK(rows', charged') /\ \A k \in Jobs : rows'[k].gen = rows[k].gen
      BY <1>1, <2>1, <2>2, <2>4, <2>5, OneRowStep DEF IInv
    <2>7. RunsFit(runs', rows') /\ registry' \in [Workers -> [Jobs -> Nat]]
      BY <1>2, <2>6, EndRunKeeps
    <2>8. ClaimsFit(claims', rows') BY <1>2, <1>4, <2>1, HeldClaims
    <2> QED BY <1>2, <2>6, <2>7, <2>8 DEF IInv
  <1> QED BY <1>3, <1>4

LEMMA DeferInv == ASSUME IInv, NEW r \in runs, Defer(r) PROVE IInv'
  <1> DEFINE j == r.job
             d == IF r.phase = "deferred" THEN Delay ELSE 0
             row == DeferredRow(rows[j], d)
  <1>1. j \in Jobs /\ RowOK(j, rows[j], charged[j]) /\ rows[j] \in Row
    BY HeldRow
  <1>2. EndRun(r) /\ claims' = claims /\ faults' = faults /\ charged' = charged BY DEF Defer
  <1>3. CASE ~(Holds(r, rows[j]) /\ rows[j].attempts = r.att)
    BY <1>2, <1>3, EndRunOnly DEF Defer, IInv
  <1>4. CASE Holds(r, rows[j]) /\ rows[j].attempts = r.att
    <2>1. rows' = [rows EXCEPT ![j] = row] BY <1>4 DEF Defer
    <2>2. d \in Nat BY JobsAssumption
    <2>3. rows[j].status = "running" BY <1>4 DEF Holds
    <2>4. RowOK(j, row, charged[j]) /\ row.gen = rows[j].gen /\ row.status = "pending"
      BY <1>1, <2>2, <2>3, DeferKeepsRow
    <2> HIDE DEF row
    <2>6. TableOK(rows', charged') /\ \A k \in Jobs : rows'[k].gen = rows[k].gen
      BY <1>1, <1>2, <2>1, <2>4, OneRowStep DEF IInv
    <2>7. RunsFit(runs', rows') /\ registry' \in [Workers -> [Jobs -> Nat]]
      BY <1>2, <2>6, EndRunKeeps
    <2>8. ClaimsFit(claims', rows') BY <1>2, <1>4, <2>1, HeldClaims
    <2> QED BY <1>2, <2>6, <2>7, <2>8 DEF IInv
  <1> QED BY <1>3, <1>4

LEMMA ReadAfterCancelInv == ASSUME IInv, NEW r \in runs, ReadAfterCancel(r) PROVE IInv'
  <1>1. rows' = rows /\ claims' = claims /\ charged' = charged /\ faults' = faults BY DEF ReadAfterCancel
  <1>2. CASE rows[r.job].status = "cancelled"
    BY <1>1, <1>2, EndRunOnly DEF ReadAfterCancel, IInv
  <1>3. CASE rows[r.job].status # "cancelled"
    <2>1. RunsFit((runs \ {r}) \cup {[r EXCEPT !.phase = "release"]}, rows)
      BY PhaseChanges DEF IInv, Phases
    <2> QED BY <1>1, <1>3, <2>1 DEF ReadAfterCancel, IInv
  <1> QED BY <1>2, <1>3

LEMMA SettlementRaisesInv == ASSUME IInv, NEW r \in runs, SettlementRaises(r) PROVE IInv'
  <1>1. faults' \in 0..MaxFaults BY InterfereBound DEF SettlementRaises, IInv
  <1> QED BY <1>1, EndRunOnly DEF SettlementRaises

\* An action that cancels handlers and leaves the table alone.
LEMMA CancelHandlersOnly ==
    ASSUME IInv, NEW R, CancelHandlers(R), rows' = rows, ClaimsFit(claims', rows),
           charged' = charged, registry' = registry, faults' \in 0..MaxFaults
    PROVE  IInv'
  <1>1. RunsFit(runs', rows') BY HandlersCancelled DEF IInv
  <1> QED BY <1>1 DEF IInv

LEMMA RenewInv == ASSUME IInv, NEW r \in runs, Renew(r) PROVE IInv'
  <1> DEFINE j == r.job
             row == [rows[j] EXCEPT !.left = Lease]
  <1>1. j \in Jobs /\ RowOK(j, rows[j], charged[j]) /\ rows[j] \in Row /\ rows[j].status = "running"
    BY HeldRow DEF Renew, Holds
  <1>2. rows' = [rows EXCEPT ![j] = row] /\ charged' = charged /\ runs' = runs
          /\ registry' = registry /\ faults' = faults
    BY DEF Renew
  <1>3. /\ row \in Row /\ row.status = "running" /\ row.attempts = rows[j].attempts
        /\ row.gen = rows[j].gen /\ row.wait = rows[j].wait
    BY <1>1, JobsAssumption DEF Row
  <1> HIDE DEF row
  <1>4. RowOK(j, row, charged[j]) BY <1>1, <1>3 DEF RowOK, Busy
  <1>5. TableOK(rows', charged') /\ \A k \in Jobs : rows'[k].gen = rows[k].gen
    BY <1>1, <1>2, <1>3, <1>4, OneRowStep DEF IInv
  <1>6. RunsFit(runs', rows')
    <2>1. RunsFit(runs, rows) BY DEF IInv
    <2>2. runs' \subseteq runs BY <1>2
    <2> QED BY <1>5, <2>1, <2>2, RunsEnd
  <1>7. ClaimsFit(claims', rows') BY <1>2, HeldClaims DEF Renew
  <1> QED BY <1>2, <1>5, <1>6, <1>7 DEF IInv

LEMMA WorkerCancelInv ==
    ASSUME IInv, NEW w \in Workers, NEW j \in Jobs, WorkerCancel(w, j) PROVE IInv'
  <1> DEFINE R == {r \in RunsOf(w) : r.job = j /\ r.gen = registry[w][j]}
  <1>1. CancelHandlers(R) /\ registry' = registry /\ ChargeIfRunning(j) BY DEF WorkerCancel
  <1>2. faults' \in 0..MaxFaults BY InterfereBound DEF WorkerCancel, IInv
  <1> HIDE DEF R
  <1>3. CASE Cancellable(rows[j])
    <2>1. TableOK(rows', charged') /\ \A k \in Jobs : rows'[k].gen = rows[k].gen
      BY <1>1, <1>3, CancelTable DEF WorkerCancel
    <2>2. RunsFit(runs, rows) BY DEF IInv
    <2>3. RunsFit(runs', rows') BY <1>1, <2>1, <2>2, HandlersCancelled
    <2>4. ClaimsFit(claims', rows')
      BY <1>3, OneRowClaims DEF WorkerCancel, IInv, Locked, TableOK
    <2> QED BY <1>1, <1>2, <2>1, <2>3, <2>4 DEF IInv
  <1>4. CASE ~Cancellable(rows[j])
    <2>1. rows' = rows BY <1>4 DEF WorkerCancel
    <2>2. charged' = charged
      <3>1. rows[j].status # "running" BY <1>4 DEF Cancellable
      <3> QED BY <1>1, <3>1 DEF ChargeIfRunning, IInv, TableOK
    <2> QED BY <1>1, <1>2, <2>1, <2>2, CancelHandlersOnly DEF WorkerCancel, IInv
  <1> QED BY <1>3, <1>4

LEMMA CrashInv == ASSUME IInv, NEW w \in Workers, Crash(w) PROVE IInv'
  <1>1. rows' = rows /\ charged' = charged /\ runs' \subseteq runs BY DEF Crash
  <1>2. faults' \in 0..MaxFaults BY InterfereBound DEF Crash, IInv
  <1>3. RunsFit(runs', rows')
    <2>1. RunsFit(runs, rows) BY DEF IInv
    <2> QED BY <1>1, <2>1, RunsEnd
  <1>4. registry' \in [Workers -> [Jobs -> Nat]] BY DEF Crash, IInv
  <1>5. ClaimsFit(claims', rows) BY ClaimGone DEF Crash, IInv
  <1> QED BY <1>1, <1>2, <1>3, <1>4, <1>5 DEF IInv

\* The clock only counts down, and a row that is at rest has nothing to count.
LEMMA TickedRow ==
    ASSUME NEW j \in Jobs, NEW row, NEW c, RowOK(j, row, c),
           NEW new \in Row, new.status = row.status, new.attempts = row.attempts,
           new.gen = row.gen, new.result = row.result, new.owner = row.owner,
           new.left = Dec(row.left), new.wait = Dec(row.wait)
    PROVE  RowOK(j, new, c)
  <1> DEFINE l == Dec(row.left)
             d == Dec(row.wait)
  <1>1. row \in Row BY DEF RowOK
  <1>2. l \in Nat /\ d \in Nat /\ (row.left = 0 => l = 0) /\ (row.wait = 0 => d = 0)
    BY <1>1 DEF Row, Dec
  <1>3. new.left = l /\ new.wait = d OBVIOUS
  <1> HIDE DEF l, d
  <1> QED BY <1>1, <1>2, <1>3 DEF RowOK, Busy

LEMMA TickInv == ASSUME IInv, Tick PROVE IInv'
  <1>1. /\ rows' = [j \in Jobs |-> [rows[j] EXCEPT !.left = Dec(@), !.wait = Dec(@)]]
        /\ charged' = charged /\ runs' = runs /\ registry' = registry
    BY DEF Tick
  <1>2. ASSUME NEW j \in Jobs
        PROVE  RowOK(j, rows'[j], charged[j]) /\ rows'[j].gen = rows[j].gen
               /\ rows'[j].status = rows[j].status
    <2>1. RowOK(j, rows[j], charged[j]) BY DEF IInv, TableOK
    <2>2. rows'[j] = [rows[j] EXCEPT !.left = Dec(@), !.wait = Dec(@)] BY <1>1
    <2>3. rows[j] \in Row /\ Dec(rows[j].left) \in Nat /\ Dec(rows[j].wait) \in Nat
      BY <2>1 DEF RowOK, Row, Dec
    <2>4. /\ rows'[j] \in Row
          /\ rows'[j].left = Dec(rows[j].left) /\ rows'[j].wait = Dec(rows[j].wait)
      BY <2>2, <2>3 DEF Row
    <2>5. /\ rows'[j].status = rows[j].status /\ rows'[j].attempts = rows[j].attempts
          /\ rows'[j].gen = rows[j].gen /\ rows'[j].result = rows[j].result
          /\ rows'[j].owner = rows[j].owner
      BY <2>2, <2>3 DEF Row
    <2> QED BY <2>1, <2>4, <2>5, TickedRow
  <1>3. TableOK(rows', charged')
    <2>1. rows' \in [Jobs -> Row] BY <1>1, <1>2 DEF RowOK
    <2> QED BY <1>1, <1>2, <2>1 DEF TableOK, IInv
  <1>4. ClaimsFit(claims', rows')
    BY DEF Tick, Idle, IInv, ClaimsFit
  <1>5. RunsFit(runs', rows')
    <2>1. RunsFit(runs, rows) BY DEF IInv
    <2>2. runs' \subseteq runs BY <1>1
    <2>3. \A j \in Jobs : rows'[j].gen = rows[j].gen BY <1>2
    <2> QED BY <2>1, <2>2, <2>3, RunsEnd
  <1>6. faults' \in 0..MaxFaults BY InterfereBound DEF Tick, IInv
  <1> QED BY <1>1, <1>3, <1>4, <1>5, <1>6 DEF IInv

\* The invariant is inductive.
THEOREM NextInv == IInv /\ [Next]_vars => IInv'
  <1> SUFFICES ASSUME IInv, [Next]_vars PROVE IInv' OBVIOUS
  <1>1. ASSUME NEW j \in Jobs, Enqueue(j) \/ Cancel(j) \/ Requeue(j) PROVE IInv'
    BY <1>1, EnqueueInv, CancelInv, RequeueInv
  <1>2. CASE OpenStore BY <1>2, OpenStoreInv
  <1>3. ASSUME NEW w \in Workers, Claims(w) \/ ClaimRaises(w) PROVE IInv'
    BY <1>3, SelectsInv, CountsInv, ClaimInv, ClaimRaisesInv DEF Claims
  <1>4. ASSUME NEW w \in Workers, Stop(w) PROVE IInv'
    <2>1. faults' \in 0..MaxFaults BY <1>4, InterfereBound DEF Stop, IInv
    <2>2. Idle(w) \in BOOLEAN BY DEF Idle
    <2>3. ClaimsFit(claims', rows) BY <1>4, <2>2, ClaimUnheard DEF Stop, IInv
    <2> QED BY <1>4, <2>1, <2>3, CancelHandlersOnly DEF Stop
  <1>5. ASSUME NEW w \in Workers, Crash(w) PROVE IInv' BY <1>5, CrashInv
  <1>6. ASSUME NEW w \in Workers, NEW j \in Jobs, WorkerCancel(w, j) PROVE IInv'
    BY <1>6, WorkerCancelInv
  <1>7. ASSUME NEW r \in runs, NEW o \in Outcomes, HandlerEnds(r, o) PROVE IInv'
    BY <1>7, HandlerEndsInv
  <1>8. ASSUME NEW r \in runs, Settle(r) PROVE IInv'
    BY <1>8, MarkSucceededInv, MarkFailedInv, DeferInv, ReadAfterCancelInv DEF Settle
  <1>9. ASSUME NEW r \in runs, SettlementRaises(r) PROVE IInv' BY <1>9, SettlementRaisesInv
  <1>10. ASSUME NEW r \in runs, Renew(r) PROVE IInv' BY <1>10, RenewInv
  <1>11. ASSUME NEW r \in runs, LeaseLost(r) PROVE IInv'
    BY <1>11, CancelHandlersOnly DEF LeaseLost, IInv
  <1>12. ASSUME NEW r \in runs, HeartbeatRaises(r) PROVE IInv'
    <2>1. faults' \in 0..MaxFaults BY <1>12, InterfereBound DEF HeartbeatRaises, IInv
    <2> QED BY <1>12, <2>1, CancelHandlersOnly DEF HeartbeatRaises, IInv
  <1>13. CASE Tick BY <1>13, TickInv
  <1>14. CASE UNCHANGED vars
    BY <1>14 DEF vars, IInv, TableOK, RunsFit, ClaimsFit
  <1> QED
    BY <1>1, <1>2, <1>3, <1>4, <1>5, <1>6, <1>7, <1>8, <1>9, <1>10, <1>11, <1>12, <1>13, <1>14
    DEF Next

-----------------------------------------------------------------------------
(* The theorems.                                                           *)

THEOREM Invariance == Spec => []IInv
  BY InitInv, NextInv, PTL DEF Spec

\* Type correctness of the table, the runs, the registry and the history: in
\* particular no refund ever takes attempts below zero.
THEOREM TypeCorrect == Spec => []TypeOK
  <1>1. IInv => TypeOK BY DEF IInv, TypeOK, TableOK, RunsFit, ClaimsFit
  <1> QED BY <1>1, Invariance, PTL

\* Whatever mixture of retries, deferrals, refunds, recoveries and requeues put
\* a job back in the queue, its budget still lets claim_due take it.
THEOREM PendingHasBudget == Spec => []NoStrandedJob
  <1>1. IInv => NoStrandedJob BY DEF IInv, NoStrandedJob, TableOK, RowOK
  <1> QED BY <1>1, Invariance, PTL

\* attempts is always what was charged, plus the execution in progress.
THEOREM Accounting == Spec => []AttemptAccounting
  <1>1. IInv => AttemptAccounting BY DEF IInv, AttemptAccounting, TableOK, RowOK, Busy
  <1> QED BY <1>1, Invariance, PTL

\* The lease generation fences: at most one run can settle or renew a job.
THEOREM Fencing == Spec => []OneHolder
  <1>1. IInv => OneHolder BY DEF IInv, OneHolder, RunsFit, Holds
  <1> QED BY <1>1, Invariance, PTL

\* A stored result is that of the last execution that was given the job.
THEOREM ResultIsCurrent == Spec => []ResultOfLatestClaim
  <1>1. IInv => ResultOfLatestClaim BY DEF IInv, ResultOfLatestClaim, TableOK, RowOK
  <1> QED BY <1>1, Invariance, PTL

-----------------------------------------------------------------------------
(***************************************************************************)
(* What one worker may hold of a scope.  A claim under way counts against  *)
(* the limit what it will take: with it, the leases of the worker that are *)
(* still live stay within per_scope_limit, and at the commit the expired   *)
(* ones are gone.  The leases of other workers are no part of it.          *)
(***************************************************************************)

\* The leases a worker has in a scope, the live ones, and what it takes.
Own(table, w, s) == {k \in Active(table, s) : table[k].owner = w}
Live(table, w, s) == {k \in Own(table, w, s) : table[k].left > 0}
Taken(w, s) == {k \in claims[w].taken : Scope[k] = s}

Within(w, s) ==
    /\ Cardinality(Own(rows, w, s)) <= PerScope
    /\ Cardinality(Live(rows, w, s) \cup Taken(w, s)) <= PerScope

ScopeInv == \A w \in Workers, j \in Jobs : Within(w, Scope[j])

\* A row that is not taken: it runs on under the lease it had, if it does.
RowKept(row, new) ==
    new.status = "running" => /\ row.status = "running"
                              /\ new.owner = row.owner
                              /\ new.left > 0 => row.left > 0

LEMMA Fewer ==
    ASSUME NEW S, NEW T, T \subseteq Jobs, S \subseteq T, Cardinality(T) <= PerScope
    PROVE  Cardinality(S) <= PerScope
  <1>1. IsFiniteSet(T) /\ IsFiniteSet(S) BY FS_Subset, JobsAssumption
  <1>2. Cardinality(S) <= Cardinality(T) BY <1>1, FS_Subset
  <1>3. Cardinality(S) \in Nat /\ Cardinality(T) \in Nat BY <1>1, FS_CardinalityType
  <1> QED BY <1>2, <1>3, JobsAssumption

\* Rows that are kept, and a claim that takes no more, stay within the limit.
LEMMA KeptWithin ==
    ASSUME IInv, IInv', NEW w \in Workers, NEW s, Within(w, s),
           \A k \in Jobs : RowKept(rows[k], rows'[k]),
           claims'[w].taken \subseteq claims[w].taken
    PROVE  Within(w, s)'
  <1>1. /\ Own(rows, w, s) \subseteq Jobs
        /\ Live(rows, w, s) \cup Taken(w, s) \subseteq Jobs
    BY DEF Own, Live, Taken, Active, IInv, ClaimsFit, ClaimUnderWay
  <1>2. Own(rows', w, s) \subseteq Own(rows, w, s) BY DEF Own, Active, RowKept
  <1>3. Live(rows', w, s) \subseteq Live(rows, w, s) BY DEF Own, Live, Active, RowKept
  <1>4. Taken(w, s)' \subseteq Taken(w, s) BY DEF Taken
  <1>5. Cardinality(Own(rows', w, s)) <= PerScope BY <1>1, <1>2, Fewer DEF Within
  <1>6. Live(rows', w, s) \cup Taken(w, s)' \subseteq Live(rows, w, s) \cup Taken(w, s)
    BY <1>3, <1>4
  <1>7. Cardinality(Live(rows', w, s) \cup Taken(w, s)') <= PerScope
    BY <1>1, <1>6, Fewer DEF Within
  <1> QED BY <1>5, <1>7 DEF Within, Own, Live, Taken, Active

\* A row that is counted in has room.
LEMMA CountsWithin ==
    ASSUME IInv, ScopeInv, NEW v \in Workers, NEW j \in Jobs, Counts(v, j),
           NEW w \in Workers, NEW i \in Jobs
    PROVE  Within(w, Scope[i])'
  <1> DEFINE s == Scope[i]
             T == IF HasRoom(v, j) THEN claims[v].taken \cup {j} ELSE claims[v].taken
  <1>1. rows' = rows /\ Within(w, s) BY DEF Counts, ScopeInv
  <1>2. claims \in [Workers -> ClaimUnderWay] BY DEF IInv, ClaimsFit
  <1>3. claims' = [claims EXCEPT ![v].todo = @ \ {j}, ![v].taken = T] BY DEF Counts
  <1> HIDE DEF T
  <1>4. claims'[w].taken = IF w = v THEN T ELSE claims[w].taken
    BY <1>2, <1>3 DEF ClaimUnderWay
  <1>5. Taken(w, s)' = {k \in claims'[w].taken : Scope[k] = s} BY DEF Taken
  <1>6. CASE claims'[w].taken = claims[w].taken
    <2>1. Taken(w, s)' = Taken(w, s) BY <1>5, <1>6 DEF Taken
    <2> QED BY <1>1, <2>1 DEF Within
  <1>7. CASE w = v /\ HasRoom(v, j) /\ Scope[j] = s
    <2> DEFINE A == Active(RecoveredRows, s) \cup Taken(w, s)
    <2>1. A = Active(RecoveredRows, Scope[j]) \cup {k \in claims[v].taken : Scope[k] = Scope[j]}
      BY <1>7 DEF Taken
    <2>2. Cardinality(A) < PerScope BY <1>7, <2>1 DEF HasRoom
    <2>3. A \subseteq Jobs BY <1>2 DEF Active, Taken, ClaimUnderWay
    <2>4. Taken(w, s)' = Taken(w, s) \cup {j} BY <1>4, <1>5, <1>7 DEF T, Taken
    <2>5. Live(rows, w, s) \subseteq Active(RecoveredRows, s)
      <3> SUFFICES ASSUME NEW k \in Live(rows, w, s) PROVE k \in Active(RecoveredRows, s) OBVIOUS
      <3>1. k \in Jobs /\ Scope[k] = s /\ rows[k].status = "running" /\ rows[k].left > 0
        BY DEF Live, Own, Active
      <3>2. RecoveredRows[k] = rows[k] BY <3>1 DEF RecoveredRows, Recovered, Expired
      <3> QED BY <3>1, <3>2 DEF Active
    <2> HIDE DEF A
    <2>6. IsFiniteSet(A) BY <2>3, FS_Subset, JobsAssumption
    <2>7. Cardinality(A \cup {j}) <= PerScope
      <3>1. Cardinality(A) \in Nat /\ Cardinality(A \cup {j}) \in Nat
        BY <2>6, FS_CardinalityType, FS_AddElement
      <3>2. Cardinality(A \cup {j}) = Cardinality(A) \/ Cardinality(A \cup {j}) = Cardinality(A) + 1
        BY <2>6, FS_AddElement
      <3> QED BY <2>2, <3>1, <3>2, JobsAssumption
    <2>8. Live(rows, w, s) \cup Taken(w, s)' \subseteq A \cup {j} /\ A \cup {j} \subseteq Jobs
      BY <2>3, <2>4, <2>5 DEF A
    <2>9. Cardinality(Live(rows, w, s) \cup Taken(w, s)') <= PerScope BY <2>7, <2>8, Fewer
    <2> QED BY <1>1, <2>9 DEF Within
  <1>8. CASE w = v /\ HasRoom(v, j) /\ Scope[j] # s
    <2>1. Taken(w, s)' = Taken(w, s) BY <1>4, <1>5, <1>8 DEF T, Taken
    <2> QED BY <1>1, <2>1 DEF Within
  <1> QED BY <1>4, <1>6, <1>7, <1>8 DEF T

\* The commit leaves the live leases and what was taken, and no others.
LEMMA CommitWithin ==
    ASSUME IInv, ScopeInv, NEW v \in Workers, Claim(v), NEW w \in Workers, NEW i \in Jobs
    PROVE  Within(w, Scope[i])'
  <1> DEFINE s == Scope[i]
             T == claims[v].taken
  <1>1. claims \in [Workers -> ClaimUnderWay] /\ rows \in [Jobs -> Row] /\ Within(w, s)
    BY DEF IInv, ClaimsFit, TableOK, ScopeInv
  <1>2. \A k \in Jobs : rows'[k] = IF k \in T THEN ClaimedRow(RecoveredRows[k], v) ELSE RecoveredRows[k]
    BY DEF Claim
  <1>3. Taken(w, s)' \subseteq Taken(w, s) /\ (w = v => Taken(w, s)' = {})
    <2>1. claims'[w] = IF w = v THEN NoClaim ELSE claims[w] BY <1>1 DEF Claim
    <2> QED BY <2>1 DEF Taken, NoClaim
  <1>4. ASSUME NEW k \in Jobs, k \notin T, rows'[k].status = "running"
        PROVE  rows'[k] = rows[k] /\ rows[k].left > 0
    <2>1. rows'[k] = Recovered(k, rows[k]) /\ rows[k] \in Row
      BY <1>1, <1>2, <1>4 DEF RecoveredRows
    <2>2. RowOK(k, rows[k], charged[k]) BY DEF IInv, TableOK
    <2>3. rows[k].status = "running" BY <1>4, <2>1, <2>2, RecoveredRow
    <2>4. ~Expired(rows[k])
      <3> SUFFICES ASSUME Expired(rows[k]) PROVE FALSE OBVIOUS
      <3>1. /\ Released(rows[k], "pending") \in Row /\ Released(rows[k], "pending").status = "pending"
            /\ Released(rows[k], "failed") \in Row /\ Released(rows[k], "failed").status = "failed"
        BY <2>1, ReleasedRow DEF Statuses
      <3>2. rows'[k].status \in {"pending", "failed"} BY <2>1, <3>1 DEF Recovered, Row
      <3> QED BY <1>4, <3>2
    <2> QED BY <2>1, <2>3, <2>4 DEF Recovered, Expired, Row
  <1>5. ASSUME NEW k \in T PROVE k \in Jobs /\ rows'[k].owner = v
    <2>1. k \in Jobs BY <1>1 DEF ClaimUnderWay
    <2>2. RecoveredRows[k] \in Row BY <2>1, RecoveredTable DEF IInv, TableOK
    <2> QED BY <1>2, <2>1, <2>2 DEF ClaimedRow, Row
  <1>6. /\ Own(rows, w, s) \subseteq Jobs
        /\ Live(rows, w, s) \cup Taken(w, s) \subseteq Jobs
    BY <1>1 DEF Own, Live, Taken, Active, ClaimUnderWay
  <1>7. Own(rows', w, s) \subseteq Live(rows, w, s) \cup Taken(w, s)
    <2> SUFFICES ASSUME NEW k \in Own(rows', w, s) PROVE k \in Live(rows, w, s) \cup Taken(w, s)
      OBVIOUS
    <2>1. k \in Jobs /\ Scope[k] = s /\ rows'[k].status = "running" /\ rows'[k].owner = w
      BY DEF Own, Active
    <2>2. CASE k \notin T BY <1>4, <2>1, <2>2 DEF Live, Own, Active
    <2>3. CASE k \in T
      <3>1. w = v BY <1>5, <2>1, <2>3
      <3> QED BY <2>1, <2>3, <3>1 DEF Taken
    <2> QED BY <2>2, <2>3
  <1>8. Live(rows', w, s) \subseteq Own(rows', w, s) BY DEF Live
  <1>9. Live(rows', w, s) \cup Taken(w, s)' \subseteq Live(rows, w, s) \cup Taken(w, s)
    BY <1>3, <1>7, <1>8
  <1>10. /\ Cardinality(Own(rows', w, s)) <= PerScope
         /\ Cardinality(Live(rows', w, s) \cup Taken(w, s)') <= PerScope
    BY <1>1, <1>6, <1>7, <1>9, Fewer DEF Within
  <1> QED BY <1>10 DEF Within

\* Steps other than a commit take no row.
LEMMA OtherStepsKeepRows ==
    ASSUME IInv, [Next]_vars, ~ \E w \in Workers : Claim(w), NEW k \in Jobs
    PROVE  RowKept(rows[k], rows'[k])
  <1>0. rows \in [Jobs -> Row] /\ rows[k] \in Row /\ RowOK(k, rows[k], charged[k])
        /\ runs \subseteq Run
    BY DEF IInv, TableOK, RunsFit
  <1>1. CASE rows'[k] = rows[k] BY <1>1 DEF RowKept
  <1>2. ASSUME NEW j \in Jobs, NEW row, rows' = [rows EXCEPT ![j] = row], row.status # "running"
        PROVE  RowKept(rows[k], rows'[k])
    BY <1>0, <1>1, <1>2 DEF RowKept
  <1>a. ASSUME NEW j \in Jobs, NEW s \in Statuses
        PROVE  Released(rows[j], s) \in Row /\ Released(rows[j], s).status = s
    BY <1>0, ReleasedRow
  <1>3. ASSUME NEW j \in Jobs, Enqueue(j) \/ Requeue(j) PROVE RowKept(rows[k], rows'[k])
    <2>1. CASE Enqueue(j)
      <3> DEFINE row == [rows[j] EXCEPT !.status = "pending"]
      <3>1. rows' = [rows EXCEPT ![j] = row] BY <2>1 DEF Enqueue
      <3>2. row.status = "pending" BY <1>0 DEF Row
      <3> HIDE DEF row
      <3> QED BY <1>2, <3>1, <3>2
    <2>2. CASE Requeue(j)
      <3> DEFINE row == [Released(rows[j], "pending") EXCEPT !.attempts = 0, !.wait = 0, !.result = 0]
      <3>1. rows' = [rows EXCEPT ![j] = row] BY <2>2 DEF Requeue
      <3>2. row.status = "pending" BY <1>a DEF Row, Statuses
      <3> HIDE DEF row
      <3> QED BY <1>2, <3>1, <3>2
    <2> QED BY <1>3, <2>1, <2>2
  <1>4. ASSUME NEW j \in Jobs, rows' = [rows EXCEPT ![j] = Released(@, "cancelled")]
        PROVE  RowKept(rows[k], rows'[k])
    <2>1. Released(rows[j], "cancelled").status = "cancelled" BY <1>a DEF Statuses
    <2>2. rows' = [rows EXCEPT ![j] = Released(rows[j], "cancelled")] BY <1>4
    <2> QED BY <1>2, <2>1, <2>2
  <1>5. CASE rows' = RecoveredRows
    <2>1. rows'[k] = Recovered(k, rows[k]) BY <1>5 DEF RecoveredRows
    <2>2. CASE ~Expired(rows[k]) BY <1>1, <2>1, <2>2 DEF Recovered
    <2>3. CASE Expired(rows[k])
      <3>1. /\ Released(rows[k], "pending") \in Row /\ Released(rows[k], "pending").status = "pending"
            /\ Released(rows[k], "failed") \in Row /\ Released(rows[k], "failed").status = "failed"
        BY <1>a DEF Statuses
      <3>2. rows'[k].status \in {"pending", "failed"} BY <2>1, <2>3, <3>1 DEF Recovered, Row
      <3> QED BY <3>2 DEF RowKept
    <2> QED BY <2>2, <2>3
  <1>6. ASSUME NEW w \in Workers, Claims(w) PROVE RowKept(rows[k], rows'[k])
    BY <1>1, <1>5, <1>6 DEF Claims, Selects, Counts
  <1>7. ASSUME NEW r \in runs, Settle(r) PROVE RowKept(rows[k], rows'[k])
    <2>0. r.job \in Jobs BY <1>0 DEF Run
    <2>1. CASE MarkSucceeded(r)
      <3> DEFINE row == [Released(rows[r.job], "succeeded") EXCEPT !.result = r.gen]
      <3>1. row.status = "succeeded" BY <1>a, <2>0 DEF Row, Statuses
      <3>2. rows' = [rows EXCEPT ![r.job] = row] \/ rows' = rows BY <2>1 DEF MarkSucceeded
      <3> HIDE DEF row
      <3> QED BY <1>1, <1>2, <2>0, <3>1, <3>2
    <2>2. CASE MarkFailed(r)
      <3> DEFINE s == IF r.phase = "error" /\ r.att < MaxAttempts[r.job]
                          /\ rows[r.job].attempts < MaxAttempts[r.job] THEN "pending" ELSE "failed"
                 row == [Released(rows[r.job], s) EXCEPT !.wait = Delay]
      <3>1. rows' = [rows EXCEPT ![r.job] = row] \/ rows' = rows BY <2>2 DEF MarkFailed
      <3>2. s \in Statuses /\ s # "running" BY DEF Statuses
      <3> HIDE DEF s
      <3>3. row.status = s BY <1>a, <2>0, <3>2 DEF Row
      <3> HIDE DEF row
      <3> QED BY <1>1, <1>2, <2>0, <3>1, <3>2, <3>3
    <2>3. CASE Defer(r)
      <3> DEFINE delay == IF r.phase = "deferred" THEN Delay ELSE 0
                 row == DeferredRow(rows[r.job], delay)
      <3>1. rows' = [rows EXCEPT ![r.job] = row] \/ rows' = rows BY <2>3 DEF Defer
      <3> HIDE DEF delay
      <3>2. row.status = "pending" BY <1>a, <2>0 DEF Row, Statuses, DeferredRow
      <3> HIDE DEF row
      <3> QED BY <1>1, <1>2, <2>0, <3>1, <3>2
    <2>4. CASE ReadAfterCancel(r) BY <1>1, <2>4 DEF ReadAfterCancel
    <2> QED BY <1>7, <2>1, <2>2, <2>3, <2>4 DEF Settle
  <1>8. ASSUME NEW r \in runs, Renew(r) PROVE RowKept(rows[k], rows'[k])
    <2>1. rows' = [rows EXCEPT ![r.job].left = Lease] /\ Holds(r, rows[r.job]) BY <1>8 DEF Renew
    <2>2. CASE k # r.job BY <1>0, <1>1, <2>1, <2>2
    <2>3. CASE k = r.job
      <3>1. rows'[k] = [rows[k] EXCEPT !.left = Lease] BY <1>0, <2>1, <2>3
      <3>2. rows'[k].owner = rows[k].owner BY <1>0, <3>1 DEF Row
      <3> QED BY <2>1, <2>3, <3>2 DEF Holds, RowKept
    <2> QED BY <2>2, <2>3
  <1>9. ASSUME NEW w \in Workers, NEW j \in Jobs, WorkerCancel(w, j) PROVE RowKept(rows[k], rows'[k])
    BY <1>1, <1>4, <1>9 DEF WorkerCancel
  <1>10. CASE Tick
    <2>1. rows'[k] = [rows[k] EXCEPT !.left = Dec(@), !.wait = Dec(@)] BY <1>10 DEF Tick
    <2>2. /\ rows'[k].status = rows[k].status /\ rows'[k].owner = rows[k].owner
          /\ rows'[k].left = Dec(rows[k].left)
      BY <1>0, <2>1 DEF Row
    <2>3. Dec(rows[k].left) > 0 => rows[k].left > 0 BY DEF Dec
    <2> QED BY <2>2, <2>3 DEF RowKept
  <1>11. CASE \/ \E w \in Workers : ClaimRaises(w) \/ Stop(w) \/ Crash(w)
              \/ \E r \in runs, o \in Outcomes : HandlerEnds(r, o)
              \/ \E r \in runs : SettlementRaises(r) \/ LeaseLost(r) \/ HeartbeatRaises(r)
              \/ UNCHANGED vars
    BY <1>1, <1>11 DEF ClaimRaises, Stop, Crash, HandlerEnds, SettlementRaises, LeaseLost, HeartbeatRaises, vars
  <1>12. ASSUME NEW j \in Jobs, Cancel(j) PROVE RowKept(rows[k], rows'[k])
    BY <1>4, <1>12 DEF Cancel
  <1> QED
    BY <1>3, <1>5, <1>6, <1>7, <1>8, <1>9, <1>10, <1>11, <1>12 DEF Next, OpenStore

\* Steps other than a count let no claim take more.
LEMMA OtherStepsTakeNoMore ==
    ASSUME IInv, [Next]_vars, ~ \E w \in Workers, j \in Jobs : Counts(w, j), NEW w \in Workers
    PROVE  claims'[w].taken \subseteq claims[w].taken
  <1> DEFINE NoMore == claims'[w].taken \subseteq claims[w].taken
  <1>0. claims \in [Workers -> ClaimUnderWay] BY DEF IInv, ClaimsFit
  <1>1. CASE claims' = claims BY <1>1
  <1>2. ASSUME NEW v \in Workers, NEW c, claims' = [claims EXCEPT ![v] = c], c.taken \subseteq claims[v].taken
        PROVE  NoMore
    BY <1>0, <1>2
  <1>3. ASSUME NEW v \in Workers, Claims(v) \/ ClaimRaises(v) \/ Crash(v) PROVE NoMore
    <2>1. NoClaim.taken = {} BY DEF NoClaim
    <2>2. CASE claims' = [claims EXCEPT ![v] = NoClaim] BY <1>2, <2>1, <2>2
    <2>3. CASE Selects(v)
      <3> DEFINE Fresh(S) == [NoClaim EXCEPT !.locks = S, !.todo = S]
      <3>1. PICK S : claims' = [claims EXCEPT ![v] = Fresh(S)] BY <2>3 DEF Selects
      <3>2. Fresh(S).taken = {} BY DEF NoClaim
      <3> HIDE DEF Fresh
      <3> QED BY <1>2, <3>1, <3>2
    <2> QED BY <1>3, <2>2, <2>3 DEF Claims, Claim, ClaimRaises, Crash
  <1>4. ASSUME NEW v \in Workers, Stop(v) PROVE NoMore
    <2> DEFINE c == [claims[v] EXCEPT !.heard = Idle(v)]
    <2>1. claims' = [claims EXCEPT ![v] = c] BY <1>4 DEF Stop
    <2>2. c.taken = claims[v].taken BY <1>0 DEF ClaimUnderWay
    <2> HIDE DEF c
    <2> QED BY <1>2, <2>1, <2>2
  <1>5. CASE \/ \E j \in Jobs : Enqueue(j) \/ Cancel(j) \/ Requeue(j)
             \/ OpenStore \/ Tick \/ UNCHANGED vars
    BY <1>1, <1>5 DEF Enqueue, Cancel, Requeue, OpenStore, Tick, vars
  <1>6. ASSUME NEW v \in Workers, NEW j \in Jobs, WorkerCancel(v, j) PROVE NoMore
    BY <1>1, <1>6 DEF WorkerCancel
  <1>7. ASSUME NEW r \in runs, NEW o \in Outcomes, HandlerEnds(r, o) PROVE NoMore
    BY <1>1, <1>7 DEF HandlerEnds
  <1>8. ASSUME NEW r \in runs, Settle(r) PROVE NoMore
    BY <1>1, <1>8 DEF Settle, MarkSucceeded, MarkFailed, Defer, ReadAfterCancel
  <1>9. ASSUME NEW r \in runs,
               SettlementRaises(r) \/ Renew(r) \/ LeaseLost(r) \/ HeartbeatRaises(r)
        PROVE  NoMore
    BY <1>1, <1>9 DEF SettlementRaises, Renew, LeaseLost, HeartbeatRaises
  <1> QED BY <1>3, <1>4, <1>5, <1>6, <1>7, <1>8, <1>9 DEF Next

LEMMA ScopeStep == ASSUME IInv, IInv', ScopeInv, [Next]_vars PROVE ScopeInv'
  <1> SUFFICES ASSUME NEW w \in Workers, NEW i \in Jobs PROVE Within(w, Scope[i])'
    BY DEF ScopeInv
  <1>1. CASE \E v \in Workers, j \in Jobs : Counts(v, j) BY <1>1, CountsWithin
  <1>2. CASE \E v \in Workers : Claim(v) BY <1>2, CommitWithin
  <1>3. CASE /\ ~ \E v \in Workers, j \in Jobs : Counts(v, j)
             /\ ~ \E v \in Workers : Claim(v)
    <2>1. \A k \in Jobs : RowKept(rows[k], rows'[k]) BY <1>3, OtherStepsKeepRows
    <2>2. claims'[w].taken \subseteq claims[w].taken BY <1>3, OtherStepsTakeNoMore
    <2>3. Within(w, Scope[i]) BY DEF ScopeInv
    <2> QED BY <2>1, <2>2, <2>3, KeptWithin
  <1> QED BY <1>1, <1>2, <1>3

LEMMA ScopeInit == Init => ScopeInv
  <1> SUFFICES ASSUME Init, NEW w \in Workers, NEW j \in Jobs PROVE Within(w, Scope[j])
    BY DEF ScopeInv
  <1>1. Active(rows, Scope[j]) = {} BY DEF Init, Active
  <1>2. Own(rows, w, Scope[j]) = {} BY <1>1 DEF Own
  <1>3. Live(rows, w, Scope[j]) \cup Taken(w, Scope[j]) = {} BY <1>2 DEF Live, Taken, Init, NoClaim
  <1> QED BY <1>2, <1>3, FS_EmptySet, JobsAssumption DEF Within

\* One worker never has more leases in a scope than per_scope_limit, however its
\* claims overlap with those of others and with its own settlements.
THEOREM ScopeBound == Spec => []WorkerScopeLimit
  <1>1. IInv /\ IInv' /\ ScopeInv /\ [Next]_vars => ScopeInv' BY ScopeStep
  <1>2. ScopeInv => WorkerScopeLimit BY DEF ScopeInv, Within, Own, WorkerScopeLimit
  <1> QED BY <1>1, <1>2, ScopeInit, Invariance, PTL DEF Spec

-----------------------------------------------------------------------------
\* What may become of one row that has ended.
StaysEnded(row, new) ==
    /\ row.status = "succeeded" => new = row
    /\ row.status \in {"failed", "cancelled"} /\ new.status # row.status
          => \/ new.status = "pending" /\ new.attempts = 0
             \/ row.status = "failed" /\ new.status = "cancelled"

\* No step revives a job that has ended, requeue excepted.
LEMMA StepStaysEnded == IInv /\ [Next]_vars => \A j \in Jobs : StaysEnded(rows[j], rows'[j])
  <1> SUFFICES ASSUME IInv, [Next]_vars, NEW k \in Jobs PROVE StaysEnded(rows[k], rows'[k])
    OBVIOUS
  <1>0. RowOK(k, rows[k], charged[k]) /\ rows[k] \in Row BY DEF IInv, TableOK
  <1>a. rows \in [Jobs -> Row] BY DEF IInv, TableOK
  <1>1. CASE rows'[k] = rows[k] BY <1>1 DEF StaysEnded
  <1>2. ASSUME NEW j \in Jobs, Enqueue(j) PROVE StaysEnded(rows[k], rows'[k])
    <2>1. CASE j = k BY <1>2, <2>1 DEF Enqueue, StaysEnded
    <2>2. CASE j # k BY <1>1, <1>2, <2>2, <1>a DEF Enqueue
    <2> QED BY <2>1, <2>2
  <1>3. ASSUME NEW j \in Jobs, rows' = [rows EXCEPT ![j] = Released(@, "cancelled")], Cancellable(rows[j])
        PROVE  StaysEnded(rows[k], rows'[k])
    <2>1. CASE j = k
      <3>1. rows'[k].status = "cancelled" BY <1>0, <1>3, <1>a, <2>1 DEF Released, Row
      <3> QED BY <1>3, <2>1, <3>1 DEF StaysEnded, Cancellable
    <2>2. CASE j # k BY <1>1, <1>3, <2>2, <1>a
    <2> QED BY <2>1, <2>2
  <1>4. ASSUME NEW j \in Jobs, Requeue(j) PROVE StaysEnded(rows[k], rows'[k])
    <2>1. CASE j = k
      <3>1. rows'[k].status = "pending" /\ rows'[k].attempts = 0
        BY <1>0, <1>4, <1>a, <2>1 DEF Requeue, Released, Row
      <3> QED BY <1>4, <2>1, <3>1 DEF StaysEnded, Requeue, Requeueable
    <2>2. CASE j # k BY <1>1, <1>4, <2>2, <1>a DEF Requeue
    <2> QED BY <2>1, <2>2
  <1>5. CASE OpenStore
    <2>1. rows[k].status # "running" => rows'[k] = rows[k]
      BY <1>0, <1>5, RecoveredRow DEF OpenStore, RecoveredRows
    <2> QED BY <1>1, <2>1 DEF StaysEnded
  <1>6. ASSUME NEW w \in Workers, Claims(w) PROVE StaysEnded(rows[k], rows'[k])
    <2>1. rows[k].status # "running" => RecoveredRows[k] = rows[k]
      BY <1>0, RecoveredRow DEF RecoveredRows
    <2>2. CASE rows' = RecoveredRows BY <1>1, <2>1, <2>2 DEF StaysEnded
    <2>3. CASE Claim(w)
      <3>1. rows'[k] = IF k \in claims[w].taken THEN ClaimedRow(RecoveredRows[k], w) ELSE RecoveredRows[k]
        BY <2>3 DEF Claim
      <3>2. k \in claims[w].taken => RecoveredRows[k].status = "pending"
        BY DEF IInv, ClaimsFit, Ready, RecoveredRows
      <3> QED BY <1>1, <2>1, <3>1, <3>2 DEF StaysEnded
    <2> QED BY <1>1, <1>6, <2>2, <2>3 DEF Claims, Selects, Counts
  <1>7. ASSUME NEW r \in runs, NEW row, rows' = [rows EXCEPT ![r.job] = row], Holds(r, rows[r.job])
        PROVE  StaysEnded(rows[k], rows'[k])
    <2>1. CASE r.job = k BY <1>7, <2>1 DEF Holds, StaysEnded
    <2>2. CASE r.job # k BY <1>1, <1>7, <2>2, <1>a
    <2> QED BY <2>1, <2>2
  <1>8. ASSUME NEW r \in runs, Settle(r) PROVE StaysEnded(rows[k], rows'[k])
    <2>1. CASE MarkSucceeded(r) BY <1>1, <1>7, <2>1 DEF MarkSucceeded
    <2>2. CASE MarkFailed(r) BY <1>1, <1>7, <2>2 DEF MarkFailed
    <2>3. CASE Defer(r) BY <1>1, <1>7, <2>3 DEF Defer
    <2>4. CASE ReadAfterCancel(r) BY <1>1, <2>4 DEF ReadAfterCancel
    <2> QED BY <1>8, <2>1, <2>2, <2>3, <2>4 DEF Settle
  <1>9. ASSUME NEW r \in runs, Renew(r) PROVE StaysEnded(rows[k], rows'[k])
    BY <1>7, <1>9 DEF Renew
  <1>10. ASSUME NEW w \in Workers, NEW j \in Jobs, WorkerCancel(w, j) PROVE StaysEnded(rows[k], rows'[k])
    BY <1>1, <1>3, <1>10 DEF WorkerCancel
  <1>11. CASE Tick
    <2>1. rows'[k] = [rows[k] EXCEPT !.left = Dec(@), !.wait = Dec(@)] BY <1>11 DEF Tick
    <2>2. rows'[k].status = rows[k].status BY <1>0, <2>1 DEF Row
    <2>3. rows[k].status = "succeeded" => rows[k].left = 0 /\ rows[k].wait = 0 BY <1>0 DEF RowOK
    <2>4. ASSUME rows[k].status = "succeeded" PROVE rows'[k] = rows[k]
      <3>1. Dec(rows[k].left) = rows[k].left /\ Dec(rows[k].wait) = rows[k].wait
        BY <2>3, <2>4 DEF Dec
      <3>2. rows'[k] = [rows[k] EXCEPT !.left = rows[k].left, !.wait = rows[k].wait]
        BY <2>1, <3>1
      <3> QED BY <1>0, <3>2 DEF Row
    <2> QED BY <2>2, <2>4 DEF StaysEnded
  <1>12. CASE \/ \E w \in Workers : ClaimRaises(w) \/ Stop(w) \/ Crash(w)
              \/ \E r \in runs, o \in Outcomes : HandlerEnds(r, o)
              \/ \E r \in runs : SettlementRaises(r) \/ LeaseLost(r) \/ HeartbeatRaises(r)
              \/ UNCHANGED vars
    BY <1>1, <1>12 DEF ClaimRaises, Stop, Crash, HandlerEnds, SettlementRaises, LeaseLost, HeartbeatRaises, vars
  <1>13. ASSUME NEW j \in Jobs, Cancel(j) PROVE StaysEnded(rows[k], rows'[k])
    BY <1>3, <1>13 DEF Cancel
  <1> QED
    BY <1>2, <1>4, <1>5, <1>6, <1>8, <1>9, <1>10, <1>11, <1>12, <1>13 DEF Next

\* Success is for ever, and only requeue brings a failed or cancelled job back.
THEOREM EndedStaysEnded == Spec => TerminalIsFinal
  <1>1. IInv /\ [Next]_vars =>
          [\A j \in Jobs :
              /\ rows[j].status = "succeeded" => rows'[j] = rows[j]
              /\ rows[j].status \in {"failed", "cancelled"} /\ rows'[j].status # rows[j].status
                    => \/ rows'[j].status = "pending" /\ rows'[j].attempts = 0
                       \/ rows[j].status = "failed" /\ rows'[j].status = "cancelled"]_vars
    BY StepStaysEnded DEF StaysEnded
  <1> QED BY <1>1, Invariance, PTL DEF Spec, TerminalIsFinal

-----------------------------------------------------------------------------
(***************************************************************************)
(* DurableJobs implements FencedQueue.                                     *)
(*                                                                         *)
(* The abstract state is a function of the rows and of the turns that the  *)
(* runs still speak for.  StepMoves shows that a step of the queue moves   *)
(* every row as FencedQueue allows (RowMoves), StepTurns that only a claim *)
(* puts a new turn out, and MoveOfRow carries the first over to the        *)
(* abstract jobs.                                                          *)
(***************************************************************************)

Turns(R) == {<<r.job, r.gen>> : r \in R}

\* A turn is at least the first: what a run can store is a number of its job's.
TurnsCount == \A r \in runs : r.gen >= 1

RowTaken(row, new) ==
    row.status \in {"pending", "running"} /\ new.status = "running" /\ new.gen = row.gen + 1

SameTurn(row, new) == new.gen = row.gen

\* What a step may do to one row; out tells whether the row's turn is out.
RowMoves(row, new, out) ==
    \/ /\ SameTurn(row, new) /\ new.status = row.status
       /\ row.status = "succeeded" => new.result = row.result
    \/ SameTurn(row, new) /\ row.status = "absent" /\ new.status = "pending"
    \/ RowTaken(row, new)
    \/ SameTurn(row, new) /\ row.status = "running" /\ new.status = "pending"
    \/ /\ SameTurn(row, new) /\ row.status = "running" /\ out
       /\ new.status = "succeeded" /\ new.result \in 1 .. row.gen
    \/ /\ SameTurn(row, new) /\ row.status \in {"pending", "running", "failed"}
       /\ new.status \in {"failed", "cancelled"}
    \/ /\ SameTurn(row, new) /\ row.status \in {"failed", "cancelled"}
       /\ new.status = "pending"

-----------------------------------------------------------------------------
\* A row that moves as it may is a job that moves as it may.
LEMMA MoveOfRow ==
    ASSUME NEW j \in Jobs, rows[j] \in Row, rows'[j] \in Row,
           RowMoves(rows[j], rows'[j], <<j, rows[j].gen>> \in Turns(runs))
    PROVE  Queue!Move(j) \/ SeenJob(j)' = SeenJob(j)
  <1> DEFINE row == rows[j]
             new == rows'[j]
             seen == SeenJob(j)
             next == SeenJob(j)'
  <1>0. /\ row.gen \in Nat /\ new.gen \in Nat
        /\ row.status \in Statuses /\ new.status \in Statuses
    BY DEF Row
  <1>a. seen = [state |-> StateOf(row.status), turn |-> row.gen,
                result |-> IF row.status = "succeeded" THEN row.result ELSE 0]
    BY DEF SeenJob
  <1>b. next = [state |-> StateOf(new.status), turn |-> new.gen,
                result |-> IF new.status = "succeeded" THEN new.result ELSE 0]
    BY DEF SeenJob, StateOf
  <1> USE DEF StateOf, SameTurn
  <1>1. CASE SameTurn(row, new) /\ new.status = row.status
             /\ (row.status = "succeeded" => new.result = row.result)
    BY <1>1, <1>a, <1>b
  <1>2. CASE SameTurn(row, new) /\ row.status = "absent" /\ new.status = "pending"
    <2>1. seen.state = "absent" /\ next = [seen EXCEPT !.state = "waiting"] BY <1>2, <1>a, <1>b
    <2> QED BY <2>1 DEF Queue!Move, Queue!Offer, Queue!Goes
  <1>3. CASE RowTaken(row, new)
    <2>1. seen.state \in {"waiting", "held"} /\ seen.turn = row.gen /\ seen.result = 0
      BY <1>3, <1>a DEF RowTaken
    <2>2. next = [state |-> "held", turn |-> seen.turn + 1, result |-> seen.result]
      BY <1>3, <1>b, <2>1 DEF RowTaken
    <2> QED BY <2>1, <2>2 DEF Queue!Move, Queue!Take
  <1>4. CASE SameTurn(row, new) /\ row.status = "running" /\ new.status = "pending"
    <2>1. seen.state = "held" /\ next = [seen EXCEPT !.state = "waiting"] BY <1>4, <1>a, <1>b
    <2> QED BY <2>1 DEF Queue!Move, Queue!Return, Queue!Goes
  <1>5. CASE /\ SameTurn(row, new) /\ row.status = "running" /\ <<j, row.gen>> \in Turns(runs)
             /\ new.status = "succeeded" /\ new.result \in 1 .. row.gen
    <2>1. /\ seen.state = "held" /\ seen.turn = row.gen
          /\ next = [state |-> "succeeded", turn |-> seen.turn, result |-> new.result]
      BY <1>5, <1>a, <1>b
    <2>2. <<j, seen.turn>> \in {<<r.job, r.gen>> : r \in runs} BY <1>5, <2>1 DEF Turns
    <2>3. new.result \in 1 .. seen.turn BY <1>5, <2>1
    <2> QED BY <2>1, <2>2, <2>3 DEF Queue!Move, Queue!Succeed
  <1>6. CASE /\ SameTurn(row, new) /\ row.status \in {"pending", "running", "failed"}
             /\ new.status \in {"failed", "cancelled"}
    <2>1. /\ seen.state \in {"waiting", "held", "failed"}
          /\ next = [seen EXCEPT !.state = new.status]
      BY <1>6, <1>a, <1>b
    <2> QED BY <1>6, <2>1 DEF Queue!Move, Queue!Abandon, Queue!Goes, Queue!Abandoned
  <1>7. CASE /\ SameTurn(row, new) /\ row.status \in {"failed", "cancelled"}
             /\ new.status = "pending"
    <2>1. seen.state \in {"failed", "cancelled"} /\ next = [seen EXCEPT !.state = "waiting"]
      BY <1>7, <1>a, <1>b
    <2> QED BY <2>1 DEF Queue!Move, Queue!Reopen, Queue!Goes, Queue!Abandoned
  <1> QED BY <1>1, <1>2, <1>3, <1>4, <1>5, <1>6, <1>7 DEF RowMoves

-----------------------------------------------------------------------------
\* Runs that change their phase, or end, put no turn out.
LEMMA TurnsOfFewer ==
    ASSUME NEW R, NEW S, \A r \in S : \E q \in R : r.job = q.job /\ r.gen = q.gen
    PROVE  Turns(S) \subseteq Turns(R)
  BY DEF Turns

\* Cancelling handlers changes phases only.
LEMMA TurnsOfCancelled ==
    ASSUME runs \subseteq Run, NEW R, CancelHandlers(R)
    PROVE  Turns(runs') \subseteq Turns(runs)
  <1>1. ASSUME NEW r \in runs' PROVE \E q \in runs : r.job = q.job /\ r.gen = q.gen
    <2>1. PICK q \in runs : r = IF q \in R /\ q.phase = "running"
                                THEN [q EXCEPT !.phase = "cancelled"] ELSE q
      BY <1>1 DEF CancelHandlers
    <2>2. q \in Run OBVIOUS
    <2> QED BY <2>1, <2>2 DEF Run
  <1> QED BY <1>1, TurnsOfFewer

\* A run that ends, or goes on in another phase, puts no turn out.
LEMMA TurnsOfRun ==
    ASSUME runs \subseteq Run, NEW r \in runs, NEW o,
           \/ runs' = runs \ {r}
           \/ runs' = (runs \ {r}) \cup {[r EXCEPT !.phase = o]}
    PROVE  Turns(runs') \subseteq Turns(runs)
  <1>0. r \in Run OBVIOUS
  <1>1. ASSUME NEW s \in runs' PROVE \E q \in runs : s.job = q.job /\ s.gen = q.gen
    <2>1. CASE s \in runs BY <2>1
    <2>2. CASE s = [r EXCEPT !.phase = o]
      <3>1. s.job = r.job /\ s.gen = r.gen BY <1>0, <2>2 DEF Run
      <3> QED BY <3>1
    <2> QED BY <1>1, <2>1, <2>2
  <1> QED BY <1>1, TurnsOfFewer

\* What the commit of a claim does to the rows and to the turns.
LEMMA ClaimMoves ==
    ASSUME IInv, NEW w \in Workers, Claim(w)
    PROVE  /\ \A k \in Jobs : RowMoves(rows[k], rows'[k], <<k, rows[k].gen>> \in Turns(runs))
           /\ \A o \in Turns(runs') \ Turns(runs) :
                 \E j \in Jobs : RowTaken(rows[j], rows'[j]) /\ o = <<j, rows'[j].gen>>
           /\ \A r \in runs' \ runs : r.gen >= 1
  <1> DEFINE table == RecoveredRows
             T == claims[w].taken
  <1>2. /\ rows' = [j \in Jobs |-> IF j \in T THEN ClaimedRow(table[j], w) ELSE table[j]]
        /\ runs' = runs \/ runs' = runs \cup {NewRun(table, w, j) : j \in T}
    BY DEF Claim
  <1>3. T \subseteq Jobs /\ \A j \in T : table[j].status = "pending"
    BY DEF IInv, ClaimsFit, ClaimUnderWay, Ready, RecoveredRows
  <1> HIDE DEF T
  <1>4. ASSUME NEW k \in Jobs
        PROVE  /\ table[k] \in Row /\ table[k].gen = rows[k].gen
               /\ rows[k].status # "running" => table[k] = rows[k]
               /\ rows[k].status = "running" =>
                     table[k] = rows[k] \/ table[k].status \in {"pending", "failed"}
    <2>1. RowOK(k, rows[k], charged[k]) BY DEF IInv, TableOK
    <2>2. table[k] = Recovered(k, rows[k]) BY DEF RecoveredRows
    <2>3. /\ RowOK(k, table[k], IF Expired(rows[k]) /\ k \notin Resume THEN charged[k] + 1 ELSE charged[k])
          /\ table[k].gen = rows[k].gen
          /\ rows[k].status # "running" => table[k] = rows[k]
      BY <2>1, <2>2, RecoveredRow
    <2>4. table[k] = rows[k] \/ table[k].status \in {"pending", "failed"}
      <3>1. rows[k] \in Row BY <2>1 DEF RowOK
      <3>2. /\ Released(rows[k], "pending") \in Row /\ Released(rows[k], "pending").status = "pending"
            /\ Released(rows[k], "failed") \in Row /\ Released(rows[k], "failed").status = "failed"
        BY <3>1, ReleasedRow DEF Statuses
      <3>3. CASE ~Expired(rows[k]) BY <2>2, <3>3 DEF Recovered
      <3>4. CASE Expired(rows[k]) BY <2>2, <3>2, <3>4 DEF Recovered, Row
      <3> QED BY <3>3, <3>4
    <2> QED BY <2>3, <2>4 DEF RowOK
  <1>5. ASSUME NEW k \in T
        PROVE  /\ k \in Jobs /\ RowTaken(rows[k], rows'[k])
               /\ NewRun(table, w, k).job = k /\ NewRun(table, w, k).gen = rows'[k].gen
               /\ rows'[k].gen = rows[k].gen + 1 /\ rows[k].gen \in Nat
    <2>1. k \in Jobs /\ table[k].status = "pending" BY <1>3
    <2>2. table[k] \in Row /\ table[k].gen = rows[k].gen BY <1>4, <2>1
    <2>3. rows[k].status \in {"pending", "running"} BY <1>4, <2>1
    <2>4. rows'[k] = ClaimedRow(table[k], w) BY <1>2, <2>1
    <2>5. rows'[k].status = "running" /\ rows'[k].gen = rows[k].gen + 1
      BY <2>2, <2>4 DEF ClaimedRow, Row
    <2>6. NewRun(table, w, k).job = k /\ NewRun(table, w, k).gen = rows'[k].gen
      BY <2>4 DEF NewRun
    <2> QED BY <2>1, <2>2, <2>3, <2>5, <2>6 DEF RowTaken, Row
  <1>6. ASSUME NEW k \in Jobs
        PROVE  RowMoves(rows[k], rows'[k], <<k, rows[k].gen>> \in Turns(runs))
    <2>1. CASE k \in T BY <1>5, <2>1 DEF RowMoves
    <2>2. CASE k \notin T
      <3>1. rows'[k] = table[k] BY <1>2, <2>2
      <3> QED BY <1>4, <3>1 DEF RowMoves, SameTurn
    <2> QED BY <2>1, <2>2
  <1>7. ASSUME NEW o \in Turns(runs') \ Turns(runs)
        PROVE  \E j \in Jobs : RowTaken(rows[j], rows'[j]) /\ o = <<j, rows'[j].gen>>
    <2>1. PICK r \in runs' : o = <<r.job, r.gen>> BY DEF Turns
    <2>2. r \notin runs BY <2>1 DEF Turns
    <2>3. PICK k \in T : r = NewRun(table, w, k) BY <1>2, <2>2
    <2> QED BY <1>5, <2>1, <2>3
  <1>8. ASSUME NEW r \in runs' \ runs PROVE r.gen >= 1
    <2>1. PICK k \in T : r = NewRun(table, w, k) BY <1>2
    <2> QED BY <1>5, <2>1
  <1> QED BY <1>6, <1>7, <1>8

-----------------------------------------------------------------------------
\* Steps other than a claim put no turn out.
LEMMA OtherStepsPutNoTurnOut ==
    ASSUME IInv, [Next]_vars, ~ \E w \in Workers : Claim(w)
    PROVE  Turns(runs') \subseteq Turns(runs)
  <1>0. runs \subseteq Run BY DEF IInv, RunsFit
  <1>1. CASE runs' = runs BY <1>1
  <1>2. ASSUME NEW j \in Jobs, Enqueue(j) \/ Cancel(j) \/ Requeue(j) PROVE runs' = runs
    BY <1>2 DEF Enqueue, Cancel, Requeue
  <1>3. CASE OpenStore \/ Tick \/ UNCHANGED vars BY <1>1, <1>3 DEF OpenStore, Tick, vars
  <1>c. ASSUME NEW w \in Workers, Claims(w) \/ ClaimRaises(w) PROVE runs' = runs
    BY <1>c DEF Claims, Selects, Counts, ClaimRaises
  <1>4. ASSUME NEW w \in Workers, Stop(w) PROVE Turns(runs') \subseteq Turns(runs)
    BY <1>0, <1>4, TurnsOfCancelled DEF Stop
  <1>5. ASSUME NEW w \in Workers, Crash(w) PROVE Turns(runs') \subseteq Turns(runs)
    BY <1>5 DEF Crash, Turns
  <1>6. ASSUME NEW w \in Workers, NEW j \in Jobs, WorkerCancel(w, j)
        PROVE  Turns(runs') \subseteq Turns(runs)
    BY <1>0, <1>6, TurnsOfCancelled DEF WorkerCancel
  <1>7. ASSUME NEW r \in runs, NEW o \in Outcomes, HandlerEnds(r, o)
        PROVE  Turns(runs') \subseteq Turns(runs)
    BY <1>0, <1>7, TurnsOfRun DEF HandlerEnds
  <1>8. ASSUME NEW r \in runs, Settle(r) \/ SettlementRaises(r)
        PROVE  Turns(runs') \subseteq Turns(runs)
    <2>1. CASE EndRun(r) BY <1>0, <2>1, TurnsOfRun DEF EndRun
    <2>2. CASE ReadAfterCancel(r)
      BY <1>0, <2>1, <2>2, TurnsOfRun DEF ReadAfterCancel
    <2> QED BY <1>8, <2>1, <2>2 DEF Settle, MarkSucceeded, MarkFailed, Defer, SettlementRaises
  <1>9. ASSUME NEW r \in runs, Renew(r) PROVE runs' = runs BY <1>9 DEF Renew
  <1>10. ASSUME NEW r \in runs, LeaseLost(r) \/ HeartbeatRaises(r)
         PROVE  Turns(runs') \subseteq Turns(runs)
    BY <1>0, <1>10, TurnsOfCancelled DEF LeaseLost, HeartbeatRaises
  <1> QED
    BY <1>1, <1>2, <1>3, <1>c, <1>4, <1>5, <1>6, <1>7, <1>8, <1>9, <1>10 DEF Next

\* Only a job that is being taken gets a new turn, and that turn is out.
LEMMA StepTurns ==
    ASSUME IInv, [Next]_vars
    PROVE  \A o \in Turns(runs') \ Turns(runs) :
              \E j \in Jobs : RowTaken(rows[j], rows'[j]) /\ o = <<j, rows'[j].gen>>
  <1>1. CASE \E w \in Workers : Claim(w) BY <1>1, ClaimMoves
  <1>2. CASE ~ \E w \in Workers : Claim(w) BY <1>2, OtherStepsPutNoTurnOut
  <1> QED BY <1>1, <1>2

\* Turns are numbered from one.
THEOREM TurnsStartAtOne == Spec => []TurnsCount
  <1>1. Init => TurnsCount BY DEF Init, TurnsCount
  <1>2. IInv /\ TurnsCount /\ [Next]_vars => TurnsCount'
    <2> SUFFICES ASSUME IInv, TurnsCount, [Next]_vars, NEW r \in runs' PROVE r.gen >= 1
      BY DEF TurnsCount
    <2>1. CASE \E w \in Workers : Claim(w)
      <3>1. CASE r \in runs BY <3>1 DEF TurnsCount
      <3>2. CASE r \notin runs BY <2>1, <3>2, ClaimMoves
      <3> QED BY <3>1, <3>2
    <2>2. CASE ~ \E w \in Workers : Claim(w)
      <3>1. <<r.job, r.gen>> \in Turns(runs) BY <2>2, OtherStepsPutNoTurnOut DEF Turns
      <3>2. PICK q \in runs : <<r.job, r.gen>> = <<q.job, q.gen>> BY <3>1 DEF Turns
      <3> QED BY <3>2 DEF TurnsCount
    <2> QED BY <2>1, <2>2
  <1> QED BY <1>1, <1>2, Invariance, PTL DEF Spec

-----------------------------------------------------------------------------
\* Every step moves every row as it may.
LEMMA StepMoves ==
    ASSUME IInv, TurnsCount, [Next]_vars, NEW k \in Jobs
    PROVE  RowMoves(rows[k], rows'[k], <<k, rows[k].gen>> \in Turns(runs))
  <1> DEFINE Moves == RowMoves(rows[k], rows'[k], <<k, rows[k].gen>> \in Turns(runs))
  <1>0. /\ rows[k] \in Row /\ RowOK(k, rows[k], charged[k])
        /\ rows \in [Jobs -> Row] /\ runs \subseteq Run
    BY DEF IInv, TableOK, RunsFit
  <1>1. ASSUME rows'[k] = rows[k] PROVE Moves BY <1>1 DEF RowMoves, SameTurn
  <1>2. ASSUME NEW s \in Statuses
        PROVE  Released(rows[k], s).status = s /\ Released(rows[k], s).gen = rows[k].gen
    BY <1>0, ReleasedRow
  <1>3. ASSUME NEW j \in Jobs, Enqueue(j) PROVE Moves
    <2>1. CASE j # k BY <1>0, <1>1, <1>3, <2>1 DEF Enqueue
    <2>2. CASE j = k
      <3>1. rows[k].status = "absent" /\ rows'[k].status = "pending" /\ rows'[k].gen = rows[k].gen
        BY <1>0, <1>3, <2>2 DEF Enqueue, Row
      <3> QED BY <3>1 DEF RowMoves, SameTurn
    <2> QED BY <2>1, <2>2
  <1>4. ASSUME NEW j \in Jobs, rows' = [rows EXCEPT ![j] = Released(@, "cancelled")], Cancellable(rows[j])
        PROVE  Moves
    <2>1. CASE j # k BY <1>0, <1>1, <1>4, <2>1
    <2>2. CASE j = k
      <3>1. rows'[k].status = "cancelled" /\ rows'[k].gen = rows[k].gen
        BY <1>0, <1>2, <1>4, <2>2 DEF Statuses
      <3> QED BY <1>4, <2>2, <3>1 DEF RowMoves, SameTurn, Cancellable
    <2> QED BY <2>1, <2>2
  <1>5. ASSUME NEW j \in Jobs, Requeue(j) PROVE Moves
    <2>1. CASE j # k BY <1>0, <1>1, <1>5, <2>1 DEF Requeue
    <2>2. CASE j = k
      <3>1. rows'[k].status = "pending" /\ rows'[k].gen = rows[k].gen
        BY <1>0, <1>5, <2>2 DEF Requeue, Released, Row
      <3> QED BY <1>5, <2>2, <3>1 DEF RowMoves, SameTurn, Requeue, Requeueable
    <2> QED BY <2>1, <2>2
  <1>6. CASE rows' = RecoveredRows
    <2>1. rows'[k] = Recovered(k, rows[k]) BY <1>6 DEF RecoveredRows
    <2>2. CASE ~Expired(rows[k]) BY <1>1, <2>1, <2>2 DEF Recovered
    <2>3. CASE Expired(rows[k])
      <3>1. rows[k].status = "running" BY <2>3 DEF Expired
      <3>2. rows'[k].gen = rows[k].gen BY <1>0, <2>1, RecoveredRow
      <3>3. /\ Released(rows[k], "pending") \in Row /\ Released(rows[k], "pending").status = "pending"
            /\ Released(rows[k], "failed") \in Row /\ Released(rows[k], "failed").status = "failed"
        BY <1>0, ReleasedRow DEF Statuses
      <3>4. rows'[k].status \in {"pending", "failed"} BY <2>1, <2>3, <3>3 DEF Recovered, Row
      <3> QED BY <3>1, <3>2, <3>4 DEF RowMoves, SameTurn
    <2> QED BY <2>2, <2>3
  <1>7. ASSUME NEW w \in Workers, Claims(w) PROVE Moves
    <2>1. CASE Claim(w) BY <2>1, ClaimMoves
    <2>2. CASE Selects(w) \/ \E j \in Jobs : Counts(w, j) BY <1>1, <1>6, <2>2 DEF Selects, Counts
    <2> QED BY <1>7, <2>1, <2>2 DEF Claims
  <1>8. ASSUME NEW r \in runs, NEW row, rows' = [rows EXCEPT ![r.job] = row], Holds(r, rows[r.job]),
               row.gen = rows[r.job].gen,
               \/ row.status \in {"running", "pending", "failed"}
               \/ row.status = "succeeded" /\ row.result = r.gen
        PROVE  Moves
    <2>1. CASE r.job # k BY <1>0, <1>1, <1>8, <2>1
    <2>2. CASE r.job = k
      <3>1. rows'[k] = row /\ rows[k].status = "running" /\ rows[k].gen = r.gen
        BY <1>0, <1>8, <2>2 DEF Holds
      <3>2. <<k, rows[k].gen>> \in Turns(runs) BY <2>2, <3>1 DEF Turns
      <3>3. r.gen \in 1 .. rows[k].gen BY <1>0, <3>1 DEF TurnsCount, Row
      <3> QED BY <1>8, <2>2, <3>1, <3>2, <3>3 DEF RowMoves, SameTurn
    <2> QED BY <2>1, <2>2
  <1>9. ASSUME NEW r \in runs, Settle(r) PROVE Moves
    <2>0. /\ r.job \in Jobs /\ rows[r.job] \in Row BY <1>0 DEF Run
    <2>1. CASE MarkSucceeded(r)
      <3> DEFINE row == [Released(rows[r.job], "succeeded") EXCEPT !.result = r.gen]
      <3>1. CASE Holds(r, rows[r.job])
        <4>1. rows' = [rows EXCEPT ![r.job] = row] BY <2>1, <3>1 DEF MarkSucceeded
        <4>2. row.gen = rows[r.job].gen /\ row.status = "succeeded" /\ row.result = r.gen
          BY <2>0, ReleasedRow DEF Statuses, Row
        <4> HIDE DEF row
        <4> QED BY <1>8, <3>1, <4>1, <4>2
      <3> QED BY <1>1, <2>1, <3>1 DEF MarkSucceeded
    <2>2. CASE MarkFailed(r)
      <3> DEFINE s == IF r.phase = "error" /\ r.att < MaxAttempts[r.job]
                          /\ rows[r.job].attempts < MaxAttempts[r.job] THEN "pending" ELSE "failed"
                 row == [Released(rows[r.job], s) EXCEPT !.wait = Delay]
      <3>1. CASE Holds(r, rows[r.job])
        <4>1. rows' = [rows EXCEPT ![r.job] = row] BY <2>2, <3>1 DEF MarkFailed
        <4>2. s \in {"pending", "failed"} OBVIOUS
        <4> HIDE DEF s
        <4>3. row.gen = rows[r.job].gen /\ row.status \in {"pending", "failed"}
          BY <2>0, <4>2, ReleasedRow DEF Statuses, Row
        <4> HIDE DEF row
        <4> QED BY <1>8, <3>1, <4>1, <4>3
      <3> QED BY <1>1, <2>2, <3>1 DEF MarkFailed
    <2>3. CASE Defer(r)
      <3> DEFINE delay == IF r.phase = "deferred" THEN Delay ELSE 0
                 row == DeferredRow(rows[r.job], delay)
      <3>1. CASE Holds(r, rows[r.job]) /\ rows[r.job].attempts = r.att
        <4>1. rows' = [rows EXCEPT ![r.job] = row] BY <2>3, <3>1 DEF Defer
        <4> HIDE DEF delay
        <4>2. row.gen = rows[r.job].gen /\ row.status = "pending"
          BY <2>0, ReleasedRow DEF Statuses, Row, DeferredRow
        <4> HIDE DEF row
        <4> QED BY <1>8, <3>1, <4>1, <4>2
      <3> QED BY <1>1, <2>3, <3>1 DEF Defer
    <2>4. CASE ReadAfterCancel(r) BY <1>1, <2>4 DEF ReadAfterCancel
    <2> QED BY <1>9, <2>1, <2>2, <2>3, <2>4 DEF Settle
  <1>10. ASSUME NEW r \in runs, Renew(r) PROVE Moves
    <2>0. /\ r.job \in Jobs /\ rows[r.job] \in Row BY <1>0 DEF Run
    <2> DEFINE row == [rows[r.job] EXCEPT !.left = Lease]
    <2>1. rows' = [rows EXCEPT ![r.job] = row] /\ Holds(r, rows[r.job]) BY <1>10 DEF Renew
    <2>2. row.gen = rows[r.job].gen /\ row.status = "running" BY <2>0, <2>1 DEF Row, Holds
    <2> HIDE DEF row
    <2> QED BY <1>8, <2>1, <2>2
  <1>11. ASSUME NEW w \in Workers, NEW j \in Jobs, WorkerCancel(w, j) PROVE Moves
    BY <1>1, <1>4, <1>11 DEF WorkerCancel
  <1>12. CASE Tick
    <2>1. rows'[k] = [rows[k] EXCEPT !.left = Dec(@), !.wait = Dec(@)] BY <1>12 DEF Tick
    <2>2. /\ rows'[k].status = rows[k].status /\ rows'[k].gen = rows[k].gen
          /\ rows'[k].result = rows[k].result
      BY <1>0, <2>1 DEF Row
    <2> QED BY <2>2 DEF RowMoves, SameTurn
  <1>13. CASE \/ \E w \in Workers : ClaimRaises(w) \/ Stop(w) \/ Crash(w)
              \/ \E r \in runs, o \in Outcomes : HandlerEnds(r, o)
              \/ \E r \in runs : SettlementRaises(r) \/ LeaseLost(r) \/ HeartbeatRaises(r)
              \/ UNCHANGED vars
    BY <1>1, <1>13 DEF ClaimRaises, Stop, Crash, HandlerEnds, SettlementRaises, LeaseLost, HeartbeatRaises, vars
  <1>14. ASSUME NEW j \in Jobs, Cancel(j) PROVE Moves BY <1>4, <1>14 DEF Cancel
  <1> QED
    BY <1>3, <1>5, <1>6, <1>7, <1>9, <1>10, <1>11, <1>12, <1>13, <1>14 DEF Next, OpenStore

\* One step of the queue is a step of FencedQueue, or none.
LEMMA StepRefines ==
    ASSUME IInv, IInv', TurnsCount, [Next]_vars
    PROVE  [Queue!Next]_(Queue!vars)
  <1> DEFINE job == [j \in Jobs |-> SeenJob(j)]
             out == {<<r.job, r.gen>> : r \in runs}
  <1>1. ASSUME NEW j \in Jobs PROVE Queue!Move(j) \/ SeenJob(j)' = SeenJob(j)
    <2>1. rows[j] \in Row /\ rows'[j] \in Row BY DEF IInv, TableOK
    <2>2. RowMoves(rows[j], rows'[j], <<j, rows[j].gen>> \in Turns(runs)) BY StepMoves
    <2> QED BY <2>1, <2>2, MoveOfRow
  <1>2. ASSUME NEW o \in out' \ out
        PROVE  \E j \in Jobs : Queue!Take(j) /\ o = <<j, SeenJob(j)'.turn>>
    <2>1. PICK j \in Jobs : RowTaken(rows[j], rows'[j]) /\ o = <<j, rows'[j].gen>>
      BY <1>2, StepTurns DEF Turns
    <2>2. rows[j].gen \in Nat BY DEF IInv, TableOK, Row
    <2>3. SeenJob(j).state \in {"waiting", "held"} /\ SeenJob(j).turn = rows[j].gen
          /\ SeenJob(j).result = 0
      BY <2>1 DEF SeenJob, StateOf, RowTaken
    <2>4. SeenJob(j)' = [state |-> "held", turn |-> SeenJob(j).turn + 1, result |-> SeenJob(j).result]
      BY <2>1, <2>3 DEF SeenJob, StateOf, RowTaken
    <2>5. SeenJob(j)'.turn = rows'[j].gen BY DEF SeenJob
    <2> QED BY <2>1, <2>3, <2>4, <2>5 DEF Queue!Take
  <1>3. \A j \in Jobs : Queue!Move(j) \/ job'[j] = job[j] BY <1>1
  <1>4. \A o \in out' \ out : \E j \in Jobs : Queue!Take(j) /\ o = <<j, job'[j].turn>>
    BY <1>2
  <1> QED BY <1>3, <1>4 DEF Queue!Next

\* The table and its workers implement a queue with fenced turns.
THEOREM Refinement == Spec => ImplementsFencedQueue
  <1>1. Init => Queue!Init BY DEF Init, Queue!Init, SeenJob, StateOf
  <1>2. IInv /\ IInv' /\ TurnsCount /\ [Next]_vars => [Queue!Next]_(Queue!vars)
    BY StepRefines
  <1> QED BY <1>1, <1>2, Invariance, TurnsStartAtOne, PTL
          DEF Spec, ImplementsFencedQueue, Queue!Spec
=============================================================================
