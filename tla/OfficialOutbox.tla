--------------------------- MODULE OfficialOutbox ---------------------------
(***************************************************************************)
(* The durable outbox of one QQ official endpoint: the delivery rows,      *)
(* their physical attempts and receipts (send_store.py, send_ledger.py),   *)
(* and the sender that drives them (sender.py) in processes that come and  *)
(* go and hold the account lease one at a time (lease.py).                 *)
(*                                                                         *)
(* Every outbox method is one database transaction and one action; a       *)
(* sender walks from one to the next with a program counter ("pc"), and    *)
(* anything may happen to the rows, the lease and the other process in     *)
(* between.  OfficialSender keeps one worker and one queue per endpoint,   *)
(* so a process has one lane here.  What the platform really did with a    *)
(* POST is the history field "plat": the program never reads it.           *)
(***************************************************************************)
EXTENDS Integers, Sequences, FiniteSets

CONSTANTS
    Deliveries,     \* delivery ids, in the order of enqueue_plan
    Ephemeral,      \* the deliveries whose payload is kept in RAM only
    Procs,          \* processes that may hold the account lease
    NoProc,
    PassiveLimit,   \* replies the platform allows to one inbound message
    MaxMsgs,        \* bound on inbound messages
    MaxFaults       \* bound on crashes, errors, refusals and other interference

ASSUME OutboxAssumption ==
    /\ Deliveries \subseteq Nat /\ IsFiniteSet(Deliveries)
    /\ Ephemeral \subseteq Deliveries
    /\ NoProc \notin Procs
    /\ PassiveLimit \in Nat /\ MaxMsgs \in Nat /\ MaxFaults \in Nat

VARIABLES
    row,        \* deliveries: status and the message each one replies to
    att,        \* delivery_attempts and delivery_receipts, a sequence per delivery
    holder,     \* the process whose lease token assert_epoch accepts
    route,      \* the endpoint: proactive sending denied, members authorised
    inbox,      \* newest inbound message, and whether it is younger than 300 s
    expired,    \* deliveries past expires_at
    proc,       \* what each process keeps in RAM
    faults      \* interference spent so far

vars == <<row, att, holder, route, inbox, expired, proc, faults>>

Statuses == {"absent", "pending", "sending", "committed", "failed", "ambiguous", "cancelled"}

AttemptStates == {"dispatched", "ambiguous", "unaccepted", "committed"}

\* How the platform can refuse: an error code that decides what _send does next.
Refusals == {"content", "denied", "exhausted", "auth", "rate", "format"}

Lane == [pc : {"idle", "route", "credential", "prepare", "post", "answer", "capture",
               "finalize", "unknown", "deny", "refused", "giveup", "broken", "lastresort"},
         d : Deliveries \cup {0}, mode : {"proactive", "passive"}, msg : Nat, seq : Nat,
         code : Refusals \cup {"none"}, auth : BOOLEAN, plain : BOOLEAN]

IdleLane == [pc |-> "idle", d |-> 0, mode |-> "proactive", msg |-> 0, seq |-> 0,
             code |-> "none", auth |-> FALSE, plain |-> FALSE]

\* A sender that has just been constructed, or none.
Fresh(phase) == [phase |-> phase, queue |-> <<>>, futures |-> {}, ram |-> {}, unrecorded |-> {},
                 receipts |-> {}, passive |-> [id |-> 0, used |-> 0, seq |-> 0],
                 todo |-> {}, lane |-> IdleLane]

Init ==
    /\ row = [d \in Deliveries |-> [status |-> "absent", replyTo |-> 0, plain |-> FALSE]]
    /\ att = [d \in Deliveries |-> <<>>]
    /\ holder = NoProc
    /\ route \in [denied : BOOLEAN, authorized : {TRUE}]
    /\ inbox = [newest |-> 0, recent |-> FALSE]
    /\ expired = {}
    /\ proc = [p \in Procs |-> Fresh("down")]
    /\ faults = 0

-----------------------------------------------------------------------------
(* Helpers.                                                                *)

Current(p) == holder = p

\* The step costs one unit of the environment's budget if cond holds.
SpendIf(cond) == IF cond THEN faults < MaxFaults /\ faults' = faults + 1 ELSE UNCHANGED faults

GoTo(p, pc) == proc' = [proc EXCEPT ![p].lane.pc = pc]

\* The end of one pass of _worker: the future is resolved, the lane is free.
Finished(me, d) == [me EXCEPT !.lane = IdleLane, !.futures = @ \ {d}]

\* LeaseLost in the lane: the sender stops and the runtime drops it.
LosesLease(p) ==
    /\ proc' = [proc EXCEPT ![p] = Fresh("down")]
    /\ UNCHANGED <<row, att, holder, route, inbox, expired, faults>>

\* stop() cancels the lane: a request on the wire is settled as unknown, a
\* response in hand is still recorded, everything else is dropped.
Halted(me) ==
    [me EXCEPT !.phase = "stopping", !.queue = <<>>, !.todo = {},
               !.lane = CASE @.pc \in {"post", "answer"} -> [@ EXCEPT !.pc = "unknown"]
                          [] @.pc \in {"capture", "finalize", "unknown"} -> @
                          [] OTHER -> IdleLane]

\* LeaseLost in the loop, which ends in stop().
LoopLosesLease(p) ==
    /\ proc' = [proc EXCEPT ![p] = Halted(@)]
    /\ UNCHANGED <<row, att, holder, route, inbox, expired, faults>>

\* delivery_attempts of the endpoint: the delivery and the number of each attempt.
Recorded == UNION {{d} \X DOMAIN att[d] : d \in Deliveries}

\* Those that replied to this inbound message, as passive_history finds them: an
\* ephemeral attempt stores no wire payload, so the message it answered is taken
\* from the delivery row instead.
RepliesTo(msg) ==
    {x \in Recorded :
        /\ att[x[1]][x[2]].mode = "passive"
        /\ msg = IF x[1] \in Ephemeral THEN row[x[1]].replyTo ELSE att[x[1]][x[2]].msg}

MaxOf(S) == IF S = {} THEN 0 ELSE CHOOSE x \in S : \A y \in S : y <= x

\* Mutant: a restart counts the replies again, but not the numbers they used.
SeedPassive_ByCount(msg) ==
    LET n == Cardinality({x \in RepliesTo(msg) : att[x[1]][x[2]].state # "unaccepted"})
    IN [id |-> msg, used |-> n, seq |-> n]

SeedPassive(msg) ==
    [id |-> msg,
     used |-> Cardinality({x \in RepliesTo(msg) : att[x[1]][x[2]].state # "unaccepted"}),
     seq |-> MaxOf({att[x[1]][x[2]].seq : x \in RepliesTo(msg)})]

\* Mutant: a slot is given back even by a send that took none.
Refund_Always(me) == [me EXCEPT !.passive.used = @ - 1]

\* _send forgets a passive slot it did not use.
Refund(me) == IF me.lane.mode = "passive" THEN [me EXCEPT !.passive.used = @ - 1] ELSE me

Last(d) == Len(att[d])

-----------------------------------------------------------------------------
(* Leases and processes.                                                   *)

\* The runtime takes the lease and constructs the sender.
Start(p) ==
    /\ proc[p].phase = "down"
    /\ holder = NoProc
    /\ holder' = p
    /\ proc' = [proc EXCEPT ![p] = Fresh("recovering")]
    /\ UNCHANGED <<row, att, route, inbox, expired, faults>>

\* outbox.recover: what was in flight when the last sender went away is unknown
\* from now on; receipts that were stored but not applied are collected.
Recover(p) ==
    /\ proc[p].phase = "recovering"
    /\ IF ~Current(p) THEN LosesLease(p)
       ELSE /\ att' = [d \in Deliveries |-> [n \in DOMAIN att[d] |->
                          IF att[d][n].state = "dispatched"
                          THEN [att[d][n] EXCEPT !.state = "ambiguous"] ELSE att[d][n]]]
            /\ row' = [d \in Deliveries |->
                          IF row[d].status = "sending"
                          THEN [row[d] EXCEPT !.status = "ambiguous"] ELSE row[d]]
            /\ proc' = [proc EXCEPT ![p].phase = "up", ![p].receipts =
                          {x \in Recorded : att[x[1]][x[2]].receipt = "stored"}]
            /\ UNCHANGED <<holder, route, inbox, expired, faults>>

\* The process dies; its advisory lock goes with its connection.
Crash(p) ==
    /\ proc[p].phase # "down"
    /\ SpendIf(TRUE)
    /\ proc' = [proc EXCEPT ![p] = Fresh("down")]
    /\ holder' = IF Current(p) THEN NoProc ELSE holder
    /\ UNCHANGED <<row, att, route, inbox, expired>>

\* The lease's connection dies under a process that goes on running.
LoseLease(p) ==
    /\ Current(p)
    /\ SpendIf(TRUE)
    /\ holder' = NoProc
    /\ UNCHANGED <<row, att, route, inbox, expired, proc>>

\* The runtime cancels run(), or an error in run() ends it: stop() follows.
Stop(p) ==
    /\ proc[p].phase = "up"
    /\ SpendIf(Current(p))
    /\ proc' = [proc EXCEPT ![p] = Halted(@)]
    /\ UNCHANGED <<row, att, holder, route, inbox, expired>>

Stopped(p) ==
    /\ proc[p].phase = "stopping" /\ proc[p].lane.pc = "idle"
    /\ proc' = [proc EXCEPT ![p] = Fresh("down")]
    /\ holder' = IF Current(p) THEN NoProc ELSE holder
    /\ UNCHANGED <<row, att, route, inbox, expired, faults>>

-----------------------------------------------------------------------------
(* The endpoint and its callers.                                           *)

\* A message of the endpoint is accepted by the gateway.
Inbound ==
    /\ inbox.newest < MaxMsgs
    /\ inbox' = [newest |-> inbox.newest + 1, recent |-> TRUE]
    /\ UNCHANGED <<row, att, holder, route, expired, proc, faults>>

\* 300 seconds pass.
GoStale ==
    /\ inbox.recent
    /\ SpendIf(TRUE)
    /\ inbox' = [inbox EXCEPT !.recent = FALSE]
    /\ UNCHANGED <<row, att, holder, route, expired, proc>>

\* MSG_REJECT and MSG_RECEIVE (or refresh_group_state), or the members' rights go.
RouteChanges ==
    /\ SpendIf(TRUE)
    /\ route' \in {[route EXCEPT !.denied = ~@], [route EXCEPT !.authorized = FALSE]}
    /\ UNCHANGED <<row, att, holder, inbox, expired, proc>>

Expire(d) ==
    /\ row[d].status # "absent" /\ d \notin expired
    /\ SpendIf(TRUE)
    /\ expired' = expired \cup {d}
    /\ UNCHANGED <<row, att, holder, route, inbox, proc>>

\* enqueue_plan, which freezes the message the delivery replies to.  A plan's
\* parts are inserted in the order of their ids; a code is only ever sent in
\* reply to somebody.
Enqueue(p, d) ==
    /\ proc[p].phase = "up" /\ Current(p)
    /\ route.authorized
    /\ d \in Ephemeral => inbox.newest > 0
    /\ row[d].status = "absent"
    /\ \A e \in Deliveries : e < d => row[e].status # "absent"
    /\ row' = [row EXCEPT ![d].status = "pending", ![d].replyTo = inbox.newest]
    /\ proc' = IF d \in Ephemeral THEN [proc EXCEPT ![p].ram = @ \cup {d}] ELSE proc
    /\ UNCHANGED <<att, holder, route, inbox, expired, faults>>

\* send_delivery: emit_ephemeral submits the row it has just written itself, without the loop.
SendDelivery(p, d) ==
    /\ proc[p].phase = "up" /\ Current(p)
    /\ d \in proc[p].ram /\ d \notin proc[p].futures
    /\ row[d].status = "pending"
    /\ proc' = [proc EXCEPT ![p].futures = @ \cup {d}, ![p].queue = Append(@, d)]
    /\ UNCHANGED <<row, att, holder, route, inbox, expired, faults>>

\* emit_ephemeral ends, with an outcome, after 30 seconds, by an error or by a cancellation:
\* a row that still waits is cancelled and the payload is forgotten.  A sender that has lost
\* its lease fails here and forgets nothing.
CancelEphemeral(p, d) ==
    /\ d \in proc[p].ram
    /\ Current(p)
    /\ SpendIf(row[d].status \in {"pending", "sending"} /\ d \notin expired)
    /\ row' = IF row[d].status = "pending" THEN [row EXCEPT ![d].status = "cancelled"] ELSE row
    /\ proc' = [proc EXCEPT ![p].ram = @ \ {d}]
    /\ UNCHANGED <<att, holder, route, inbox, expired>>

-----------------------------------------------------------------------------
(* The run loop.                                                           *)

\* A response the lane is recording at this moment.
InLane(me) == IF me.lane.pc \in {"capture", "finalize"} THEN {<<me.lane.d, Last(me.lane.d)>>} ELSE {}

\* recover() in the loop: a response that could not be stored is stored now.
LoopCapture(p) ==
    /\ proc[p].phase = "up"
    /\ \E x \in proc[p].unrecorded :
        /\ att' = [att EXCEPT ![x[1]][x[2]].receipt = IF @ = "none" THEN "stored" ELSE @]
        /\ proc' = [proc EXCEPT ![p].unrecorded = @ \ {x}, ![p].receipts = @ \cup {x}]
    /\ UNCHANGED <<row, holder, route, inbox, expired, faults>>

\* finalize_receipt: the canonical message, the attempt, the delivery and the
\* receipt change together; a receipt that was applied is left alone.
Apply(x) ==
    IF att[x[1]][x[2]].receipt = "applied" THEN UNCHANGED <<row, att>>
    ELSE /\ att' = [att EXCEPT ![x[1]][x[2]].receipt = "applied", ![x[1]][x[2]].state = "committed"]
         /\ row' = [row EXCEPT ![x[1]].status = "committed"]

LoopFinalize(p) ==
    /\ proc[p].phase = "up"
    /\ \E x \in proc[p].receipts :
        IF ~Current(p) THEN LoopLosesLease(p)
        ELSE /\ Apply(x)
             /\ proc' = [proc EXCEPT ![p].receipts = @ \ {x}]
             /\ UNCHANGED <<holder, route, inbox, expired, faults>>

\* Mutant: a delivery on the wire expires like one that waits.
ExpiredRows_Sending == [d \in Deliveries |->
                           IF row[d].status \in {"pending", "sending"} /\ d \in expired
                           THEN [row[d] EXCEPT !.status = "failed"] ELSE row[d]]

\* Mutant: everything that is not committed expires, an unknown outcome included.
ExpiredRows_Unknown == [d \in Deliveries |->
                           IF row[d].status \in {"pending", "ambiguous"} /\ d \in expired
                           THEN [row[d] EXCEPT !.status = "failed"] ELSE row[d]]

\* list_due: what has expired fails, what is pending is submitted in id order.
ExpiredRows == [d \in Deliveries |->
                   IF row[d].status = "pending" /\ d \in expired
                   THEN [row[d] EXCEPT !.status = "failed"] ELSE row[d]]

ListDue(p) ==
    /\ proc[p].phase = "up"
    /\ proc[p].todo = {}
    /\ proc[p].unrecorded \cup proc[p].receipts \subseteq InLane(proc[p])
    /\ IF ~Current(p) THEN LoopLosesLease(p)
       ELSE /\ row' = ExpiredRows
            /\ proc' = [proc EXCEPT ![p].todo = {d \in Deliveries : ExpiredRows[d].status = "pending"}]
            /\ UNCHANGED <<att, holder, route, inbox, expired, faults>>

\* _submit: a delivery that already has a future is not queued again.
Submit(p) ==
    /\ proc[p].phase = "up"
    /\ proc[p].todo # {}
    /\ LET d == CHOOSE x \in proc[p].todo : \A y \in proc[p].todo : x <= y
           me == [proc[p] EXCEPT !.todo = @ \ {d}]
       IN proc' = [proc EXCEPT ![p] =
                      IF d \in me.futures \/ row[d].status # "pending" THEN me
                      ELSE [me EXCEPT !.futures = @ \cup {d}, !.queue = Append(@, d)]]
    /\ UNCHANGED <<row, att, holder, route, inbox, expired, faults>>

-----------------------------------------------------------------------------
(* The lane: _worker and _send.                                            *)

AtPC(p, pc) == proc[p].phase \in {"up", "stopping"} /\ proc[p].lane.pc = pc

Take(p) ==
    /\ proc[p].phase = "up" /\ AtPC(p, "idle")
    /\ proc[p].queue # <<>>
    /\ proc' = [proc EXCEPT ![p].queue = Tail(@),
                            ![p].lane = [IdleLane EXCEPT !.pc = "route", !.d = Head(proc[p].queue)]]
    /\ UNCHANGED <<row, att, holder, route, inbox, expired, faults>>

\* The fences around the rate gate, the reading of the endpoint's route, and
\* rest.prepare_send: without an access token nothing is attempted.
ReadRoute(p) ==
    /\ AtPC(p, "route")
    /\ IF ~Current(p) THEN LosesLease(p)
       ELSE /\ \E pc \in {"credential", "giveup"} :
                  /\ proc' = [proc EXCEPT ![p].lane.pc = pc,
                        ![p].lane.mode = IF route.denied THEN "passive" ELSE "proactive"]
                  /\ SpendIf(pc = "giveup")
            /\ UNCHANGED <<row, att, holder, route, inbox, expired>>

\* _credential: a passive reply takes the next number of the newest message.
Credential(p) ==
    /\ AtPC(p, "credential")
    /\ LET me == proc[p]
           now == IF me.passive.id = inbox.newest THEN me.passive ELSE SeedPassive(inbox.newest)
       IN proc' = [proc EXCEPT ![p] =
            IF me.lane.mode = "proactive" THEN [me EXCEPT !.lane.pc = "prepare"]
            ELSE IF inbox.newest = 0 \/ ~inbox.recent THEN [me EXCEPT !.lane.pc = "giveup"]
            ELSE IF now.used >= PassiveLimit THEN [me EXCEPT !.lane.pc = "giveup", !.passive = now]
            ELSE [me EXCEPT !.passive = [now EXCEPT !.used = @ + 1, !.seq = @ + 1],
                            !.lane.pc = "prepare", !.lane.msg = inbox.newest, !.lane.seq = now.seq + 1]]
    /\ UNCHANGED <<row, att, holder, route, inbox, expired, faults>>

NewAttempt(lane) == [mode |-> lane.mode, msg |-> lane.msg, seq |-> lane.seq,
                     state |-> "dispatched", receipt |-> "none", plat |-> "none"]

Sendable(p, d) == route.authorized /\ d \notin expired /\ (d \in Ephemeral => d \in proc[p].ram)

\* prepare: the attempt is committed before anything is sent.
Prepare(p) ==
    /\ AtPC(p, "prepare")
    /\ LET d == proc[p].lane.d IN
       IF ~Current(p) THEN LosesLease(p)
       ELSE /\ IF row[d].status = "pending" /\ Sendable(p, d)
               THEN /\ att' = [att EXCEPT ![d] = Append(@, NewAttempt(proc[p].lane))]
                    /\ row' = [row EXCEPT ![d].status = "sending"]
                    /\ GoTo(p, "post")
               ELSE /\ row' = IF row[d].status = "pending"
                              THEN [row EXCEPT ![d].status = "failed"] ELSE row
                    /\ proc' = [proc EXCEPT ![p] = Finished(Refund(@), d)]
                    /\ UNCHANGED att
            /\ UNCHANGED <<holder, route, inbox, expired, faults>>

\* rest.send_message: the platform takes the message, refuses it, or never sees it.
Post(p) ==
    /\ AtPC(p, "post")
    /\ \E seen \in {"yes", "no"} :
        att' = [att EXCEPT ![proc[p].lane.d][Last(proc[p].lane.d)].plat = seen]
    /\ GoTo(p, "answer")
    /\ UNCHANGED <<row, holder, route, inbox, expired, faults>>

\* What comes back: the acceptance, a refusal that is certain, or nothing usable.
Answer(p) ==
    /\ AtPC(p, "answer")
    /\ LET d == proc[p].lane.d
           x == <<d, Last(d)>>
       IN \/ /\ att[d][Last(d)].plat = "yes"
             /\ proc' = [proc EXCEPT ![p].lane.pc = "capture", ![p].unrecorded = @ \cup {x}]
             /\ UNCHANGED faults
          \/ /\ att[d][Last(d)].plat = "no"
             /\ \E c \in Refusals :
                    proc' = [proc EXCEPT ![p].lane.code = c, ![p].lane.pc =
                        IF c = "denied" /\ proc[p].lane.mode = "proactive" THEN "deny" ELSE "refused"]
             /\ SpendIf(TRUE)
          \/ GoTo(p, "unknown") /\ SpendIf(TRUE)
    /\ UNCHANGED <<row, att, holder, route, inbox, expired>>

\* Mutant: a request that timed out is taken for one that was refused.
SettleUnknown_AsRefused(p) ==
    /\ AtPC(p, "unknown")
    /\ proc' = [proc EXCEPT ![p].lane.pc = "refused", ![p].lane.code = "rate"]
    /\ UNCHANGED <<row, att, holder, route, inbox, expired, faults>>

\* fail(error unknown): the delivery is parked and never sent again.
SettleUnknown(p) ==
    /\ AtPC(p, "unknown")
    /\ LET d == proc[p].lane.d IN
       IF ~Current(p) THEN LosesLease(p)
       ELSE /\ att' = [att EXCEPT ![d][Last(d)].state = "ambiguous"]
            /\ row' = [row EXCEPT ![d].status = "ambiguous"]
            /\ proc' = [proc EXCEPT ![p] = Finished(@, d)]
            /\ UNCHANGED <<holder, route, inbox, expired, faults>>

\* deny_proactive, before the refusal that taught it is settled.
Deny(p) ==
    /\ AtPC(p, "deny")
    /\ IF ~Current(p) THEN LosesLease(p)
       ELSE /\ route' = [route EXCEPT !.denied = TRUE]
            /\ GoTo(p, "refused")
            /\ UNCHANGED <<row, att, holder, inbox, expired, faults>>

\* Whether _send goes round again after a refusal.
Retries(lane, d) ==
    \/ lane.code = "denied" /\ lane.mode = "proactive"
    \/ lane.code = "auth" /\ ~lane.auth
    \/ lane.code = "rate"
    \/ lane.code = "format" /\ ~lane.plain /\ ~row[d].plain

\* fail(error refused): certain not to have been accepted, so it may be retried.
Refused(p) ==
    /\ AtPC(p, "refused")
    /\ LET lane == proc[p].lane
           d == lane.d
           again == Retries(lane, d)
           me == IF lane.code = "exhausted" /\ lane.mode = "passive"
                 THEN [proc[p] EXCEPT !.passive.used = PassiveLimit] ELSE Refund(proc[p])
       IN IF ~Current(p) THEN LosesLease(p)
          ELSE /\ att' = [att EXCEPT ![d][Last(d)].state = "unaccepted"]
               /\ row' = [row EXCEPT ![d].status = IF again THEN "pending" ELSE "failed",
                                     ![d].plain = @ \/ (again /\ lane.code = "format")]
               /\ proc' = [proc EXCEPT ![p] =
                    IF again THEN [me EXCEPT !.lane = [IdleLane EXCEPT !.pc = "route", !.d = d,
                                        !.auth = lane.auth \/ lane.code = "auth",
                                        !.plain = lane.plain \/ lane.code = "format"]]
                    ELSE Finished(me, d)]
               /\ UNCHANGED <<holder, route, inbox, expired, faults>>

\* capture_receipt: not fenced, so that a response in hand is never lost.
Capture(p) ==
    /\ AtPC(p, "capture")
    /\ LET d == proc[p].lane.d
           x == <<d, Last(d)>>
       IN /\ att' = [att EXCEPT ![d][x[2]].receipt = IF @ = "none" THEN "stored" ELSE @]
          /\ proc' = [proc EXCEPT ![p].unrecorded = @ \ {x}, ![p].receipts = @ \cup {x},
                                  ![p].lane.pc = "finalize"]
    /\ UNCHANGED <<row, holder, route, inbox, expired, faults>>

Finalize(p) ==
    /\ AtPC(p, "finalize")
    /\ LET d == proc[p].lane.d
           x == <<d, Last(d)>>
           me == [proc[p] EXCEPT !.receipts = @ \ {x}]
       IN IF ~Current(p) THEN LosesLease(p)
          ELSE /\ Apply(x)
               /\ proc' = [proc EXCEPT ![p] = Finished(me, d)]
               /\ UNCHANGED <<holder, route, inbox, expired, faults>>

\* fail() without an attempt: no token, or no way to reach the endpoint.
GiveUp(p) ==
    /\ AtPC(p, "giveup") \/ AtPC(p, "lastresort")
    /\ LET d == proc[p].lane.d IN
       IF ~Current(p) THEN LosesLease(p)
       ELSE /\ row' = [row EXCEPT ![d].status = "failed"]
            /\ proc' = [proc EXCEPT ![p] = Finished(@, d)]
            /\ UNCHANGED <<att, holder, route, inbox, expired, faults>>

\* A database call of _send raises before or, for prepare, after its commit.
LaneRaises(p) ==
    /\ proc[p].lane.pc \in {"route", "credential", "prepare", "post", "capture", "finalize",
                            "unknown", "deny", "refused", "giveup"}
    /\ SpendIf(TRUE)
    /\ GoTo(p, "broken")
    /\ UNCHANGED <<row, att, holder, route, inbox, expired>>

\* The except clause of _worker looks at the row before it decides.
HandleError(p) ==
    /\ AtPC(p, "broken")
    /\ LET d == proc[p].lane.d IN
       IF row[d].status = "pending" THEN GoTo(p, "lastresort")
       ELSE proc' = [proc EXCEPT ![p] = Finished(@, d)]
    /\ UNCHANGED <<row, att, holder, route, inbox, expired, faults>>

\* The except clause raises in its turn: the worker task dies.  Its queue is dropped, while the
\* futures of everything it had been given stay behind.
WorkerDies(p) ==
    /\ AtPC(p, "broken") \/ AtPC(p, "lastresort")
    /\ SpendIf(TRUE)
    /\ proc' = [proc EXCEPT ![p].lane = IdleLane, ![p].queue = <<>>]
    /\ UNCHANGED <<row, att, holder, route, inbox, expired>>

-----------------------------------------------------------------------------
LaneStep(p) ==
    \/ Take(p) \/ ReadRoute(p) \/ Credential(p) \/ Prepare(p) \/ Post(p) \/ Answer(p)
    \/ Capture(p) \/ Finalize(p) \/ SettleUnknown(p) \/ Deny(p) \/ Refused(p) \/ GiveUp(p)
    \/ HandleError(p)

LoopStep(p) == LoopCapture(p) \/ LoopFinalize(p) \/ ListDue(p) \/ Submit(p)

Environment ==
    \/ Inbound \/ GoStale \/ RouteChanges
    \/ \E d \in Deliveries : Expire(d)
    \/ \E p \in Procs : Crash(p) \/ LoseLease(p) \/ LaneRaises(p) \/ WorkerDies(p) \/ Stop(p)
    \/ \E p \in Procs, d \in Deliveries : Enqueue(p, d) \/ SendDelivery(p, d) \/ CancelEphemeral(p, d)

Next ==
    \/ \E p \in Procs : Start(p) \/ Recover(p) \/ Stopped(p) \/ LaneStep(p) \/ LoopStep(p)
    \/ Environment

Spec == Init /\ [][Next]_vars

-----------------------------------------------------------------------------
(* Properties.                                                             *)

Attempts(d) == DOMAIN att[d]

\* Tables, RAM and history stay within their types.
TypeOK ==
    /\ row \in [Deliveries -> [status : Statuses, replyTo : 0..MaxMsgs, plain : BOOLEAN]]
    /\ \A d \in Deliveries : \A n \in Attempts(d) :
           att[d][n] \in [mode : {"proactive", "passive"}, msg : Nat, seq : Nat, state : AttemptStates,
                         receipt : {"none", "stored", "applied"}, plat : {"none", "yes", "no"}]
    /\ holder \in Procs \cup {NoProc}
    /\ \A p \in Procs : proc[p].lane \in Lane /\ proc[p].passive.used \in 0..PassiveLimit
    /\ faults \in 0..MaxFaults

\* Nobody sees the same delivery twice: over all attempts of all processes, the
\* platform has accepted at most one POST of it.
AtMostOnce ==
    \A d \in Deliveries : Cardinality({n \in Attempts(d) : att[d][n].plat = "yes"}) <= 1

\* The outbox tells the truth: what it calls failed or cancelled the platform
\* never accepted, and what it calls committed it did, with an applied receipt.
TruthfulOutcome ==
    \A d \in Deliveries :
        /\ row[d].status \in {"failed", "cancelled"} => \A n \in Attempts(d) : att[d][n].plat # "yes"
        /\ row[d].status = "committed" =>
               \E n \in Attempts(d) : att[d][n].plat = "yes" /\ att[d][n].receipt = "applied"

PassiveAttempts == {x \in Recorded : att[x[1]][x[2]].mode = "passive"}

\* The passive attempts that passive_history attributes to the right message.
Traceable == {x \in PassiveAttempts : x \in RepliesTo(att[x[1]][x[2]].msg)}

SeqFresh(X) ==
    \A x, y \in X :
        x # y /\ att[x[1]][x[2]].msg = att[y[1]][y[2]].msg => att[x[1]][x[2]].seq # att[y[1]][y[2]].seq

\* Two replies to one inbound message never carry the same msg_seq, whatever
\* restarts and refusals lie between them: the platform would drop the second as
\* a repeat.
PassiveSeqFresh == SeqFresh(PassiveAttempts)

\* Of the replies whose message the stored history shows, no two carry the same
\* number, and restarts do not refill the number of them that one inbound
\* message allows.
TraceableRepliesCounted ==
    /\ SeqFresh(Traceable)
    /\ \A m \in 1..MaxMsgs :
           Cardinality({x \in Traceable :
               att[x[1]][x[2]].msg = m /\ att[x[1]][x[2]].state # "unaccepted"}) <= PassiveLimit

\* A settled delivery is never sent or queued again; an unknown outcome may only
\* become known.
SettledStaysSettled ==
    [][\A d \in Deliveries :
        /\ row[d].status \in {"committed", "failed", "cancelled", "ambiguous"}
              => row'[d].status \notin {"pending", "sending"}
        /\ row[d].status = "committed" => row'[d].status = "committed"
        /\ row[d].status = "ambiguous" => row'[d].status \in {"ambiguous", "committed"}]_vars

\* What each delivery is called, and how many of its POSTs the platform has accepted.
says == [d \in Deliveries |-> row[d].status]
reached == [d \in Deliveries |-> Cardinality({n \in Attempts(d) : att[d][n].plat = "yes"})]

Promise == INSTANCE Outbox

\* The rows, their attempts and the senders keep what an outbox promises: accepted once at
\* most, tried again or given up only if not accepted, committed only if accepted.
ImplementsOutbox == Promise!Spec

\* Parts of a plan are sent in their order: once a later one has been attempted,
\* no earlier one is still waiting for its turn.
PartsInOrder ==
    \A d, e \in Deliveries : d < e /\ att[e] # <<>> => row[d].status # "pending"
=============================================================================
