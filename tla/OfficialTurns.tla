--------------------------- MODULE OfficialTurns ---------------------------
(***************************************************************************)
(* One account of the official QQ adapter and the turns it answers: the    *)
(* account lease (lease.py), the runtime that acquires it, serves, pauses  *)
(* and retries (runtime.py), the reception of a message (inbox.py,         *)
(* ingest.py), the batching of an unfinished one (message_batch.py), and   *)
(* the turn a request runs in (turn_source.py, turns.py, turn_platform.py, *)
(* application/chat_orchestrator.py) with its journal entry and the plan   *)
(* its answer leaves in the outbox.                                        *)
(*                                                                         *)
(* Several processes of the bot contend for the account.  PostgreSQL can   *)
(* end the session that holds the lock while the process goes on; a        *)
(* process can die or be stopped, and is started again.  Turns live in its *)
(* RAM; their rows survive.                                                *)
(*                                                                         *)
(* Data abstracted: one conversation with one sender (the turns of one are *)
(* serialised by a lock of the process, and merged per sender), a message  *)
(* is its identity, and its text, route and reply window are left out.     *)
(* The gateway's sequence numbers are: a message may arrive any number of  *)
(* times, as an ordinary one or as one that addresses the bot.  A message  *)
(* nobody addressed to the bot may be offered to the proactive scorer,     *)
(* which has no turn; streamed fragments of an answer are left out.        *)
(***************************************************************************)
EXTENDS Integers, FiniteSets

CONSTANTS
    Messages, Procs,
    None,           \* no process
    MaxFaults       \* bound on losses, failures, restarts and changes of admission

ASSUME TurnsAssumption ==
    /\ IsFiniteSet(Messages) /\ IsFiniteSet(Procs)
    /\ None \notin Procs /\ MaxFaults \in Nat

VARIABLES
    epoch,      \* qq_official_accounts.fencing_epoch
    paused,     \* qq_official_accounts.gateway_state = 'paused'
    lock,       \* the process whose database session holds the advisory lock
    procs,      \* the runtime of each process: what it does, and the epoch of its token
    admitted,   \* the sender and the conversation are admitted now
    inbox,      \* qq_official_inbound_events: status and trigger_requested
    execs,      \* qq_official_turn_executions
    journal,    \* agent_turns.status of the turn a message started
    said,       \* the conclusions a message has in the outbox
    tasks,      \* the turns in the RAM of the processes
    faults      \* interference spent so far

account == <<epoch, paused, lock, procs>>
turns == <<execs, journal, said>>
vars == <<account, admitted, inbox, turns, tasks, faults>>

NoTurn == [state |-> "none", epoch |-> 0, result |-> "none", plan |-> FALSE]

Init ==
    /\ epoch = 0 /\ paused = FALSE /\ lock = None
    /\ procs = [p \in Procs |-> [phase |-> "waiting", epoch |-> 0]]
    /\ admitted = TRUE
    /\ inbox = [m \in Messages |-> "none"]
    /\ execs = [m \in Messages |-> NoTurn]
    /\ journal = [m \in Messages |-> "none"]
    /\ said = [m \in Messages |-> {}]
    /\ tasks = {}
    /\ faults = 0

-----------------------------------------------------------------------------
(* Helpers.                                                                *)

\* The step costs one unit of the environment's budget if cond holds.
SpendIf(cond) == IF cond THEN faults < MaxFaults /\ faults' = faults + 1 ELSE UNCHANGED faults

\* Mutant: a token is believed as long as its process has not dropped it.
Current_Local(p) == procs[p].phase \in {"acquired", "serving"} /\ ~paused

\* assert_epoch: the token is this process's own, of the row's epoch, the session behind it
\* still holds the lock, and the account is not paused.
Current(p) ==
    /\ procs[p].phase \in {"acquired", "serving"}
    /\ lock = p /\ procs[p].epoch = epoch /\ ~paused

Open == {"prepared", "executing", "needs_attention", "result_ready"}
TasksOf(p) == {t \in tasks : t.proc = p}

\* assert_execution_current: what every step of a turn must find.
Fenced(t) ==
    /\ Current(t.proc) /\ admitted
    /\ execs[t.msg].epoch = epoch
    /\ execs[t.msg].state \notin {"cancelled", "needs_attention"}

\* journal.finish_turn: only a running turn is finished.
JournalEnds(m, status) == [journal EXCEPT ![m] = IF @ = "running" THEN status ELSE @]

\* interrupt_execution, for the task the process was running (the orchestrator's handler,
\* or the consumer's if the turn had not begun).
InterruptedBy(p) ==
    {t.msg : t \in {u \in TasksOf(p) : Fenced(u) /\ u.at \in {"prepared", "executing"}
                                       /\ execs[u.msg].state \in {"prepared", "executing"}}}

\* Mutant: the row is given the status of the journal's table.
Interrupted_Crashed(ms) ==
    [m \in Messages |-> IF m \in ms THEN [execs[m] EXCEPT !.state = "crashed"] ELSE execs[m]]

Interrupted(ms) ==
    [m \in Messages |-> IF m \in ms THEN [execs[m] EXCEPT !.state = "needs_attention"] ELSE execs[m]]

-----------------------------------------------------------------------------
(* The account lease and the runtime's loop.                               *)

\* lease.acquire: busy means wait; a paused account means the runtime pauses.
Acquire(p) ==
    /\ procs[p].phase = "waiting" /\ lock = None
    /\ IF paused
       THEN procs' = [procs EXCEPT ![p].phase = "paused"] /\ UNCHANGED <<epoch, lock>>
       ELSE /\ epoch' = epoch + 1 /\ lock' = p
            /\ procs' = [procs EXCEPT ![p] = [phase |-> "acquired", epoch |-> epoch + 1]]
    /\ UNCHANGED <<paused, admitted, inbox, turns, tasks, faults>>

\* Mutant: recovery forgets the turns that were being executed.
Unfinished_Executing == {m \in Messages : execs[m].epoch < epoch /\ execs[m].state \in Open \ {"executing"}}

\* The turns of earlier holders that nobody will finish.
Unfinished ==
    {m \in Messages : execs[m].epoch < epoch
                      /\ (execs[m].state \in Open \/ journal[m] = "running")}

Closed(ms) == [m \in Messages |-> IF m \in ms /\ journal[m] = "running" THEN "crashed" ELSE journal[m]]

\* _recover_interrupted_turns, before anything is served: what earlier holders left is
\* closed, and the conversation is told once.  No statement writes the result body a
\* captured result would be handed off from, so that branch of the code is never taken.
Recover(p) ==
    /\ procs[p].phase = "acquired" /\ Current(p)
    /\ execs' = [m \in Messages |->
           IF m \in Unfinished
           THEN [execs[m] EXCEPT !.state = IF execs[m].plan THEN "handed_off" ELSE "cancelled"]
           ELSE execs[m]]
    /\ journal' = Closed(Unfinished)
    /\ IF admitted /\ Unfinished # {}
       THEN \E m \in Unfinished : said' = [said EXCEPT ![m] = @ \cup {"restart"}]
       ELSE UNCHANGED said
    /\ procs' = [procs EXCEPT ![p].phase = "serving"]
    /\ UNCHANGED <<epoch, paused, lock, admitted, inbox, tasks, faults>>

\* The process drops its token, its lock and the turns in its RAM.
Leave(p, phase) ==
    /\ procs' = [procs EXCEPT ![p].phase = phase]
    /\ lock' = IF lock = p THEN None ELSE lock
    /\ tasks' = tasks \ TasksOf(p)

\* Mutant: the monitor does not ask the database.
Notice_Deaf(p) == FALSE

\* The monitor's probe, or any other check outside a dispatch, finds the token lost.
Notice(p) ==
    /\ procs[p].phase \in {"acquired", "serving"} /\ ~Current(p)
    /\ Leave(p, "waiting")
    /\ UNCHANGED <<epoch, paused, admitted, inbox, turns, faults>>

\* The gateway stops for good: the account is paused before the turns are cancelled.
GatewayStops(p) ==
    /\ procs[p].phase = "serving" /\ Current(p)
    /\ paused' = TRUE
    /\ Leave(p, "paused")
    /\ SpendIf(TRUE)
    /\ UNCHANGED <<epoch, admitted, inbox, turns>>

\* resume: a local operator, who must find the lock free.
Resume(p) ==
    /\ procs[p].phase = "paused" /\ lock = None
    /\ paused' = FALSE
    /\ procs' = [procs EXCEPT ![p].phase = "waiting"]
    /\ UNCHANGED <<epoch, lock, admitted, inbox, turns, tasks, faults>>

\* The process dies, and is started again.
Crash(p) ==
    /\ procs[p].phase # "waiting"
    /\ Leave(p, "waiting")
    /\ SpendIf(TRUE)
    /\ UNCHANGED <<epoch, paused, admitted, inbox, turns>>

\* The process is stopped in good order, and started again: its turns are cancelled while
\* its token is still good.
Stop(p) ==
    /\ procs[p].phase = "serving"
    /\ execs' = Interrupted(InterruptedBy(p))
    /\ Leave(p, "waiting")
    /\ SpendIf(TRUE)
    /\ UNCHANGED <<epoch, paused, admitted, inbox, journal, said>>

\* The database ends the session that holds the lock.
LoseLock ==
    /\ lock # None
    /\ lock' = None
    /\ SpendIf(TRUE)
    /\ UNCHANGED <<epoch, paused, procs, admitted, inbox, turns, tasks>>

-----------------------------------------------------------------------------
(* Reception.                                                              *)

\* inbox.accept and ingest.process_inbox, in one transaction: the first time a message is
\* seen it is recorded, asked for or not; a later event that addresses the bot promotes it;
\* any other is a duplicate.
Promotes(m, asks) ==
    \/ inbox[m] = "none"
    \/ inbox[m] = "quiet" /\ asks /\ admitted

Received(m, asks) ==
    [inbox EXCEPT ![m] = IF ~admitted THEN "skipped" ELSE IF asks THEN "asked" ELSE "quiet"]

Turn(p, m, at) == [proc |-> p, msg |-> m, at |-> at]

\* run_inbox: a request starts a turn at once, or waits for the rest of the message, or is
\* merged into the request that waits (as a message not addressed to the bot may be).
Started(p, m, asks) ==
    LET waiting == {t \in TasksOf(p) : t.at = "waiting"}
    IN  IF ~(asks /\ admitted) THEN {tasks}
        ELSE {tasks \cup {Turn(p, m, "queued")},
              IF waiting = {} THEN tasks \cup {Turn(p, m, "waiting")} ELSE tasks}

Receive(p, m, asks) ==
    /\ procs[p].phase = "serving" /\ Current(p) /\ Promotes(m, asks)
    /\ inbox' = Received(m, asks)
    /\ tasks' \in Started(p, m, asks)
    /\ UNCHANGED <<account, admitted, turns, faults>>

\* on_dispatch or on_checkpoint fails, before or after the message was accepted: the token
\* is found lost, or the database call fails.  The gateway hides the cause, so the runtime
\* cancels its turns, pauses the account if it still can, and waits for an operator.
DispatchFails(p) ==
    /\ procs[p].phase = "serving"
    /\ \/ UNCHANGED inbox
       \/ Current(p) /\ \E m \in Messages, asks \in BOOLEAN :
              Promotes(m, asks) /\ inbox' = Received(m, asks)
    /\ execs' = Interrupted(InterruptedBy(p))
    /\ paused' = (paused \/ Current(p))
    /\ Leave(p, "paused")
    /\ SpendIf(Current(p))
    /\ UNCHANGED <<epoch, admitted, journal, said>>

-----------------------------------------------------------------------------
(* The turn of one message.                                                *)

Ends(t) == tasks' = tasks \ {t}
Goes(t, at) == tasks' = (tasks \ {t}) \cup {[t EXCEPT !.at = at]}

\* The rest of the message did not come in time.
Due(t) ==
    /\ t.at = "waiting"
    /\ Goes(t, "queued")
    /\ UNCHANGED <<account, admitted, inbox, turns, faults>>

\* claim_execution, under the conversation's lock: the first and only row of the message.
Prepare(t) ==
    /\ t.at = "queued"
    /\ \A u \in TasksOf(t.proc) : u.at \in {"waiting", "queued"}
    /\ IF Current(t.proc) /\ admitted /\ execs[t.msg].state = "none"
       THEN /\ execs' = [execs EXCEPT ![t.msg] = [NoTurn EXCEPT !.state = "prepared", !.epoch = epoch]]
            /\ Goes(t, "prepared")
       ELSE Ends(t) /\ UNCHANGED execs
    /\ UNCHANGED <<account, admitted, inbox, journal, said, faults>>

\* begin: the journal turn and the row change in one transaction; a command has no journal.
Begin(t) ==
    /\ t.at = "prepared" /\ Fenced(t) /\ execs[t.msg].state = "prepared"
    /\ execs' = [execs EXCEPT ![t.msg].state = "executing"]
    /\ \E chat \in BOOLEAN : journal' = IF chat THEN [journal EXCEPT ![t.msg] = "running"] ELSE journal
    /\ Goes(t, "executing")
    /\ UNCHANGED <<account, admitted, inbox, said, faults>>

\* Mutant: the result is captured and the journal is not told.
Capture_NoJournal(t) ==
    /\ t.at \in {"prepared", "executing"} /\ Fenced(t)
    /\ \E result \in {"text", "silence"} :
        execs' = [execs EXCEPT ![t.msg].state = "result_ready", ![t.msg].result = result]
    /\ Goes(t, "captured")
    /\ UNCHANGED <<account, admitted, inbox, journal, said, faults>>

\* finish: the result, in RAM, and the journal's end, in one transaction.  A conversation out
\* of quota is answered without a turn having begun.
Capture(t) ==
    /\ t.at \in {"prepared", "executing"} /\ Fenced(t)
    /\ \E result \in {"text", "silence"}, status \in {"succeeded", "crashed"} :
        /\ execs' = [execs EXCEPT ![t.msg].state = "result_ready", ![t.msg].result = result]
        /\ journal' = JournalEnds(t.msg, status)
    /\ Goes(t, "captured")
    /\ UNCHANGED <<account, admitted, inbox, said, faults>>

\* _result and _enqueue_frozen_result: silence needs no plan, text is enqueued with the row's change.
HandOff(t) ==
    /\ t.at = "captured" /\ Fenced(t) /\ execs[t.msg].state = "result_ready"
    /\ LET speaks == execs[t.msg].result = "text"
       IN  /\ execs' = [execs EXCEPT ![t.msg].state = "handed_off", ![t.msg].plan = speaks]
           /\ said' = IF speaks THEN [said EXCEPT ![t.msg] = @ \cup {"result"}] ELSE said
    /\ Ends(t)
    /\ UNCHANGED <<account, admitted, inbox, journal, faults>>

\* The answer is too late or too long for a message: the turn ends with its result captured.
Undeliverable(t) ==
    /\ t.at = "captured" /\ Fenced(t) /\ execs[t.msg].result = "text"
    /\ Ends(t)
    /\ SpendIf(TRUE)
    /\ UNCHANGED <<account, admitted, inbox, turns>>

\* A model, tool, command, deadline or handoff fails.  The turn is marked before the failure
\* is reported, unless it failed where no handler marks it.
Fail(t) ==
    /\ t.at \in {"prepared", "executing", "captured"}
    /\ \/ execs' = Interrupted({t.msg} \cap InterruptedBy(t.proc))
       \/ t.at # "executing" /\ UNCHANGED execs
    /\ Goes(t, "failed")
    /\ SpendIf(TRUE)
    /\ UNCHANGED <<account, admitted, inbox, journal, said>>

\* A step of the turn is refused: a lost lease ends it, a lost admission is reported.
Refused(t) ==
    /\ t.at \in {"prepared", "executing", "captured"} /\ ~Fenced(t)
    /\ IF Current(t.proc) THEN Goes(t, "failed") ELSE Ends(t)
    /\ UNCHANGED <<account, admitted, inbox, turns, faults>>

\* Mutant: the turn stays open after its failure was reported.
Report_Open(t) ==
    /\ t.at = "failed"
    /\ IF Current(t.proc) /\ admitted
       THEN /\ said' = [said EXCEPT ![t.msg] = @ \cup {"error"}]
            /\ journal' = JournalEnds(t.msg, "crashed")
       ELSE UNCHANGED <<said, journal>>
    /\ Ends(t)
    /\ UNCHANGED <<account, admitted, inbox, execs, faults>>

\* _run's report: the apology, the journal's end and the row's, in one transaction, or nothing.
Report(t) ==
    /\ t.at = "failed"
    /\ IF Current(t.proc) /\ admitted
       THEN /\ said' = [said EXCEPT ![t.msg] = @ \cup {"error"}]
            /\ journal' = JournalEnds(t.msg, "crashed")
            /\ execs' = [execs EXCEPT ![t.msg].state = IF execs[t.msg].plan THEN @ ELSE "cancelled"]
       ELSE UNCHANGED turns
    /\ Ends(t)
    /\ UNCHANGED <<account, admitted, inbox, faults>>

-----------------------------------------------------------------------------

\* The binding, the membership or the owner's grant behind the admission changes.
SetAdmission ==
    /\ admitted' = ~admitted
    /\ SpendIf(TRUE)
    /\ UNCHANGED <<account, inbox, turns, tasks>>

Step(t) ==
    \/ Due(t) \/ Prepare(t) \/ Begin(t) \/ Capture(t) \/ HandOff(t)
    \/ Undeliverable(t) \/ Fail(t) \/ Refused(t) \/ Report(t)

Lifecycle(p) ==
    \/ Acquire(p) \/ Recover(p) \/ Notice(p)
    \/ GatewayStops(p) \/ Resume(p) \/ Crash(p) \/ Stop(p)

Reception(p) ==
    \/ \E m \in Messages, asks \in BOOLEAN : Receive(p, m, asks)
    \/ DispatchFails(p)

Next ==
    \/ \E p \in Procs : Lifecycle(p) \/ Reception(p)
    \/ \E t \in tasks : Step(t)
    \/ LoseLock \/ SetAdmission

\* The runtime's loop acquires, recovers and probes; systemd keeps the process running.
Fairness == \A p \in Procs : WF_vars(Acquire(p)) /\ WF_vars(Recover(p)) /\ WF_vars(Notice(p))

Spec == Init /\ [][Next]_vars /\ Fairness

-----------------------------------------------------------------------------
(* Properties.                                                             *)

\* Types of the tables, of the runtimes and of the turns in RAM.
TypeOK ==
    /\ epoch \in Nat /\ paused \in BOOLEAN /\ lock \in Procs \cup {None}
    /\ procs \in [Procs -> [phase : {"waiting", "acquired", "serving", "paused"}, epoch : Nat]]
    /\ admitted \in BOOLEAN
    /\ inbox \in [Messages -> {"none", "skipped", "quiet", "asked"}]
    /\ execs \in [Messages -> [state : Open \cup {"none", "handed_off", "cancelled"}, epoch : Nat,
                               result : {"none", "text", "silence"}, plan : BOOLEAN]]
    /\ journal \in [Messages -> {"none", "running", "succeeded", "crashed"}]
    /\ said \in [Messages -> SUBSET {"result", "error", "restart"}]
    /\ tasks \subseteq [proc : Procs, msg : Messages,
                       at : {"waiting", "queued", "prepared", "executing", "captured", "failed"}]
    /\ faults \in 0 .. MaxFaults

\* Once a process serves, no turn of an earlier holder is open or running in the journal,
\* and none is reopened by what that holder still has in its RAM.
OldTurnsClosed ==
    \A p \in Procs : procs[p].phase = "serving" /\ Current(p) =>
        \A m \in Messages : execs[m].epoch < epoch =>
            execs[m].state \notin Open /\ journal[m] # "running"

\* A person who asked is told one thing: the answer, an apology, or that the bot restarted.
OneConclusion == \A m \in Messages : Cardinality(said[m]) <= 1

\* The row, the journal and the outbox tell one story: a running journal belongs to a turn
\* begun and not finished, an answer to a turn handed off, an apology or a notice to one closed.
RowJournalOutboxAgree ==
    \A m \in Messages :
        /\ journal[m] = "running" => execs[m].state \in {"executing", "needs_attention"}
        /\ "result" \in said[m] <=> execs[m].plan
        /\ said[m] \cap {"error", "restart"} # {} => execs[m].state = "cancelled"
        /\ execs[m].state = "none" => journal[m] = "none"

\* A turn that was handed off or closed is never run, answered or reopened again, and a
\* turn once begun never begins again.
NothingRunsTwice ==
    [][\A m \in Messages :
          /\ execs[m].state \in {"handed_off", "cancelled"} => execs'[m] = execs[m] /\ said'[m] = said[m]
          /\ execs[m].state # "none" => execs'[m].state # "prepared" \/ execs[m].state = "prepared"]_vars

\* While the account is not paused, a process that waits for it does not wait for ever:
\* some process comes to serve, whoever lost the lock and however.
AccountServed ==
    (\E p \in Procs : procs[p].phase = "waiting") ~>
        paused \/ \E p \in Procs : procs[p].phase = "serving"

\* A process whose lease was lost while it served comes to contend for it again.
LeaseContendedAgain ==
    \A p \in Procs : procs[p].phase = "serving" /\ lock # p ~> procs[p].phase = "waiting"

=============================================================================
