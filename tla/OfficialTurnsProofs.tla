------------------------ MODULE OfficialTurnsProofs ------------------------
(***************************************************************************)
(* Proofs about OfficialTurns for any messages, processes and amount of    *)
(* interference: old turns are closed before a process serves, everybody   *)
(* is told one thing, row, journal and outbox tell one story, and nothing  *)
(* that was concluded runs again.                                          *)
(*                                                                         *)
(* The invariant has four parts besides the types.  Leased: who has the    *)
(* lock has the row's epoch.  RowOK: what a turn's row, its journal entry  *)
(* and its conclusion owe each other.  TaskOK: what a turn in the RAM of a *)
(* process may rely on, even after the lease moved: the row is where the   *)
(* turn is, or a later holder has cancelled it.  OneTurnEach: a message    *)
(* has one turn, because it is asked for once.                             *)
(***************************************************************************)
EXTENDS OfficialTurns, FiniteSetTheorems, TLAPS

\* Who has the lock holds the epoch of the account.
Leased ==
    /\ \A p \in Procs : procs[p].epoch <= epoch
    /\ lock # None => procs[lock].phase \in {"acquired", "serving"} /\ procs[lock].epoch = epoch

\* The row of a message, its journal entry and what was said.
RowOK(m) ==
    /\ execs[m].epoch <= epoch
    /\ execs[m].state = "none" => journal[m] = "none"
    /\ execs[m].state # "none" => inbox[m] = "asked"
    /\ journal[m] = "running" => execs[m].state \in {"executing", "needs_attention"}
    /\ execs[m].plan => execs[m].state = "handed_off" /\ said[m] = {"result"}
    /\ ~execs[m].plan =>
          \/ said[m] = {}
          \/ execs[m].state = "cancelled" /\ said[m] \in {{"error"}, {"restart"}}

\* A row in this state is where its turn is.
Abreast(at, state) ==
    \/ at = "prepared" /\ state = "prepared"
    \/ at = "executing" /\ state = "executing"
    \/ at = "captured" /\ state = "result_ready"
    \/ at = "failed" /\ state \in Open

\* The row of a turn that process p has at this stage: it is there, or a later holder of the
\* account has closed it.
Keeps(p, at, turn) ==
    IF at \in {"waiting", "queued"} THEN turn.state = "none"
    ELSE /\ turn.epoch = procs[p].epoch
         /\ Abreast(at, turn.state) \/ (turn.state = "cancelled" /\ turn.epoch < epoch)

TaskOK(t) ==
    /\ procs[t.proc].phase = "serving"
    /\ inbox[t.msg] = "asked"
    /\ Keeps(t.proc, t.at, execs[t.msg])

OneTurnEach == \A t, u \in tasks : t.msg = u.msg => t = u

\* Nothing of an earlier holder is left open.
OldClosed ==
    \A m \in Messages : execs[m].epoch < epoch =>
        execs[m].state \notin Open /\ journal[m] # "running"

ServedAfterRecovery == lock # None /\ procs[lock].phase = "serving" => OldClosed

IInv ==
    /\ TypeOK /\ Leased
    /\ \A m \in Messages : RowOK(m)
    /\ \A t \in tasks : TaskOK(t)
    /\ OneTurnEach
    /\ ServedAfterRecovery

-----------------------------------------------------------------------------
(* Types.                                                                  *)

Phases == {"waiting", "acquired", "serving", "paused"}
Stages == {"waiting", "queued", "prepared", "executing", "captured", "failed"}
Task == [proc : Procs, msg : Messages, at : Stages]
Conclusions == {"result", "error", "restart"}
ExecStates == Open \cup {"none", "handed_off", "cancelled"}
Exec == [state : ExecStates, epoch : Nat, result : {"none", "text", "silence"}, plan : BOOLEAN]

LEMMA Typed ==
    TypeOK <=>
    /\ epoch \in Nat /\ paused \in BOOLEAN /\ lock \in Procs \cup {None}
    /\ procs \in [Procs -> [phase : Phases, epoch : Nat]]
    /\ admitted \in BOOLEAN
    /\ inbox \in [Messages -> {"none", "skipped", "quiet", "asked"}]
    /\ execs \in [Messages -> Exec]
    /\ journal \in [Messages -> {"none", "running", "succeeded", "crashed"}]
    /\ said \in [Messages -> SUBSET Conclusions]
    /\ tasks \subseteq Task
    /\ faults \in 0 .. MaxFaults
  BY DEF TypeOK, Phases, Stages, Task, Conclusions, ExecStates, Exec

LEMMA Spends ==
    ASSUME faults \in 0 .. MaxFaults, NEW cond, SpendIf(cond)
    PROVE  faults' \in 0 .. MaxFaults
  BY TurnsAssumption DEF SpendIf

\* A turn that takes its next step stays a turn of the same process and message.
LEMMA Going ==
    ASSUME NEW t \in Task, NEW at \in Stages
    PROVE  /\ [t EXCEPT !.at = at] \in Task
           /\ [t EXCEPT !.at = at].proc = t.proc
           /\ [t EXCEPT !.at = at].msg = t.msg
           /\ [t EXCEPT !.at = at].at = at
  BY DEF Task

\* Interrupting turns leaves the other rows alone, and of each row all but its state.
LEMMA Interrupting ==
    ASSUME TypeOK, NEW ms \in SUBSET Messages
    PROVE  /\ Interrupted(ms) \in [Messages -> Exec]
           /\ \A m \in Messages : /\ Interrupted(ms)[m].epoch = execs[m].epoch
                                  /\ Interrupted(ms)[m].plan = execs[m].plan
                                  /\ m \in ms => Interrupted(ms)[m].state = "needs_attention"
                                  /\ m \notin ms => Interrupted(ms)[m] = execs[m]
  <1>1. execs \in [Messages -> Exec] BY Typed
  <1>2. \A x \in Messages : [execs[x] EXCEPT !.state = "needs_attention"] \in Exec
    BY <1>1 DEF Exec, ExecStates, Open
  <1> QED BY <1>1, <1>2 DEF Interrupted, Exec

\* The lease moves and turns are dropped, and no row is written.
RowsStay ==
    /\ epoch' \in Nat /\ epoch' >= epoch
    /\ execs' = execs /\ journal' = journal /\ said' = said
    /\ \A m \in Messages : inbox[m] = "asked" => inbox'[m] = "asked"

LEMMA RowsStayOK ==
    ASSUME IInv, RowsStay
    PROVE  \A m \in Messages : RowOK(m)'
  <1> SUFFICES ASSUME NEW m \in Messages PROVE RowOK(m)' OBVIOUS
  <1>1. RowOK(m) /\ epoch \in Nat /\ execs[m].epoch \in Nat BY Typed DEF IInv, Exec
  <1> QED BY <1>1 DEF RowsStay, RowOK

\* Turns that are still there, with the same process and phase.
LEMMA TasksStayOK ==
    ASSUME IInv, RowsStay, tasks' \subseteq tasks,
           \A t \in tasks' : procs'[t.proc] = procs[t.proc]
    PROVE  (\A t \in tasks' : TaskOK(t)') /\ OneTurnEach'
  <1>1. ASSUME NEW t \in tasks' PROVE TaskOK(t)'
    <2>1. t \in tasks /\ TaskOK(t) /\ procs'[t.proc] = procs[t.proc] BY <1>1 DEF IInv
    <2>2. t \in Task /\ execs \in [Messages -> Exec] /\ epoch \in Nat BY <2>1, Typed DEF IInv
    <2>3. t.msg \in Messages /\ execs[t.msg].epoch \in Nat BY <2>2 DEF Task, Exec
    <2> QED BY <2>1, <2>2, <2>3 DEF RowsStay, TaskOK, Keeps
  <1>2. OneTurnEach' BY DEF IInv, OneTurnEach
  <1> QED BY <1>1, <1>2

\* A process that leaves has no lock and no turns, and disturbs nobody.
LEMMA Leaving ==
    ASSUME IInv, NEW p \in Procs, NEW phase \in {"waiting", "paused"}, Leave(p, phase), epoch' = epoch
    PROVE  /\ procs' \in [Procs -> [phase : Phases, epoch : Nat]]
           /\ lock' \in Procs \cup {None}
           /\ tasks' \subseteq Task /\ tasks' \subseteq tasks
           /\ \A t \in tasks' : t.proc # p /\ procs'[t.proc] = procs[t.proc]
           /\ Leased'
           /\ lock' # None => lock' = lock /\ procs'[lock] = procs[lock]
  <1>1. /\ procs \in [Procs -> [phase : Phases, epoch : Nat]] /\ tasks \subseteq Task
        /\ lock \in Procs \cup {None} /\ Leased
    BY Typed DEF IInv
  <1>2. /\ procs' = [procs EXCEPT ![p].phase = phase]
        /\ lock' = IF lock = p THEN None ELSE lock
        /\ tasks' = tasks \ TasksOf(p)
    BY DEF Leave
  <1>3. procs' \in [Procs -> [phase : Phases, epoch : Nat]] BY <1>1, <1>2 DEF Phases
  <1>4. \A q \in Procs : /\ procs'[q].epoch = procs[q].epoch
                         /\ q # p => procs'[q] = procs[q]
    BY <1>1, <1>2
  <1>5. \A t \in tasks' : t \in tasks /\ t.proc # p BY <1>2 DEF TasksOf
  <1>6. \A t \in tasks' : procs'[t.proc] = procs[t.proc] BY <1>1, <1>4, <1>5 DEF Task
  <1>7. lock' # None => lock' = lock /\ lock \in Procs /\ lock # p BY <1>1, <1>2
  <1>8. Leased' BY <1>1, <1>4, <1>7 DEF Leased
  <1> QED BY <1>1, <1>2, <1>3, <1>4, <1>5, <1>6, <1>7, <1>8

-----------------------------------------------------------------------------
(* Steps that write no row.                                                *)

LEMMA AcquireStep ==
    ASSUME IInv, NEW p \in Procs, Acquire(p)
    PROVE  IInv'
  <1>1. TypeOK' BY Typed, TurnsAssumption DEF IInv, Acquire, turns, TypeOK
  <1>2. epoch \in Nat /\ procs \in [Procs -> [phase : Phases, epoch : Nat]] /\ lock = None
    BY Typed DEF IInv, Acquire
  <1>3. RowsStay BY <1>2 DEF Acquire, turns, RowsStay
  <1>4. \A t \in tasks' : t \in tasks /\ procs'[t.proc] = procs[t.proc]
    <2>1. \A t \in tasks : t.proc \in Procs /\ t.proc # p
      BY Typed DEF IInv, TaskOK, Task, Acquire
    <2> QED BY <1>2, <2>1 DEF Acquire
  <1>5. Leased'
    <2>1. Leased BY DEF IInv
    <2> QED BY <1>2, <2>1 DEF Leased, Acquire
  <1>6. ServedAfterRecovery'
    <2>1. lock' # None => procs'[lock'].phase = "acquired" BY <1>2 DEF Acquire
    <2> QED BY <2>1 DEF ServedAfterRecovery
  <1> QED BY <1>1, <1>3, <1>4, <1>5, <1>6, RowsStayOK, TasksStayOK DEF IInv

\* Nothing is closed by mistake: who goes on serving has closed what was there before.
LEMMA StillServed ==
    ASSUME IInv, RowsStay, epoch' = epoch,
           lock' # None => lock' = lock /\ procs'[lock] = procs[lock]
    PROVE  ServedAfterRecovery'
  BY DEF IInv, RowsStay, ServedAfterRecovery, OldClosed

LEMMA LeaveStep ==
    ASSUME IInv, NEW p \in Procs, Notice(p) \/ GatewayStops(p) \/ Crash(p)
    PROVE  IInv'
  <1>1. epoch \in Nat BY Typed DEF IInv
  <1>2. PICK phase \in {"waiting", "paused"} : Leave(p, phase)
    BY DEF Notice, GatewayStops, Crash
  <1>3. /\ epoch' = epoch /\ execs' = execs /\ journal' = journal /\ said' = said
        /\ inbox' = inbox /\ admitted' = admitted
    BY DEF Notice, GatewayStops, Crash, turns
  <1>4. faults' \in 0 .. MaxFaults /\ paused' \in BOOLEAN
    BY Typed, Spends DEF IInv, Notice, GatewayStops, Crash
  <1>5. RowsStay BY <1>1, <1>3 DEF RowsStay
  <1>6. TypeOK' BY <1>2, <1>3, <1>4, Leaving, Typed DEF IInv, TypeOK, Phases, Task, Stages
  <1>7. Leased' /\ ServedAfterRecovery' BY <1>2, <1>3, <1>5, Leaving, StillServed
  <1>8. (\A t \in tasks' : TaskOK(t)') /\ OneTurnEach' BY <1>2, <1>3, <1>5, Leaving, TasksStayOK
  <1> QED BY <1>5, <1>6, <1>7, <1>8, RowsStayOK DEF IInv

LEMMA ResumeStep ==
    ASSUME IInv, NEW p \in Procs, Resume(p)
    PROVE  IInv'
  <1>1. TypeOK'
    <2>1. procs \in [Procs -> [phase : Phases, epoch : Nat]] BY Typed DEF IInv
    <2>2. procs' \in [Procs -> [phase : Phases, epoch : Nat]] BY <2>1 DEF Resume, Phases
    <2> QED BY <2>2 DEF IInv, Resume, turns, TypeOK, Phases
  <1>2. epoch \in Nat /\ procs \in [Procs -> [phase : Phases, epoch : Nat]]
    BY Typed DEF IInv
  <1>3. RowsStay BY <1>2 DEF Resume, turns, RowsStay
  <1>4. \A t \in tasks' : t \in tasks /\ procs'[t.proc] = procs[t.proc]
    <2>1. \A t \in tasks : t.proc \in Procs /\ t.proc # p
      BY Typed DEF IInv, TaskOK, Task, Resume
    <2> QED BY <1>2, <2>1 DEF Resume
  <1>5. Leased' /\ lock' = None
    <2>1. Leased BY DEF IInv
    <2> QED BY <1>2, <2>1 DEF Leased, Resume
  <1>6. ServedAfterRecovery' BY <1>5 DEF ServedAfterRecovery
  <1> QED BY <1>1, <1>3, <1>4, <1>5, <1>6, RowsStayOK, TasksStayOK DEF IInv

LEMMA WorldStep ==
    ASSUME IInv, LoseLock \/ SetAdmission \/ UNCHANGED vars
    PROVE  IInv'
  <1>1. UNCHANGED <<epoch, paused, procs, inbox, turns, tasks>>
    BY DEF LoseLock, SetAdmission, vars, account
  <1>2. lock' = lock \/ lock' = None
    BY DEF LoseLock, SetAdmission, vars, account
  <1>3. TypeOK'
    <2>1. faults' \in 0 .. MaxFaults
      BY Typed, Spends DEF IInv, LoseLock, SetAdmission, vars
    <2>2. lock' \in Procs \cup {None} BY <1>2, Typed DEF IInv
    <2>3. admitted' \in BOOLEAN BY Typed DEF IInv, LoseLock, SetAdmission, vars
    <2> QED BY <2>1, <2>2, <2>3, <1>1 DEF IInv, turns, TypeOK
  <1>4. RowsStay
    <2>1. epoch \in Nat BY Typed DEF IInv
    <2> QED BY <2>1, <1>1 DEF RowsStay, turns
  <1>5. Leased' BY <1>1, <1>2 DEF IInv, Leased
  <1> QED BY <1>1, <1>2, <1>3, <1>4, <1>5, StillServed, RowsStayOK, TasksStayOK DEF IInv

LEMMA ReceiveStep ==
    ASSUME IInv, NEW p \in Procs, NEW m \in Messages, NEW asks \in BOOLEAN, Receive(p, m, asks)
    PROVE  IInv'
  <1>1. /\ inbox \in [Messages -> {"none", "skipped", "quiet", "asked"}] /\ tasks \subseteq Task
        /\ epoch \in Nat /\ execs \in [Messages -> Exec] /\ TypeOK
    BY Typed DEF IInv
  <1>2. /\ procs[p].phase = "serving" /\ Promotes(m, asks)
        /\ inbox' = Received(m, asks) /\ tasks' \in Started(p, m, asks)
        /\ UNCHANGED <<account, admitted, turns, faults>>
    BY DEF Receive
  <1>3. inbox[m] # "asked" BY <1>2 DEF Promotes
  <1>4. /\ inbox' \in [Messages -> {"none", "skipped", "quiet", "asked"}]
        /\ \A x \in Messages : inbox[x] = "asked" => inbox'[x] = "asked"
    BY <1>1, <1>2, <1>3 DEF Received
  <1>5. RowsStay BY <1>1, <1>2, <1>4 DEF RowsStay, account, turns
  <1>6. execs[m].state = "none" BY <1>3 DEF IInv, RowOK
  <1>7. PICK new \in Task : /\ new.msg = m /\ new.proc = p /\ new.at \in {"waiting", "queued"}
                            /\ tasks' # tasks => inbox'[m] = "asked" /\ tasks' = tasks \cup {new}
    <2>1. Turn(p, m, "queued") \in Task /\ Turn(p, m, "waiting") \in Task
      BY DEF Turn, Task, Stages
    <2>2. /\ Turn(p, m, "queued").msg = m /\ Turn(p, m, "queued").proc = p
          /\ Turn(p, m, "waiting").msg = m /\ Turn(p, m, "waiting").proc = p
          /\ Turn(p, m, "queued").at = "queued" /\ Turn(p, m, "waiting").at = "waiting"
      BY DEF Turn
    <2>3. \/ tasks' = tasks
          \/ asks /\ admitted /\ tasks' = tasks \cup {Turn(p, m, "queued")}
          \/ asks /\ admitted /\ tasks' = tasks \cup {Turn(p, m, "waiting")}
      BY <1>2 DEF Started
    <2>4. asks /\ admitted => inbox'[m] = "asked" BY <1>1, <1>2 DEF Received
    <2> QED BY <2>1, <2>2, <2>3, <2>4
  <1>8. TypeOK'
    <2>1. tasks' \subseteq Task BY <1>1, <1>7
    <2> QED BY <1>2, <1>4, <2>1, <1>1 DEF TypeOK, Task, Stages, account, turns
  <1>9. Leased' BY <1>2 DEF IInv, Leased, account
  <1>10. ServedAfterRecovery' BY <1>2, <1>5, StillServed DEF account
  <1>11. ASSUME NEW t \in tasks' PROVE TaskOK(t)'
    <2>1. CASE t \in tasks
      <3>1. TaskOK(t) /\ t.msg \in Messages BY <2>1, <1>1 DEF IInv, Task
      <3> QED BY <3>1, <1>2, <1>4 DEF TaskOK, Keeps, account, turns
    <2>2. CASE t \notin tasks
      <3>1. t = new /\ inbox'[m] = "asked" BY <2>2, <1>7, <1>11
      <3> QED BY <3>1, <1>2, <1>6, <1>7 DEF TaskOK, Keeps, account, turns
    <2> QED BY <2>1, <2>2
  <1>12. OneTurnEach'
    <2>1. \A t \in tasks : t.msg # m BY <1>3 DEF IInv, TaskOK
    <2>2. \A t \in tasks' : t \in tasks \/ t = new BY <1>7
    <2>3. \A t, u \in tasks : t.msg = u.msg => t = u BY DEF IInv, OneTurnEach
    <2> QED BY <2>1, <2>2, <2>3, <1>7 DEF OneTurnEach
  <1> QED BY <1>5, <1>8, <1>9, <1>10, <1>11, <1>12, RowsStayOK DEF IInv

-----------------------------------------------------------------------------
(* Steps of a turn.                                                        *)

\* A turn ends.
LEMMA EndsOK ==
    ASSUME IInv, NEW t \in tasks, Ends(t), UNCHANGED <<account, inbox>>,
           \A m \in Messages : m # t.msg => execs'[m] = execs[m]
    PROVE  tasks' \subseteq Task /\ (\A u \in tasks' : TaskOK(u)') /\ OneTurnEach'
  <1>1. tasks \subseteq Task /\ tasks' = tasks \ {t} BY Typed DEF IInv, Ends
  <1>2. ASSUME NEW u \in tasks' PROVE TaskOK(u)'
    <2>1. u \in tasks /\ u # t /\ TaskOK(u) /\ u.msg \in Messages BY <1>1, <1>2 DEF IInv, Task
    <2>2. execs'[u.msg] = execs[u.msg] BY <2>1 DEF IInv, OneTurnEach
    <2> QED BY <2>1, <2>2 DEF TaskOK, Keeps, account
  <1>3. OneTurnEach' BY <1>1 DEF IInv, OneTurnEach
  <1> QED BY <1>1, <1>2, <1>3

\* A turn goes on, and its row with it.
LEMMA GoesOK ==
    ASSUME IInv, NEW t \in tasks, NEW at \in Stages, Goes(t, at), UNCHANGED <<account, inbox>>,
           \A m \in Messages : m # t.msg => execs'[m] = execs[m],
           Keeps(t.proc, at, execs'[t.msg])
    PROVE  tasks' \subseteq Task /\ (\A u \in tasks' : TaskOK(u)') /\ OneTurnEach'
  <1>1. tasks \subseteq Task /\ t \in Task /\ TaskOK(t) BY Typed DEF IInv
  <1>2. PICK new \in Task : /\ new.proc = t.proc /\ new.msg = t.msg /\ new.at = at
                            /\ tasks' = (tasks \ {t}) \cup {new}
    BY <1>1, Going DEF Goes
  <1>3. TaskOK(new)'
    BY <1>1, <1>2 DEF TaskOK, Keeps, account
  <1>4. ASSUME NEW u \in tasks', u # new PROVE TaskOK(u)'
    <2>1. u \in tasks /\ u # t /\ TaskOK(u) /\ u.msg \in Messages BY <1>1, <1>2, <1>4 DEF IInv, Task
    <2>2. execs'[u.msg] = execs[u.msg] BY <2>1 DEF IInv, OneTurnEach
    <2> QED BY <2>1, <2>2 DEF TaskOK, Keeps, account
  <1>5. OneTurnEach'
    <2>1. \A u \in tasks' : u = new \/ (u \in tasks /\ u # t) BY <1>2
    <2>2. \A u, v \in tasks : u.msg = v.msg => u = v BY DEF IInv, OneTurnEach
    <2> QED BY <2>1, <2>2, <1>2 DEF OneTurnEach
  <1> QED BY <1>1, <1>2, <1>3, <1>4, <1>5

\* A turn whose account is still its process's has a row of this epoch that nobody closed.
LEMMA Upheld ==
    ASSUME IInv, NEW t \in tasks, Current(t.proc), t.at \notin {"waiting", "queued"}
    PROVE  /\ execs[t.msg].epoch = epoch /\ Abreast(t.at, execs[t.msg].state)
           /\ execs[t.msg].state \in Open
           /\ said[t.msg] = {} /\ execs[t.msg].plan = FALSE
  <1>1. t \in Task /\ TaskOK(t) /\ t.msg \in Messages /\ execs \in [Messages -> Exec] /\ epoch \in Nat
    BY Typed DEF IInv, Task
  <1>2. execs[t.msg].epoch = epoch /\ Abreast(t.at, execs[t.msg].state)
    BY <1>1 DEF TaskOK, Keeps, Current
  <1>3. execs[t.msg].state \in Open BY <1>2 DEF Abreast, Open
  <1>4. RowOK(t.msg) /\ execs[t.msg].plan \in BOOLEAN BY <1>1 DEF IInv, Exec
  <1>5. execs[t.msg].state \notin {"handed_off", "cancelled"} BY <1>3 DEF Open
  <1> QED BY <1>2, <1>3, <1>4, <1>5 DEF RowOK

\* Rows that stay satisfy what they did, and the one that changes is of this epoch.
LEMMA RowStep ==
    ASSUME IInv, NEW m \in Messages, UNCHANGED <<account, inbox>>,
           \A x \in Messages : x # m => /\ execs'[x] = execs[x] /\ journal'[x] = journal[x]
                                        /\ said'[x] = said[x],
           execs'[m].epoch = epoch, RowOK(m)'
    PROVE  (\A x \in Messages : RowOK(x)') /\ Leased' /\ ServedAfterRecovery'
  <1>1. ASSUME NEW x \in Messages, x # m PROVE RowOK(x)'
    <2>1. RowOK(x) BY DEF IInv
    <2>2. /\ execs'[x] = execs[x] /\ journal'[x] = journal[x] /\ said'[x] = said[x]
          /\ inbox' = inbox /\ epoch' = epoch
      BY <1>1 DEF account
    <2> QED BY <2>1, <2>2 DEF RowOK
  <1>2. Leased' BY DEF IInv, Leased, account
  <1>3. epoch \in Nat /\ ~ (execs'[m].epoch < epoch) BY Typed DEF IInv
  <1>4. ServedAfterRecovery'
    BY <1>3 DEF IInv, ServedAfterRecovery, OldClosed, account
  <1> QED BY <1>1, <1>2, <1>4

\* A turn goes on or ends, and nothing is written.
LEMMA QuietTurn ==
    ASSUME IInv, NEW t \in tasks, UNCHANGED <<account, admitted, inbox, turns>>,
           faults' \in 0 .. MaxFaults,
           \/ Ends(t)
           \/ Goes(t, "queued") /\ t.at = "waiting"
           \/ Goes(t, "failed") /\ t.at \in {"prepared", "executing", "captured"}
    PROVE  IInv'
  <1>1. t \in Task /\ TaskOK(t) /\ epoch \in Nat /\ execs \in [Messages -> Exec] /\ TypeOK
    BY Typed DEF IInv
  <1>2. UNCHANGED <<account, admitted, inbox, turns>> OBVIOUS
  <1>3. RowsStay /\ execs' = execs BY <1>1, <1>2 DEF RowsStay, account, turns
  <1>5. tasks' \subseteq Task /\ (\A u \in tasks' : TaskOK(u)') /\ OneTurnEach'
    <2>1. CASE Ends(t) BY <2>1, <1>2, <1>3, EndsOK
    <2>2. CASE Goes(t, "queued") /\ t.at = "waiting"
      <3>1. Keeps(t.proc, "queued", execs'[t.msg]) /\ "queued" \in Stages
        BY <2>2, <1>1, <1>3 DEF TaskOK, Keeps, Stages
      <3> QED BY <3>1, <2>2, <1>2, <1>3, GoesOK
    <2>3. CASE Goes(t, "failed") /\ t.at \in {"prepared", "executing", "captured"}
      <3>1. Keeps(t.proc, "failed", execs'[t.msg]) /\ "failed" \in Stages
        BY <2>3, <1>1, <1>3 DEF TaskOK, Keeps, Abreast, Stages, Open
      <3> QED BY <3>1, <2>3, <1>2, <1>3, GoesOK
    <2> QED BY <2>1, <2>2, <2>3
  <1>6. TypeOK' BY <1>1, <1>2, <1>5 DEF TypeOK, Task, Stages, account, turns
  <1>7. Leased' /\ ServedAfterRecovery'
    BY <1>2, <1>3, StillServed DEF IInv, Leased, account
  <1> QED BY <1>3, <1>5, <1>6, <1>7, RowsStayOK DEF IInv

LEMMA QuietStep ==
    ASSUME IInv, NEW t \in tasks, Due(t) \/ Undeliverable(t) \/ Refused(t)
    PROVE  IInv'
  <1>1. faults \in 0 .. MaxFaults BY Typed DEF IInv
  <1>2. UNCHANGED faults \/ SpendIf(TRUE) BY DEF Due, Undeliverable, Refused
  <1>3. faults' \in 0 .. MaxFaults BY <1>1, <1>2, Spends
  <1>4. UNCHANGED <<account, admitted, inbox, turns>> BY DEF Due, Undeliverable, Refused
  <1>5. \/ Ends(t)
        \/ Goes(t, "queued") /\ t.at = "waiting"
        \/ Goes(t, "failed") /\ t.at \in {"prepared", "executing", "captured"}
    BY DEF Due, Undeliverable, Refused
  <1> QED BY <1>3, <1>4, <1>5, QuietTurn

LEMMA PrepareStep ==
    ASSUME IInv, NEW t \in tasks, Prepare(t)
    PROVE  IInv'
  <1>1. t \in Task /\ TaskOK(t) /\ TypeOK /\ execs \in [Messages -> Exec] /\ epoch \in Nat
    BY Typed DEF IInv
  <1>2. /\ t.at = "queued" /\ t.msg \in Messages /\ t.proc \in Procs
        /\ UNCHANGED <<account, admitted, inbox, journal, said, faults>>
    BY <1>1 DEF Prepare, Task
  <1>3. CASE Current(t.proc) /\ execs[t.msg].state = "none"
             /\ execs' = [execs EXCEPT ![t.msg] = [NoTurn EXCEPT !.state = "prepared", !.epoch = epoch]]
             /\ Goes(t, "prepared")
    <2>1. PICK r \in Exec : /\ r.state = "prepared" /\ r.epoch = epoch /\ r.plan = FALSE
                            /\ execs' = [execs EXCEPT ![t.msg] = r]
      <3>1. NoTurn \in Exec /\ NoTurn.plan = FALSE BY DEF NoTurn, Exec, ExecStates
      <3>2. LET r == [NoTurn EXCEPT !.state = "prepared", !.epoch = epoch]
            IN  r \in Exec /\ r.state = "prepared" /\ r.epoch = epoch /\ r.plan = FALSE
        BY <3>1, <1>1 DEF Exec, ExecStates, Open
      <3> QED BY <1>3, <3>2
    <2>2. /\ execs' \in [Messages -> Exec] /\ execs'[t.msg] = r
          /\ \A m \in Messages : m # t.msg => execs'[m] = execs[m]
      BY <1>1, <1>2, <2>1
    <2>3. RowOK(t.msg)'
      <3>1. RowOK(t.msg) /\ execs[t.msg].plan \in BOOLEAN /\ inbox[t.msg] = "asked"
        BY <1>1, <1>2 DEF IInv, Exec, TaskOK
      <3>2. said[t.msg] = {} /\ journal[t.msg] = "none" BY <3>1, <1>3 DEF RowOK
      <3> QED BY <3>1, <3>2, <1>1, <1>2, <2>1, <2>2 DEF RowOK, account
    <2>4. Keeps(t.proc, "prepared", execs'[t.msg]) /\ "prepared" \in Stages
      BY <1>3, <2>1, <2>2 DEF Keeps, Abreast, Current, Stages
    <2>5. tasks' \subseteq Task /\ (\A u \in tasks' : TaskOK(u)') /\ OneTurnEach'
      BY <1>2, <1>3, <2>2, <2>4, GoesOK
    <2>6. (\A m \in Messages : RowOK(m)') /\ Leased' /\ ServedAfterRecovery'
      <3>1. execs'[t.msg].epoch = epoch BY <1>1, <2>1, <2>2
      <3> QED BY <1>2, <2>2, <2>3, <3>1, RowStep
    <2>7. TypeOK'
      BY <1>1, <1>2, <2>2, <2>5 DEF TypeOK, Task, Stages, Exec, ExecStates, account
    <2> QED BY <2>5, <2>6, <2>7 DEF IInv
  <1>4. CASE Ends(t) /\ UNCHANGED execs
    <2>1. tasks' \subseteq Task /\ (\A u \in tasks' : TaskOK(u)') /\ OneTurnEach'
      BY <1>2, <1>4, EndsOK
    <2>2. RowsStay BY <1>1, <1>2, <1>4 DEF RowsStay, account
    <2>3. Leased' /\ ServedAfterRecovery' BY <1>2, <2>2, StillServed DEF IInv, Leased, account
    <2>4. TypeOK' BY <1>1, <1>2, <1>4, <2>1 DEF TypeOK, Task, Stages, account
    <2> QED BY <2>1, <2>2, <2>3, <2>4, RowsStayOK DEF IInv
  <1> QED BY <1>3, <1>4 DEF Prepare

\* A step of a turn that holds the account: its row, its journal entry and its conclusion move
\* together, and the turn goes on or ends.
Moved(t, turn, status, words) ==
    /\ UNCHANGED <<account, admitted, inbox>> /\ faults' \in 0 .. MaxFaults
    /\ execs' = [execs EXCEPT ![t.msg] = turn]
    /\ journal' = [journal EXCEPT ![t.msg] = status]
    /\ said' = [said EXCEPT ![t.msg] = words]
    /\ execs[t.msg].epoch = epoch /\ turn.epoch = epoch /\ turn.state # "none"
    /\ status = "running" => turn.state \in {"executing", "needs_attention"}
    /\ IF turn.plan THEN turn.state = "handed_off" /\ words = {"result"}
       ELSE words = {} \/ (turn.state = "cancelled" /\ words = {"error"})
    /\ t.at \notin {"waiting", "queued"}
    /\ \/ Ends(t)
       \/ \E at \in {"executing", "captured", "failed"} : Goes(t, at) /\ Abreast(at, turn.state)

JournalStates == {"none", "running", "succeeded", "crashed"}

LEMMA MoveStep ==
    ASSUME IInv, NEW t \in tasks, NEW r \in Exec, NEW status \in JournalStates,
           NEW words \in SUBSET Conclusions, Moved(t, r, status, words)
    PROVE  IInv'
  <1>1. /\ t \in Task /\ t.msg \in Messages /\ TaskOK(t) /\ TypeOK
        /\ execs \in [Messages -> Exec] /\ epoch \in Nat /\ said \in [Messages -> SUBSET Conclusions]
        /\ journal \in [Messages -> JournalStates]
    BY Typed DEF IInv, Task, JournalStates
  <1>2. /\ execs' \in [Messages -> Exec] /\ execs'[t.msg] = r
        /\ journal' \in [Messages -> JournalStates]
        /\ journal'[t.msg] = status
        /\ said' \in [Messages -> SUBSET Conclusions] /\ said'[t.msg] = words
        /\ \A m \in Messages : m # t.msg => /\ execs'[m] = execs[m] /\ journal'[m] = journal[m]
                                            /\ said'[m] = said[m]
    BY <1>1 DEF Moved
  <1>3. RowOK(t.msg)'
    <2>1. inbox'[t.msg] = "asked" /\ epoch' = epoch BY <1>1 DEF TaskOK, account, Moved
    <2>2. r.epoch = epoch /\ epoch <= epoch BY <1>1 DEF Moved
    <2> QED BY <1>1, <1>2, <2>1, <2>2 DEF RowOK, Exec, Moved
  <1>4. (\A m \in Messages : RowOK(m)') /\ Leased' /\ ServedAfterRecovery'
    <2>1. execs'[t.msg].epoch = epoch BY <1>2 DEF Moved
    <2>2. UNCHANGED <<account, inbox>> BY DEF Moved
    <2> QED BY <1>1, <1>2, <1>3, <2>1, <2>2, RowStep
  <1>5. tasks' \subseteq Task /\ (\A u \in tasks' : TaskOK(u)') /\ OneTurnEach'
    <2>1. UNCHANGED <<account, inbox>> BY DEF Moved
    <2>2. CASE Ends(t) BY <2>1, <2>2, <1>2, EndsOK
    <2>3. ASSUME NEW at \in {"executing", "captured", "failed"}, Goes(t, at), Abreast(at, r.state)
          PROVE  tasks' \subseteq Task /\ (\A u \in tasks' : TaskOK(u)') /\ OneTurnEach'
      <3>1. r.epoch = procs[t.proc].epoch BY <1>1 DEF TaskOK, Keeps, Moved
      <3>2. Keeps(t.proc, at, execs'[t.msg]) /\ at \in Stages BY <1>2, <2>3, <3>1 DEF Keeps, Stages
      <3> QED BY <1>2, <2>1, <2>3, <3>2, GoesOK
    <2> QED BY <2>2, <2>3 DEF Moved
  <1>6. TypeOK'
    <2>1. UNCHANGED <<account, admitted, inbox>> /\ faults' \in 0 .. MaxFaults BY DEF Moved
    <2> QED BY <1>1, <1>2, <1>5, <2>1
          DEF TypeOK, Task, Stages, Exec, ExecStates, Conclusions, JournalStates, account
  <1> QED BY <1>4, <1>5, <1>6 DEF IInv

\* What a turn that is upheld needs to know of its row before it moves it.
LEMMA Mine ==
    ASSUME IInv, NEW t \in tasks, Current(t.proc), t.at \notin {"waiting", "queued"}
    PROVE  /\ t.msg \in Messages
           /\ execs \in [Messages -> Exec] /\ execs[t.msg] \in Exec
           /\ journal \in [Messages -> JournalStates] /\ journal[t.msg] \in JournalStates
           /\ said \in [Messages -> SUBSET Conclusions]
           /\ said = [said EXCEPT ![t.msg] = {}]
           /\ journal = [journal EXCEPT ![t.msg] = journal[t.msg]]
           /\ execs[t.msg].epoch = epoch /\ Abreast(t.at, execs[t.msg].state)
           /\ execs[t.msg].plan = FALSE /\ said[t.msg] = {}
           /\ journal[t.msg] = "running" => execs[t.msg].state \in {"executing", "needs_attention"}
  <1>1. /\ t.msg \in Messages
        /\ execs \in [Messages -> Exec] /\ journal \in [Messages -> JournalStates]
        /\ said \in [Messages -> SUBSET Conclusions]
    BY Typed DEF IInv, Task, JournalStates
  <1>2. RowOK(t.msg) BY <1>1 DEF IInv
  <1> QED BY <1>1, <1>2, Upheld DEF RowOK

\* Journal entries that a turn's step ends.
LEMMA JournalEnding ==
    ASSUME NEW m \in Messages, NEW status \in {"succeeded", "crashed"},
           journal \in [Messages -> JournalStates]
    PROVE  \E ended \in JournalStates \ {"running"} :
               JournalEnds(m, status) = [journal EXCEPT ![m] = ended]
  <1> DEFINE ended == IF journal[m] = "running" THEN status ELSE journal[m]
  <1>1. ended \in JournalStates \ {"running"} BY DEF JournalStates
  <1>2. JournalEnds(m, status) = [journal EXCEPT ![m] = ended] BY DEF JournalEnds
  <1> QED BY <1>1, <1>2

LEMMA BeginStep ==
    ASSUME IInv, NEW t \in tasks, Begin(t)
    PROVE  IInv'
  <1>1. Current(t.proc) /\ t.at = "prepared" BY DEF Begin, Fenced
  <1> DEFINE r == [execs[t.msg] EXCEPT !.state = "executing"]
  <1>2. /\ r \in Exec /\ r.state = "executing" /\ r.epoch = epoch /\ r.plan = FALSE
        /\ execs' = [execs EXCEPT ![t.msg] = r]
    BY <1>1, Mine DEF Begin, Exec, ExecStates, Open
  <1>3. PICK status \in JournalStates : journal' = [journal EXCEPT ![t.msg] = status]
    BY <1>1, Mine DEF Begin, JournalStates
  <1>4. faults' \in 0 .. MaxFaults BY Typed DEF IInv, Begin
  <1> HIDE DEF r
  <1>5. Moved(t, r, status, {})
    BY <1>1, <1>2, <1>3, <1>4, Mine DEF Begin, Moved, Abreast
  <1> QED BY <1>2, <1>5, MoveStep

LEMMA CaptureStep ==
    ASSUME IInv, NEW t \in tasks, Capture(t)
    PROVE  IInv'
  <1>1. Current(t.proc) /\ t.at \in {"prepared", "executing"} BY DEF Capture, Fenced
  <1>2. PICK result \in {"text", "silence"}, status \in {"succeeded", "crashed"} :
          /\ execs' = [execs EXCEPT ![t.msg].state = "result_ready", ![t.msg].result = result]
          /\ journal' = JournalEnds(t.msg, status)
    BY DEF Capture
  <1> DEFINE r == [execs[t.msg] EXCEPT !.state = "result_ready", !.result = result]
  <1>3. execs' = [execs EXCEPT ![t.msg] = r] BY <1>1, <1>2, Mine
  <1>4. r \in Exec /\ r.state = "result_ready" /\ r.epoch = epoch /\ r.plan = FALSE
    BY <1>1, Mine DEF Exec, ExecStates, Open
  <1>5. PICK ended \in JournalStates \ {"running"} : journal' = [journal EXCEPT ![t.msg] = ended]
    <2>1. t.msg \in Messages /\ journal \in [Messages -> JournalStates] BY <1>1, Mine
    <2>2. PICK ended \in JournalStates \ {"running"} :
              JournalEnds(t.msg, status) = [journal EXCEPT ![t.msg] = ended]
      BY <2>1, JournalEnding
    <2> QED BY <1>2, <2>2
  <1>6. faults' \in 0 .. MaxFaults BY Typed DEF IInv, Capture
  <1> HIDE DEF r
  <1>7. Moved(t, r, ended, {})
    BY <1>1, <1>3, <1>4, <1>5, <1>6, Mine DEF Capture, Moved, Abreast
  <1> QED BY <1>4, <1>5, <1>7, MoveStep

LEMMA HandOffStep ==
    ASSUME IInv, NEW t \in tasks, HandOff(t)
    PROVE  IInv'
  <1>1. Current(t.proc) /\ t.at = "captured" BY DEF HandOff, Fenced
  <1> DEFINE speaks == execs[t.msg].result = "text"
             r == [execs[t.msg] EXCEPT !.state = "handed_off", !.plan = speaks]
  <1>2. execs' = [execs EXCEPT ![t.msg] = r] BY <1>1, Mine DEF HandOff
  <1>3. r \in Exec /\ r.state = "handed_off" /\ r.epoch = epoch /\ (r.plan <=> speaks)
    <2>1. execs[t.msg] \in Exec /\ execs[t.msg].epoch = epoch BY <1>1, Mine
    <2>2. speaks \in BOOLEAN OBVIOUS
    <2> HIDE DEF speaks
    <2> QED BY <2>1, <2>2 DEF Exec, ExecStates
  <1>4. said' = [said EXCEPT ![t.msg] = IF speaks THEN {"result"} ELSE {}]
    BY <1>1, Mine DEF HandOff
  <1>5. faults' \in 0 .. MaxFaults BY Typed DEF IInv, HandOff
  <1>6. journal[t.msg] # "running" /\ journal' = [journal EXCEPT ![t.msg] = journal[t.msg]]
    BY <1>1, Mine DEF HandOff
  <1> HIDE DEF r, speaks
  <1>7. Moved(t, r, journal[t.msg], IF speaks THEN {"result"} ELSE {})
    BY <1>1, <1>2, <1>3, <1>4, <1>5, <1>6, Mine DEF HandOff, Moved
  <1>8. (IF speaks THEN {"result"} ELSE {}) \in SUBSET Conclusions BY DEF Conclusions
  <1> QED BY <1>1, <1>3, <1>7, <1>8, Mine, MoveStep

LEMMA FailStep ==
    ASSUME IInv, NEW t \in tasks, Fail(t)
    PROVE  IInv'
  <1>1. /\ t.at \in {"prepared", "executing", "captured"} /\ Goes(t, "failed")
        /\ UNCHANGED <<account, admitted, inbox, journal, said>>
    BY DEF Fail
  <1>2. faults' \in 0 .. MaxFaults BY Typed, Spends DEF IInv, Fail
  <1>3. t.msg \in Messages /\ execs \in [Messages -> Exec] /\ t \in Task BY Typed DEF IInv, Task
  <1>4. CASE execs' = execs BY <1>1, <1>2, <1>4, QuietTurn DEF turns
  <1>5. CASE t.msg \notin InterruptedBy(t.proc) /\ execs' = Interrupted({t.msg} \cap InterruptedBy(t.proc))
    <2>1. {t.msg} \cap InterruptedBy(t.proc) = {} BY <1>5
    <2>2. execs' = execs BY <1>3, <1>5, <2>1 DEF Interrupted
    <2> QED BY <2>2, <1>4
  <1>6. CASE t.msg \in InterruptedBy(t.proc) /\ execs' = Interrupted({t.msg} \cap InterruptedBy(t.proc))
    <2>1. Current(t.proc) BY <1>6 DEF InterruptedBy, TasksOf, Fenced
    <2> DEFINE r == [execs[t.msg] EXCEPT !.state = "needs_attention"]
    <2>2. execs' = [execs EXCEPT ![t.msg] = r] BY <1>3, <1>6 DEF Interrupted
    <2>3. r \in Exec /\ r.state = "needs_attention" /\ r.epoch = epoch /\ r.plan = FALSE
      <3>1. execs[t.msg] \in Exec BY <1>3
      <3>a. "needs_attention" \in ExecStates BY DEF ExecStates, Open
      <3>2. r \in Exec /\ r.state = "needs_attention" /\ r.epoch = execs[t.msg].epoch
            /\ r.plan = execs[t.msg].plan
        BY <3>1, <3>a DEF Exec
      <3>3. execs[t.msg].epoch = epoch /\ execs[t.msg].plan = FALSE
        BY <1>1, <2>1, Mine DEF Open
      <3> QED BY <3>2, <3>3
    <2>4. said' = [said EXCEPT ![t.msg] = {}] /\ journal' = [journal EXCEPT ![t.msg] = journal[t.msg]]
      BY <1>1, <2>1, Mine
    <2> HIDE DEF r
    <2>5. Moved(t, r, journal[t.msg], {})
      BY <1>1, <1>2, <2>1, <2>2, <2>3, <2>4, Mine DEF Moved, Abreast, Open
    <2> QED BY <1>1, <2>1, <2>3, <2>5, Mine, MoveStep
  <1> QED BY <1>4, <1>5, <1>6 DEF Fail

LEMMA ReportStep ==
    ASSUME IInv, NEW t \in tasks, Report(t)
    PROVE  IInv'
  <1>1. /\ t.at = "failed" /\ Ends(t) /\ UNCHANGED <<account, admitted, inbox, faults>>
    BY DEF Report
  <1>2. faults' \in 0 .. MaxFaults BY <1>1, Typed DEF IInv
  <1>3. CASE UNCHANGED turns BY <1>1, <1>2, <1>3, QuietTurn
  <1>4. CASE Current(t.proc) /\ admitted
    <2> DEFINE r == [execs[t.msg] EXCEPT !.state = "cancelled"]
    <2>a. /\ said' = [said EXCEPT ![t.msg] = @ \cup {"error"}]
          /\ journal' = JournalEnds(t.msg, "crashed")
          /\ execs' = [execs EXCEPT ![t.msg].state = IF execs[t.msg].plan THEN @ ELSE "cancelled"]
      BY <1>4 DEF Report
    <2>b. execs[t.msg].plan = FALSE /\ said[t.msg] = {} /\ t.msg \in Messages BY <1>1, <1>4, Mine
    <2>1. execs' = [execs EXCEPT ![t.msg] = r] /\ said' = [said EXCEPT ![t.msg] = {"error"}]
      <3>1. execs' = [execs EXCEPT ![t.msg] = r] BY <2>a, <2>b
      <3>2. said' = [said EXCEPT ![t.msg] = {"error"}] BY <2>a, <2>b
      <3> QED BY <3>1, <3>2
    <2>2. r \in Exec /\ r.state = "cancelled" /\ r.epoch = epoch /\ r.plan = FALSE
      BY <1>1, <1>4, Mine DEF Exec, ExecStates
    <2>3. PICK ended \in JournalStates \ {"running"} : journal' = [journal EXCEPT ![t.msg] = ended]
      <3>1. t.msg \in Messages /\ journal \in [Messages -> JournalStates] BY <1>1, <1>4, Mine
      <3>2. PICK ended \in JournalStates \ {"running"} :
                JournalEnds(t.msg, "crashed") = [journal EXCEPT ![t.msg] = ended]
        BY <3>1, JournalEnding
      <3> QED BY <2>a, <3>2
    <2> HIDE DEF r
    <2>4. Moved(t, r, ended, {"error"})
      BY <1>1, <1>2, <1>4, <2>1, <2>2, <2>3, Mine DEF Moved
    <2>5. {"error"} \in SUBSET Conclusions BY DEF Conclusions
    <2> QED BY <2>2, <2>3, <2>4, <2>5, MoveStep
  <1> QED BY <1>3, <1>4 DEF Report

-----------------------------------------------------------------------------
(* Steps that write the rows of several turns, and the theorems.           *)

\* The turns that a process marks as it drops them are its own, upheld and not finished.
LEMMA Marked ==
    ASSUME IInv, NEW p \in Procs, NEW m \in InterruptedBy(p)
    PROVE  /\ m \in Messages /\ execs[m].epoch = epoch
           /\ execs[m].state \in {"prepared", "executing"}
           /\ \A u \in tasks : u.msg = m => u.proc = p
  <1>1. PICK t \in tasks : t.proc = p /\ t.msg = m /\ Fenced(t) /\ execs[m].state \in {"prepared", "executing"}
    BY DEF InterruptedBy, TasksOf
  <1>2. t \in Task BY Typed DEF IInv
  <1> QED BY <1>1, <1>2 DEF Fenced, Task, IInv, OneTurnEach

LEMMA DropStep ==
    ASSUME IInv, NEW p \in Procs, NEW phase \in {"waiting", "paused"}, Leave(p, phase),
           execs' = Interrupted(InterruptedBy(p)), UNCHANGED <<epoch, admitted, journal, said>>,
           paused' \in BOOLEAN, faults' \in 0 .. MaxFaults,
           inbox' \in [Messages -> {"none", "skipped", "quiet", "asked"}],
           \A m \in Messages : inbox[m] = "asked" => inbox'[m] = "asked"
    PROVE  IInv'
  <1> DEFINE ms == InterruptedBy(p)
  <1>1. TypeOK /\ epoch \in Nat /\ execs \in [Messages -> Exec] BY Typed DEF IInv
  <1>2. \A m \in ms : /\ m \in Messages /\ execs[m].epoch = epoch
                      /\ execs[m].state \in {"prepared", "executing"}
                      /\ \A u \in tasks : u.msg = m => u.proc = p
    BY Marked
  <1>3. /\ execs' \in [Messages -> Exec]
        /\ \A m \in Messages : /\ execs'[m].epoch = execs[m].epoch
                               /\ execs'[m].plan = execs[m].plan
                               /\ m \in ms => execs'[m].state = "needs_attention"
                               /\ m \notin ms => execs'[m] = execs[m]
    <2>1. ms \in SUBSET Messages BY <1>2
    <2> HIDE DEF ms
    <2>2. execs' = Interrupted(ms) BY DEF ms
    <2> QED BY <1>1, <2>1, <2>2, Interrupting
  <1> HIDE DEF ms
  <1>4. /\ procs' \in [Procs -> [phase : Phases, epoch : Nat]]
        /\ lock' \in Procs \cup {None}
        /\ tasks' \subseteq Task /\ tasks' \subseteq tasks
        /\ \A t \in tasks' : t.proc # p /\ procs'[t.proc] = procs[t.proc]
        /\ Leased'
        /\ lock' # None => lock' = lock /\ procs'[lock] = procs[lock]
    BY Leaving
  <1>5. TypeOK' BY <1>1, <1>3, <1>4 DEF TypeOK, Phases, Task, Stages, Exec, ExecStates
  <1>6. ASSUME NEW m \in Messages PROVE RowOK(m)'
    <2>1. RowOK(m) BY DEF IInv
    <2>2. CASE m \in ms
      <3>1. execs[m].state # "cancelled" /\ execs[m].state # "handed_off" /\ execs[m].state # "none"
        BY <1>2, <2>2
      <3>2. execs[m].plan \in BOOLEAN BY <1>1 DEF Exec
      <3>3. execs[m].plan = FALSE /\ said[m] = {} /\ inbox[m] = "asked" BY <2>1, <3>1, <3>2 DEF RowOK
      <3>4. /\ execs'[m].plan = FALSE /\ said'[m] = {} /\ inbox'[m] = "asked"
            /\ execs'[m].state = "needs_attention" /\ execs'[m].epoch = execs[m].epoch
        <4>1. said' = said OBVIOUS
        <4> QED BY <2>2, <3>3, <1>3
      <3>5. execs'[m].epoch <= epoch' BY <2>1, <3>4 DEF RowOK
      <3> QED BY <3>4, <3>5 DEF RowOK
    <2>3. CASE m \notin ms BY <2>1, <2>3, <1>3 DEF RowOK
    <2> QED BY <2>2, <2>3
  <1>7. ASSUME NEW t \in tasks' PROVE TaskOK(t)'
    <2>1. t \in tasks /\ TaskOK(t) /\ t.proc # p /\ procs'[t.proc] = procs[t.proc] /\ t.msg \in Messages
      BY <1>4, <1>7 DEF IInv, Task
    <2>2. execs'[t.msg] = execs[t.msg] BY <1>2, <1>3, <2>1
    <2> QED BY <2>1, <2>2 DEF TaskOK, Keeps
  <1>8. OneTurnEach' BY <1>4 DEF IInv, OneTurnEach
  <1>9. ServedAfterRecovery'
    <2>1. ASSUME lock' # None /\ procs'[lock'].phase = "serving" PROVE OldClosed'
      <3>1. OldClosed BY <2>1, <1>4 DEF IInv, ServedAfterRecovery
      <3>2. \A m \in Messages : execs'[m].epoch < epoch => execs'[m] = execs[m]
        BY <1>1, <1>2, <1>3
      <3> QED BY <3>1, <3>2 DEF OldClosed
    <2> QED BY <2>1 DEF ServedAfterRecovery
  <1> QED BY <1>4, <1>5, <1>6, <1>7, <1>8, <1>9 DEF IInv

LEMMA StopStep ==
    ASSUME IInv, NEW p \in Procs, Stop(p)
    PROVE  IInv'
  <1>1. faults' \in 0 .. MaxFaults BY Typed, Spends DEF IInv, Stop
  <1>2. paused' \in BOOLEAN /\ inbox' = inbox /\ inbox \in [Messages -> {"none", "skipped", "quiet", "asked"}]
    BY Typed DEF IInv, Stop
  <1> QED BY <1>1, <1>2, DropStep DEF Stop

LEMMA DispatchFailsStep ==
    ASSUME IInv, NEW p \in Procs, DispatchFails(p)
    PROVE  IInv'
  <1>1. faults \in 0 .. MaxFaults /\ inbox \in [Messages -> {"none", "skipped", "quiet", "asked"}]
    BY Typed DEF IInv
  <1>2. faults' \in 0 .. MaxFaults BY <1>1, Spends DEF DispatchFails
  <1>3. paused' \in BOOLEAN BY DEF DispatchFails
  <1> DEFINE Grown ==
        /\ inbox' \in [Messages -> {"none", "skipped", "quiet", "asked"}]
        /\ \A m \in Messages : inbox[m] = "asked" => inbox'[m] = "asked"
  <1>4. Grown
    <2>1. CASE inbox' = inbox BY <1>1, <2>1
    <2>2. ASSUME NEW m \in Messages, NEW asks \in BOOLEAN, Promotes(m, asks), inbox' = Received(m, asks)
          PROVE  Grown
      BY <1>1, <2>2 DEF Promotes, Received
    <2> QED BY <2>1, <2>2 DEF DispatchFails
  <1>5. /\ execs' = Interrupted(InterruptedBy(p)) /\ Leave(p, "paused")
        /\ UNCHANGED <<epoch, admitted, journal, said>>
    BY DEF DispatchFails
  <1> QED BY <1>2, <1>3, <1>4, <1>5, DropStep

LEMMA RecoverStep ==
    ASSUME IInv, NEW p \in Procs, Recover(p)
    PROVE  IInv'
  <1>1. /\ epoch \in Nat /\ execs \in [Messages -> Exec] /\ tasks \subseteq Task
        /\ journal \in [Messages -> JournalStates] /\ said \in [Messages -> SUBSET Conclusions]
        /\ procs \in [Procs -> [phase : Phases, epoch : Nat]] /\ TypeOK
    BY Typed DEF IInv, JournalStates
  <1>2. /\ procs[p].phase = "acquired" /\ lock = p /\ procs[p].epoch = epoch
        /\ UNCHANGED <<epoch, paused, lock, admitted, inbox, tasks, faults>>
    BY DEF Recover, Current
  <1>3. ASSUME NEW m \in Unfinished
        PROVE  /\ m \in Messages /\ execs[m].epoch < epoch /\ execs[m].state \in Open
               /\ execs[m].plan = FALSE /\ said[m] = {}
    <2>1. m \in Messages /\ execs[m].epoch < epoch /\ RowOK(m) /\ execs[m].plan \in BOOLEAN
      BY <1>1 DEF Unfinished, IInv, Exec
    <2>2. execs[m].state \in Open BY <2>1 DEF Unfinished, RowOK, Open
    <2>3. execs[m].state # "handed_off" /\ execs[m].state # "cancelled" BY <2>2 DEF Open
    <2> QED BY <2>1, <2>2, <2>3 DEF RowOK
  <1>4. /\ execs' \in [Messages -> Exec]
        /\ \A m \in Messages : /\ m \in Unfinished => /\ execs'[m].state = "cancelled"
                                                      /\ execs'[m].plan = FALSE
                                                      /\ execs'[m].epoch = execs[m].epoch
                               /\ m \notin Unfinished => execs'[m] = execs[m]
    <2>1. \A m \in Messages : [execs[m] EXCEPT !.state = "cancelled"] \in Exec
      BY <1>1 DEF Exec, ExecStates
    <2>2. execs' = [m \in Messages |-> IF m \in Unfinished
                                       THEN [execs[m] EXCEPT !.state = "cancelled"] ELSE execs[m]]
      <3>1. \A m \in Unfinished : execs[m].plan = FALSE BY <1>3
      <3> QED BY <3>1 DEF Recover
    <2>3. \A m \in Unfinished : execs[m].plan = FALSE BY <1>3
    <2> QED BY <1>1, <2>1, <2>2, <2>3 DEF Exec
  <1>5. /\ journal' \in [Messages -> JournalStates]
        /\ \A m \in Messages : /\ m \in Unfinished => journal'[m] # "running"
                               /\ m \notin Unfinished => journal'[m] = journal[m]
    BY <1>1 DEF Recover, Closed, JournalStates
  <1> DEFINE Told ==
        /\ said' \in [Messages -> SUBSET Conclusions]
        /\ \A m \in Messages : /\ m \in Unfinished => said'[m] \in {{}, {"restart"}}
                               /\ m \notin Unfinished => said'[m] = said[m]
  <1>6. Told
    <2>1. CASE said' = said BY <1>1, <1>3, <2>1
    <2>2. ASSUME NEW m \in Unfinished, said' = [said EXCEPT ![m] = @ \cup {"restart"}]
          PROVE  Told
      <3>1. said[m] = {} /\ m \in Messages BY <1>3
      <3>2. said' = [said EXCEPT ![m] = {"restart"}] BY <2>2, <3>1
      <3>3. {"restart"} \in SUBSET Conclusions BY DEF Conclusions
      <3> QED BY <1>1, <1>3, <3>1, <3>2, <3>3
    <2> QED BY <2>1, <2>2 DEF Recover
  <1>7. procs' \in [Procs -> [phase : Phases, epoch : Nat]]
    BY <1>1 DEF Recover, Phases
  <1>8. \A q \in Procs : procs'[q].epoch = procs[q].epoch /\ (q # p => procs'[q] = procs[q])
    BY <1>1 DEF Recover
  <1>9. procs'[p].phase = "serving" BY <1>1 DEF Recover
  <1>10. TypeOK'
    BY <1>1, <1>2, <1>4, <1>5, <1>6, <1>7
    DEF TypeOK, Phases, Exec, ExecStates, JournalStates, Conclusions
  <1>11. Leased' BY <1>2, <1>8, <1>9 DEF IInv, Leased
  <1>12. ASSUME NEW m \in Messages PROVE RowOK(m)'
    <2>1. RowOK(m) BY DEF IInv
    <2>2. CASE m \in Unfinished
      <3>1. execs[m].state # "none" BY <1>3, <2>2 DEF Open
      <3> QED BY <2>1, <2>2, <3>1, <1>2, <1>4, <1>5, <1>6 DEF RowOK
    <2>3. CASE m \notin Unfinished BY <2>1, <2>3, <1>2, <1>4, <1>5, <1>6 DEF RowOK
    <2> QED BY <2>2, <2>3
  <1>13. ASSUME NEW t \in tasks PROVE TaskOK(t)'
    <2>1. TaskOK(t) /\ t.msg \in Messages /\ t.proc \in Procs BY <1>1 DEF IInv, Task
    <2>2. procs'[t.proc] = procs[t.proc] BY <2>1, <1>2, <1>8 DEF TaskOK
    <2>3. CASE t.msg \in Unfinished
      <3>1. execs[t.msg].state # "none" BY <1>3, <2>3 DEF Open
      <3>2. execs'[t.msg].state = "cancelled" /\ execs'[t.msg].epoch = execs[t.msg].epoch
        BY <1>4, <2>1, <2>3
      <3>3. execs[t.msg].epoch < epoch BY <1>3, <2>3
      <3> QED BY <2>1, <2>2, <3>1, <3>2, <3>3, <1>2 DEF TaskOK, Keeps
    <2>4. CASE t.msg \notin Unfinished
      <3>1. execs'[t.msg] = execs[t.msg] BY <1>4, <2>1, <2>4
      <3> QED BY <2>1, <2>2, <3>1, <1>2 DEF TaskOK, Keeps
    <2> QED BY <2>3, <2>4
  <1>14. OneTurnEach' BY <1>2 DEF IInv, OneTurnEach
  <1>15. OldClosed'
    <2>1. ASSUME NEW m \in Messages, execs'[m].epoch < epoch
          PROVE  execs'[m].state \notin Open /\ journal'[m] # "running"
      <3>1. CASE m \in Unfinished BY <3>1, <1>4, <1>5 DEF Open
      <3>2. CASE m \notin Unfinished BY <3>2, <2>1, <1>4, <1>5 DEF Unfinished
      <3> QED BY <3>1, <3>2
    <2> QED BY <2>1, <1>2 DEF OldClosed
  <1> QED BY <1>2, <1>10, <1>11, <1>12, <1>13, <1>14, <1>15 DEF IInv, ServedAfterRecovery

LEMMA InitOK == Init => IInv
  <1> SUFFICES ASSUME Init PROVE IInv OBVIOUS
  <1>1. TypeOK
    <2>1. NoTurn \in Exec BY DEF NoTurn, Exec, ExecStates
    <2>2. execs \in [Messages -> Exec] BY <2>1 DEF Init
    <2>3. procs \in [Procs -> [phase : Phases, epoch : Nat]] BY DEF Init, Phases
    <2>4. faults \in 0 .. MaxFaults BY TurnsAssumption DEF Init
    <2>5. said \in [Messages -> SUBSET Conclusions] BY DEF Init
    <2> QED BY <2>2, <2>3, <2>4, <2>5, Typed DEF Init
  <1>2. \A m \in Messages : RowOK(m) BY DEF Init, RowOK, NoTurn
  <1>3. Leased /\ OneTurnEach /\ ServedAfterRecovery /\ tasks = {}
    BY DEF Init, Leased, OneTurnEach, ServedAfterRecovery
  <1> QED BY <1>1, <1>2, <1>3 DEF IInv

LEMMA StepOK == IInv /\ [Next]_vars => IInv'
  <1> SUFFICES ASSUME IInv, [Next]_vars PROVE IInv' OBVIOUS
  <1>1. ASSUME NEW p \in Procs, Lifecycle(p) PROVE IInv'
    BY <1>1, AcquireStep, RecoverStep, LeaveStep, ResumeStep, StopStep DEF Lifecycle
  <1>2. ASSUME NEW p \in Procs, Reception(p) PROVE IInv'
    BY <1>2, ReceiveStep, DispatchFailsStep DEF Reception
  <1>3. ASSUME NEW t \in tasks, Step(t) PROVE IInv'
    BY <1>3, QuietStep, PrepareStep, BeginStep, CaptureStep, HandOffStep, FailStep, ReportStep DEF Step
  <1>4. CASE LoseLock \/ SetAdmission \/ UNCHANGED vars BY <1>4, WorldStep
  <1> QED BY <1>1, <1>2, <1>3, <1>4 DEF Next

\* Every reachable state satisfies the inductive invariant: Init establishes it, and each
\* step of the runtimes, of the reception, of the turns and of the world keeps it.
THEOREM Invariance == Spec => []IInv
  BY InitOK, StepOK, PTL DEF Spec

\* The rows, the runtimes and the turns in RAM keep their types; in particular a turn's row
\* has no state that the table of turns does not know.
THEOREM TypeCorrect == Spec => []TypeOK
  <1>1. IInv => TypeOK BY DEF IInv
  <1> QED BY <1>1, Invariance, PTL

\* Whoever serves the account has closed what earlier holders left open, and none of them
\* reopens it with what it still has in RAM, whenever it notices that its lease is lost.
THEOREM OldTurnsStayClosed == Spec => []OldTurnsClosed
  <1>1. IInv => OldTurnsClosed
    <2> SUFFICES ASSUME IInv, NEW p \in Procs, procs[p].phase = "serving", Current(p),
                        NEW m \in Messages, execs[m].epoch < epoch
                 PROVE  execs[m].state \notin Open /\ journal[m] # "running"
      BY DEF OldTurnsClosed
    <2>1. lock = p /\ lock # None BY TurnsAssumption DEF Current
    <2> QED BY <2>1 DEF IInv, ServedAfterRecovery, OldClosed
  <1> QED BY <1>1, Invariance, PTL

\* A person who asked is told one thing at most, whatever fails, is refused, is restarted or
\* is taken over: the answer, an apology, or that the bot restarted.
THEOREM ToldOnce == Spec => []OneConclusion
  <1>1. IInv => OneConclusion
    <2> SUFFICES ASSUME IInv, NEW m \in Messages PROVE Cardinality(said[m]) <= 1
      BY DEF OneConclusion
    <2>1. RowOK(m) /\ execs[m].plan \in BOOLEAN BY Typed DEF IInv, Exec
    <2>2. said[m] \in {{}, {"result"}, {"error"}, {"restart"}} BY <2>1 DEF RowOK
    <2>3. Cardinality({}) = 0 /\ \A c \in Conclusions : Cardinality({c}) = 1
      BY FS_EmptySet, FS_Singleton
    <2> QED BY <2>2, <2>3 DEF Conclusions
  <1> QED BY <1>1, Invariance, PTL

\* Row, journal and outbox tell one story of every message.
THEOREM OneStory == Spec => []RowJournalOutboxAgree
  <1>1. IInv => RowJournalOutboxAgree
    <2> SUFFICES ASSUME IInv, NEW m \in Messages
                 PROVE  /\ journal[m] = "running" => execs[m].state \in {"executing", "needs_attention"}
                        /\ "result" \in said[m] <=> execs[m].plan
                        /\ said[m] \cap {"error", "restart"} # {} => execs[m].state = "cancelled"
                        /\ execs[m].state = "none" => journal[m] = "none"
      BY DEF RowJournalOutboxAgree
    <2>1. RowOK(m) /\ execs[m].plan \in BOOLEAN BY Typed DEF IInv, Exec
    <2>2. CASE execs[m].plan BY <2>1, <2>2 DEF RowOK
    <2>3. CASE ~execs[m].plan BY <2>1, <2>3 DEF RowOK
    <2> QED BY <2>2, <2>3
  <1> QED BY <1>1, Invariance, PTL

\* What a step may do to the row of one message and to what was said about it.
Reruns(m) ==
    \/ execs[m].state \in {"handed_off", "cancelled"}
          /\ ~ (execs'[m] = execs[m] /\ said'[m] = said[m])
    \/ execs[m].state \notin {"none", "prepared"} /\ execs'[m].state = "prepared"

\* A turn whose row a step of it may write is neither concluded nor, once begun, prepared again.
LEMMA TurnDoesNotRerun ==
    ASSUME IInv, NEW t \in tasks, Step(t), NEW m \in Messages
    PROVE  ~Reruns(m)
  <1>1. /\ t \in Task /\ t.msg \in Messages
        /\ execs \in [Messages -> Exec] /\ said \in [Messages -> SUBSET Conclusions]
    BY Typed DEF IInv, Task
  <1>2. CASE Due(t) \/ Undeliverable(t) \/ Refused(t)
    BY <1>2 DEF Due, Undeliverable, Refused, turns, Reruns
  <1>3. CASE Prepare(t) BY <1>1, <1>3 DEF Prepare, Reruns
  <1>4. CASE Begin(t) BY <1>1, <1>4 DEF Begin, Reruns
  <1>5. CASE Capture(t)
    <2>1. execs[t.msg].state \in Open BY <1>5, Upheld DEF Capture, Fenced
    <2>2. PICK result \in {"text", "silence"} :
            execs' = [execs EXCEPT ![t.msg].state = "result_ready", ![t.msg].result = result]
      BY <1>5 DEF Capture
    <2>3. said' = said BY <1>5 DEF Capture
    <2> QED BY <1>1, <2>1, <2>2, <2>3 DEF Reruns, Open
  <1>6. CASE HandOff(t)
    <2>1. execs[t.msg].state = "result_ready" BY <1>6 DEF HandOff
    <2>2. /\ execs' = [execs EXCEPT ![t.msg].state = "handed_off", ![t.msg].plan = execs[t.msg].result = "text"]
          /\ \A x \in Messages : x # t.msg => said'[x] = said[x]
      BY <1>1, <1>6 DEF HandOff
    <2> QED BY <1>1, <2>1, <2>2 DEF Reruns
  <1>7. CASE Fail(t)
    <2>1. said' = said BY <1>7 DEF Fail
    <2>2. CASE execs' = execs BY <2>1, <2>2 DEF Reruns
    <2>3. CASE execs' = Interrupted({t.msg} \cap InterruptedBy(t.proc))
      BY <1>1, <2>1, <2>3 DEF Interrupted, InterruptedBy, TasksOf, Reruns
    <2> QED BY <1>7, <2>2, <2>3 DEF Fail
  <1>8. CASE Report(t)
    <2>1. CASE UNCHANGED turns BY <2>1 DEF turns, Reruns
    <2>2. CASE Current(t.proc) /\ admitted
      <3>1. execs[t.msg].state \in Open /\ execs[t.msg].plan = FALSE
        BY <1>8, <2>2, Upheld DEF Report
      <3>2. /\ execs' = [execs EXCEPT ![t.msg].state = IF execs[t.msg].plan THEN @ ELSE "cancelled"]
            /\ said' = [said EXCEPT ![t.msg] = @ \cup {"error"}]
        BY <1>8, <2>2 DEF Report
      <3> QED BY <1>1, <3>1, <3>2 DEF Reruns, Open
    <2> QED BY <1>8, <2>1, <2>2 DEF Report
  <1> QED BY <1>2, <1>3, <1>4, <1>5, <1>6, <1>7, <1>8 DEF Step

\* Nor is any by the steps of a runtime.
LEMMA RuntimeDoesNotRerun ==
    ASSUME IInv, NEW p \in Procs, Lifecycle(p) \/ Reception(p), NEW m \in Messages
    PROVE  ~Reruns(m)
  <1>1. execs \in [Messages -> Exec] /\ said \in [Messages -> SUBSET Conclusions]
    BY Typed DEF IInv
  <1>2. CASE UNCHANGED <<execs, said>> BY <1>2 DEF Reruns
  <1>3. CASE execs' = Interrupted(InterruptedBy(p)) /\ said' = said
    BY <1>1, <1>3 DEF Interrupted, InterruptedBy, Reruns
  <1>4. CASE Recover(p)
    <2>1. RowOK(m) BY DEF IInv
    <2>2. m \in Unfinished => execs[m].state \in Open
      BY <2>1 DEF Unfinished, RowOK, Open
    <2>3. m \notin Unfinished => execs'[m] = execs[m] /\ said'[m] = said[m]
      BY <1>1, <1>4 DEF Recover
    <2>4. m \in Unfinished => execs'[m].state \in {"handed_off", "cancelled"}
      BY <1>1, <1>4 DEF Recover, Exec
    <2> QED BY <2>2, <2>3, <2>4 DEF Reruns, Open
  <1>5. \/ UNCHANGED <<execs, said>>
        \/ execs' = Interrupted(InterruptedBy(p)) /\ said' = said
        \/ Recover(p)
    BY DEF Lifecycle, Reception, Acquire, Notice, GatewayStops, Resume, Crash, Stop, Receive,
           DispatchFails, turns
  <1> QED BY <1>2, <1>3, <1>4, <1>5

\* A turn that was handed off or closed is never run, answered or reopened, and a turn that
\* has begun does not begin again, whichever process still has it in its RAM.
THEOREM ConcludedIsFinal == Spec => NothingRunsTwice
  <1> DEFINE Once ==
        \A m \in Messages :
          /\ execs[m].state \in {"handed_off", "cancelled"} => execs'[m] = execs[m] /\ said'[m] = said[m]
          /\ execs[m].state # "none" => execs'[m].state # "prepared" \/ execs[m].state = "prepared"
  <1>1. IInv /\ [Next]_vars => [Once]_vars
    <2> SUFFICES ASSUME IInv, Next PROVE Once OBVIOUS
    <2>1. \A m \in Messages : ~Reruns(m)
      <3>1. CASE LoseLock \/ SetAdmission BY <3>1 DEF LoseLock, SetAdmission, turns, Reruns
      <3> QED BY <3>1, TurnDoesNotRerun, RuntimeDoesNotRerun DEF Next
    <2> QED BY <2>1 DEF Reruns
  <1> QED BY <1>1, Invariance, PTL DEF Spec, NothingRunsTwice

=============================================================================
