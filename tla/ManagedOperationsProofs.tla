----------------------- MODULE ManagedOperationsProofs -----------------------
(***************************************************************************)
(* Managed writes are sent once and end with the truth, for any number of  *)
(* operations, runners, reboots and failing calls.                         *)
(*                                                                         *)
(* Two runners can work on one operation at a time: the one that holds the *)
(* lease and one that lost it in the middle of a round.  What a round may  *)
(* do therefore rests on what it knows (RoundFits), on what a row that     *)
(* changed hands keeps of it (RowFits, Informed), and on how few rounds    *)
(* there can be before a write: the checkpoint lets one checked command    *)
(* through, and an operation of any other kind is not claimed again until  *)
(* its job is known (Alone).                                               *)
(***************************************************************************)
EXTENDS ManagedOperations, TLAPS

Saws == {"none", "proof", "receipt", "stable"}
Ages == {"ontime", "late", "over"}
Hands == Runners \cup {Nobody}

LedgerRow == [kind : Kinds, status : Statuses, owner : Hands, live : BOOLEAN, fence : Hands,
              started : BOOLEAN, handle : BOOLEAN, saw : Saws, age : Ages]

Consent == [state : {"none", "given", "consumed"}, lapsed : BOOLEAN]

JobRow == [state : JobStates, phase : Phases, cancel : BOOLEAN, proof : Int, refused : BOOLEAN,
           ran : Nat, shows : Effects]

Steps == {"idle", "claimed", "validate", "checkpoint", "send", "waiting", "recover", "observe",
          "cancel", "verify", "finish"}

RoundRow == [op : Operations \cup {Nobody}, pc : Steps, cancelling : BOOLEAN, started : BOOLEAN,
             handle : BOOLEAN, saw : Saws, view : JobRow, status : Statuses \cup {"none"}]

Types ==
    /\ op \in [Operations -> LedgerRow]
    /\ approval \in [Operations -> Consent]
    /\ job \in [Operations -> JobRow]
    /\ boot \in Nat
    /\ service \in [Operations -> {"before", "acted", "other", "failed"}]
    /\ round \in [Runners -> RoundRow]
    /\ stray \subseteq Operations
    /\ sent \in [Operations -> Nat]

-----------------------------------------------------------------------------
(* The invariant.                                                          *)

Unclaimed == {"absent", "awaiting_approval", "queued"}

On(r, o) == round[r].pc # "idle" /\ round[r].op = o

\* What is true of a job, of how often its write was sent, and of its host.
JobSound(j, count, b, unit) ==
    /\ j.state = "none" => j = NoJob
    /\ j.state # "none" => count = 1
    /\ j.phase \in {"queued", "begun", "checked", "working"} => j.state \in {"dispatching", "running"}
    /\ j.phase \in {"none", "queued", "begun", "checked"} => j.ran = 0
    /\ j.phase = "working" => j.ran = 1
    /\ j.ran <= 1
    /\ j.state = "succeeded" => j.ran = 1
    /\ j.phase \in {"none", "queued", "begun"} => j.proof = -1
    /\ j.proof <= b
    /\ j.refused => j.ran = 0 /\ j.phase \in {"begun", "dead"}
    /\ unit # "before" => j.phase = "dead"

\* What the verdicts promise.
Succeeded(o) ==
    IF op[o].kind = "reboot" /\ job[o].proof # -1 THEN boot > job[o].proof
    ELSE /\ job[o].state = "succeeded" /\ job[o].ran = 1
         /\ op[o].kind = "service" => job[o].shows = "asked"

Failed(o) ==
    \/ job[o].state \in {"failed", "timed_out"}
    \/ job[o].refused /\ job[o].ran = 0
    \/ /\ op[o].kind = "service" /\ job[o].state = "succeeded"
       /\ job[o].shows = "missed" \/ service[o] = "failed"

Warranted(o, status, blank) ==
    /\ status = "succeeded" => Succeeded(o)
    /\ status = "failed" => blank \/ op[o].age # "ontime" \/ Failed(o)
    /\ status = "cancelled" => blank \/ job[o].state = "cancelled"

\* The job of a service has succeeded.
Receipt(o) == op[o].kind = "service" /\ job[o].state = "succeeded"

Blank(o) == ~op[o].started /\ ~op[o].handle

RowFits(o) ==
    /\ op[o].status \in Unclaimed => Blank(o) /\ sent[o] = 0 /\ \A r \in Runners : ~On(r, o)
    /\ op[o].live => op[o].owner # Nobody /\ op[o].status \in {"running", "cancelling"}
    /\ sent[o] <= 1
    /\ sent[o] = 1 => approval[o].state = "consumed"
    /\ sent[o] = 1 /\ op[o].kind \in HostControlled => op[o].started
    /\ o \in stray => sent[o] = 1 /\ job[o] = NoJob
    /\ Warranted(o, op[o].status, Blank(o))
    /\ op[o].status \in {"failed", "cancelled"} /\ Blank(o) =>
          sent[o] = 0 /\ (op[o].kind \notin HostControlled => \A r \in Runners : ~On(r, o))
    /\ op[o].saw \in {"receipt", "stable"} => Receipt(o)

\* What a round knows, and what it may still do.
RoundFits(me) ==
    LET o == me.op
        plain == op[o].kind \notin HostControlled
    IN me.pc # "idle" =>
       /\ o \in Operations /\ op[o].status \notin Unclaimed
       /\ me.pc = "claimed" /\ plain => me.handle \/ ~me.started
       /\ me.pc \in {"validate", "checkpoint"} => ~me.started /\ ~me.handle
       /\ me.pc \in {"send", "waiting"} => ~me.handle
       /\ me.pc \in {"recover", "observe", "cancel", "verify"} => me.started \/ me.handle
       /\ me.pc = "send" => /\ sent[o] = 0 /\ approval[o].state = "consumed"
                            /\ plain \/ op[o].started
       /\ me.pc = "waiting" => me.started /\ sent[o] = 1 /\ job[o] = NoJob /\ o \notin stray
       /\ me.pc = "cancel" => job[o].state # "none"
       /\ me.pc = "verify" => me.saw \in {"receipt", "stable"}
       /\ me.saw \in {"receipt", "stable"} => Receipt(o)
       /\ me.pc = "finish" => /\ me.status \notin Unclaimed \cup {"none"}
                              /\ Warranted(o, me.status, ~me.started /\ ~me.handle)
       /\ plain /\ ~me.handle => approval[o].state = "consumed"
       /\ plain /\ ~me.handle /\ ~me.started => sent[o] = 0

\* The holder of the lease knows what the row says.
Informed(r) ==
    round[r].pc # "idle" /\ HoldsLease(r, round[r].op) =>
        /\ op[round[r].op].started => round[r].started
        /\ op[round[r].op].handle => round[r].handle

\* One round until the job is known; afterwards every round knows the job.
Alone(o) ==
    op[o].kind \notin HostControlled =>
        /\ ~op[o].handle => \A r, s \in Runners : On(r, o) /\ On(s, o) => r = s
        /\ op[o].handle => \A r \in Runners : On(r, o) => round[r].handle

Sending(r) == round[r].pc \in {"send", "waiting"}

OneSender(r, s) == Sending(r) /\ Sending(s) /\ round[r].op = round[s].op => r = s

IInv ==
    /\ Types
    /\ \A o \in Operations : JobSound(job[o], sent[o], boot, service[o]) /\ RowFits(o) /\ Alone(o)
    /\ \A r \in Runners : /\ RoundFits(round[r]) /\ Informed(r)
                          /\ round[r].pc = "idle" => round[r] = Idle
    /\ \A r, s \in Runners : OneSender(r, s)
-----------------------------------------------------------------------------
(* Steps that leave the ledger alone and send nothing.                     *)

LEMMA Basics ==
    /\ JobIds = Operations /\ Nobody \notin Runners /\ MaxBoots \in Nat /\ MaxFaults \in Nat
    /\ Idle.pc = "idle"
  BY LedgerAssumption, HostJobsAssumption, ManagedAssumption DEF Idle

LEMMA Typed ==
    ASSUME Types, NEW o \in Operations
    PROVE  /\ op[o] \in LedgerRow /\ approval[o] \in Consent /\ job[o] \in JobRow
           /\ service[o] \in {"before", "acted", "other", "failed"} /\ sent[o] \in Nat
  BY DEF Types

\* A job moves on: what has been shown stays true, and it is no longer unknown once
\* its write has arrived.
JobMoves(o) ==
    /\ JobSound(job[o], sent[o], boot, service[o])'
    /\ Succeeded(o) => Succeeded(o)'
    /\ Failed(o) => Failed(o)'
    /\ job[o].state = "cancelled" => job'[o].state = "cancelled"
    /\ Receipt(o) => Receipt(o)'
    /\ job[o].state # "none" => job'[o].state # "none"
    /\ \/ job[o] = NoJob => job'[o] = NoJob
       \/ o \notin stray' /\ \A r \in Runners : round'[r].pc = "waiting" => round'[r].op # o

\* A round goes on.
Continues(r) ==
    LET me == round'[r] IN
    /\ round[r].pc # "idle" /\ me.pc \notin {"idle", "waiting"} /\ me.op = round[r].op
    /\ RoundFits(round[r])'
    /\ round[r].started => me.started
    /\ round[r].handle => me.handle
    /\ me.pc = "send" => round[r].pc = "validate" /\ op[me.op].kind \notin HostControlled

\* The writes that are left to themselves.
Strays ==
    \A o \in stray' : \/ o \in stray
                       \/ \E r \in Runners : /\ round[r].pc = "waiting" /\ round[r].op = o
                                             /\ round'[r].pc # "waiting"

\* What is left of the invariant when the ledger stays as it is.
LEMMA QuietStep ==
    ASSUME IInv, Types', UNCHANGED <<op, approval, sent>>, Strays,
           \A o \in Operations : JobMoves(o),
           \A r \in Runners : \/ round'[r] = round[r]
                              \/ round'[r] = Idle
                              \/ Continues(r)
    PROVE  IInv'
  <1>0. Types BY DEF IInv
  <1>1. ASSUME NEW r \in Runners, round'[r] = round[r] PROVE RoundFits(round[r])'
    <2>1. PICK me : me = round[r] OBVIOUS
    <2>2. PICK o : o = me.op OBVIOUS
    <2>3. CASE me.pc = "idle" BY <1>1, <2>1, <2>3 DEF RoundFits
    <2>4. CASE me.pc # "idle"
      <3>1. RoundFits(me) BY <2>1 DEF IInv
      <3>2. o \in Operations BY <2>2, <2>4, <3>1 DEF RoundFits
      <3>3. JobMoves(o) BY <3>2
      <3>4. me.pc = "waiting" => o \notin stray' /\ job'[o] = NoJob
        <4> SUFFICES ASSUME me.pc = "waiting" PROVE o \notin stray' /\ job'[o] = NoJob
          OBVIOUS
        <4>1. o \notin stray /\ job[o] = NoJob BY <2>2, <3>1 DEF RoundFits
        <4>2. \A s \in Runners : round[s].pc = "waiting" /\ round[s].op = o => s = r
          BY <2>1, <2>2 DEF IInv, OneSender, Sending
        <4>3. o \notin stray' BY <1>1, <2>1, <4>1, <4>2 DEF Strays
        <4>4. job'[o] = NoJob BY <1>1, <2>1, <2>2, <3>3, <4>1 DEF JobMoves
        <4> QED BY <4>3, <4>4
      <3>5. \A status, blank : Warranted(o, status, blank) => Warranted(o, status, blank)'
        BY <3>3 DEF JobMoves, Warranted
      <3>6. Receipt(o) => Receipt(o)' BY <3>3 DEF JobMoves
      <3>7. job[o].state # "none" => job'[o].state # "none" BY <3>3 DEF JobMoves
      <3>8. RoundFits(me)' BY <2>2, <2>4, <3>1, <3>4, <3>5, <3>6, <3>7 DEF RoundFits
      <3> QED BY <1>1, <2>1, <3>8
    <2> QED BY <2>3, <2>4
  <1>2. \A r \in Runners : RoundFits(round[r])'
    <2> TAKE r \in Runners
    <2>1. CASE round'[r] = round[r] BY <1>1, <2>1
    <2>2. CASE round'[r] = Idle BY <2>2, Basics DEF RoundFits
    <2>3. CASE Continues(r) BY <2>3 DEF Continues
    <2> QED BY <2>1, <2>2, <2>3
  <1>3. \A r \in Runners : round'[r].pc = "idle" => round'[r] = Idle
    BY DEF IInv, Continues
  <1>4. \A r \in Runners : \A o \in Operations : On(r, o)' =>
            /\ On(r, o)
            /\ round[r].started => round'[r].started
            /\ round[r].handle => round'[r].handle
    BY Basics DEF On, Continues
  <1>5. ASSUME NEW r \in Runners PROVE Informed(r)'
    <2> SUFFICES ASSUME round'[r].pc # "idle", HoldsLease(r, round[r].op)'
                 PROVE  /\ op'[round'[r].op].started => round'[r].started
                        /\ op'[round'[r].op].handle => round'[r].handle
      BY DEF Informed
    <2>1. PICK o : o = round'[r].op OBVIOUS
    <2>2. o \in Operations BY <1>2, <2>1 DEF RoundFits
    <2>3. On(r, o)' BY <2>1 DEF On
    <2>4. On(r, o) BY <1>4, <2>2, <2>3
    <2>5. HoldsLease(r, o) BY <2>1 DEF HoldsLease
    <2>6. (op[o].started => round[r].started) /\ (op[o].handle => round[r].handle)
      BY <2>4, <2>5 DEF IInv, Informed, On
    <2> QED BY <1>4, <2>1, <2>2, <2>3, <2>6
  <1>6. ASSUME NEW r \in Runners, NEW s \in Runners PROVE OneSender(r, s)'
    <2> SUFFICES ASSUME Sending(r)', Sending(s)', round'[r].op = round'[s].op, r # s PROVE FALSE
      BY DEF OneSender
    <2>1. PICK o : o = round'[r].op OBVIOUS
    <2>2. o \in Operations BY <1>2, <2>1 DEF RoundFits, Sending
    <2>3. On(r, o) /\ On(s, o) BY <1>4, <2>1, <2>2 DEF On, Sending
    <2>4. ASSUME NEW x \in {r, s}, ~ Sending(x) PROVE FALSE
      <3>1. Sending(x)' /\ x \in Runners /\ round'[x].op = o BY <2>1
      <3>2. Continues(x) BY <2>4, <3>1, Basics DEF Sending
      <3>3. op[o].kind \notin HostControlled /\ RoundFits(round[x]) /\ round[x].pc = "validate"
        BY <3>1, <3>2 DEF Continues, Sending, IInv
      <3>4. ~ round[x].handle BY <3>3 DEF RoundFits
      <3>5. On(x, o) BY <2>3
      <3>6. Alone(o) BY <2>2 DEF IInv
      <3> QED BY <2>3, <3>1, <3>3, <3>4, <3>5, <3>6 DEF Alone
    <2>5. Sending(r) /\ Sending(s) BY <2>4
    <2> QED BY <2>3, <2>5 DEF IInv, OneSender, On
  <1>7. ASSUME NEW o \in Operations PROVE Alone(o)'
    <2>1. Alone(o) BY DEF IInv
    <2>2. op' = op OBVIOUS
    <2> QED BY <1>4, <2>1, <2>2 DEF Alone
  <1>8. ASSUME NEW o \in Operations PROVE RowFits(o)'
    <2>1. RowFits(o) /\ JobMoves(o) BY DEF IInv
    <2>2. op'[o] = op[o] /\ approval'[o] = approval[o] /\ sent'[o] = sent[o] OBVIOUS
    <2>3. \A r \in Runners : On(r, o)' => On(r, o) BY <1>4
    <2>4. Blank(o)' <=> Blank(o) BY <2>2 DEF Blank
    <2>5. o \in stray' => sent[o] = 1 /\ job'[o] = NoJob
      <3> SUFFICES ASSUME o \in stray' PROVE sent[o] = 1 /\ job'[o] = NoJob
        OBVIOUS
      <3>1. sent[o] = 1 /\ job[o] = NoJob
        <4>1. CASE o \in stray BY <2>1, <4>1 DEF RowFits
        <4>2. CASE o \notin stray
          <5>1. PICK r \in Runners : round[r].pc = "waiting" /\ round[r].op = o
            BY <4>2 DEF Strays
          <5>2. RoundFits(round[r]) BY DEF IInv
          <5> QED BY <5>1, <5>2 DEF RoundFits
        <4> QED BY <4>1, <4>2
      <3> QED BY <2>1, <3>1 DEF JobMoves
    <2>7. Receipt(o) => Receipt(o)' BY <2>1 DEF JobMoves
    <2>8. Warranted(o, op[o].status, Blank(o))'
      BY <2>1, <2>2, <2>4 DEF RowFits, JobMoves, Warranted
    <2> QED BY <2>1, <2>2, <2>3, <2>4, <2>5, <2>7, <2>8 DEF RowFits
  <1>9. \A o \in Operations : JobSound(job[o], sent[o], boot, service[o])' BY DEF JobMoves
  <1> QED BY <1>2, <1>3, <1>5, <1>6, <1>7, <1>8, <1>9 DEF IInv

-----------------------------------------------------------------------------
(* Jobs.                                                                   *)

\* How a job may change by itself.
JobGoes(j, k) ==
    /\ j = NoJob => k = NoJob
    /\ j.state # "none" => k.state # "none"
    /\ j.state \in Terminal => k = j
    /\ j.proof # -1 => k.proof = j.proof
    /\ j.refused => k.refused /\ k.ran = 0

LEMMA JobKeeps ==
    ASSUME Types, NEW o \in Operations, op'[o].kind = op[o].kind, job'[o] \in JobRow,
           boot' \in Nat, boot' >= boot, JobGoes(job[o], job'[o]),
           JobSound(job[o], sent[o], boot, service[o])',
           service[o] = "failed" => service'[o] = "failed"
    PROVE  JobMoves(o)
  <1>1. job[o] \in JobRow /\ boot \in Nat BY Typed DEF Types
  <1>2. job[o].state \in Terminal => job'[o] = job[o] BY DEF JobGoes
  <1>3. job[o].state \in {"succeeded", "failed", "timed_out", "cancelled"} => job'[o] = job[o]
    BY <1>2 DEF Terminal
  <1>4. Succeeded(o) => Succeeded(o)'
    <2> SUFFICES ASSUME Succeeded(o) PROVE Succeeded(o)' OBVIOUS
    <2>1. CASE op[o].kind = "reboot" /\ job[o].proof # -1
      <3>1. job'[o].proof = job[o].proof BY <2>1 DEF JobGoes
      <3>2. boot > job[o].proof BY <2>1 DEF Succeeded
      <3>3. boot' > job'[o].proof BY <1>1, <3>1, <3>2 DEF JobRow
      <3> QED BY <2>1, <3>1, <3>3 DEF Succeeded
    <2>2. CASE ~ (op[o].kind = "reboot" /\ job[o].proof # -1)
      <3>1. job[o].state = "succeeded" BY <2>2 DEF Succeeded
      <3>2. job'[o] = job[o] BY <1>3, <3>1
      <3> QED BY <2>2, <3>2 DEF Succeeded
    <2> QED BY <2>1, <2>2
  <1>5. Failed(o) => Failed(o)' BY <1>3 DEF Failed, JobGoes
  <1>6. job[o].state = "cancelled" => job'[o].state = "cancelled" BY <1>3
  <1>7. Receipt(o) => Receipt(o)' BY <1>3 DEF Receipt
  <1>8. /\ job[o].state # "none" => job'[o].state # "none"
        /\ job[o] = NoJob => job'[o] = NoJob
    BY DEF JobGoes
  <1> QED BY <1>4, <1>5, <1>6, <1>7, <1>8 DEF JobMoves

\* Nothing happens to a job.
LEMMA JobStays ==
    ASSUME IInv, NEW o \in Operations, UNCHANGED <<op, sent, boot>>, job'[o] = job[o],
           service'[o] = service[o]
    PROVE  JobMoves(o)
  <1>1. /\ Types /\ job'[o] \in JobRow /\ boot' \in Nat /\ boot' >= boot
        /\ op'[o].kind = op[o].kind
    BY Typed DEF IInv, Types
  <1>2. JobSound(job[o], sent[o], boot, service[o])' BY DEF IInv, JobSound
  <1>3. JobGoes(job[o], job'[o]) BY DEF JobGoes, IInv, JobSound
  <1> QED BY <1>1, <1>2, <1>3, JobKeeps

\* One job changes.
LEMMA JobEdit ==
    ASSUME IInv, NEW o \in Operations, NEW k \in JobRow, job' = [job EXCEPT ![o] = k],
           JobGoes(job[o], k), UNCHANGED <<op, sent, boot>>,
           \A e \in Operations : e # o => service'[e] = service[e],
           service[o] = "failed" => service'[o] = "failed",
           JobSound(k, sent[o], boot, service'[o])
    PROVE  job' \in [Operations -> JobRow] /\ \A e \in Operations : JobMoves(e)
  <1>1. /\ job' \in [Operations -> JobRow] /\ job'[o] = k
        /\ \A e \in Operations : e # o => job'[e] = job[e]
        /\ Types /\ boot' \in Nat /\ boot' >= boot /\ op'[o].kind = op[o].kind
    BY DEF IInv, Types
  <1>2. JobSound(job[o], sent[o], boot, service[o])' BY <1>1 DEF JobSound
  <1>3. JobMoves(o) BY <1>1, <1>2, JobKeeps
  <1>4. \A e \in Operations : e # o => JobMoves(e) BY <1>1, JobStays
  <1> QED BY <1>1, <1>3, <1>4

LEMMA HostStays ==
    ASSUME IInv, UNCHANGED <<op, sent, job, boot, service>>
    PROVE  \A o \in Operations : JobMoves(o)
  BY JobStays

\* A step of the hosts alone.
LEMMA HostStep ==
    ASSUME IInv, UNCHANGED <<op, approval, round, stray, sent>>, job' \in [Operations -> JobRow],
           boot' \in Nat, service' \in [Operations -> {"before", "acted", "other", "failed"}],
           \A o \in Operations : JobMoves(o)
    PROVE  IInv'
  <1>1. Types' BY DEF IInv, Types
  <1>2. Strays BY DEF Strays
  <1> QED BY <1>1, <1>2, QuietStep

\* One job changes by itself.
LEMMA JobAlone ==
    ASSUME IInv, NEW o \in Operations, NEW k \in JobRow, job' = [job EXCEPT ![o] = k],
           UNCHANGED <<op, approval, round, stray, sent, boot, service>>,
           JobGoes(job[o], k), JobSound(k, sent[o], boot, service[o])
    PROVE  IInv'
  <1>1. job' \in [Operations -> JobRow] /\ \A e \in Operations : JobMoves(e)
    BY JobEdit
  <1>2. boot' \in Nat /\ service' \in [Operations -> {"before", "acted", "other", "failed"}]
    BY DEF IInv, Types
  <1> QED BY <1>1, <1>2, HostStep

LEMMA WorksStep ==
    ASSUME IInv, NEW o \in Operations, Works(o)
    PROVE  IInv'
  <1>0. UNCHANGED <<op, approval, round, stray, sent>>
    BY DEF Works, ledgerVars, roundVars
  <1>1. PICK j : j = job[o] OBVIOUS
  <1>2. /\ j \in JobRow /\ boot \in Nat /\ JobSound(j, sent[o], boot, service[o])
        /\ job \in [Operations -> JobRow]
    BY <1>1, Typed DEF IInv, Types
  <1>3. j.phase # "none" /\ j.phase # "dead" => j.state \in {"dispatching", "running"} /\ j # NoJob
    BY <1>2 DEF JobSound, JobRow, Phases, NoJob
  <1>4. ASSUME NEW k \in JobRow, job' = [job EXCEPT ![o] = k], UNCHANGED <<boot, service>>,
               j.phase # "none" /\ j.phase # "dead", JobSound(k, sent[o], boot, service[o]),
               k.state # "none", j.proof # -1 => k.proof = j.proof, j.refused => k.refused
        PROVE  IInv'
    <2>1. j.refused => k.refused /\ k.ran = 0 BY <1>4 DEF JobSound
    <2>2. JobGoes(job[o], k) BY <1>1, <1>3, <1>4, <2>1 DEF JobGoes, Terminal
    <2> QED BY <1>0, <1>4, <2>2, JobAlone
  <1>5. ASSUME NEW s \in JobStates \ {"none", "dispatching", "running"}, JobEnds(o, s),
               j.phase = "working" \/ (j.phase \in {"begun", "checked"} /\ s # "succeeded")
        PROVE  IInv'
    <2>1. PICK t \in Terminal : t = IF j.cancel THEN "cancelled" ELSE s
      BY DEF JobStates, Terminal
    <2>2. PICK k : k = [j EXCEPT !.state = t, !.phase = "dead"] OBVIOUS
    <2>3. /\ k \in JobRow /\ k.state = t /\ k.phase = "dead" /\ k.proof = j.proof /\ k.ran = j.ran
          /\ k.refused = j.refused
      BY <1>2, <2>2 DEF JobRow, JobStates, Phases
    <2>4. job' = [job EXCEPT ![o] = k] /\ UNCHANGED <<boot, service>>
      BY <1>1, <1>5, <2>1, <2>2 DEF JobEnds
    <2>5. t = "succeeded" => j.ran = 1 BY <1>2, <1>5, <2>1 DEF JobSound
    <2>6. JobSound(k, sent[o], boot, service[o])
      BY <1>2, <1>3, <1>5, <2>3, <2>5 DEF JobSound, Terminal
    <2> QED BY <1>4, <1>5, <2>3, <2>4, <2>6 DEF Terminal
  <1>6. CASE JobBegins(o)
    <2>1. PICK k : k = [j EXCEPT !.state = "running", !.phase = "begun"] OBVIOUS
    <2>2. /\ k \in JobRow /\ k.state = "running" /\ k.phase = "begun" /\ k.proof = j.proof
          /\ k.ran = j.ran /\ k.refused = j.refused
      BY <1>2, <2>1 DEF JobRow, JobStates, Phases
    <2>3. job' = [job EXCEPT ![o] = k] /\ UNCHANGED <<boot, service>> /\ j.phase = "queued"
      BY <1>1, <1>6, <2>1 DEF JobBegins
    <2>4. JobSound(k, sent[o], boot, service[o]) BY <1>2, <1>3, <2>2, <2>3 DEF JobSound
    <2> QED BY <1>4, <2>2, <2>3, <2>4
  <1>7. CASE JobChecks(o)
    <2>1. PICK k : k = [j EXCEPT !.phase = "checked", !.proof = boot] OBVIOUS
    <2>2. /\ k \in JobRow /\ k.state = j.state /\ k.phase = "checked" /\ k.proof = boot
          /\ k.ran = j.ran /\ k.refused = j.refused
      <3>1. j \in JobRow /\ boot \in Int BY <1>2
      <3> QED BY <2>1, <3>1 DEF JobRow, Phases
    <2>3. job' = [job EXCEPT ![o] = k] /\ UNCHANGED <<boot, service>> /\ j.phase = "begun"
          /\ ~j.refused
      BY <1>1, <1>7, <2>1 DEF JobChecks
    <2>4. JobSound(k, sent[o], boot, service[o]) BY <1>2, <1>3, <2>2, <2>3 DEF JobSound
    <2>5. j.proof = -1 BY <1>2, <2>3 DEF JobSound
    <2> QED BY <1>3, <1>4, <2>2, <2>3, <2>4, <2>5
  <1>8. ASSUME NEW first \in {"begun", "checked"}, JobWorks(o, first) PROVE IInv'
    <2>1. PICK k : k = [j EXCEPT !.phase = "working", !.ran = @ + 1] OBVIOUS
    <2>2. /\ k \in JobRow /\ k.state = j.state /\ k.phase = "working" /\ k.proof = j.proof
          /\ k.ran = j.ran + 1 /\ k.refused = j.refused
      <3>1. j \in JobRow /\ j.ran + 1 \in Nat BY <1>2 DEF JobRow
      <3>2. k = [j EXCEPT !.phase = "working", !.ran = j.ran + 1] BY <2>1, <3>1 DEF JobRow
      <3> QED BY <3>1, <3>2 DEF JobRow, Phases
    <2>3. job' = [job EXCEPT ![o] = k] /\ UNCHANGED <<boot, service>> /\ j.phase = first
          /\ ~j.refused
      BY <1>1, <1>8, <2>1 DEF JobWorks
    <2>4. k.ran = 1 BY <1>2, <2>2, <2>3 DEF JobSound
    <2>5. JobSound(k, sent[o], boot, service[o]) BY <1>2, <1>3, <2>2, <2>3, <2>4 DEF JobSound
    <2> QED BY <1>3, <1>4, <2>2, <2>3, <2>5
  <1>9. ASSUME job[o].phase = "working", NEW shows \in Effects, ServiceActed(o, shows) PROVE IInv'
    <2>1. PICK t \in {"cancelled", "succeeded"} : t = IF j.cancel THEN "cancelled" ELSE "succeeded"
      OBVIOUS
    <2>2. PICK k : k = [j EXCEPT !.state = t, !.phase = "dead", !.shows = shows] OBVIOUS
    <2>3. /\ k \in JobRow /\ k.state = t /\ k.phase = "dead" /\ k.proof = j.proof /\ k.ran = j.ran
          /\ k.refused = j.refused
      BY <1>2, <2>2 DEF JobRow, JobStates, Terminal, Phases
    <2>4. PICK unit \in {"acted", "other", "failed"} : service' = [service EXCEPT ![o] = unit]
      BY <1>9 DEF ServiceActed
    <2>5. job' = [job EXCEPT ![o] = k] /\ boot' = boot
      BY <1>1, <1>9, <2>1, <2>2 DEF ServiceActed
    <2>6. service' \in [Operations -> {"before", "acted", "other", "failed"}]
          /\ \A e \in Operations : e # o => service'[e] = service[e]
      BY <2>4 DEF IInv, Types
    <2>7. JobSound(k, sent[o], boot, service'[o])
      BY <1>1, <1>2, <1>3, <1>9, <2>3 DEF JobSound
    <2>8. service[o] # "failed" BY <1>1, <1>2, <1>9 DEF JobSound
    <2>9. JobGoes(job[o], k) BY <1>1, <1>2, <1>3, <1>9, <2>3 DEF JobGoes, JobSound, Terminal
    <2>10. job' \in [Operations -> JobRow] /\ \A e \in Operations : JobMoves(e)
      BY <1>0, <2>3, <2>5, <2>6, <2>7, <2>8, <2>9, JobEdit
    <2> QED BY <1>0, <1>2, <2>5, <2>6, <2>10, HostStep
  <1>10. CASE JobStops(o)
    <2>1. PICK k : k = [j EXCEPT !.phase = "dead"] OBVIOUS
    <2>2. /\ k \in JobRow /\ k.state = j.state /\ k.phase = "dead" /\ k.proof = j.proof /\ k.ran = j.ran
          /\ k.refused = j.refused
      BY <1>2, <2>1 DEF JobRow, Phases
    <2>3. /\ job' = [job EXCEPT ![o] = k] /\ UNCHANGED <<boot, service>>
          /\ j.phase # "none" /\ j.phase # "dead"
      BY <1>1, <1>10, <2>1 DEF JobStops, Alive
    <2>4. JobSound(k, sent[o], boot, service[o]) BY <1>2, <1>3, <2>2, <2>3 DEF JobSound
    <2> QED BY <1>3, <1>4, <2>2, <2>3, <2>4
  <1>11. CASE /\ job[o].phase \in {"begun", "checked", "working"}
              /\ \E s \in Endings(o) : JobEnds(o, s)
    <2>1. PICK s \in Endings(o) : JobEnds(o, s) BY <1>11
    <2>2. s \in JobStates \ {"none", "dispatching", "running"}
      BY DEF Endings, JobStates, Terminal
    <2>3. s = "succeeded" => j.phase = "working" BY <1>1 DEF Endings
    <2> QED BY <1>1, <1>5, <1>11, <2>1, <2>2, <2>3
  <1>12. CASE JobRefuses(o)
    <2>1. PICK k : k = [j EXCEPT !.refused = TRUE] OBVIOUS
    <2>2. /\ k \in JobRow /\ k.state = j.state /\ k.phase = j.phase /\ k.proof = j.proof
          /\ k.ran = j.ran /\ k.refused
      BY <1>2, <2>1 DEF JobRow
    <2>3. job' = [job EXCEPT ![o] = k] /\ UNCHANGED <<boot, service>> /\ j.phase = "begun"
      BY <1>1, <1>12, <2>1 DEF JobRefuses
    <2>4. JobSound(k, sent[o], boot, service[o]) BY <1>2, <1>3, <2>2, <2>3 DEF JobSound
    <2> QED BY <1>3, <1>4, <2>2, <2>3, <2>4
  <1> QED BY <1>6, <1>7, <1>8, <1>9, <1>10, <1>11, <1>12 DEF Works

LEMMA ServiceDriftsStep ==
    ASSUME IInv, NEW o \in Operations, ServiceDrifts(o)
    PROVE  IInv'
  <1>1. UNCHANGED <<op, approval, round, stray, sent, job, boot>> /\ service[o] = "acted"
    BY DEF ServiceDrifts, ServiceChanges, ledgerVars
  <1>2. PICK s \in {"other", "failed"} : service' = [service EXCEPT ![o] = s]
    BY DEF ServiceDrifts, ServiceChanges
  <1>3. /\ service' \in [Operations -> {"before", "acted", "other", "failed"}] /\ service'[o] = s
        /\ \A e \in Operations : e # o => service'[e] = service[e]
        /\ job \in [Operations -> JobRow] /\ boot \in Nat
    BY <1>2 DEF IInv, Types
  <1>4. JobMoves(o)
    <2>1. JobSound(job[o], sent[o], boot, service[o]) BY DEF IInv
    <2>2. JobSound(job[o], sent[o], boot, service[o])' BY <1>1, <2>1 DEF JobSound
    <2>3. JobGoes(job[o], job'[o]) BY <1>1, <2>1 DEF JobGoes, JobSound
    <2>4. job'[o] \in JobRow /\ boot' \in Nat /\ boot' >= boot /\ Types /\ op'[o].kind = op[o].kind
      BY <1>1, <1>3 DEF IInv
    <2> QED BY <1>1, <2>2, <2>3, <2>4, JobKeeps
  <1>5. \A e \in Operations : e # o => JobMoves(e) BY <1>1, <1>3, JobStays
  <1> QED BY <1>1, <1>3, <1>4, <1>5, HostStep

LEMMA RebootsStep ==
    ASSUME IInv, Reboots
    PROVE  IInv'
  <1>1. UNCHANGED <<op, approval, round, stray, sent>> BY DEF Reboots, ledgerVars
  <1>2. /\ boot' = boot + 1
        /\ job' = [o \in Operations |-> IF Alive(o) THEN [job[o] EXCEPT !.phase = "dead"] ELSE job[o]]
        /\ service' = [o \in Operations |-> IF service[o] = "acted" THEN "other" ELSE service[o]]
    BY Basics DEF Reboots, HostReboots
  <1>3. boot \in Nat /\ boot' \in Nat /\ boot' >= boot BY <1>2 DEF IInv, Types
  <1>4. ASSUME NEW o \in Operations
        PROVE  /\ job'[o] \in JobRow /\ service'[o] \in {"before", "acted", "other", "failed"}
               /\ JobMoves(o)
    <2>1. PICK j : j = job[o] OBVIOUS
    <2>2. PICK k : k = IF Alive(o) THEN [j EXCEPT !.phase = "dead"] ELSE j OBVIOUS
    <2>3. j \in JobRow /\ JobSound(j, sent[o], boot, service[o]) /\ Types
      BY <2>1, Typed DEF IInv
    <2>4. job'[o] = k BY <1>2, <2>1, <2>2
    <2>5. /\ k \in JobRow /\ k.state = j.state /\ k.proof = j.proof /\ k.ran = j.ran
          /\ k.refused = j.refused
          /\ k = j \/ (Alive(o) /\ k.phase = "dead")
      BY <2>2, <2>3 DEF JobRow, Phases
    <2>6. Alive(o) => j.state \in {"dispatching", "running"}
      BY <2>1, <2>3 DEF Alive, JobSound
    <2>7. PICK v : v = service'[o] OBVIOUS
    <2>8. /\ v \in {"before", "acted", "other", "failed"}
          /\ service[o] = "failed" => v = "failed"
          /\ v # "before" => service[o] # "before"
      BY <1>2, <2>3, <2>7, Typed
    <2>9. JobGoes(j, k)
      BY <2>3, <2>5, <2>6 DEF JobGoes, JobSound, Terminal, NoJob
    <2>10. JobSound(k, sent[o], boot', v)
      <3>1. k.proof <= boot' BY <1>2, <1>3, <2>3, <2>5 DEF JobSound, JobRow
      <3>2. CASE k = j BY <2>3, <2>8, <3>1, <3>2 DEF JobSound
      <3>3. CASE Alive(o) /\ k.phase = "dead"
        <4>1. k.state # "none" /\ k.state # "succeeded" BY <2>5, <2>6, <3>3
        <4> QED BY <2>3, <2>5, <3>1, <3>3, <4>1 DEF JobSound
      <3> QED BY <2>5, <3>2, <3>3
    <2>11. JobSound(job[o], sent[o], boot, service[o])' BY <1>1, <2>4, <2>7, <2>10 DEF JobSound
    <2>12. JobMoves(o)
      BY <1>1, <1>3, <2>1, <2>3, <2>4, <2>5, <2>7, <2>8, <2>9, <2>11, JobKeeps
    <2> QED BY <2>4, <2>5, <2>7, <2>8, <2>12
  <1>5. job' \in [Operations -> JobRow] BY <1>2, <1>4
  <1>6. service' \in [Operations -> {"before", "acted", "other", "failed"}] BY <1>2, <1>4
  <1> QED BY <1>1, <1>3, <1>4, <1>5, <1>6, HostStep

-----------------------------------------------------------------------------
(* Writes that arrive.                                                     *)

\* A write arrives once, where nothing is known of it yet.
LEMMA Landing ==
    ASSUME IInv, NEW o \in Operations, sent[o] = 1, job[o] = NoJob, Lands(o), UNCHANGED <<op, sent>>,
           o \notin stray', \A r \in Runners : round'[r].pc = "waiting" => round'[r].op # o
    PROVE  /\ job' \in [Operations -> JobRow] /\ boot' = boot /\ service' = service
           /\ \A e \in Operations : JobMoves(e)
           /\ op[o].kind = "call" => job'[o].state = "succeeded" /\ job'[o].ran = 1
  <1>1. boot' = boot /\ service' = service
    BY DEF Lands, Submit, SubmitCall
  <1>2. /\ Types /\ job \in [Operations -> JobRow] /\ boot \in Nat
        /\ JobSound(NoJob, 1, boot, service[o])
    BY DEF IInv, Types
  <1>3. /\ service[o] = "before" /\ NoJob.proof = -1 /\ NoJob.ran = 0 /\ NoJob.state = "none"
        /\ ~NoJob.refused
    BY <1>2 DEF JobSound, NoJob
  <1>4. PICK k : /\ k \in JobRow /\ job' = [job EXCEPT ![o] = k]
                 /\ k.proof = -1 /\ ~k.refused /\ k.phase \in {"queued", "dead"}
                 /\ \/ k.state = "succeeded" /\ k.ran = 1 /\ k.phase = "dead"
                    \/ k.state = "dispatching" /\ k.ran = 0 /\ op[o].kind # "call"
    <2>1. CASE op[o].kind = "call"
      <3>1. PICK k : k = [job[o] EXCEPT !.state = "succeeded", !.phase = "dead", !.ran = @ + 1]
        OBVIOUS
      <3>2. job' = [job EXCEPT ![o] = k]
        <4>1. job' = [job EXCEPT ![o].state = "succeeded", ![o].phase = "dead", ![o].ran = @ + 1]
          BY <2>1 DEF Lands, SubmitCall
        <4> QED BY <3>1, <4>1
      <3>3. job[o] \in JobRow /\ job[o].ran = 0 /\ job[o].proof = -1 /\ ~job[o].refused
        BY <1>2, <1>3
      <3>4. "succeeded" \in JobStates /\ "dead" \in Phases BY DEF JobStates, Terminal, Phases
      <3>5. k = [job[o] EXCEPT !.state = "succeeded", !.phase = "dead", !.ran = 1]
        BY <3>1, <3>3 DEF JobRow
      <3>6. k \in JobRow BY <3>3, <3>4, <3>5 DEF JobRow
      <3>7. k.state = "succeeded" /\ k.ran = 1 /\ k.phase = "dead" /\ k.proof = -1 /\ ~k.refused
        BY <3>3, <3>5 DEF JobRow
      <3> QED BY <3>2, <3>6, <3>7
    <2>2. CASE op[o].kind # "call"
      <3>1. PICK there \in BOOLEAN : Submit(o, there) BY <2>2 DEF Lands
      <3>2. PICK ph \in {"queued", "dead"} : ph = IF there THEN "queued" ELSE "dead" OBVIOUS
      <3>3. PICK k : k = [job[o] EXCEPT !.state = "dispatching", !.phase = ph] OBVIOUS
      <3>4. job' = [job EXCEPT ![o] = k] BY <1>2, <1>3, <3>1, <3>2, <3>3 DEF Submit
      <3>5. job[o] \in JobRow /\ job[o].ran = 0 /\ job[o].proof = -1 /\ ~job[o].refused
        BY <1>2, <1>3
      <3>6. "dispatching" \in JobStates /\ ph \in Phases BY DEF JobStates, Phases
      <3>7. k \in JobRow BY <3>3, <3>5, <3>6 DEF JobRow
      <3>8. k.state = "dispatching" /\ k.ran = 0 /\ k.phase = ph /\ k.proof = -1 /\ ~k.refused
        BY <3>3, <3>5 DEF JobRow
      <3> QED BY <2>2, <3>4, <3>7, <3>8
    <2> QED BY <2>1, <2>2
  <1>5. /\ job' \in [Operations -> JobRow] /\ job'[o] = k
        /\ \A e \in Operations : e # o => job'[e] = job[e]
    BY <1>2, <1>4
  <1>6. JobMoves(o)
    <2>1. JobSound(k, 1, boot, "before") BY <1>2, <1>4 DEF JobSound
    <2>2. JobSound(job[o], sent[o], boot, service[o])' BY <1>1, <1>3, <1>5, <2>1
    <2>3. ~ Succeeded(o) /\ ~ Failed(o) /\ ~ Receipt(o) /\ job[o].state = "none"
      BY <1>3 DEF Succeeded, Failed, Receipt
    <2> QED BY <2>2, <2>3 DEF JobMoves
  <1>7. \A e \in Operations : e # o => JobMoves(e) BY <1>1, <1>5, JobStays
  <1> QED BY <1>1, <1>4, <1>5, <1>6, <1>7

LEMMA StrayLandsStep ==
    ASSUME IInv, NEW o \in Operations, StrayLands(o)
    PROVE  IInv'
  <1>1. o \in stray /\ stray' = stray \ {o} /\ Lands(o) /\ UNCHANGED <<op, approval, round, sent>>
    BY DEF StrayLands, ledgerVars
  <1>2. sent[o] = 1 /\ job[o] = NoJob BY <1>1 DEF IInv, RowFits
  <1>3. \A r \in Runners : round'[r].pc = "waiting" => round'[r].op # o
    BY <1>1 DEF IInv, RoundFits
  <1>4. /\ job' \in [Operations -> JobRow] /\ boot' = boot /\ service' = service
        /\ \A e \in Operations : JobMoves(e)
    BY <1>1, <1>2, <1>3, Landing
  <1>5. Types' BY <1>1, <1>4 DEF IInv, Types
  <1>6. Strays BY <1>1 DEF Strays
  <1> QED BY <1>1, <1>4, <1>5, <1>6, QuietStep

-----------------------------------------------------------------------------
(* Rounds that go on without writing to the ledger.                        *)

\* The next state of one round.
LEMMA RoundGoes ==
    ASSUME IInv, UNCHANGED <<op, approval, sent, boot, service>>, NEW r \in Runners,
           NEW me \in RoundRow, round' = [round EXCEPT ![r] = me],
           me = Idle \/ Continues(r),
           job' \in [Operations -> JobRow], \A e \in Operations : JobMoves(e),
           stray' = stray \/ (/\ stray' = stray \cup {round[r].op}
                              /\ round[r].pc = "waiting" /\ me.pc # "waiting")
    PROVE  IInv'
  <1>1. /\ round' \in [Runners -> RoundRow] /\ round'[r] = me
        /\ \A s \in Runners : s # r => round'[s] = round[s]
    BY DEF IInv, Types
  <1>2. stray' \subseteq Operations
    BY DEF IInv, Types, RoundFits
  <1>3. Types' BY <1>1, <1>2 DEF IInv, Types
  <1>4. Strays BY <1>1 DEF Strays
  <1> QED BY <1>1, <1>3, <1>4, QuietStep

\* A round comes to its verdict.
LEMMA RoundEnds ==
    ASSUME IInv, UNCHANGED <<op, approval, sent, boot, service>>, NEW r \in Runners,
           NEW me \in RoundRow, round' = [round EXCEPT ![r] = me], NEW o, o = round[r].op,
           round[r].pc # "idle", me.pc = "finish", me.op = o,
           round[r].started => me.started,
           round[r].handle => me.handle,
           me.status \notin Unclaimed \cup {"none"},
           Warranted(o, me.status, ~me.started /\ ~me.handle)',
           me.saw \in {"receipt", "stable"} => Receipt(o)',
           job' \in [Operations -> JobRow], \A e \in Operations : JobMoves(e),
           stray' = stray \/ (stray' = stray \cup {o} /\ round[r].pc = "waiting")
    PROVE  IInv'
  <1>1. round'[r] = me BY DEF IInv, Types
  <1>2. RoundFits(round[r]) BY DEF IInv
  <1>3. RoundFits(me)' BY <1>2 DEF RoundFits
  <1>4. Continues(r) BY <1>1, <1>3 DEF Continues
  <1> QED BY <1>4, RoundGoes

\* What a verdict leaves of its round.
LEMMA Concluded ==
    ASSUME Types, NEW r \in Runners, NEW status \in Statuses
    PROVE  LET me == Concludes(r, status) IN
           /\ me \in RoundRow /\ me.pc = "finish" /\ me.op = round[r].op /\ me.status = status
           /\ me.started = round[r].started /\ me.handle = round[r].handle
           /\ me.saw = round[r].saw
  <1>1. round[r] \in RoundRow BY DEF Types
  <1>2. "finish" \in Steps /\ status \in Statuses \cup {"none"} BY DEF Steps
  <1>3. NoJob \in JobRow BY DEF NoJob, JobRow, JobStates, Phases, Effects
  <1> QED BY <1>1, <1>2, <1>3 DEF Concludes, RoundRow

\* The status that the except clauses come to.
LEMMA FailsStatus ==
    ASSUME Types, NEW r \in Runners, NEW why
    PROVE  \E s \in {"needs_attention", "failed", "cancelling", "reconciling"} :
              /\ Fails(r, why) = Concludes(r, s)
              /\ s = "failed" => \/ ~round[r].started /\ ~round[r].handle
                                 \/ op[round[r].op].age # "ontime"
  <1>1. PICK going \in {"cancelling", "reconciling"} : going = StillGoing(r) BY DEF StillGoing
  <1>2. CASE ~round[r].started /\ ~round[r].handle
    <2>1. Fails(r, why) = Concludes(r, IF why = "permission" THEN "needs_attention" ELSE "failed")
      BY <1>2 DEF Fails
    <2> QED BY <1>2, <2>1
  <1>3. CASE ~ (~round[r].started /\ ~round[r].handle) /\ Checked(r)
    <2>1. CASE why = "permission"
      <3>1. Fails(r, why) = Concludes(r, "needs_attention") BY <1>3, <2>1 DEF Fails
      <3> QED BY <3>1
    <2>2. CASE why # "permission" /\ ~Late(r)
      <3>1. Fails(r, why) = Concludes(r, going) BY <1>1, <1>3, <2>2 DEF Fails
      <3> QED BY <3>1
    <2>3. CASE why # "permission" /\ Late(r)
      <3>1. Fails(r, why) = Concludes(r, "failed") BY <1>3, <2>3 DEF Fails
      <3>2. op[round[r].op].age # "ontime" BY <2>3 DEF Late, Op
      <3> QED BY <3>1, <3>2
    <2> QED BY <2>1, <2>2, <2>3
  <1>4. CASE ~ (~round[r].started /\ ~round[r].handle) /\ ~Checked(r)
    <2>1. Fails(r, why) = Concludes(r, IF Recoverable(r) /\ why = "retryable" /\ ~Late(r)
                                       THEN going ELSE "needs_attention")
      BY <1>1, <1>4 DEF Fails
    <2> QED BY <2>1
  <1> QED BY <1>2, <1>3, <1>4

\* A round goes on while nothing else changes.
LEMMA RoundKeeps ==
    ASSUME IInv, UNCHANGED <<op, approval, sent, job, boot, service>>, NEW r \in Runners,
           NEW me \in RoundRow, round' = [round EXCEPT ![r] = me], RoundFits(me),
           round[r].pc # "idle", me.pc \notin {"idle", "waiting"}, me.op = round[r].op,
           round[r].started => me.started,
           round[r].handle => me.handle,
           me.pc = "send" => round[r].pc = "validate" /\ op[me.op].kind \notin HostControlled,
           stray' = stray \/ (stray' = stray \cup {me.op} /\ round[r].pc = "waiting")
    PROVE  IInv'
  <1>1. round'[r] = me /\ job' \in [Operations -> JobRow] BY DEF IInv, Types
  <1>2. PICK o : o = me.op OBVIOUS
  <1>3. Receipt(o)' <=> Receipt(o) BY DEF Receipt
  <1>4. Warranted(o, me.status, ~me.started /\ ~me.handle)
            => Warranted(o, me.status, ~me.started /\ ~me.handle)'
    BY DEF Warranted, Succeeded, Failed
  <1>5. RoundFits(me)' BY <1>2, <1>3, <1>4 DEF RoundFits
  <1>6. Continues(r) BY <1>1, <1>5 DEF Continues
  <1>7. \A e \in Operations : JobMoves(e) BY HostStays
  <1> QED BY <1>1, <1>6, <1>7, RoundGoes

\* A round comes to a verdict that needs no other warrant than what it knows.
LEMMA VerdictStep ==
    ASSUME IInv, UNCHANGED <<op, approval, sent, job, boot, service>>, NEW r \in Runners,
           NEW s \in Statuses \ Unclaimed, round' = [round EXCEPT ![r] = Concludes(r, s)],
           round[r].pc # "idle",
           Warranted(round[r].op, s, ~round[r].started /\ ~round[r].handle),
           stray' = stray \/ (stray' = stray \cup {round[r].op} /\ round[r].pc = "waiting")
    PROVE  IInv'
  <1>1. PICK me : me = Concludes(r, s) OBVIOUS
  <1>2. /\ me \in RoundRow /\ me.pc = "finish" /\ me.op = round[r].op /\ me.status = s
        /\ me.started = round[r].started /\ me.handle = round[r].handle /\ me.saw = round[r].saw
    BY <1>1, Concluded DEF IInv
  <1>3. RoundFits(round[r]) BY DEF IInv
  <1>4. s \notin Unclaimed \cup {"none"} BY DEF Statuses, InFlight, Ended
  <1>5. PICK o : o = me.op OBVIOUS
  <1>6. RoundFits(me) BY <1>2, <1>3, <1>4, <1>5 DEF RoundFits
  <1> QED BY <1>1, <1>2, <1>6, RoundKeeps

LEMMA FailsStep ==
    ASSUME IInv, UNCHANGED <<op, approval, sent, job, boot, service>>, NEW r \in Runners, NEW why,
           round' = [round EXCEPT ![r] = Fails(r, why)], round[r].pc # "idle",
           stray' = stray \/ (stray' = stray \cup {round[r].op} /\ round[r].pc = "waiting")
    PROVE  IInv'
  <1>1. PICK s \in {"needs_attention", "failed", "cancelling", "reconciling"} :
            /\ Fails(r, why) = Concludes(r, s)
            /\ s = "failed" => \/ ~round[r].started /\ ~round[r].handle
                               \/ op[round[r].op].age # "ontime"
    BY FailsStatus DEF IInv
  <1>2. s \in Statuses \ Unclaimed BY DEF Statuses, InFlight, Ended, Unclaimed
  <1>3. Warranted(round[r].op, s, ~round[r].started /\ ~round[r].handle) BY <1>1 DEF Warranted
  <1> QED BY <1>1, <1>2, <1>3, VerdictStep

\* A round takes its next step.
LEMMA StepTaken ==
    ASSUME Types, NEW r \in Runners, NEW pc \in Steps
    PROVE  LET me == To(r, pc) IN
           /\ me \in RoundRow /\ me.pc = pc /\ me.op = round[r].op
           /\ me.started = round[r].started /\ me.handle = round[r].handle
           /\ me.saw = round[r].saw /\ me.cancelling = round[r].cancelling
  BY DEF Types, RoundRow, To

\* The job has been found.
LEMMA HandleFound ==
    ASSUME Types, NEW r \in Runners
    PROVE  LET me == [To(r, "observe") EXCEPT !.handle = TRUE] IN
           /\ me \in RoundRow /\ me.pc = "observe" /\ me.op = round[r].op /\ me.saw = round[r].saw
           /\ me.started = round[r].started /\ me.handle
  <1>1. PICK t : t = To(r, "observe") OBVIOUS
  <1>2. "observe" \in Steps BY DEF Steps
  <1>3. /\ t \in RoundRow /\ t.pc = "observe" /\ t.op = round[r].op /\ t.saw = round[r].saw
        /\ t.started = round[r].started
    BY <1>1, <1>2, StepTaken
  <1> QED BY <1>1, <1>3 DEF RoundRow

LEMMA DecidesStep ==
    ASSUME IInv, NEW r \in Runners, Decides(r)
    PROVE  IInv'
  <1>0. /\ UNCHANGED <<op, approval, job, boot, service, stray, sent>> /\ round[r].pc = "claimed"
        /\ Types /\ RoundFits(round[r])
    BY DEF Decides, ledgerVars, jobVars, IInv
  <1>1. PICK o : o = round[r].op OBVIOUS
  <1>2. ASSUME NEW s \in Statuses \ Unclaimed, round' = [round EXCEPT ![r] = Concludes(r, s)],
               s \in {"failed", "cancelled", "needs_attention"},
               s = "failed" => op[o].age # "ontime",
               s = "cancelled" => ~round[r].started /\ ~round[r].handle
        PROVE  IInv'
    <2>1. Warranted(o, s, ~round[r].started /\ ~round[r].handle) BY <1>2 DEF Warranted
    <2> QED BY <1>0, <1>1, <1>2, <2>1, VerdictStep
  <1>3. ASSUME NEW me \in RoundRow, round' = [round EXCEPT ![r] = me],
               me.pc \in {"observe", "recover", "verify", "validate"},
               me.op = o, me.started = round[r].started, round[r].handle => me.handle,
               me.saw = round[r].saw,
               me.pc = "validate" => ~me.started /\ ~me.handle,
               me.pc # "validate" => me.started \/ me.handle,
               me.pc = "verify" => me.saw \in {"receipt", "stable"}
        PROVE  IInv'
    <2>1. RoundFits(me) BY <1>0, <1>1, <1>3 DEF RoundFits
    <2> QED BY <1>0, <1>1, <1>3, <2>1, RoundKeeps
  <1>4. {"failed", "cancelled", "needs_attention"} \subseteq Statuses \ Unclaimed
    BY DEF Statuses, Ended, Unclaimed
  <1>5. {"observe", "recover", "verify", "validate"} \subseteq Steps BY DEF Steps
  <1>6. ASSUME Goes(r, Decision(r)), Checked(r) PROVE IInv'
    <2>1. CASE Late(r)
      <3>1. op[o].age # "ontime" BY <1>1, <2>1 DEF Late, Op
      <3>2. CASE ~round[r].handle /\ ~round[r].started
        <4>1. PICK s \in {"failed", "cancelled"} :
                  s = IF round[r].cancelling THEN "cancelled" ELSE "failed"
          OBVIOUS
        <4>2. round' = [round EXCEPT ![r] = Concludes(r, s)]
          BY <1>6, <2>1, <3>2, <4>1 DEF Goes, Decision
        <4> QED BY <1>2, <1>4, <3>1, <3>2, <4>2
      <3>3. CASE /\ round[r].handle \/ round[r].started
                 /\ round[r].handle /\ Kind(r) # "reboot" /\ op[Op(r)].age = "late"
        <4>1. PICK me : me = [To(r, "observe") EXCEPT !.cancelling = TRUE] OBVIOUS
        <4>2. round' = [round EXCEPT ![r] = me] BY <1>6, <2>1, <3>3, <4>1 DEF Goes, Decision
        <4>3. PICK t : t = To(r, "observe") OBVIOUS
        <4>4. /\ t \in RoundRow /\ t.pc = "observe" /\ t.op = o /\ t.saw = round[r].saw
              /\ t.started = round[r].started /\ t.handle = round[r].handle
          BY <1>0, <1>1, <1>5, <4>3, StepTaken
        <4>5. /\ me \in RoundRow /\ me.pc = "observe" /\ me.op = o /\ me.saw = round[r].saw
              /\ me.started = round[r].started /\ me.handle = round[r].handle
          BY <4>1, <4>3, <4>4 DEF RoundRow
        <4> QED BY <1>3, <3>3, <4>2, <4>5
      <3>4. CASE /\ round[r].handle \/ round[r].started
                 /\ ~ (round[r].handle /\ Kind(r) # "reboot" /\ op[Op(r)].age = "late")
        <4>1. round' = [round EXCEPT ![r] = Concludes(r, "needs_attention")]
          BY <1>6, <2>1, <3>4 DEF Goes, Decision
        <4> QED BY <1>2, <1>4, <4>1
      <3> QED BY <3>2, <3>3, <3>4
    <2>2. CASE ~Late(r) /\ ~round[r].handle /\ ~round[r].started /\ round[r].cancelling
      <3>1. round' = [round EXCEPT ![r] = Concludes(r, "cancelled")]
        BY <1>6, <2>2 DEF Goes, Decision
      <3> QED BY <1>2, <1>4, <2>2, <3>1
    <2>3. CASE /\ ~Late(r)
               /\ ~ (~round[r].handle /\ ~round[r].started /\ round[r].cancelling)
      <3>1. PICK pc \in {"observe", "recover", "validate"} :
                pc = IF round[r].handle THEN "observe"
                     ELSE IF round[r].started THEN "recover" ELSE "validate"
        OBVIOUS
      <3>2. round' = [round EXCEPT ![r] = To(r, pc)] BY <1>6, <2>3, <3>1 DEF Goes, Decision
      <3>3. PICK me : me = To(r, pc) OBVIOUS
      <3>4. /\ me \in RoundRow /\ me.pc = pc /\ me.op = o /\ me.saw = round[r].saw
            /\ me.started = round[r].started /\ me.handle = round[r].handle
        BY <1>0, <1>1, <1>5, <3>1, <3>3, StepTaken
      <3> QED BY <1>3, <3>1, <3>2, <3>3, <3>4
    <2> QED BY <2>1, <2>2, <2>3
  <1>7. ASSUME Goes(r, Decision(r)), ~Checked(r) PROVE IInv'
    <2>1. CASE Locatable(r) /\ round[r].saw \in {"receipt", "stable"}
      <3>1. round' = [round EXCEPT ![r] = To(r, "verify")] BY <1>7, <2>1 DEF Goes, Decision
      <3>2. PICK me : me = To(r, "verify") OBVIOUS
      <3>3. /\ me \in RoundRow /\ me.pc = "verify" /\ me.op = o /\ me.saw = round[r].saw
            /\ me.started = round[r].started /\ me.handle = round[r].handle
        BY <1>0, <1>1, <1>5, <3>2, StepTaken
      <3> QED BY <1>3, <2>1, <3>1, <3>2, <3>3 DEF Locatable
    <2>2. CASE Locatable(r) /\ round[r].saw \notin {"receipt", "stable"}
      <3>1. PICK me : me = [To(r, "observe") EXCEPT !.handle = TRUE] OBVIOUS
      <3>2. round' = [round EXCEPT ![r] = me] BY <1>7, <2>2, <3>1 DEF Goes, Decision
      <3>3. /\ me \in RoundRow /\ me.pc = "observe" /\ me.op = o /\ me.saw = round[r].saw
            /\ me.started = round[r].started /\ me.handle
        BY <1>0, <1>1, <3>1, HandleFound
      <3> QED BY <1>3, <3>2, <3>3
    <2>3. CASE ~Locatable(r)
      <3>1. round' = [round EXCEPT ![r] = To(r, "validate")] BY <1>7, <2>3 DEF Goes, Decision
      <3>2. op[o].kind \notin HostControlled BY <1>1, <1>7 DEF Checked, Kind, Op
      <3>3. ~round[r].handle BY <2>3 DEF Locatable
      <3>4. ~round[r].started BY <1>0, <1>1, <3>2, <3>3 DEF RoundFits
      <3>5. PICK me : me = To(r, "validate") OBVIOUS
      <3>6. /\ me \in RoundRow /\ me.pc = "validate" /\ me.op = o /\ me.saw = round[r].saw
            /\ me.started = round[r].started /\ me.handle = round[r].handle
        BY <1>0, <1>1, <1>5, <3>5, StepTaken
      <3> QED BY <1>3, <3>1, <3>3, <3>4, <3>5, <3>6
    <2> QED BY <2>1, <2>2, <2>3
  <1>8. ASSUME GoesWrong(r, "permission") PROVE IInv'
    BY <1>0, <1>8, FailsStep DEF GoesWrong, Goes
  <1> QED BY <1>6, <1>7, <1>8 DEF Decides

LEMMA ValidatesStep ==
    ASSUME IInv, NEW r \in Runners, Validates(r)
    PROVE  IInv'
  <1>0. /\ UNCHANGED <<op, approval, job, boot, service, stray, sent>> /\ round[r].pc = "validate"
        /\ Types /\ RoundFits(round[r])
    BY DEF Validates, ledgerVars, jobVars, IInv
  <1>1. PICK o : o = round[r].op OBVIOUS
  <1>2. ASSUME NEW pc \in {"checkpoint", "send"}, round' = [round EXCEPT ![r] = To(r, pc)],
               pc = "send" => op[o].kind \notin HostControlled
        PROVE  IInv'
    <2>1. pc \in Steps BY DEF Steps
    <2>2. PICK me : me = To(r, pc) OBVIOUS
    <2>3. /\ me \in RoundRow /\ me.pc = pc /\ me.op = o /\ me.saw = round[r].saw
          /\ me.started = round[r].started /\ me.handle = round[r].handle
      BY <1>0, <1>1, <2>1, <2>2, StepTaken
    <2>4. RoundFits(me) BY <1>0, <1>1, <1>2, <2>3 DEF RoundFits
    <2> QED BY <1>0, <1>1, <1>2, <2>2, <2>3, <2>4, RoundKeeps
  <1>3. ASSUME Goes(r, To(r, IF OverSsh(r) THEN "checkpoint" ELSE "send")) PROVE IInv'
    <2>1. CASE OverSsh(r)
      <3>1. round' = [round EXCEPT ![r] = To(r, "checkpoint")] BY <1>3, <2>1 DEF Goes
      <3> QED BY <1>2, <3>1
    <2>2. CASE ~OverSsh(r)
      <3>1. round' = [round EXCEPT ![r] = To(r, "send")] BY <1>3, <2>2 DEF Goes
      <3>2. op[o].kind \notin HostControlled
        BY <1>1, <2>2 DEF OverSsh, Kind, Op, HostControlled
      <3> QED BY <1>2, <3>1, <3>2
    <2> QED BY <2>1, <2>2
  <1>4. ASSUME NEW why, Goes(r, Fails(r, why)) PROVE IInv'
    BY <1>0, <1>4, FailsStep DEF Goes
  <1> QED BY <1>3, <1>4 DEF Validates, GoesWrong

\* Anything but a checkpoint leaves the ledger alone.
LEMMA RefusedCheckpoint ==
    ASSUME IInv, NEW r \in Runners, Checkpoints(r), ~CheckpointAccepted(r, Op(r))
    PROVE  IInv'
  <1>0. /\ UNCHANGED <<op, approval, job, boot, service, stray, sent>> /\ round[r].pc = "checkpoint"
        /\ round' = [round EXCEPT ![r] = [Fails(r, "permission") EXCEPT !.started = ~Checked(r)]]
        /\ Types /\ RoundFits(round[r])
    BY DEF Checkpoints, ledgerVars, jobVars, IInv, Goes
  <1>1. ~round[r].started /\ ~round[r].handle BY <1>0 DEF RoundFits
  <1>2. Fails(r, "permission") = Concludes(r, "needs_attention") BY <1>1 DEF Fails
  <1>3. PICK b \in BOOLEAN : b = ~Checked(r) OBVIOUS
  <1>4. PICK me : me = [Concludes(r, "needs_attention") EXCEPT !.started = b] OBVIOUS
  <1>5. "needs_attention" \in Statuses /\ "needs_attention" \notin Unclaimed \cup {"none"}
    BY DEF Statuses, Unclaimed
  <1>6. /\ me \in RoundRow /\ me.pc = "finish" /\ me.op = round[r].op /\ me.saw = round[r].saw
        /\ me.handle = round[r].handle /\ me.status = "needs_attention"
    BY <1>0, <1>4, <1>5, Concluded DEF RoundRow
  <1>7. PICK o : o = me.op OBVIOUS
  <1>8. Warranted(o, me.status, ~me.started /\ ~me.handle) BY <1>6 DEF Warranted
  <1>9. RoundFits(me) BY <1>0, <1>1, <1>5, <1>6, <1>7, <1>8 DEF RoundFits
  <1>10. round' = [round EXCEPT ![r] = me] BY <1>0, <1>2, <1>3, <1>4
  <1> QED BY <1>0, <1>1, <1>6, <1>9, <1>10, RoundKeeps

LEMMA RecoversStep ==
    ASSUME IInv, NEW r \in Runners, Recovers(r)
    PROVE  IInv'
  <1>0. /\ UNCHANGED <<op, approval, job, boot, service, stray, sent>> /\ round[r].pc = "recover"
        /\ Types /\ RoundFits(round[r])
    BY DEF Recovers, ledgerVars, jobVars, IInv
  <1>1. CASE Goes(r, [To(r, "observe") EXCEPT !.handle = TRUE])
    <2>1. PICK me : me = [To(r, "observe") EXCEPT !.handle = TRUE] OBVIOUS
    <2>3. /\ me \in RoundRow /\ me.pc = "observe" /\ me.op = round[r].op /\ me.saw = round[r].saw
          /\ me.started = round[r].started /\ me.handle
      BY <1>0, <2>1, HandleFound
    <2>4. PICK o : o = me.op OBVIOUS
    <2>5. RoundFits(me) BY <1>0, <2>3, <2>4 DEF RoundFits
    <2> QED BY <1>0, <1>1, <2>1, <2>3, <2>5, RoundKeeps DEF Goes
  <1>2. CASE Goes(r, Concludes(r, StillGoing(r)))
    <2>1. PICK s \in {"cancelling", "reconciling"} : s = StillGoing(r) BY DEF StillGoing
    <2>2. s \in Statuses \ Unclaimed BY DEF Statuses, InFlight, Unclaimed
    <2>3. Warranted(round[r].op, s, ~round[r].started /\ ~round[r].handle) BY <2>1 DEF Warranted
    <2> QED BY <1>0, <1>2, <2>1, <2>2, <2>3, VerdictStep DEF Goes
  <1>3. CASE GoesWrong(r, "retryable")
    BY <1>0, <1>3, FailsStep DEF Goes, GoesWrong
  <1> QED BY <1>1, <1>2, <1>3 DEF Recovers

\* A round comes to its verdict while a job moves on.
LEMMA VerdictMoves ==
    ASSUME IInv, UNCHANGED <<op, approval, sent, boot, service>>, NEW r \in Runners,
           NEW s \in Statuses \ Unclaimed, round' = [round EXCEPT ![r] = Concludes(r, s)],
           round[r].pc # "idle",
           Warranted(round[r].op, s, ~round[r].started /\ ~round[r].handle),
           job' \in [Operations -> JobRow], \A e \in Operations : JobMoves(e),
           stray' = stray
    PROVE  IInv'
  <1>1. PICK me : me = Concludes(r, s) OBVIOUS
  <1>2. /\ me \in RoundRow /\ me.pc = "finish" /\ me.op = round[r].op /\ me.status = s
        /\ me.started = round[r].started /\ me.handle = round[r].handle /\ me.saw = round[r].saw
    BY <1>1, Concluded DEF IInv
  <1>3. PICK o : o = round[r].op OBVIOUS
  <1>4. RoundFits(round[r]) BY DEF IInv
  <1>5. o \in Operations /\ (me.saw \in {"receipt", "stable"} => Receipt(o))
    BY <1>2, <1>3, <1>4 DEF RoundFits
  <1>6. JobMoves(o) BY <1>5
  <1>7. me.saw \in {"receipt", "stable"} => Receipt(o)' BY <1>5, <1>6 DEF JobMoves
  <1>8. Warranted(o, me.status, ~me.started /\ ~me.handle)'
    BY <1>2, <1>3, <1>6 DEF Warranted, JobMoves
  <1>9. me.status \notin Unclaimed \cup {"none"} BY <1>2 DEF Statuses, InFlight, Ended
  <1> QED BY <1>1, <1>2, <1>3, <1>7, <1>8, <1>9, RoundEnds

LEMMA FailsMoves ==
    ASSUME IInv, UNCHANGED <<op, approval, sent, boot, service>>, NEW r \in Runners, NEW why,
           round' = [round EXCEPT ![r] = Fails(r, why)], round[r].pc # "idle",
           job' \in [Operations -> JobRow], \A e \in Operations : JobMoves(e),
           stray' = stray
    PROVE  IInv'
  <1>1. PICK s \in {"needs_attention", "failed", "cancelling", "reconciling"} :
            /\ Fails(r, why) = Concludes(r, s)
            /\ s = "failed" => \/ ~round[r].started /\ ~round[r].handle
                               \/ op[round[r].op].age # "ontime"
    BY FailsStatus DEF IInv
  <1>2. s \in Statuses \ Unclaimed BY DEF Statuses, InFlight, Ended, Unclaimed
  <1>3. Warranted(round[r].op, s, ~round[r].started /\ ~round[r].handle) BY <1>1 DEF Warranted
  <1> QED BY <1>1, <1>2, <1>3, VerdictMoves

LEMMA AnsweredStep ==
    ASSUME IInv, NEW r \in Runners, Answered(r)
    PROVE  IInv'
  <1>0. /\ UNCHANGED <<op, approval, sent>> /\ round[r].pc = "waiting"
        /\ Types /\ RoundFits(round[r])
    BY DEF Answered, ledgerVars, IInv
  <1>1. PICK o : o = round[r].op OBVIOUS
  <1>2. o \in Operations /\ round[r].started /\ sent[o] = 1 /\ job[o] = NoJob /\ o \notin stray
    BY <1>0, <1>1 DEF RoundFits
  <1>3. CASE Lands(Op(r)) /\ Goes(r, Accepted(r)) /\ UNCHANGED stray
    <2>1. PICK s \in {"succeeded", "running"} :
              s = IF op[o].kind = "call" THEN "succeeded" ELSE "running"
      OBVIOUS
    <2>2. s \in Statuses /\ s \notin Unclaimed \cup {"none"}
      BY DEF Statuses, Ended, InFlight, Unclaimed
    <2>3. PICK end : end = Concludes(r, s) OBVIOUS
    <2>4. /\ end \in RoundRow /\ end.pc = "finish" /\ end.op = o /\ end.status = s
          /\ end.started = round[r].started /\ end.handle = round[r].handle
          /\ end.saw = round[r].saw
      BY <1>0, <1>1, <2>2, <2>3, Concluded
    <2>5. PICK me : me = IF s = "succeeded" THEN end ELSE [end EXCEPT !.handle = TRUE] OBVIOUS
    <2>6. /\ me \in RoundRow /\ me.pc = "finish" /\ me.op = o /\ me.status = s
          /\ me.started = round[r].started /\ (round[r].handle => me.handle)
          /\ me.saw = round[r].saw
      BY <2>4, <2>5 DEF RoundRow
    <2>7. Accepted(r) = me
      BY <1>1, <2>1, <2>3, <2>5 DEF Accepted, Kind, Op
    <2>8. round' = [round EXCEPT ![r] = me] /\ round'[r] = me
          /\ \A q \in Runners : q # r => round'[q] = round[q]
      BY <1>0, <1>3, <2>7 DEF Goes, Types
    <2>9. \A q \in Runners : round'[q].pc = "waiting" => round'[q].op # o
      BY <1>0, <1>1, <2>6, <2>8 DEF IInv, OneSender, Sending
    <2>10. /\ job' \in [Operations -> JobRow] /\ boot' = boot /\ service' = service
           /\ \A e \in Operations : JobMoves(e)
           /\ op[o].kind = "call" => job'[o].state = "succeeded" /\ job'[o].ran = 1
      BY <1>0, <1>1, <1>2, <1>3, <2>9, Landing DEF Op
    <2>11. Warranted(o, me.status, ~me.started /\ ~me.handle)'
      BY <1>0, <2>1, <2>6, <2>10 DEF Warranted, Succeeded
    <2>12. me.saw \in {"receipt", "stable"} => Receipt(o)'
      <3>1. JobMoves(o) BY <1>2, <2>10
      <3>2. me.saw \in {"receipt", "stable"} => Receipt(o) BY <1>0, <1>1, <2>6 DEF RoundFits
      <3> QED BY <3>1, <3>2 DEF JobMoves
    <2> QED BY <1>0, <1>1, <1>3, <2>2, <2>6, <2>8, <2>10, <2>11, <2>12, RoundEnds
  <1>4. CASE /\ GoesWrong(r, "retryable") /\ UNCHANGED jobVars
             /\ stray' \in {stray, stray \cup {Op(r)}}
    BY <1>0, <1>4, FailsStep DEF GoesWrong, Goes, jobVars, Op
  <1>5. CASE GoesWrong(r, "other") /\ UNCHANGED <<jobVars, stray>>
    BY <1>0, <1>5, FailsStep DEF GoesWrong, Goes, jobVars
  <1> QED BY <1>3, <1>4, <1>5 DEF Answered

\* Someone asks a job to stop.
LEMMA StopAsked ==
    ASSUME IInv, NEW o \in Operations, job[o].state # "none", AskToStop(o), UNCHANGED <<op, sent>>
    PROVE  /\ job' \in [Operations -> JobRow] /\ boot' = boot /\ service' = service
           /\ \A e \in Operations : JobMoves(e)
  <1>1. boot' = boot /\ service' = service BY DEF AskToStop
  <1>2. CASE job[o].state \in Terminal
    <2>1. job' = job BY <1>2 DEF AskToStop
    <2> QED BY <1>1, <2>1, HostStays DEF IInv, Types
  <1>3. CASE job[o].state \notin Terminal
    <2>1. PICK j : j = job[o] OBVIOUS
    <2>2. PICK k : k = [j EXCEPT !.cancel = TRUE] OBVIOUS
    <2>3. job' = [job EXCEPT ![o] = k] BY <1>3, <2>1, <2>2 DEF AskToStop
    <2>4. j \in JobRow /\ JobSound(j, sent[o], boot, service[o]) BY <2>1, Typed DEF IInv
    <2>5. /\ k \in JobRow /\ k.state = j.state /\ k.phase = j.phase /\ k.proof = j.proof
          /\ k.ran = j.ran /\ k.refused = j.refused
      BY <2>2, <2>4 DEF JobRow
    <2>6. JobSound(k, sent[o], boot, service[o]) BY <2>1, <2>4, <2>5 DEF JobSound
    <2>7. JobGoes(j, k) BY <1>3, <2>1, <2>4, <2>5 DEF JobGoes, JobSound, NoJob
    <2> QED BY <1>1, <2>1, <2>3, <2>5, <2>6, <2>7, JobEdit
  <1> QED BY <1>2, <1>3

LEMMA AsksToStopStep ==
    ASSUME IInv, NEW r \in Runners, AsksToStop(r)
    PROVE  IInv'
  <1>0. /\ UNCHANGED <<op, approval, sent, stray>> /\ round[r].pc = "cancel"
        /\ Types /\ RoundFits(round[r])
    BY DEF AsksToStop, ledgerVars, IInv
  <1>1. PICK o : o = round[r].op OBVIOUS
  <1>2. o \in Operations /\ job[o].state # "none" BY <1>0, <1>1 DEF RoundFits
  <1>3. ASSUME AskToStop(o)
        PROVE  /\ job' \in [Operations -> JobRow] /\ boot' = boot /\ service' = service
               /\ \A e \in Operations : JobMoves(e)
    BY <1>0, <1>2, <1>3, StopAsked
  <1>4. CASE AskToStop(Op(r)) /\ Goes(r, Concludes(r, "cancelling"))
    <2>1. "cancelling" \in Statuses \ Unclaimed BY DEF Statuses, InFlight, Unclaimed
    <2>2. Warranted(round[r].op, "cancelling", ~round[r].started /\ ~round[r].handle)
      BY DEF Warranted
    <2>3. AskToStop(o) BY <1>1, <1>4 DEF Op
    <2> QED BY <1>0, <1>3, <1>4, <2>1, <2>2, <2>3, VerdictMoves DEF Goes
  <1>5. CASE Goes(r, Fails(r, "other")) /\ UNCHANGED <<jobVars, faults>>
    BY <1>0, <1>5, FailsStep DEF Goes, jobVars
  <1>6. CASE GoesWrong(r, "retryable") /\ UNCHANGED jobVars
    BY <1>0, <1>6, FailsStep DEF GoesWrong, Goes, jobVars
  <1>7. CASE GoesWrong(r, "retryable") /\ AskToStop(Op(r))
    <2>1. AskToStop(o) BY <1>1, <1>7 DEF Op
    <2> QED BY <1>0, <1>3, <1>7, <2>1, FailsMoves DEF GoesWrong, Goes
  <1> QED BY <1>4, <1>5, <1>6, <1>7 DEF AsksToStop

LEMMA VerifiesStep ==
    ASSUME IInv, NEW r \in Runners, Verifies(r)
    PROVE  IInv'
  <1>0. /\ UNCHANGED <<op, approval, job, boot, service, stray, sent>> /\ round[r].pc = "verify"
        /\ Types /\ RoundFits(round[r])
    BY DEF Verifies, ledgerVars, jobVars, IInv
  <1>1. PICK o : o = round[r].op OBVIOUS
  <1>2. o \in Operations /\ Receipt(o) /\ round[r].saw \in {"receipt", "stable"}
    BY <1>0, <1>1 DEF RoundFits
  <1>3. ASSUME NEW s \in {"needs_attention", "failed", "succeeded", "reconciling"},
               NEW saw \in {"receipt", "stable"},
               s = "failed" => job[o].shows = "missed" \/ service[o] = "failed",
               s = "succeeded" => job[o].shows = "asked",
               round' = [round EXCEPT ![r] = [Concludes(r, s) EXCEPT !.saw = saw]]
        PROVE  IInv'
    <2>1. s \in Statuses /\ s \notin Unclaimed \cup {"none"} BY DEF Statuses, InFlight, Ended, Unclaimed
    <2>2. PICK end : end = Concludes(r, s) OBVIOUS
    <2>3. /\ end \in RoundRow /\ end.pc = "finish" /\ end.op = o /\ end.status = s
          /\ end.started = round[r].started /\ end.handle = round[r].handle
      BY <1>0, <1>1, <2>1, <2>2, Concluded
    <2>4. PICK me : me = [end EXCEPT !.saw = saw] OBVIOUS
    <2>5. /\ me \in RoundRow /\ me.pc = "finish" /\ me.op = o /\ me.status = s
          /\ me.started = round[r].started /\ me.handle = round[r].handle /\ me.saw = saw
      BY <2>3, <2>4 DEF RoundRow, Saws
    <2>6. Warranted(o, s, ~me.started /\ ~me.handle)
      <3>1. JobSound(job[o], sent[o], boot, service[o]) BY <1>2 DEF IInv
      <3>2. op[o].kind = "service" /\ job[o].state = "succeeded" /\ job[o].ran = 1
        BY <1>2, <3>1 DEF Receipt, JobSound
      <3> QED BY <1>3, <3>2 DEF Warranted, Succeeded, Failed
    <2>7. RoundFits(me) BY <1>0, <1>1, <1>2, <2>1, <2>5, <2>6 DEF RoundFits
    <2> QED BY <1>0, <1>1, <1>3, <2>2, <2>4, <2>5, <2>7, RoundKeeps
  <1>4. CASE Goes(r, [Concludes(r, "needs_attention") EXCEPT !.saw = round[r].saw])
    BY <1>2, <1>3, <1>4 DEF Goes
  <1>5. CASE Goes(r, [Concludes(r, "reconciling") EXCEPT !.saw = round[r].saw])
    BY <1>2, <1>3, <1>5 DEF Goes
  <1>6. CASE /\ job[o].shows = "missed" \/ service[o] = "failed"
             /\ Goes(r, [Concludes(r, "failed") EXCEPT !.saw = "receipt"])
    BY <1>3, <1>6 DEF Goes
  <1>7. CASE job[o].shows = "asked" /\ Goes(r, [Concludes(r, "succeeded") EXCEPT !.saw = "stable"])
    BY <1>3, <1>7 DEF Goes
  <1>8. CASE Goes(r, [Concludes(r, "reconciling") EXCEPT !.saw = "stable"])
    BY <1>3, <1>8 DEF Goes
  <1>9. CASE Goes(r, [Concludes(r, "reconciling") EXCEPT !.saw = "receipt"])
    BY <1>3, <1>9 DEF Goes
  <1> QED BY <1>1, <1>4, <1>5, <1>6, <1>7, <1>8, <1>9 DEF Verifies, Op

\* What a round comes to after it has looked at its job.
Sees(me, was, view, kind) ==
    /\ me.pc \in {"finish", "verify", "cancel"} /\ me.op = was.op
    /\ me.started = was.started /\ me.handle = was.handle
    /\ \/ me.saw = was.saw \/ me.saw = "proof"
       \/ me.saw = "receipt" /\ kind = "service" /\ view.state = "succeeded"
    /\ me.pc = "verify" => me.saw = "receipt"
    /\ me.pc = "finish" =>
          /\ me.status \in {"succeeded", "needs_attention", "failed", "reconciling",
                            "cancelled", "running"}
          /\ me.status = "succeeded" =>
                IF kind = "reboot" THEN view.proof # -1 /\ boot # view.proof
                ELSE view.state = "succeeded" /\ kind # "service"
          /\ me.status = "failed" => view.state \in {"failed", "timed_out"} \/ view.refused
          /\ me.status = "cancelled" => view.state = "cancelled"

\* What follows from looking for a reboot.
LEMMA RebootSeen ==
    ASSUME NEW r, NEW was, NEW seen \in RoundRow, NEW view, NEW told, AfterReboot(r, seen, view, told),
           seen.op = was.op, seen.started = was.started, seen.handle = was.handle,
           seen.saw \in {was.saw, "proof"}
    PROVE  \E me \in RoundRow : Goes(r, me) /\ me.pc = "finish" /\ Sees(me, was, view, "reboot")
  <1>1. PICK s \in {"succeeded", "needs_attention", "failed", "reconciling"} :
            /\ Goes(r, [seen EXCEPT !.pc = "finish", !.status = s])
            /\ s = "succeeded" => view.proof # -1 /\ boot # view.proof
            /\ s = "failed" => view.state = "failed"
    <2>1. PICK code \in BOOLEAN :
              Goes(r, [seen EXCEPT !.pc = "finish", !.status =
                  CASE told /\ Late(r) -> "needs_attention"
                    [] told /\ ~Late(r) /\ Rebooted(r, view.proof) -> "succeeded"
                    [] OTHER -> IF view.state = "failed" /\ code THEN "failed" ELSE "reconciling"])
      BY DEF AfterReboot
    <2>2. CASE told /\ Late(r)
      <3>1. Goes(r, [seen EXCEPT !.pc = "finish", !.status = "needs_attention"]) BY <2>1, <2>2
      <3> QED BY <3>1
    <2>3. CASE told /\ ~Late(r) /\ Rebooted(r, view.proof)
      <3>1. Goes(r, [seen EXCEPT !.pc = "finish", !.status = "succeeded"]) BY <2>1, <2>3
      <3> QED BY <2>3, <3>1 DEF Rebooted
    <2>4. CASE ~ (told /\ Late(r)) /\ ~ (told /\ ~Late(r) /\ Rebooted(r, view.proof))
      <3>1. CASE view.state = "failed" /\ code
        <4>1. Goes(r, [seen EXCEPT !.pc = "finish", !.status = "failed"]) BY <2>1, <2>4, <3>1
        <4> QED BY <3>1, <4>1
      <3>2. CASE ~ (view.state = "failed" /\ code)
        <4>1. Goes(r, [seen EXCEPT !.pc = "finish", !.status = "reconciling"]) BY <2>1, <2>4, <3>2
        <4> QED BY <4>1
      <3> QED BY <3>1, <3>2
    <2> QED BY <2>2, <2>3, <2>4
  <1>2. "finish" \in Steps /\ s \in Statuses \cup {"none"} BY DEF Steps, Statuses, Ended, InFlight
  <1>3. PICK me : me = [seen EXCEPT !.pc = "finish", !.status = s] OBVIOUS
  <1>4. /\ me \in RoundRow /\ me.pc = "finish" /\ me.op = seen.op /\ me.saw = seen.saw
        /\ me.started = seen.started /\ me.handle = seen.handle /\ me.status = s
    BY <1>2, <1>3 DEF RoundRow
  <1>5. Goes(r, me) BY <1>1, <1>3
  <1>6. Sees(me, was, view, "reboot") BY <1>1, <1>4 DEF Sees
  <1> QED BY <1>4, <1>5, <1>6

\* What follows from looking at a job.
LEMMA WhatIsSeen ==
    ASSUME Types, NEW r \in Runners, NEW view \in JobRow, NEW told, Observed(r, view, told)
    PROVE  \E me \in RoundRow : Goes(r, me) /\ Sees(me, round[r], view, op[round[r].op].kind)
  <1>1. round[r] \in RoundRow BY DEF Types
  <1>2. PICK proven \in BOOLEAN : proven = (view.proof # -1 \/ round[r].saw = "proof") OBVIOUS
  <1>3. PICK saw \in Saws : saw = IF Checked(r) /\ proven THEN "proof" ELSE round[r].saw
    BY <1>1 DEF RoundRow, Saws
  <1>4. PICK seen : seen = [round[r] EXCEPT !.saw = saw] OBVIOUS
  <1>5. /\ seen \in RoundRow /\ seen.op = round[r].op /\ seen.started = round[r].started
        /\ seen.handle = round[r].handle /\ seen.saw = saw
    BY <1>1, <1>4 DEF RoundRow
  <1>6. seen = [round[r] EXCEPT !.saw = IF Checked(r) /\ proven THEN "proof" ELSE @]
    BY <1>3, <1>4
  <1>7. PICK kind : kind = op[round[r].op].kind OBVIOUS
  <1>8. Kind(r) = kind /\ (Checked(r) <=> kind \in HostControlled) BY <1>7 DEF Kind, Op, Checked
  <1>9. PICK refusal \in BOOLEAN :
            refusal = (Checked(r) /\ ~proven /\ view.refused /\ view.state \in Terminal)
    OBVIOUS
  <1>10. CASE refusal
    <2>1. Goes(r, Concludes(r, "failed")) BY <1>2, <1>9, <1>10 DEF Observed
    <2>2. "failed" \in Statuses BY DEF Statuses, Ended
    <2>3. PICK me : me = Concludes(r, "failed") OBVIOUS
    <2>4. /\ me \in RoundRow /\ me.pc = "finish" /\ me.op = round[r].op /\ me.status = "failed"
          /\ me.started = round[r].started /\ me.handle = round[r].handle /\ me.saw = round[r].saw
      BY <2>2, <2>3, Concluded
    <2>5. Sees(me, round[r], view, kind) BY <1>9, <1>10, <2>4 DEF Sees
    <2> QED BY <1>7, <2>1, <2>3, <2>4, <2>5
  <1>11. CASE ~refusal /\ kind = "reboot" /\ proven
    <2>1. AfterReboot(r, seen, view, told) BY <1>2, <1>6, <1>8, <1>9, <1>11 DEF Observed
    <2> QED BY <1>3, <1>5, <1>7, <1>11, <2>1, RebootSeen
  <1>12. CASE ~refusal /\ kind = "service" /\ view.state = "succeeded"
    <2>1. Goes(r, [seen EXCEPT !.pc = "verify", !.saw = "receipt"])
      BY <1>2, <1>6, <1>8, <1>9, <1>12 DEF Observed
    <2>2. "verify" \in Steps /\ "receipt" \in Saws BY DEF Steps, Saws
    <2>3. PICK me : me = [seen EXCEPT !.pc = "verify", !.saw = "receipt"] OBVIOUS
    <2>4. /\ me \in RoundRow /\ me.pc = "verify" /\ me.op = round[r].op /\ me.saw = "receipt"
          /\ me.started = round[r].started /\ me.handle = round[r].handle
      BY <1>5, <2>2, <2>3 DEF RoundRow
    <2>5. Sees(me, round[r], view, kind) BY <1>12, <2>4 DEF Sees
    <2> QED BY <1>7, <2>1, <2>3, <2>4, <2>5
  <1>13. CASE ~refusal /\ ~ (kind = "reboot" /\ proven) /\ ~ (kind = "service" /\ view.state = "succeeded")
    <2>1. Goes(r, GoesOnWith(r, seen, view))
      BY <1>2, <1>6, <1>8, <1>9, <1>13 DEF Observed
    <2>2. CASE view.state \notin Terminal /\ seen.cancelling
      <3>1. PICK me : me = [seen EXCEPT !.pc = "cancel", !.view = view] OBVIOUS
      <3>2. Goes(r, me) BY <2>1, <2>2, <3>1 DEF GoesOnWith
      <3>3. "cancel" \in Steps BY DEF Steps
      <3>4. /\ me \in RoundRow /\ me.pc = "cancel" /\ me.op = round[r].op /\ me.saw = saw
            /\ me.started = round[r].started /\ me.handle = round[r].handle
        BY <1>5, <3>1, <3>3 DEF RoundRow
      <3>5. Sees(me, round[r], view, kind) BY <1>3, <3>4 DEF Sees
      <3> QED BY <1>7, <3>2, <3>4, <3>5
    <2>3. CASE ~ (view.state \notin Terminal /\ seen.cancelling)
      <3>1. PICK s : s = IF view.state = "succeeded" /\ Checked(r) /\ view.proof = -1
                         THEN "needs_attention" ELSE Outcome(view.state)
        OBVIOUS
      <3>2. PICK me : me = [seen EXCEPT !.pc = "finish", !.status = s] OBVIOUS
      <3>3. Goes(r, me) BY <2>1, <2>3, <3>1, <3>2 DEF GoesOnWith
      <3>4. /\ s \in {"succeeded", "needs_attention", "failed", "cancelled", "running"}
            /\ s = "succeeded" => /\ view.state = "succeeded"
                                  /\ ~ (Checked(r) /\ view.proof = -1)
            /\ s = "failed" => view.state \in {"failed", "timed_out"}
            /\ s = "cancelled" => view.state = "cancelled"
        BY <3>1 DEF Outcome
      <3>5. s = "succeeded" => kind # "reboot" /\ kind # "service"
        BY <1>2, <1>8, <1>13, <3>4 DEF HostControlled
      <3>6. "finish" \in Steps /\ s \in Statuses \cup {"none"}
        BY <3>4 DEF Steps, Statuses, Ended, InFlight
      <3>7. /\ me \in RoundRow /\ me.pc = "finish" /\ me.op = round[r].op /\ me.saw = saw
            /\ me.started = round[r].started /\ me.handle = round[r].handle /\ me.status = s
        BY <1>5, <3>2, <3>6 DEF RoundRow
      <3>8. Sees(me, round[r], view, kind) BY <1>3, <3>4, <3>5, <3>7 DEF Sees
      <3> QED BY <1>7, <3>3, <3>7, <3>8
    <2> QED BY <2>2, <2>3
  <1> QED BY <1>10, <1>11, <1>12, <1>13

\* jobs.status may write that a job's unit is gone.
LEMMA Reaping ==
    ASSUME IInv, NEW o \in Operations, UNCHANGED <<op, sent, boot, service>>,
           Statused(o)
    PROVE  job' \in [Operations -> JobRow] /\ \A e \in Operations : JobMoves(e)
  <1>1. CASE job' = job BY <1>1, HostStays DEF IInv, Types
  <1>2. CASE Abandoned(o) /\ job' = [job EXCEPT ![o] = Reaped(o)]
    <2>1. PICK j : j = job[o] OBVIOUS
    <2>2. PICK s \in {"cancelled", "outcome_unknown"} :
              s = IF j.cancel THEN "cancelled" ELSE "outcome_unknown"
      OBVIOUS
    <2>3. PICK k : k = [j EXCEPT !.state = s] OBVIOUS
    <2>4. job' = [job EXCEPT ![o] = k] BY <1>2, <2>1, <2>2, <2>3 DEF Reaped
    <2>5. j \in JobRow /\ JobSound(j, sent[o], boot, service[o]) BY <2>1, Typed DEF IInv
    <2>6. s \in JobStates BY DEF JobStates, Terminal
    <2>7. /\ k \in JobRow /\ k.state = s /\ k.phase = j.phase /\ k.proof = j.proof /\ k.ran = j.ran
          /\ k.refused = j.refused
      BY <2>3, <2>5, <2>6 DEF JobRow
    <2>8. /\ j.state \in {"dispatching", "running"}
          /\ j.phase \notin {"queued", "begun", "checked", "working"}
      BY <1>2, <2>1 DEF Abandoned, Alive
    <2>9. JobSound(k, sent[o], boot, service[o]) BY <2>5, <2>7, <2>8 DEF JobSound
    <2>10. JobGoes(j, k) BY <2>5, <2>7, <2>8 DEF JobGoes, JobSound, NoJob, Terminal
    <2> QED BY <2>1, <2>4, <2>7, <2>9, <2>10, JobEdit
  <1> QED BY <1>1, <1>2 DEF Statused

\* A round goes on with what it has seen, while the job may have been written off.
LEMMA SightTaken ==
    ASSUME IInv, NEW r \in Runners, NEW o, o = round[r].op, round[r].pc = "observe",
           UNCHANGED <<op, approval, sent, boot, service, stray>>, Statused(o),
           NEW view, NEW me \in RoundRow, Goes(r, me), Sees(me, round[r], view, op[o].kind),
           view.proof = job'[o].proof, view.refused = job'[o].refused,
           view.state \in {"succeeded", "failed", "timed_out", "cancelled"} => view.state = job'[o].state,
           me.pc \in {"verify", "cancel"} => job'[o].state # "none"
    PROVE  IInv'
  <1>0. Types /\ RoundFits(round[r]) /\ o \in Operations
    BY DEF IInv, RoundFits
  <1>1. job' \in [Operations -> JobRow] /\ \A e \in Operations : JobMoves(e) BY <1>0, Reaping
  <1>2. PICK j : j = job'[o] OBVIOUS
  <1>3. j \in JobRow /\ JobMoves(o) BY <1>0, <1>1, <1>2
  <1>4. JobSound(j, sent[o], boot, service[o])
    <2>1. JobSound(job[o], sent[o], boot, service[o])' BY <1>3 DEF JobMoves
    <2> QED BY <1>2, <2>1
  <1>5. PICK kind : kind = op[o].kind OBVIOUS
  <1>6. /\ me.pc \in {"finish", "verify", "cancel"} /\ me.op = o
        /\ me.started = round[r].started /\ me.handle = round[r].handle
        /\ \/ me.saw = round[r].saw \/ me.saw = "proof"
           \/ me.saw = "receipt" /\ kind = "service" /\ j.state = "succeeded"
        /\ me.pc = "verify" => me.saw = "receipt"
    BY <1>2, <1>5 DEF Sees
  <1>7. me.pc = "finish" =>
              /\ me.status \in {"succeeded", "needs_attention", "failed", "reconciling",
                                "cancelled", "running"}
              /\ me.status = "succeeded" =>
                    IF kind = "reboot" THEN j.proof # -1 /\ boot # j.proof
                    ELSE j.state = "succeeded" /\ kind # "service"
              /\ me.status = "failed" => j.state \in {"failed", "timed_out"} \/ j.refused
              /\ me.status = "cancelled" => j.state = "cancelled"
    BY <1>2, <1>5 DEF Sees
  <1>8. round' = [round EXCEPT ![r] = me] /\ round'[r] = me BY <1>0 DEF Goes, Types
  <1>9. me.saw \in {"receipt", "stable"} => Receipt(o)'
    <2>1. CASE me.saw = round[r].saw
      <3>1. me.saw \in {"receipt", "stable"} => Receipt(o) BY <1>0, <2>1 DEF RoundFits
      <3> QED BY <1>3, <3>1 DEF JobMoves
    <2>2. CASE me.saw = "proof" BY <2>2
    <2>3. CASE kind = "service" /\ j.state = "succeeded" BY <1>2, <1>5, <2>3 DEF Receipt
    <2> QED BY <1>6, <2>1, <2>2, <2>3
  <1>10. CASE me.pc = "finish"
    <2>1. me.status = "succeeded" => Succeeded(o)'
      <3> SUFFICES ASSUME me.status = "succeeded" PROVE Succeeded(o)' OBVIOUS
      <3>1. CASE kind = "reboot"
        <4>1. j.proof # -1 /\ boot # j.proof BY <1>7, <1>10, <3>1
        <4>2. j.proof <= boot BY <1>4 DEF JobSound
        <4>3. boot \in Int /\ j.proof \in Int BY <1>0, <1>3 DEF Types, JobRow
        <4>4. boot > j.proof BY <4>1, <4>2, <4>3
        <4> QED BY <1>2, <1>5, <3>1, <4>1, <4>4 DEF Succeeded
      <3>2. CASE kind # "reboot"
        <4>1. j.state = "succeeded" /\ j.ran = 1 /\ kind # "service"
          BY <1>4, <1>7, <1>10, <3>2 DEF JobSound
        <4> QED BY <1>2, <1>5, <3>2, <4>1 DEF Succeeded
      <3> QED BY <3>1, <3>2
    <2>2. me.status = "failed" => Failed(o)'
      <3>1. j.refused => j.ran = 0 BY <1>4 DEF JobSound
      <3> QED BY <1>2, <1>7, <1>10, <3>1 DEF Failed
    <2>3. Warranted(o, me.status, ~me.started /\ ~me.handle)'
      BY <1>2, <1>7, <1>10, <2>1, <2>2 DEF Warranted
    <2>4. me.status \notin Unclaimed \cup {"none"} BY <1>7, <1>10 DEF Unclaimed
    <2> QED BY <1>1, <1>6, <1>8, <1>9, <1>10, <2>3, <2>4, RoundEnds
  <1>11. CASE me.pc \in {"verify", "cancel"}
    <2>1. RoundFits(me)' BY <1>0, <1>2, <1>3, <1>6, <1>9, <1>11 DEF RoundFits
    <2>2. Continues(r) BY <1>6, <1>8, <1>11, <2>1 DEF Continues
    <2> QED BY <1>1, <1>6, <1>8, <2>2, RoundGoes
  <1> QED BY <1>6, <1>10, <1>11

LEMMA ObservedStep ==
    ASSUME IInv, NEW r \in Runners, NEW o, o = round[r].op, round[r].pc = "observe",
           job[o].state # "none", UNCHANGED <<op, approval, sent, boot, service, stray>>,
           Statused(o), NEW told, Observed(r, job'[o], told)
    PROVE  IInv'
  <1>1. Types /\ o \in Operations BY DEF IInv, RoundFits
  <1>2. job' \in [Operations -> JobRow] /\ JobMoves(o) BY <1>1, Reaping
  <1>3. PICK view : view = job'[o] OBVIOUS
  <1>4. view \in JobRow /\ view.state # "none" BY <1>1, <1>2, <1>3 DEF JobMoves
  <1>5. Observed(r, view, told) BY <1>3
  <1>6. PICK me \in RoundRow : Goes(r, me) /\ Sees(me, round[r], view, op[o].kind)
    BY <1>1, <1>4, <1>5, WhatIsSeen
  <1>7. view.proof = job'[o].proof /\ view.refused = job'[o].refused /\ view.state = job'[o].state
    BY <1>3
  <1> QED BY <1>4, <1>6, <1>7, SightTaken

LEMMA ObservesStep ==
    ASSUME IInv, NEW r \in Runners, Observes(r)
    PROVE  IInv'
  <1>0. /\ UNCHANGED <<op, approval, sent, boot, service, stray>> /\ round[r].pc = "observe"
        /\ Types /\ RoundFits(round[r])
    BY DEF Observes, ledgerVars, IInv
  <1>1. PICK o : o = round[r].op OBVIOUS
  <1>2. Op(r) = o BY <1>1 DEF Op
  <1>3. o \in Operations BY <1>0, <1>1 DEF RoundFits
  <1>4. ASSUME NEW why, Goes(r, Fails(r, why)), job' = job PROVE IInv'
    BY <1>0, <1>4, FailsStep DEF Goes
  <1>5. ASSUME NEW told, job[o].state # "none", Statused(o), Observed(r, job'[o], told) PROVE IInv'
    BY <1>0, <1>1, <1>5, ObservedStep
  <1>6. CASE Statused(o) /\ Goes(r, Fails(r, "retryable"))
    <2>1. job' \in [Operations -> JobRow] /\ \A e \in Operations : JobMoves(e)
      BY <1>0, <1>3, <1>6, Reaping
    <2> QED BY <1>0, <1>6, <2>1, FailsMoves DEF Goes
  <1>7. ASSUME Statused(o), Kind(r) = "reboot", NEW told,
               AfterReboot(r, [round[r] EXCEPT !.saw = "proof"], [job[o] EXCEPT !.state = "running"], told)
        PROVE  IInv'
    <2>1. PICK view : view = [job[o] EXCEPT !.state = "running"] OBVIOUS
    <2>2. job[o] \in JobRow /\ job \in [Operations -> JobRow] BY <1>0, <1>3, Typed DEF Types
    <2>3. view.state = "running" /\ view.proof = job[o].proof /\ view.refused = job[o].refused
      BY <2>1, <2>2 DEF JobRow
    <2>4. job'[o].proof = job[o].proof /\ job'[o].refused = job[o].refused
      BY <1>3, <1>7, <2>2 DEF Statused, Reaped, JobRow
    <2>5. PICK seen : seen = [round[r] EXCEPT !.saw = "proof"] OBVIOUS
    <2>6. "proof" \in Saws BY DEF Saws
    <2>7. /\ seen \in RoundRow /\ seen.op = round[r].op /\ seen.started = round[r].started
          /\ seen.handle = round[r].handle /\ seen.saw = "proof"
      BY <1>0, <2>5, <2>6 DEF Types, RoundRow
    <2>8. AfterReboot(r, seen, view, told) BY <1>7, <2>1, <2>5
    <2>9. PICK me \in RoundRow : /\ Goes(r, me) /\ me.pc = "finish"
                                 /\ Sees(me, round[r], view, "reboot")
      BY <2>7, <2>8, RebootSeen
    <2>10. op[o].kind = "reboot" BY <1>1, <1>7 DEF Kind, Op
    <2>11. /\ view.proof = job'[o].proof /\ view.refused = job'[o].refused
           /\ view.state \notin {"succeeded", "failed", "timed_out", "cancelled"}
      BY <2>3, <2>4
    <2> QED BY <1>0, <1>1, <1>7, <2>9, <2>10, <2>11, SightTaken
  <1> QED BY <1>2, <1>4, <1>5, <1>6, <1>7 DEF Observes

\* A round that is over leaves nothing behind but, perhaps, its write.
LEMMA RoundLeaves ==
    ASSUME IInv, NEW r \in Runners, Goes(r, Idle),
           UNCHANGED <<op, approval, sent, job, boot, service>>,
           stray' = stray \/ (stray' = stray \cup {round[r].op} /\ round[r].pc = "waiting")
    PROVE  IInv'
  <1>1. NoJob \in JobRow BY DEF NoJob, JobRow, JobStates, Phases, Effects
  <1>2. Idle \in RoundRow BY <1>1 DEF Idle, RoundRow, Steps, Saws
  <1>3. \A e \in Operations : JobMoves(e) BY HostStays
  <1>4. job' \in [Operations -> JobRow] BY DEF IInv, Types
  <1> QED BY <1>2, <1>3, <1>4, Basics, RoundGoes DEF Goes

LEMMA CrashStep ==
    ASSUME IInv, NEW r \in Runners, Crash(r)
    PROVE  IInv'
  <1>1. UNCHANGED <<op, approval, sent, job, boot, service>> /\ Goes(r, Idle)
    BY DEF Crash, ledgerVars, jobVars
  <1>2. stray' = stray \/ (stray' = stray \cup {round[r].op} /\ round[r].pc = "waiting")
    BY DEF Crash, Op
  <1> QED BY <1>1, <1>2, RoundLeaves

-----------------------------------------------------------------------------
(* Steps that write to the ledger, or send.                                *)

\* A step that concerns one operation.
LEMMA OneOperation ==
    ASSUME IInv, NEW o \in Operations, Types', UNCHANGED <<job, boot, service, stray>>,
           \A e \in Operations : e # o =>
               op'[e] = op[e] /\ approval'[e] = approval[e] /\ sent'[e] = sent[e],
           \A s \in Runners : \/ round'[s] = round[s]
                              \/ /\ round[s].pc = "idle" \/ round[s].op = o
                                 /\ round'[s].pc = "idle" \/ round'[s].op = o,
           \A s \in Runners : round'[s].pc = "idle" => round'[s] = Idle,
           JobSound(job[o], sent[o], boot, service[o])', RowFits(o)', Alone(o)',
           \A s \in Runners : On(s, o)' => RoundFits(round[s])' /\ Informed(s)',
           \A s, t \in Runners : On(s, o)' /\ On(t, o)' => OneSender(s, t)'
    PROVE  IInv'
  <1>1. \A s \in Runners : \A e \in Operations : e # o => (On(s, e)' <=> On(s, e))
    BY DEF On
  <1>2. \A s \in Runners : \A e \in Operations : e # o /\ On(s, e)' => round'[s] = round[s]
    BY DEF On
  <1>3. ASSUME NEW e \in Operations, e # o
        PROVE  RowFits(e)' /\ Alone(e)' /\ JobSound(job[e], sent[e], boot, service[e])'
    <2>1. RowFits(e) /\ Alone(e) /\ JobSound(job[e], sent[e], boot, service[e]) BY DEF IInv
    <2>2. op'[e] = op[e] /\ approval'[e] = approval[e] /\ sent'[e] = sent[e] BY <1>3
    <2>3. \A s \in Runners : On(s, e)' <=> On(s, e) BY <1>1, <1>3
    <2>4. Blank(e)' <=> Blank(e) BY <2>2 DEF Blank
    <2>5. Receipt(e)' <=> Receipt(e) BY <2>2 DEF Receipt
    <2>6. Warranted(e, op[e].status, Blank(e))' <=> Warranted(e, op[e].status, Blank(e))
      BY <2>2, <2>4 DEF Warranted, Succeeded, Failed
    <2>7. RowFits(e)' BY <2>1, <2>2, <2>3, <2>4, <2>5, <2>6 DEF RowFits
    <2>8. Alone(e)' BY <1>2, <1>3, <2>1, <2>2, <2>3 DEF Alone
    <2>9. JobSound(job[e], sent[e], boot, service[e])' BY <2>1, <2>2 DEF JobSound
    <2> QED BY <2>7, <2>8, <2>9
  <1>4. ASSUME NEW s \in Runners PROVE RoundFits(round[s])' /\ Informed(s)'
    <2>1. CASE round'[s].pc = "idle" BY <2>1 DEF RoundFits, Informed
    <2>2. CASE On(s, o)' BY <2>2
    <2>3. CASE round'[s].pc # "idle" /\ ~ On(s, o)'
      <3>1. PICK me : me = round[s] OBVIOUS
      <3>2. round'[s] = me BY <2>3, <3>1 DEF On
      <3>3. PICK e : e = me.op OBVIOUS
      <3>4. RoundFits(me) /\ me.pc # "idle" /\ Informed(s) BY <2>3, <3>1, <3>2 DEF IInv
      <3>5. e \in Operations /\ e # o
        BY <2>3, <3>2, <3>3, <3>4 DEF RoundFits, On
      <3>6. op'[e] = op[e] /\ approval'[e] = approval[e] /\ sent'[e] = sent[e] BY <3>5
      <3>7. Receipt(e)' <=> Receipt(e) BY <3>6 DEF Receipt
      <3>8. Warranted(e, me.status, ~me.started /\ ~me.handle)
                => Warranted(e, me.status, ~me.started /\ ~me.handle)'
        BY <3>6 DEF Warranted, Succeeded, Failed
      <3>9. RoundFits(me)' BY <3>3, <3>4, <3>6, <3>7, <3>8 DEF RoundFits
      <3>10. Informed(s)' BY <3>1, <3>2, <3>3, <3>4, <3>6 DEF Informed, HoldsLease
      <3> QED BY <3>2, <3>9, <3>10
    <2> QED BY <2>1, <2>2, <2>3
  <1>5. ASSUME NEW s \in Runners, NEW t \in Runners PROVE OneSender(s, t)'
    <2> SUFFICES ASSUME Sending(s)', Sending(t)', round'[s].op = round'[t].op PROVE s = t
      BY DEF OneSender
    <2>1. round'[s].pc # "idle" /\ round'[t].pc # "idle" BY DEF Sending
    <2>2. CASE round'[s].op = o
      <3>1. On(s, o)' /\ On(t, o)' BY <2>1, <2>2 DEF On
      <3>2. OneSender(s, t)' BY <3>1
      <3> QED BY <3>2 DEF OneSender
    <2>3. CASE round'[s].op # o
      <3>1. round'[s] = round[s] /\ round'[t] = round[t] BY <2>1, <2>3
      <3>2. Sending(s) /\ Sending(t) /\ round[s].op = round[t].op BY <3>1 DEF Sending
      <3> QED BY <3>2 DEF IInv, OneSender
    <2> QED BY <2>2, <2>3
  <1> QED BY <1>3, <1>4, <1>5 DEF IInv

\* A row changes while its rounds go on.
LEMMA RowEdit ==
    ASSUME IInv, NEW o \in Operations, NEW new \in LedgerRow, op' = [op EXCEPT ![o] = new],
           NEW consent \in Consent, approval' = [approval EXCEPT ![o] = consent],
           UNCHANGED <<job, boot, service, round, stray, sent>>,
           new.started = op[o].started, new.handle = op[o].handle, new.saw = op[o].saw,
           new.kind = op[o].kind \/ op[o].status = "absent",
           op[o].age # "ontime" => new.age # "ontime",
           approval[o].state = "consumed" /\ op[o].status \notin Unclaimed
               => consent.state = "consumed",
           new.live => /\ op[o].live /\ new.owner = op[o].owner /\ new.fence = op[o].fence
                       /\ new.status \in {"running", "cancelling"},
           \/ new.status = op[o].status
           \/ op[o].status \in Unclaimed /\ new.status \in Unclaimed \cup {"cancelled", "needs_attention"}
           \/ op[o].status \notin Unclaimed /\ new.status \in {"cancelling", "needs_attention"}
    PROVE  IInv'
  <1>0. Types /\ RowFits(o) /\ JobSound(job[o], sent[o], boot, service[o]) /\ Alone(o) BY DEF IInv
  <1>1. /\ op' \in [Operations -> LedgerRow] /\ approval' \in [Operations -> Consent]
        /\ op'[o] = new /\ approval'[o] = consent
        /\ \A e \in Operations : e # o => op'[e] = op[e] /\ approval'[e] = approval[e]
    BY <1>0 DEF Types
  <1>2. Types' BY <1>0, <1>1 DEF Types
  <1>3. \A s \in Runners : On(s, o)' <=> On(s, o) BY DEF On
  <1>4. op[o].status \in Unclaimed => sent[o] = 0 /\ Blank(o) /\ \A s \in Runners : ~ On(s, o)
    BY <1>0 DEF RowFits
  <1>5. op[o].status # "absent" => new.kind = op[o].kind OBVIOUS
  <1>6. op[o].status = "absent" => op[o].status \in Unclaimed BY DEF Unclaimed
  <1>7. Receipt(o) => Receipt(o)'
    <2> SUFFICES ASSUME Receipt(o) PROVE Receipt(o)' OBVIOUS
    <2>1. job[o].state = "succeeded" /\ op[o].kind = "service" BY DEF Receipt
    <2>2. sent[o] = 1 BY <1>0, <2>1 DEF JobSound
    <2>3. new.kind = "service" BY <1>4, <1>5, <1>6, <2>1, <2>2
    <2> QED BY <1>1, <2>1, <2>3 DEF Receipt
  <1>8. Blank(o)' <=> Blank(o) BY <1>1 DEF Blank
  <1>9. ASSUME NEW st, NEW b \in BOOLEAN, op[o].status # "absent", Warranted(o, st, b)
        PROVE  Warranted(o, st, b)'
    <2>1. new.kind = op[o].kind BY <1>9
    <2>2. (Succeeded(o) => Succeeded(o)') /\ (Failed(o) => Failed(o)')
      BY <1>1, <2>1 DEF Succeeded, Failed
    <2> QED BY <1>1, <1>9, <2>2 DEF Warranted
  <1>10. RowFits(o)'
    <2>1. new.status \in Unclaimed => op[o].status \in Unclaimed BY DEF Unclaimed
    <2>2. new.live => new.owner # Nobody /\ new.status \in {"running", "cancelling"}
      BY <1>0 DEF RowFits
    <2>3. sent[o] = 1 /\ new.kind \in HostControlled => new.started
      BY <1>0, <1>4, <1>5, <1>6 DEF RowFits
    <2>4. Warranted(o, new.status, Blank(o))'
      <3>1. CASE new.status = op[o].status /\ op[o].status # "absent"
        <4>1. Warranted(o, new.status, Blank(o)) BY <1>0, <3>1 DEF RowFits
        <4>2. PICK b \in BOOLEAN : b = Blank(o) BY DEF Blank
        <4>3. PICK st : st = new.status OBVIOUS
        <4>4. Warranted(o, st, b)' BY <1>9, <3>1, <4>1, <4>2, <4>3
        <4> QED BY <1>8, <4>2, <4>3, <4>4 DEF Warranted
      <3>2. CASE new.status = "absent" BY <3>2 DEF Warranted
      <3>3. CASE new.status # op[o].status
        <4>1. new.status # "succeeded" /\ new.status # "failed" BY <3>3 DEF Unclaimed
        <4>2. new.status = "cancelled" => Blank(o)' BY <1>4, <1>8, <3>3
        <4> QED BY <4>1, <4>2 DEF Warranted
      <3> QED BY <3>1, <3>2, <3>3
    <2>5. new.status \in {"failed", "cancelled"} /\ Blank(o) =>
              sent[o] = 0 /\ (new.kind \notin HostControlled => \A s \in Runners : ~ On(s, o))
      <3>1. CASE op[o].status \in Unclaimed BY <1>4, <3>1
      <3>2. CASE op[o].status \notin Unclaimed
        BY <1>0, <1>5, <1>6, <3>2 DEF RowFits
      <3> QED BY <3>1, <3>2
    <2>6. /\ op[o].status \in Unclaimed => Blank(o) /\ sent[o] = 0 /\ \A s \in Runners : ~ On(s, o)
          /\ sent[o] <= 1
          /\ sent[o] = 1 => consent.state = "consumed"
          /\ o \in stray => sent[o] = 1 /\ job[o] = NoJob
          /\ op[o].saw \in {"receipt", "stable"} => Receipt(o)
      BY <1>0, <1>4 DEF RowFits
    <2>7. new.saw \in {"receipt", "stable"} => Receipt(o)' BY <1>7, <2>6
    <2> QED BY <1>1, <1>3, <1>8, <2>1, <2>2, <2>3, <2>4, <2>5, <2>6, <2>7 DEF RowFits
  <1>11. ASSUME NEW s \in Runners, On(s, o)' PROVE RoundFits(round[s])' /\ Informed(s)'
    <2>1. PICK me : me = round[s] OBVIOUS
    <2>2. RoundFits(me) /\ me.pc # "idle" /\ me.op = o /\ round'[s] = me /\ Informed(s)
      BY <1>3, <1>11, <2>1 DEF IInv, On
    <2>3. op[o].status \notin Unclaimed /\ new.kind = op[o].kind
      BY <1>5, <1>6, <2>2 DEF RoundFits
    <2>4. new.status \notin Unclaimed BY <2>3 DEF Unclaimed
    <2>5. Warranted(o, me.status, ~me.started /\ ~me.handle)
              => Warranted(o, me.status, ~me.started /\ ~me.handle)'
      <3>1. PICK b \in BOOLEAN : b = (~me.started /\ ~me.handle) OBVIOUS
      <3>2. PICK st : st = me.status OBVIOUS
      <3>3. Warranted(o, st, b) => Warranted(o, st, b)' BY <1>6, <1>9, <2>3
      <3> QED BY <3>1, <3>2, <3>3 DEF Warranted
    <2>6. RoundFits(me)' BY <1>1, <1>7, <2>2, <2>3, <2>4, <2>5 DEF RoundFits
    <2>7. HoldsLease(s, o)' => HoldsLease(s, o) BY <1>1 DEF HoldsLease
    <2>8. Informed(s)' BY <1>1, <2>1, <2>2, <2>7 DEF Informed
    <2> QED BY <2>2, <2>6, <2>8
  <1>12. Alone(o)' BY <1>0, <1>1, <1>3, <1>4, <1>5, <1>6 DEF Alone
  <1>13. JobSound(job[o], sent[o], boot, service[o])' BY <1>0 DEF JobSound
  <1>14. \A s, t \in Runners : OneSender(s, t)' BY DEF IInv, OneSender, Sending
  <1>15. \A s \in Runners : round'[s].pc = "idle" => round'[s] = Idle BY DEF IInv
  <1> QED BY <1>1, <1>2, <1>10, <1>11, <1>12, <1>13, <1>14, <1>15, OneOperation

\* A row that is given back.
LEMMA ReleasedRow ==
    ASSUME NEW row \in LedgerRow, NEW status \in Statuses
    PROVE  LET new == Released(row, status) IN
           /\ new \in LedgerRow /\ new.status = status /\ new.owner = Nobody /\ new.live = FALSE
           /\ new.kind = row.kind /\ new.fence = row.fence /\ new.age = row.age
           /\ new.started = row.started /\ new.handle = row.handle /\ new.saw = row.saw
  BY DEF Released, LedgerRow, Hands

\* The approval of a row stays, or is changed alone.
LEMMA SameConsent ==
    ASSUME Types, NEW o \in Operations, approval' = approval
    PROVE  \E consent \in Consent : /\ consent.state = approval[o].state
                                    /\ approval' = [approval EXCEPT ![o] = consent]
  BY DEF Types

LEMMA RefuseStep ==
    ASSUME IInv, NEW o \in Operations, Refuse(o),
           UNCHANGED <<job, boot, service, round, stray, sent>>
    PROVE  IInv'
  <1>0. Types /\ op[o] \in LedgerRow BY Typed DEF IInv
  <1>1. PICK new : new = Released(op[o], "needs_attention") OBVIOUS
  <1>2. "needs_attention" \in Statuses BY DEF Statuses
  <1>3. /\ new \in LedgerRow /\ new.status = "needs_attention" /\ new.live = FALSE
        /\ new.kind = op[o].kind /\ new.age = op[o].age
        /\ new.started = op[o].started /\ new.handle = op[o].handle /\ new.saw = op[o].saw
    BY <1>0, <1>1, <1>2, ReleasedRow
  <1>4. op' = [op EXCEPT ![o] = new] BY <1>1 DEF Refuse
  <1>5. PICK consent \in Consent :
            consent.state = approval[o].state /\ approval' = [approval EXCEPT ![o] = consent]
    BY <1>0, SameConsent DEF Refuse
  <1> QED BY <1>3, <1>4, <1>5, RowEdit

LEMMA AdministersStep ==
    ASSUME IInv, NEW o \in Operations, Administers(o)
    PROVE  IInv'
  <1>0. /\ UNCHANGED <<job, boot, service, round, stray, sent>>
        /\ Types /\ op[o] \in LedgerRow /\ approval[o] \in Consent
        /\ op[o].live => op[o].status \in {"running", "cancelling"}
    BY Typed DEF Administers, jobVars, IInv, RowFits
  <1>1. ASSUME NEW k \in Kinds, Prepare(o, k) PROVE IInv'
    <2>1. PICK new : new = [op[o] EXCEPT !.kind = k, !.status = "awaiting_approval"] OBVIOUS
    <2>2. op' = [op EXCEPT ![o] = new] /\ op[o].status = "absent" BY <1>1, <2>1 DEF Prepare
    <2>3. "awaiting_approval" \in Statuses BY DEF Statuses
    <2>4. /\ new \in LedgerRow /\ new.status = "awaiting_approval" /\ new.live = op[o].live
          /\ new.age = op[o].age /\ new.started = op[o].started /\ new.handle = op[o].handle
          /\ new.saw = op[o].saw
      BY <1>0, <2>1, <2>3 DEF LedgerRow
    <2>5. PICK consent \in Consent :
            consent.state = approval[o].state /\ approval' = [approval EXCEPT ![o] = consent]
      BY <1>0, <1>1, SameConsent DEF Prepare
    <2>6. ~ new.live BY <1>0, <2>2, <2>4
    <2> QED BY <1>0, <2>2, <2>4, <2>5, <2>6, RowEdit DEF Unclaimed
  <1>2. CASE Approve(o)
    <2>1. PICK new : new = [op[o] EXCEPT !.status = "queued"] OBVIOUS
    <2>2. PICK consent : consent = [approval[o] EXCEPT !.state = "given"] OBVIOUS
    <2>3. /\ op' = [op EXCEPT ![o] = new] /\ approval' = [approval EXCEPT ![o] = consent]
          /\ op[o].status = "awaiting_approval"
      BY <1>2, <2>1, <2>2 DEF Approve
    <2>4. "queued" \in Statuses BY DEF Statuses, InFlight
    <2>5. /\ new \in LedgerRow /\ new.status = "queued" /\ new.live = op[o].live
          /\ new.age = op[o].age /\ new.started = op[o].started /\ new.handle = op[o].handle
          /\ new.saw = op[o].saw /\ new.kind = op[o].kind
      BY <1>0, <2>1, <2>4 DEF LedgerRow
    <2>6. consent \in Consent BY <1>0, <2>2 DEF Consent
    <2>7. ~ new.live BY <1>0, <2>3, <2>5
    <2>8. op[o].status \in Unclaimed BY <2>3 DEF Unclaimed
    <2> QED BY <1>0, <2>3, <2>5, <2>6, <2>7, <2>8, RowEdit DEF Unclaimed
  <1>3. CASE CancelOperation(o)
    <2>1. PICK s \in {"cancelled", "cancelling"} :
              s = IF op[o].status \in {"awaiting_approval", "queued"} THEN "cancelled" ELSE "cancelling"
      OBVIOUS
    <2>2. PICK new : new = [op[o] EXCEPT !.status = s] OBVIOUS
    <2>3. op' = [op EXCEPT ![o] = new] /\ op[o].status # "absent"
      BY <1>3, <2>1, <2>2 DEF CancelOperation
    <2>4. s \in Statuses BY <2>1 DEF Statuses, Ended, InFlight
    <2>5. /\ new \in LedgerRow /\ new.status = s /\ new.live = op[o].live /\ new.owner = op[o].owner
          /\ new.fence = op[o].fence
          /\ new.age = op[o].age /\ new.started = op[o].started /\ new.handle = op[o].handle
          /\ new.saw = op[o].saw /\ new.kind = op[o].kind
      BY <1>0, <2>2, <2>4 DEF LedgerRow
    <2>6. PICK consent \in Consent :
            consent.state = approval[o].state /\ approval' = [approval EXCEPT ![o] = consent]
      BY <1>0, <1>3, SameConsent DEF CancelOperation
    <2>7. \/ op[o].status \in Unclaimed /\ s = "cancelled"
          \/ op[o].status \notin Unclaimed /\ s = "cancelling"
      BY <2>1, <2>3 DEF Unclaimed
    <2>8. new.live => new.status \in {"running", "cancelling"}
      BY <1>0, <2>1, <2>5
    <2> QED BY <1>0, <2>3, <2>5, <2>6, <2>7, <2>8, RowEdit
  <1> QED BY <1>1, <1>2, <1>3 DEF Administers

LEMMA LeaseEndsStep ==
    ASSUME IInv, NEW o \in Operations, LeaseEnds(o)
    PROVE  IInv'
  <1>0. /\ UNCHANGED <<job, boot, service, round, stray, sent>>
        /\ Types /\ op[o] \in LedgerRow
    BY Typed DEF LeaseEnds, jobVars, IInv
  <1>1. PICK new : new = [op[o] EXCEPT !.live = FALSE] OBVIOUS
  <1>2. op' = [op EXCEPT ![o] = new] BY <1>1 DEF LeaseEnds, LeaseRunsOut
  <1>3. /\ new \in LedgerRow /\ new.status = op[o].status /\ ~ new.live
        /\ new.age = op[o].age /\ new.started = op[o].started /\ new.handle = op[o].handle
        /\ new.saw = op[o].saw /\ new.kind = op[o].kind
    BY <1>0, <1>1 DEF LedgerRow
  <1>4. PICK consent \in Consent :
            consent.state = approval[o].state /\ approval' = [approval EXCEPT ![o] = consent]
    BY <1>0, SameConsent DEF LeaseEnds, LeaseRunsOut
  <1> QED BY <1>0, <1>2, <1>3, <1>4, RowEdit

LEMMA TimePassesStep ==
    ASSUME IInv, NEW o \in Operations, TimePasses(o)
    PROVE  IInv'
  <1>0. /\ UNCHANGED <<job, boot, service, round, stray, sent>>
        /\ Types /\ op[o] \in LedgerRow /\ approval[o] \in Consent
        /\ op[o].live => op[o].status \in {"running", "cancelling"}
    BY Typed DEF TimePasses, jobVars, roundVars, IInv, RowFits
  <1>1. CASE ApprovalLapses(o)
    <2>1. PICK consent : consent = [approval[o] EXCEPT !.lapsed = TRUE] OBVIOUS
    <2>2. approval' = [approval EXCEPT ![o] = consent] /\ op' = op
      BY <1>1, <2>1 DEF ApprovalLapses
    <2>3. consent \in Consent /\ consent.state = approval[o].state BY <1>0, <2>1 DEF Consent
    <2>4. op' = [op EXCEPT ![o] = op[o]] BY <1>0, <2>2 DEF Types
    <2> QED BY <1>0, <2>2, <2>3, <2>4, RowEdit
  <1>2. CASE DeadlinePasses(o)
    <2>1. PICK a \in {"late", "over"} : a = IF op[o].age = "ontime" THEN "late" ELSE "over" OBVIOUS
    <2>2. PICK new : new = [op[o] EXCEPT !.age = a] OBVIOUS
    <2>3. op' = [op EXCEPT ![o] = new] BY <1>2, <2>1, <2>2 DEF DeadlinePasses
    <2>4. /\ new \in LedgerRow /\ new.status = op[o].status /\ new.live = op[o].live
          /\ new.owner = op[o].owner /\ new.fence = op[o].fence
          /\ new.age = a /\ new.started = op[o].started /\ new.handle = op[o].handle
          /\ new.saw = op[o].saw /\ new.kind = op[o].kind
      BY <1>0, <2>2 DEF LedgerRow, Ages
    <2>5. PICK consent \in Consent :
            consent.state = approval[o].state /\ approval' = [approval EXCEPT ![o] = consent]
      BY <1>0, <1>2, SameConsent DEF DeadlinePasses
    <2> QED BY <1>0, <2>3, <2>4, <2>5, RowEdit
  <1> QED BY <1>1, <1>2 DEF TimePasses

\* A runner changes the row of its round.
LEMMA RowAndRound ==
    ASSUME IInv, NEW o \in Operations, NEW r \in Runners,
           NEW new \in LedgerRow, op' = [op EXCEPT ![o] = new],
           NEW consent \in Consent, approval' = [approval EXCEPT ![o] = consent],
           NEW me \in RoundRow, round' = [round EXCEPT ![r] = me],
           UNCHANGED <<job, boot, service, stray, sent>>,
           round[r].pc = "idle" \/ round[r].op = o,
           me = Idle \/ (me.pc # "idle" /\ me.op = o /\ RoundFits(me)'),
           new.kind = op[o].kind, new.age = op[o].age, new.status \notin Unclaimed,
           op[o].started => new.started,
           approval[o].state = "consumed" => consent.state = "consumed",
           new.live => new.owner = r,
           RowFits(o)', Alone(o)', Informed(r)',
           me.pc \in {"send", "waiting"} =>
               \A s \in Runners : s # r /\ On(s, o) => ~ Sending(s)
    PROVE  IInv'
  <1>0. Types /\ JobSound(job[o], sent[o], boot, service[o]) BY DEF IInv
  <1>1. /\ op' \in [Operations -> LedgerRow] /\ approval' \in [Operations -> Consent]
        /\ op'[o] = new /\ approval'[o] = consent
        /\ \A e \in Operations : e # o => op'[e] = op[e] /\ approval'[e] = approval[e]
    BY <1>0 DEF Types
  <1>2. /\ round' \in [Runners -> RoundRow] /\ round'[r] = me
        /\ \A s \in Runners : s # r => round'[s] = round[s]
    BY <1>0 DEF Types
  <1>3. Types' BY <1>0, <1>1, <1>2 DEF Types
  <1>4. \A s \in Runners : s # r => (On(s, o)' <=> On(s, o)) BY <1>2 DEF On
  <1>5. Receipt(o)' <=> Receipt(o) BY <1>1 DEF Receipt
  <1>6. ASSUME NEW s \in Runners, On(s, o)' PROVE RoundFits(round[s])' /\ Informed(s)'
    <2>1. CASE s = r
      <3>1. me.pc # "idle" BY <1>2, <1>6, <2>1 DEF On
      <3>2. RoundFits(me)' BY <3>1, Basics
      <3> QED BY <1>2, <2>1, <3>2
    <2>2. CASE s # r
      <3>1. PICK you : you = round[s] OBVIOUS
      <3>2. RoundFits(you) /\ you.pc # "idle" /\ you.op = o /\ round'[s] = you
        BY <1>2, <1>4, <1>6, <2>2, <3>1 DEF IInv, On
      <3>3. Warranted(o, you.status, ~you.started /\ ~you.handle)
                => Warranted(o, you.status, ~you.started /\ ~you.handle)'
        BY <1>1 DEF Warranted, Succeeded, Failed
      <3>4. RoundFits(you)' BY <1>1, <1>5, <3>2, <3>3 DEF RoundFits
      <3>5. ~ HoldsLease(s, o)' BY <1>1, <2>2 DEF HoldsLease
      <3>6. Informed(s)' BY <3>2, <3>5 DEF Informed
      <3> QED BY <3>2, <3>4, <3>6
    <2> QED BY <2>1, <2>2
  <1>7. ASSUME NEW s \in Runners, NEW t \in Runners, On(s, o)', On(t, o)' PROVE OneSender(s, t)'
    <2> SUFFICES ASSUME Sending(s)', Sending(t)', s # t PROVE FALSE
      BY DEF OneSender
    <2>1. CASE s = r
      <3>1. On(t, o) /\ Sending(t) BY <1>2, <1>4, <1>7, <2>1 DEF Sending
      <3>2. me.pc \in {"send", "waiting"} BY <1>2, <2>1 DEF Sending
      <3> QED BY <2>1, <3>1, <3>2
    <2>2. CASE t = r
      <3>1. On(s, o) /\ Sending(s) BY <1>2, <1>4, <1>7, <2>2 DEF Sending
      <3>2. me.pc \in {"send", "waiting"} BY <1>2, <2>2 DEF Sending
      <3> QED BY <2>2, <3>1, <3>2
    <2>3. CASE s # r /\ t # r
      <3>1. Sending(s) /\ Sending(t) /\ On(s, o) /\ On(t, o)
        BY <1>2, <1>4, <1>7, <2>3 DEF Sending
      <3> QED BY <3>1 DEF IInv, OneSender, On
    <2> QED BY <2>1, <2>2, <2>3
  <1>8. JobSound(job[o], sent[o], boot, service[o])' BY <1>0 DEF JobSound
  <1>9. \A s \in Runners : round'[s].pc = "idle" => round'[s] = Idle
    BY <1>2 DEF IInv
  <1>10. \A s \in Runners : \/ round'[s] = round[s]
                            \/ /\ round[s].pc = "idle" \/ round[s].op = o
                               /\ round'[s].pc = "idle" \/ round'[s].op = o
    BY <1>2, Basics
  <1>11. \A e \in Operations : e # o =>
               op'[e] = op[e] /\ approval'[e] = approval[e] /\ sent'[e] = sent[e]
    BY <1>1
  <1> QED BY <1>3, <1>6, <1>7, <1>8, <1>9, <1>10, <1>11, OneOperation

LEMMA ClaimsStep ==
    ASSUME IInv, NEW r \in Runners, Claims(r)
    PROVE  IInv'
  <1>0. UNCHANGED <<job, boot, service, stray, sent>> /\ round[r].pc = "idle" /\ Types
    BY DEF Claims, jobVars, IInv
  <1>1. ASSUME NEW o \in Operations, Refuse(o), UNCHANGED round PROVE IInv'
    BY <1>0, <1>1, RefuseStep
  <1>2. ASSUME NEW o \in Operations, Claim(r, o),
               Goes(r, [Idle EXCEPT !.op = o, !.pc = "claimed", !.started = op[o].started,
                                    !.handle = op[o].handle, !.saw = op[o].saw,
                                    !.cancelling = op[o].status = "cancelling"])
        PROVE  IInv'
    <2>1. /\ op[o] \in LedgerRow /\ approval[o] \in Consent /\ RowFits(o) /\ Alone(o)
          /\ op[o].status \in InFlight /\ ~op[o].live /\ ~OutcomeUnknown(o)
      BY <1>0, <1>2, Typed DEF Claim, Claimable, IInv
    <2>2. PICK st \in {"running", "cancelling"} :
              st = IF op[o].status = "cancelling" THEN "cancelling" ELSE "running"
      OBVIOUS
    <2>3. st \in Statuses /\ st \notin Unclaimed BY DEF Statuses, InFlight, Unclaimed
    <2>4. PICK new : new = [op[o] EXCEPT !.status = st, !.owner = r, !.live = TRUE, !.fence = r]
      OBVIOUS
    <2>5. /\ new \in LedgerRow /\ new.status = st /\ new.owner = r /\ new.live
          /\ new.kind = op[o].kind /\ new.age = op[o].age /\ new.started = op[o].started
          /\ new.handle = op[o].handle /\ new.saw = op[o].saw
      BY <2>1, <2>3, <2>4 DEF LedgerRow, Hands
    <2>6. op' = [op EXCEPT ![o] = new] BY <1>2, <2>2, <2>4 DEF Claim
    <2>7. PICK consent \in Consent :
              /\ approval' = [approval EXCEPT ![o] = consent]
              /\ approval[o].state = "consumed" \/ op[o].status = "queued"
                     => consent.state = "consumed"
      <3>1. CASE op[o].status = "queued"
        <4>1. PICK consent : consent = [approval[o] EXCEPT !.state = "consumed"] OBVIOUS
        <4>2. consent \in Consent /\ consent.state = "consumed" BY <2>1, <4>1 DEF Consent
        <4>3. approval' = [approval EXCEPT ![o] = consent] BY <1>2, <3>1, <4>1 DEF Claim
        <4> QED BY <4>2, <4>3
      <3>2. CASE op[o].status # "queued"
        <4>1. PICK consent \in Consent : consent.state = approval[o].state
                                         /\ approval' = [approval EXCEPT ![o] = consent]
          BY <1>0, <1>2, <3>2, SameConsent DEF Claim
        <4> QED BY <3>2, <4>1
      <3> QED BY <3>1, <3>2
    <2>8. PICK asked \in BOOLEAN : asked = (op[o].status = "cancelling") OBVIOUS
    <2>9. PICK me : me = [Idle EXCEPT !.op = o, !.pc = "claimed", !.started = op[o].started,
                                      !.handle = op[o].handle, !.saw = op[o].saw,
                                      !.cancelling = asked]
      OBVIOUS
    <2>10. round' = [round EXCEPT ![r] = me] BY <1>2, <2>8, <2>9 DEF Goes
    <2>11. /\ me \in RoundRow /\ me.op = o /\ me.pc = "claimed" /\ me.started = op[o].started
           /\ me.handle = op[o].handle /\ me.saw = op[o].saw
      <3>1. me = [op |-> o, pc |-> "claimed", cancelling |-> asked, started |-> op[o].started,
                  handle |-> op[o].handle, saw |-> op[o].saw, view |-> NoJob, status |-> "none"]
        BY <2>9 DEF Idle
      <3>2. NoJob \in JobRow BY DEF NoJob, JobRow, JobStates, Phases, Effects
      <3>3. "claimed" \in Steps BY DEF Steps
      <3>4. op[o].started \in BOOLEAN /\ op[o].handle \in BOOLEAN /\ op[o].saw \in Saws
        BY <2>1 DEF LedgerRow
      <3> QED BY <3>1, <3>2, <3>3, <3>4 DEF RoundRow
    <2>12. op'[o] = new /\ approval'[o] = consent /\ round'[r] = me
           /\ \A s \in Runners : s # r => round'[s] = round[s]
      BY <1>0, <2>6, <2>7, <2>10 DEF Types
    <2>13. op[o].status = "queued" =>
               Blank(o) /\ sent[o] = 0 /\ \A s \in Runners : ~ On(s, o)
      BY <2>1 DEF RowFits, Unclaimed
    <2>14. op[o].kind \notin HostControlled => op[o].handle \/ op[o].status = "queued"
      BY <2>1 DEF OutcomeUnknown
    <2>15. \A s \in Runners : s # r => (On(s, o)' <=> On(s, o)) BY <2>12 DEF On
    <2>16. Receipt(o)' <=> Receipt(o) BY <1>0, <2>5, <2>12 DEF Receipt
    <2>17. RowFits(o)'
      <3>2. Warranted(o, new.status, Blank(o))' BY <2>5 DEF Warranted
      <3>3. r # Nobody BY Basics
      <3>4. /\ sent[o] <= 1
            /\ sent[o] = 1 => approval[o].state = "consumed"
            /\ sent[o] = 1 /\ op[o].kind \in HostControlled => op[o].started
            /\ o \in stray => sent[o] = 1 /\ job[o] = NoJob
            /\ op[o].saw \in {"receipt", "stable"} => Receipt(o)
        BY <2>1 DEF RowFits
      <3>6. new.status \notin {"failed", "cancelled"} BY <2>5
      <3> QED BY <1>0, <2>3, <2>5, <2>7, <2>12, <2>16, <3>2, <3>3, <3>4, <3>6 DEF RowFits
    <2>18. Alone(o)'
      <3>1. ASSUME new.kind \notin HostControlled, ~ new.handle,
                   NEW s \in Runners, NEW t \in Runners, On(s, o)', On(t, o)'
            PROVE  s = t
        BY <2>5, <2>13, <2>14, <2>15, <3>1
      <3>2. ASSUME new.kind \notin HostControlled, new.handle, NEW s \in Runners, On(s, o)'
            PROVE  round'[s].handle
        <4>1. CASE s = r BY <2>5, <2>11, <2>12, <3>2, <4>1
        <4>2. CASE s # r BY <2>1, <2>5, <2>12, <2>15, <3>2, <4>2 DEF Alone
        <4> QED BY <4>1, <4>2
      <3> QED BY <2>12, <3>1, <3>2 DEF Alone
    <2>19. RoundFits(me)'
      <3>1. op[o].saw \in {"receipt", "stable"} => Receipt(o)' BY <2>1, <2>16 DEF RowFits
      <3>2. op[o].kind \notin HostControlled => op[o].handle \/ ~op[o].started
        BY <2>13, <2>14 DEF Blank
      <3> QED BY <1>0, <2>3, <2>5, <2>7, <2>11, <2>12, <2>13, <2>14, <3>1, <3>2 DEF RoundFits
    <2>20. Informed(r)' BY <2>5, <2>11, <2>12 DEF Informed
    <2> QED BY <1>0, <2>3, <2>5, <2>6, <2>7, <2>10, <2>11, <2>17, <2>18, <2>19, <2>20, RowAndRound
  <1> QED BY <1>1, <1>2 DEF Claims

LEMMA CheckpointsStep ==
    ASSUME IInv, NEW r \in Runners, Checkpoints(r)
    PROVE  IInv'
  <1>1. CASE ~CheckpointAccepted(r, Op(r)) BY <1>1, RefusedCheckpoint
  <1>2. CASE CheckpointAccepted(r, Op(r))
    <2>0. /\ UNCHANGED <<job, boot, service, stray, sent>> /\ round[r].pc = "checkpoint"
          /\ Types /\ RoundFits(round[r]) /\ Informed(r)
          /\ Checkpoint(Op(r)) /\ Goes(r, [To(r, "send") EXCEPT !.started = TRUE])
      BY <1>2 DEF Checkpoints, jobVars, IInv
    <2>1. PICK o : o = round[r].op OBVIOUS
    <2>2. o \in Operations BY <2>0, <2>1 DEF RoundFits
    <2>3. /\ op[o] \in LedgerRow /\ RowFits(o) /\ Alone(o) /\ HoldsLease(r, o)
          /\ op[o].status = "running" /\ approval[o].state = "consumed"
          /\ sent[o] \in Nat
      BY <1>2, <2>0, <2>1, <2>2, Typed DEF CheckpointAccepted, Op, IInv
    <2>4. ~round[r].started /\ ~round[r].handle BY <2>0 DEF RoundFits
    <2>5. ~op[o].started /\ ~op[o].handle BY <2>0, <2>1, <2>3, <2>4 DEF Informed
    <2>6. PICK new : new = [op[o] EXCEPT !.started = TRUE] OBVIOUS
    <2>7. /\ new \in LedgerRow /\ new.status = "running" /\ new.owner = op[o].owner
          /\ new.live = op[o].live /\ new.kind = op[o].kind /\ new.age = op[o].age /\ new.started
          /\ new.handle = op[o].handle /\ new.saw = op[o].saw
      BY <2>3, <2>6 DEF LedgerRow
    <2>8. op' = [op EXCEPT ![o] = new] BY <2>0, <2>1, <2>6 DEF Checkpoint, Op
    <2>9. PICK consent \in Consent : consent.state = approval[o].state
                                     /\ approval' = [approval EXCEPT ![o] = consent]
      BY <2>0, <2>2, SameConsent DEF Checkpoint
    <2>10. PICK t : t = To(r, "send") OBVIOUS
    <2>11. "send" \in Steps BY DEF Steps
    <2>12. /\ t \in RoundRow /\ t.pc = "send" /\ t.op = o /\ t.saw = round[r].saw
           /\ t.handle = round[r].handle
      BY <2>0, <2>1, <2>10, <2>11, StepTaken
    <2>13. PICK me : me = [t EXCEPT !.started = TRUE] OBVIOUS
    <2>14. /\ me \in RoundRow /\ me.pc = "send" /\ me.op = o /\ me.saw = round[r].saw
           /\ ~me.handle /\ me.started
      BY <2>4, <2>12, <2>13 DEF RoundRow
    <2>15. round' = [round EXCEPT ![r] = me] BY <2>0, <2>10, <2>13 DEF Goes
    <2>16. op'[o] = new /\ approval'[o] = consent /\ round'[r] = me
           /\ \A s \in Runners : s # r => round'[s] = round[s]
      BY <2>0, <2>2, <2>8, <2>9, <2>15 DEF Types
    <2>17. \A s \in Runners : On(s, o)' <=> On(s, o) BY <2>0, <2>1, <2>14, <2>16 DEF On
    <2>18. Receipt(o)' <=> Receipt(o) BY <2>0, <2>7, <2>16 DEF Receipt
    <2>19. sent[o] = 0
      <3>1. CASE op[o].kind \in HostControlled
        <4>1. sent[o] <= 1 /\ sent[o] # 1 BY <2>3, <2>5, <3>1 DEF RowFits
        <4> QED BY <2>3, <4>1
      <3>2. CASE op[o].kind \notin HostControlled BY <2>0, <2>1, <2>4, <3>2 DEF RoundFits
      <3> QED BY <3>1, <3>2
    <2>20. RowFits(o)'
      <3>1. Warranted(o, new.status, Blank(o))' BY <2>7 DEF Warranted
      <3>2. "running" \notin Unclaimed BY DEF Unclaimed
      <3> QED BY <2>0, <2>3, <2>7, <2>9, <2>16, <2>18, <2>19, <3>1, <3>2 DEF RowFits
    <2>21. Alone(o)' BY <2>3, <2>5, <2>7, <2>16, <2>17 DEF Alone
    <2>22. RoundFits(me)'
      <3>1. me.saw \in {"receipt", "stable"} => Receipt(o)'
        BY <2>0, <2>1, <2>14, <2>18 DEF RoundFits
      <3>2. "running" \notin Unclaimed BY DEF Unclaimed
      <3> QED BY <2>0, <2>2, <2>3, <2>7, <2>9, <2>14, <2>16, <2>19, <3>1, <3>2 DEF RoundFits
    <2>23. Informed(r)' BY <2>5, <2>7, <2>14, <2>16 DEF Informed
    <2>24. ASSUME NEW s \in Runners, s # r, On(s, o), Sending(s) PROVE FALSE
      <3>1. RoundFits(round[s]) BY DEF IInv
      <3>2. round[s].pc # "waiting" BY <2>19, <2>24, <3>1 DEF RoundFits, On
      <3>3. op[o].kind \notin HostControlled
        BY <2>5, <2>24, <3>1, <3>2 DEF RoundFits, On, Sending
      <3>4. On(r, o) BY <2>0, <2>1 DEF On
      <3> QED BY <2>3, <2>5, <2>24, <3>3, <3>4 DEF Alone
    <2>25. new.live => new.owner = r BY <2>3, <2>7 DEF HoldsLease
    <2>26. new.status \notin Unclaimed BY <2>7 DEF Unclaimed
    <2> QED BY <2>0, <2>1, <2>2, <2>7, <2>8, <2>9, <2>14, <2>15, <2>20, <2>21, <2>22, <2>23,
               <2>24, <2>25, <2>26, RowAndRound
  <1> QED BY <1>1, <1>2

LEMMA FinishesStep ==
    ASSUME IInv, NEW r \in Runners, Finishes(r)
    PROVE  IInv'
  <1>0. /\ UNCHANGED <<job, boot, service, stray, sent>> /\ round[r].pc = "finish"
        /\ Types /\ RoundFits(round[r]) /\ Informed(r) /\ Goes(r, Idle)
    BY DEF Finishes, jobVars, IInv
  <1>1. PICK o : o = round[r].op OBVIOUS
  <1>2. o \in Operations BY <1>0, <1>1 DEF RoundFits
  <1>3. PICK you \in RoundRow : you = round[r] BY <1>0 DEF Types
  <1>4. FinishOperation(r, o, you.status, you.started, you.handle, you.saw)
    BY <1>1, <1>3 DEF Finishes, Op
  <1>5. CASE ~HoldsLease(r, o)
    <2>1. op' = op /\ approval' = approval BY <1>4, <1>5 DEF FinishOperation
    <2> QED BY <1>0, <2>1, RoundLeaves
  <1>6. CASE HoldsLease(r, o)
    <2>1. /\ op[o] \in LedgerRow /\ RowFits(o) /\ Alone(o) /\ sent[o] \in Nat
      BY <1>0, <1>2, Typed DEF IInv
    <2>2. /\ you.status \notin Unclaimed \cup {"none"} /\ you.op = o /\ On(r, o)
          /\ Warranted(o, you.status, ~you.started /\ ~you.handle)
          /\ op[o].started => you.started
          /\ op[o].handle => you.handle
      BY <1>0, <1>1, <1>3, <1>6 DEF RoundFits, Informed, On
    <2>3. PICK st \in Statuses :
              st = IF op[o].status = "cancelling" /\ you.status \in {"running", "reconciling"}
                   THEN "cancelling" ELSE you.status
      BY <1>3, <2>2 DEF RoundRow, Statuses, InFlight
    <2>4. st \notin Unclaimed BY <2>2, <2>3 DEF Unclaimed
    <2>5. PICK left : left = Released(op[o], st) OBVIOUS
    <2>6. /\ left \in LedgerRow /\ left.status = st /\ left.live = FALSE
          /\ left.kind = op[o].kind /\ left.age = op[o].age
      BY <2>1, <2>5, ReleasedRow
    <2>7. PICK new : new = [left EXCEPT !.started = you.started, !.handle = you.handle,
                                        !.saw = you.saw]
      OBVIOUS
    <2>8. /\ new \in LedgerRow /\ new.status = st /\ ~new.live
          /\ new.kind = op[o].kind /\ new.age = op[o].age
          /\ new.started = you.started /\ new.handle = you.handle /\ new.saw = you.saw
      BY <2>6, <2>7 DEF LedgerRow, RoundRow
    <2>9. op' = [op EXCEPT ![o] = new]
      BY <1>4, <1>6, <2>3, <2>5, <2>7 DEF FinishOperation
    <2>10. PICK consent \in Consent : consent.state = approval[o].state
                                      /\ approval' = [approval EXCEPT ![o] = consent]
      BY <1>0, <1>2, <1>4, SameConsent DEF FinishOperation
    <2>11. Idle \in RoundRow
      <3>1. NoJob \in JobRow BY DEF NoJob, JobRow, JobStates, Phases, Effects
      <3> QED BY <3>1 DEF Idle, RoundRow, Steps, Saws
    <2>12. round' = [round EXCEPT ![r] = Idle] BY <1>0 DEF Goes
    <2>13. /\ op'[o] = new /\ approval'[o] = consent /\ round'[r] = Idle
           /\ \A s \in Runners : s # r => round'[s] = round[s]
      BY <1>0, <1>2, <2>9, <2>10, <2>12 DEF Types
    <2>14. \A s \in Runners : On(s, o)' <=> On(s, o) /\ s # r
      BY <2>13, Basics DEF On
    <2>15. Receipt(o)' <=> Receipt(o) BY <1>0, <2>8, <2>13 DEF Receipt
    <2>16. op[o].kind \notin HostControlled /\ ~you.handle => \A s \in Runners : ~ On(s, o)'
      BY <2>1, <2>2, <2>14 DEF Alone
    <2>17. ~you.started /\ ~you.handle => sent[o] = 0
      <3> SUFFICES ASSUME ~you.started, ~you.handle PROVE sent[o] = 0 OBVIOUS
      <3>1. CASE op[o].kind \in HostControlled
        <4>1. sent[o] <= 1 /\ sent[o] # 1 BY <2>1, <2>2, <3>1 DEF RowFits
        <4> QED BY <2>1, <4>1
      <3>2. CASE op[o].kind \notin HostControlled BY <1>0, <1>1, <1>3, <3>2 DEF RoundFits
      <3> QED BY <3>1, <3>2
    <2>18. Warranted(o, st, ~you.started /\ ~you.handle)'
      <3>1. Warranted(o, st, ~you.started /\ ~you.handle) BY <2>2, <2>3 DEF Warranted
      <3>2. (Succeeded(o)' <=> Succeeded(o)) /\ (Failed(o)' <=> Failed(o))
        BY <1>0, <2>8, <2>13 DEF Succeeded, Failed
      <3> QED BY <2>8, <2>13, <3>1, <3>2, <1>0 DEF Warranted
    <2>19. Blank(o)' <=> ~you.started /\ ~you.handle BY <2>8, <2>13 DEF Blank
    <2>20. RowFits(o)'
      <3>1. Warranted(o, new.status, Blank(o))' BY <2>8, <2>18, <2>19 DEF Warranted
      <3>2. /\ sent[o] <= 1
            /\ sent[o] = 1 => consent.state = "consumed"
            /\ sent[o] = 1 /\ op[o].kind \in HostControlled => new.started
            /\ o \in stray => sent[o] = 1 /\ job[o] = NoJob
        BY <2>1, <2>2, <2>8, <2>10 DEF RowFits
      <3>3. you.saw \in {"receipt", "stable"} => Receipt(o)'
        BY <1>0, <1>1, <1>3, <2>15 DEF RoundFits
      <3> QED BY <1>0, <2>4, <2>8, <2>13, <2>16, <2>17, <2>19, <3>1, <3>2, <3>3 DEF RowFits
    <2>21. Alone(o)'
      <3>1. ASSUME new.kind \notin HostControlled, new.handle, NEW s \in Runners, On(s, o)'
            PROVE  round'[s].handle
        <4>1. On(s, o) /\ s # r /\ round'[s] = round[s] BY <2>13, <2>14, <3>1
        <4> QED BY <2>1, <2>2, <2>8, <3>1, <4>1 DEF Alone
      <3> QED BY <2>8, <2>13, <2>16, <3>1 DEF Alone
    <2>22. Informed(r)' BY <2>13, Basics DEF Informed
    <2> QED BY <1>0, <1>1, <1>2, <2>2, <2>4, <2>8, <2>9, <2>10, <2>11, <2>12, <2>20, <2>21, <2>22,
               Basics, RowAndRound
  <1> QED BY <1>5, <1>6

LEMMA SendsStep ==
    ASSUME IInv, NEW r \in Runners, Sends(r)
    PROVE  IInv'
  <1>0. /\ UNCHANGED <<op, approval, job, boot, service, stray>> /\ round[r].pc = "send"
        /\ Types /\ RoundFits(round[r]) /\ Informed(r)
    BY DEF Sends, ledgerVars, jobVars, IInv
  <1>1. PICK o : o = round[r].op OBVIOUS
  <1>2. o \in Operations BY <1>0, <1>1 DEF RoundFits
  <1>3. /\ RowFits(o) /\ Alone(o) /\ JobSound(job[o], sent[o], boot, service[o]) /\ On(r, o)
        /\ sent[o] = 0 /\ approval[o].state = "consumed" /\ ~round[r].handle
        /\ op[o].kind \in HostControlled => op[o].started
        /\ op[o].status \notin Unclaimed
    BY <1>0, <1>1, <1>2 DEF IInv, On, RoundFits
  <1>4. PICK t : t = To(r, "waiting") OBVIOUS
  <1>5. "waiting" \in Steps BY DEF Steps
  <1>6. /\ t \in RoundRow /\ t.pc = "waiting" /\ t.op = o /\ t.saw = round[r].saw
        /\ t.handle = round[r].handle
    BY <1>0, <1>1, <1>4, <1>5, StepTaken
  <1>7. PICK me : me = [t EXCEPT !.started = TRUE] OBVIOUS
  <1>8. /\ me \in RoundRow /\ me.pc = "waiting" /\ me.op = o /\ me.saw = round[r].saw
        /\ me.handle = round[r].handle /\ me.started
    BY <1>6, <1>7 DEF RoundRow
  <1>9. round' = [round EXCEPT ![r] = me] BY <1>4, <1>7 DEF Sends, Goes
  <1>10. /\ round' \in [Runners -> RoundRow] /\ round'[r] = me
         /\ \A s \in Runners : s # r => round'[s] = round[s]
    BY <1>0, <1>8, <1>9 DEF Types
  <1>11. /\ sent' \in [Operations -> Nat] /\ sent'[o] = 1
         /\ \A e \in Operations : e # o => sent'[e] = sent[e]
    <2>1. sent' = [sent EXCEPT ![o] = @ + 1] BY <1>1 DEF Sends, Op
    <2>2. sent[o] + 1 = 1 BY <1>3
    <2> QED BY <1>0, <1>2, <2>1, <2>2 DEF Types
  <1>12. Types' BY <1>0, <1>10, <1>11 DEF Types
  <1>13. \A s \in Runners : On(s, o)' <=> On(s, o) BY <1>0, <1>1, <1>8, <1>10 DEF On
  <1>14. job[o] = NoJob /\ o \notin stray
    <2>1. job[o].state = "none" BY <1>3 DEF JobSound
    <2> QED BY <1>3, <2>1 DEF JobSound, RowFits
  <1>15. JobSound(job[o], sent[o], boot, service[o])' BY <1>0, <1>3, <1>11 DEF JobSound
  <1>16. Receipt(o)' <=> Receipt(o) BY <1>0 DEF Receipt
  <1>17. RowFits(o)'
    <2>1. Warranted(o, op[o].status, Blank(o))'
      BY <1>0, <1>3 DEF RowFits, Warranted, Succeeded, Failed, Blank
    <2>2. ~ (op[o].status \in {"failed", "cancelled"} /\ Blank(o))
      <3> SUFFICES ASSUME op[o].status \in {"failed", "cancelled"}, Blank(o) PROVE FALSE OBVIOUS
      <3>1. CASE op[o].kind \in HostControlled BY <1>3, <3>1 DEF Blank
      <3>2. CASE op[o].kind \notin HostControlled BY <1>3, <3>2 DEF RowFits
      <3> QED BY <3>1, <3>2
    <2>3. Blank(o)' <=> Blank(o) BY <1>0 DEF Blank
    <2> QED BY <1>0, <1>3, <1>11, <1>14, <1>16, <2>1, <2>2, <2>3 DEF RowFits
  <1>18. \A s \in Runners : On(s, o) => round'[s].handle = round[s].handle
    BY <1>8, <1>10
  <1>19. Alone(o)' BY <1>0, <1>3, <1>13, <1>18 DEF Alone
  <1>20. \A s \in Runners : s # r /\ On(s, o) => ~ Sending(s)
    BY <1>0, <1>1 DEF IInv, OneSender, Sending, On
  <1>21. ASSUME NEW s \in Runners, On(s, o)' PROVE RoundFits(round[s])' /\ Informed(s)'
    <2>1. CASE s = r
      <3>1. RoundFits(me)'
        BY <1>0, <1>1, <1>2, <1>3, <1>8, <1>11, <1>14, <1>16 DEF RoundFits
      <3>2. Informed(s)' BY <1>0, <1>1, <1>8, <1>10, <2>1 DEF Informed, HoldsLease
      <3> QED BY <1>10, <2>1, <3>1, <3>2
    <2>2. CASE s # r
      <3>1. PICK you : you = round[s] OBVIOUS
      <3>2. /\ RoundFits(you) /\ you.pc # "idle" /\ you.op = o /\ round'[s] = you /\ Informed(s)
            /\ On(s, o) /\ ~Sending(s)
        BY <1>10, <1>13, <1>20, <1>21, <2>2, <3>1 DEF IInv, On
      <3>3. op[o].kind \notin HostControlled => you.handle
        BY <1>3, <2>2, <3>1, <3>2 DEF Alone
      <3>4. Warranted(o, you.status, ~you.started /\ ~you.handle)
                => Warranted(o, you.status, ~you.started /\ ~you.handle)'
        BY <1>0 DEF Warranted, Succeeded, Failed
      <3>5. you.pc \notin {"send", "waiting"} BY <3>1, <3>2 DEF Sending
      <3>6. RoundFits(you)' BY <1>0, <1>16, <3>2, <3>3, <3>4, <3>5 DEF RoundFits
      <3>7. Informed(s)' BY <1>0, <3>1, <3>2 DEF Informed, HoldsLease
      <3> QED BY <3>2, <3>6, <3>7
    <2> QED BY <2>1, <2>2
  <1>22. ASSUME NEW s \in Runners, NEW t2 \in Runners, On(s, o)', On(t2, o)' PROVE OneSender(s, t2)'
    <2> SUFFICES ASSUME Sending(s)', Sending(t2)', s # t2 PROVE FALSE
      BY DEF OneSender
    <2>1. ASSUME NEW x \in Runners, x # r, On(x, o)', Sending(x)' PROVE FALSE
      BY <1>10, <1>13, <1>20, <2>1 DEF Sending
    <2> QED BY <1>22, <2>1
  <1>23. \A s \in Runners : round'[s].pc = "idle" => round'[s] = Idle
    BY <1>8, <1>10 DEF IInv
  <1>24. \A s \in Runners : \/ round'[s] = round[s]
                            \/ /\ round[s].pc = "idle" \/ round[s].op = o
                               /\ round'[s].pc = "idle" \/ round'[s].op = o
    BY <1>1, <1>8, <1>10
  <1>25. \A e \in Operations : e # o =>
             op'[e] = op[e] /\ approval'[e] = approval[e] /\ sent'[e] = sent[e]
    BY <1>0, <1>11
  <1> QED BY <1>0, <1>2, <1>12, <1>15, <1>17, <1>19, <1>21, <1>22, <1>23, <1>24, <1>25, OneOperation

-----------------------------------------------------------------------------
(* The theorems.                                                           *)

LEMMA InitOK == Init => IInv
  <1> SUFFICES ASSUME Init PROVE IInv OBVIOUS
  <1>1. /\ op = [o \in Operations |-> NoOperation]
        /\ approval = [o \in Operations |-> [state |-> "none", lapsed |-> FALSE]]
        /\ job = [o \in Operations |-> NoJob] /\ boot = 0
        /\ service = [o \in Operations |-> "before"]
        /\ round = [r \in Runners |-> Idle] /\ stray = {} /\ sent = [o \in Operations |-> 0]
    BY Basics DEF Init, LedgerInit, JobsInit
  <1>2. NoOperation \in LedgerRow
    BY DEF NoOperation, LedgerRow, Kinds, Statuses, Hands, Saws, Ages
  <1>3. NoJob \in JobRow BY DEF NoJob, JobRow, JobStates, Phases, Effects
  <1>4. Idle \in RoundRow BY <1>3 DEF Idle, RoundRow, Steps, Saws
  <1>5. [state |-> "none", lapsed |-> FALSE] \in Consent BY DEF Consent
  <1>6. Types BY <1>1, <1>2, <1>3, <1>4, <1>5 DEF Types
  <1>7. \A r \in Runners : round[r] = Idle BY <1>1
  <1>8. \A r \in Runners : \A o \in Operations : ~ On(r, o) BY <1>7, Basics DEF On
  <1>9. ASSUME NEW o \in Operations
        PROVE  JobSound(job[o], sent[o], boot, service[o]) /\ RowFits(o) /\ Alone(o)
    <2>1. /\ op[o] = NoOperation /\ job[o] = NoJob /\ sent[o] = 0 /\ service[o] = "before"
          /\ boot = 0 /\ stray = {}
      BY <1>1
    <2>2. JobSound(job[o], sent[o], boot, service[o]) BY <2>1 DEF JobSound, NoJob
    <2>3. RowFits(o)
      BY <1>8, <2>1 DEF RowFits, NoOperation, Blank, Warranted, Unclaimed
    <2>4. Alone(o) BY <1>8 DEF Alone
    <2> QED BY <2>2, <2>3, <2>4
  <1>10. \A r \in Runners : RoundFits(round[r]) /\ Informed(r)
    BY <1>7, Basics DEF RoundFits, Informed
  <1>11. \A r, s \in Runners : OneSender(r, s) BY <1>7, Basics DEF OneSender, Sending
  <1> QED BY <1>6, <1>7, <1>9, <1>10, <1>11 DEF IInv

LEMMA StepOK == IInv /\ [Next]_vars => IInv'
  <1> SUFFICES ASSUME IInv, [Next]_vars PROVE IInv' OBVIOUS
  <1>1. ASSUME NEW r \in Runners, Round(r) PROVE IInv'
    BY <1>1, ClaimsStep, DecidesStep, ValidatesStep, CheckpointsStep, SendsStep, AnsweredStep,
       RecoversStep, ObservesStep, AsksToStopStep, VerifiesStep, FinishesStep DEF Round
  <1>2. ASSUME NEW r \in Runners, Crash(r) PROVE IInv' BY <1>2, CrashStep
  <1>3. ASSUME NEW o \in Operations,
               \/ StrayLands(o) \/ Works(o) \/ ServiceDrifts(o)
               \/ Administers(o) \/ LeaseEnds(o) \/ TimePasses(o)
        PROVE  IInv'
    BY <1>3, StrayLandsStep, WorksStep, ServiceDriftsStep, AdministersStep, LeaseEndsStep,
       TimePassesStep
  <1>4. CASE Reboots BY <1>4, RebootsStep
  <1>5. CASE UNCHANGED vars
    <2>1. UNCHANGED <<op, approval, job, boot, service, round, stray, sent>>
      BY <1>5 DEF vars, ledgerVars, jobVars, roundVars
    <2>2. \A e \in Operations : JobMoves(e) BY <2>1, HostStays
    <2> QED BY <2>1, <2>2, HostStep DEF IInv, Types
  <1> QED BY <1>1, <1>2, <1>3, <1>4, <1>5 DEF Next

\* What the rows, the rounds and the hosts know of each other is right in every
\* reachable state, for any operations, runners, reboots and failing calls.
THEOREM Invariance == Spec => []IInv
  BY InitOK, StepOK, PTL DEF Spec

\* The ledger, the rounds, the receipts and the host stay within their types.
THEOREM TypeCorrect == Spec => []TypeOK
  <1>1. IInv => TypeOK
    <2> SUFFICES ASSUME IInv PROVE TypeOK OBVIOUS
    <2>1. ASSUME NEW o \in Operations
          PROVE  /\ op[o].kind \in Kinds /\ op[o].status \in Statuses
                 /\ {op[o].owner, op[o].fence} \subseteq Runners \cup {Nobody}
                 /\ op[o].live => op[o].owner # Nobody
                 /\ op[o].saw \in {"none", "proof", "receipt", "stable"}
                 /\ approval[o].state \in {"none", "given", "consumed"}
                 /\ job[o].state \in JobStates /\ job[o].phase \in Phases
                 /\ job[o].shows \in Effects
                 /\ Alive(o) => job[o].state \notin Terminal
      <3>1. /\ op[o] \in LedgerRow /\ approval[o] \in Consent /\ job[o] \in JobRow
            /\ RowFits(o) /\ JobSound(job[o], sent[o], boot, service[o])
        BY Typed DEF IInv
      <3>2. /\ op[o].kind \in Kinds /\ op[o].status \in Statuses
            /\ op[o].owner \in Hands /\ op[o].fence \in Hands /\ op[o].saw \in Saws
        BY <3>1 DEF LedgerRow
      <3>3. approval[o].state \in {"none", "given", "consumed"} BY <3>1 DEF Consent
      <3>4. job[o].state \in JobStates /\ job[o].phase \in Phases /\ job[o].shows \in Effects
        BY <3>1 DEF JobRow
      <3>5. Alive(o) => job[o].state \notin Terminal BY <3>1 DEF Alive, JobSound, Terminal
      <3>6. op[o].live => op[o].owner # Nobody BY <3>1 DEF RowFits
      <3> QED BY <3>2, <3>3, <3>4, <3>5, <3>6 DEF Hands, Saws
    <2>2. \A r \in Runners : round[r] = Idle \/ Op(r) \in Operations
      BY DEF IInv, RoundFits, Op
    <2>3. stray \subseteq Operations BY DEF IInv, Types
    <2> QED BY <2>1, <2>2, <2>3 DEF TypeOK
  <1> QED BY Invariance, <1>1, PTL

\* The write of an operation is sent once at most and takes effect once at most,
\* under an approval that was used up for it, however often the operation changes
\* hands and whatever answers are lost.
THEOREM SentAndDoneOnce == Spec => []SubmittedOnce
  <1>1. IInv => SubmittedOnce
    <2> SUFFICES ASSUME IInv, NEW o \in Operations
                 PROVE  /\ sent[o] <= 1
                        /\ job[o].ran <= sent[o]
                        /\ sent[o] = 1 => approval[o].state = "consumed"
      BY DEF SubmittedOnce
    <2>1. RowFits(o) /\ JobSound(job[o], sent[o], boot, service[o]) /\ sent[o] \in Nat
      BY Typed DEF IInv
    <2>2. job[o] \in JobRow BY Typed DEF IInv
    <2>3. CASE job[o].state = "none"
      <3>1. job[o].ran = 0 BY <2>1, <2>3 DEF JobSound, NoJob
      <3> QED BY <2>1, <3>1 DEF RowFits
    <2>4. CASE job[o].state # "none"
      <3>1. sent[o] = 1 /\ job[o].ran <= 1 BY <2>1, <2>4 DEF JobSound
      <3> QED BY <2>1, <3>1 DEF RowFits
    <2> QED BY <2>3, <2>4
  <1> QED BY Invariance, <1>1, PTL

\* An operation that ended without a submission has sent nothing and never will; a success, a
\* failure within the deadline and a cancellation are what the job, its report or refusal, what
\* its receipt shows, the host's boot id and the service say.
THEOREM EndedWithTheTruth == Spec => []OutcomeTruthful
  <1>1. IInv => OutcomeTruthful
    <2> SUFFICES ASSUME IInv, NEW o \in Operations
                 PROVE  LET unsent == ~op[o].started /\ ~op[o].handle
                            state == job[o].state
                        IN /\ op[o].status \in {"failed", "cancelled"} /\ unsent =>
                                  sent[o] = 0 /\ \A r \in Runners : Op(r) = o => round[r].pc # "send"
                           /\ op[o].status = "succeeded" =>
                                  IF op[o].kind = "reboot" /\ job[o].proof # -1
                                  THEN boot > job[o].proof
                                  ELSE /\ state = "succeeded" /\ job[o].ran = 1
                                       /\ op[o].kind = "service" => job[o].shows = "asked"
                           /\ op[o].status = "failed" /\ ~unsent /\ op[o].age = "ontime" =>
                                  \/ state \in {"failed", "timed_out"}
                                  \/ job[o].refused /\ job[o].ran = 0
                                  \/ /\ op[o].kind = "service" /\ state = "succeeded"
                                     /\ job[o].shows = "missed" \/ service[o] = "failed"
                           /\ op[o].status = "cancelled" /\ ~unsent => state = "cancelled"
      BY DEF OutcomeTruthful
    <2>1. RowFits(o) BY DEF IInv
    <2>2. ASSUME op[o].status \in {"failed", "cancelled"}, Blank(o),
                 NEW r \in Runners, Op(r) = o, round[r].pc = "send"
          PROVE  FALSE
      <3>1. RoundFits(round[r]) /\ On(r, o) BY <2>2 DEF IInv, Op, On
      <3>2. CASE op[o].kind \in HostControlled
        BY <2>2, <3>1, <3>2 DEF RoundFits, Blank, Op
      <3>3. CASE op[o].kind \notin HostControlled BY <2>1, <2>2, <3>1, <3>3 DEF RowFits
      <3> QED BY <3>2, <3>3
    <2>3. op[o].status \in {"failed", "cancelled"} /\ Blank(o) => sent[o] = 0
      BY <2>1 DEF RowFits
    <2>4. Warranted(o, op[o].status, Blank(o)) BY <2>1 DEF RowFits
    <2> QED BY <2>2, <2>3, <2>4 DEF Warranted, Succeeded, Failed, Blank
  <1> QED BY Invariance, <1>1, PTL

=============================================================================
