---------------------------- MODULE HealthProofs ---------------------------
(***************************************************************************)
(* What watches over the health of models and of hosts keeps its promises: *)
(* ModelGateway, for any calls, profiles and limits, and Guardians, for    *)
(* any guardians, processes and limits.  The two models share no variable; *)
(* each half of this module has its own invariants.                        *)
(*                                                                         *)
(* The gateway: a call that is engaged has a candidate, so the circuit it  *)
(* leaves is one of the registry's (EngagedSomewhere).  From there every   *)
(* invariant is a fact about one call or about one profile, and the        *)
(* actions of other calls do not touch it.                                 *)
(*                                                                         *)
(* The guardians: the invariants on repairs rest on what no step undoes in *)
(* the ledger (LedgerMoves): an approval stays, a success stays, and only  *)
(* Confirm approves.  That a write is sent once is an invariant on the     *)
(* rounds before it (FreshRounds): such a round belongs to one runner,     *)
(* whose claim took the operation out of the queue for ever.               *)
(***************************************************************************)
EXTENDS ModelGateway, Guardians, SequenceTheorems, TLAPS

-----------------------------------------------------------------------------
\* The model gateway.

OfCall(c) == Start(c) \/ Choose(c) \/ Pay(c) \/ Receive(c) \/ Break(c)

EngagedSomewhere == \A c \in Calls : phase[c] \in Engaged => left[c] # <<>>

TypeInv == GatewayTypeOK /\ EngagedSomewhere

-----------------------------------------------------------------------------
(* Types.                                                                  *)

\* The candidate of a call is a profile, and dropping it leaves candidates.
LEMMA CandidateType ==
    ASSUME GatewayTypeOK, NEW c \in Calls, left[c] # <<>>
    PROVE  Candidate(c) \in Profiles /\ Tail(left[c]) \in Seq(Profiles)
  <1>1. left[c] \in Seq(Profiles)
    BY DEF GatewayTypeOK, TasksOK
  <1> QED
    BY <1>1, HeadTailProperties DEF Candidate

LEMMA EngagedCandidate ==
    ASSUME TypeInv, NEW c \in Calls, phase[c] \in Engaged
    PROVE  Candidate(c) \in Profiles /\ left[c] # <<>>
  BY CandidateType DEF TypeInv, EngagedSomewhere

\* Whatever a call does to a circuit leaves the registry well formed.
LEMMA AcquireType ==
    ASSUME CircuitsOK, NEW p \in Profiles, Acquire(p)
    PROVE  CircuitsOK'
  <1>1. opened' \in [Profiles -> {"closed", "open", "cooled"}]
    BY DEF CircuitsOK, Acquire
  <1>2. failureCount' \in [Profiles -> Nat]
    BY DEF CircuitsOK, Acquire
  <1>3. probed' \subseteq Profiles /\ last' = last
    BY DEF CircuitsOK, Acquire
  <1> QED
    BY <1>1, <1>2, <1>3 DEF CircuitsOK

LEMMA SucceedType ==
    ASSUME CircuitsOK, NEW p \in Profiles, Succeed(p)
    PROVE  CircuitsOK'
  BY DEF CircuitsOK, Succeed

LEMMA ReleaseType ==
    ASSUME CircuitsOK, NEW p \in Profiles, Release(p)
    PROVE  CircuitsOK'
  BY DEF CircuitsOK, Release

LEMMA FailureType ==
    ASSUME GatewayConstantsOK, CircuitsOK,
           NEW p \in Profiles, NEW kind \in FailureKinds, Failure(p, kind)
    PROVE  CircuitsOK'
  <1>1. Counted(p) \in Nat
    <2>1. failureCount[p] \in Nat /\ FailureThreshold \in Nat
      BY DEF CircuitsOK, GatewayConstantsOK
    <2> QED
      BY <2>1 DEF Counted
  <1>2. opened' \in [Profiles -> {"closed", "open", "cooled"}]
    BY DEF CircuitsOK, Failure
  <1>3. failureCount' \in [Profiles -> Nat]
    BY <1>1 DEF CircuitsOK, Failure
  <1>4. probed' \subseteq Profiles /\ last' \in [Profiles -> FailureKinds \cup {""}]
    BY DEF CircuitsOK, Failure
  <1> QED
    BY <1>2, <1>3, <1>4 DEF CircuitsOK

LEMMA CircuitsStay == ASSUME CircuitsOK, UNCHANGED circuits PROVE CircuitsOK'
  BY DEF CircuitsOK, circuits

LEMMA MoneyStays == ASSUME MoneyOK, UNCHANGED budgets, UNCHANGED rows PROVE MoneyOK'
  BY DEF MoneyOK, budgets, rows

LEMMA LocalStays == ASSUME LocalOK, UNCHANGED local, UNCHANGED seen PROVE LocalOK'
  BY DEF LocalOK, local

\* What the gateway sees of the local model is one of its generations.
LEMMA SeeType ==
    ASSUME LocalOK, UNCHANGED local, NEW p, See(p)
    PROVE  LocalOK'
  BY DEF LocalOK, local, See

\* A task that ends, or goes on with the candidates it has.
LEMMA EndType ==
    ASSUME TasksOK, EngagedSomewhere, NEW c \in Calls,
           NEW there \in Phases \ Engaged, End(c, there), loop' \subseteq Calls
    PROVE  TasksOK' /\ EngagedSomewhere'
  <1>1. <<>> \in Seq(Profiles)
    BY EmptySeq
  <1>2. TasksOK'
    BY <1>1 DEF TasksOK, End, To
  <1>3. EngagedSomewhere'
    BY DEF EngagedSomewhere, End, To, TasksOK
  <1> QED
    BY <1>2, <1>3

LEMMA ToType ==
    ASSUME TasksOK, EngagedSomewhere, NEW c \in Calls, NEW there \in Phases, To(c, there),
           loop' \subseteq Calls, probing' \subseteq Calls, UNCHANGED <<left, fit>>,
           there \in Engaged => left[c] # <<>>
    PROVE  TasksOK' /\ EngagedSomewhere'
  <1>1. TasksOK'
    BY DEF TasksOK, To
  <1>2. EngagedSomewhere'
    BY DEF EngagedSomewhere, To, TasksOK
  <1> QED
    BY <1>1, <1>2

\* A task that drops candidates, and is not engaged afterwards.
LEMMA DropType ==
    ASSUME TasksOK, EngagedSomewhere, NEW c \in Calls, NEW there \in Phases \ Engaged,
           phase' = [phase EXCEPT ![c] = there],
           NEW rest \in Seq(Profiles), left' = [left EXCEPT ![c] = rest],
           loop' \subseteq Calls, UNCHANGED <<fit, probing>>
    PROVE  TasksOK' /\ EngagedSomewhere'
  <1>1. TasksOK'
    BY DEF TasksOK
  <1>2. EngagedSomewhere'
    BY DEF EngagedSomewhere, TasksOK
  <1> QED
    BY <1>1, <1>2

LEMMA PhaseTypes ==
    /\ Engaged \subseteq Phases
    /\ {"idle", "choosing", "closing", "settling", "done", "lost"} \subseteq Phases \ Engaged
  BY DEF Phases, Engaged

LEMMA StartType ==
    ASSUME GatewayConstantsOK, TypeInv, NEW c \in Calls, Start(c)
    PROVE  TypeInv'
  <1>1. CircuitsOK' /\ MoneyOK' /\ LocalOK'
    BY CircuitsStay, MoneyStays, LocalStays DEF TypeInv, GatewayTypeOK, Start
  <1>2. PICK p \in Profiles, F \in Fits : /\ left' = [left EXCEPT ![c] = Route[p]]
                                          /\ fit' = [fit EXCEPT ![c] = F]
    BY DEF Start
  <1>3. Route[p] \in Seq(Profiles) /\ F \subseteq Profiles
    BY DEF GatewayConstantsOK
  <1>4. TasksOK'
    BY <1>2, <1>3, PhaseTypes DEF Start, TypeInv, GatewayTypeOK, TasksOK, To
  <1>5. EngagedSomewhere'
    BY <1>2, PhaseTypes DEF Start, TypeInv, GatewayTypeOK, TasksOK, EngagedSomewhere, To
  <1> QED
    BY <1>1, <1>4, <1>5 DEF TypeInv, GatewayTypeOK

LEMMA ChooseType ==
    ASSUME GatewayConstantsOK, TypeInv, NEW c \in Calls, Choose(c)
    PROVE  TypeInv'
  <1> USE DEF TypeInv, GatewayTypeOK
  <1>1. CASE Skip(c) \/ SkipOpen(c)
    <2>1. /\ phase[c] = "choosing" /\ UNCHANGED <<phase, fit, probing, loop>>
          /\ left[c] # <<>> /\ left' = [left EXCEPT ![c] = Tail(left[c])]
      BY <1>1 DEF Skip, SkipOpen, Offered, HasCandidate
    <2>2. Tail(left[c]) \in Seq(Profiles)
      BY <2>1, CandidateType
    <2>3. TasksOK' /\ EngagedSomewhere'
      BY <2>1, <2>2 DEF TasksOK, EngagedSomewhere, Engaged
    <2>4. CircuitsOK' /\ MoneyOK' /\ LocalOK'
      BY <1>1, CircuitsStay, MoneyStays, LocalStays, SeeType DEF Skip, SkipOpen
    <2> QED
      BY <2>3, <2>4
  <1>2. CASE Admit(c)
    <2>1. Candidate(c) \in Profiles /\ left[c] # <<>>
      BY <1>2, CandidateType DEF Admit, Offered, HasCandidate
    <2>2. CircuitsOK' /\ MoneyOK' /\ LocalOK'
      BY <1>2, <2>1, AcquireType, MoneyStays, SeeType DEF Admit
    <2>3. loop' \subseteq Calls /\ probing' \subseteq Calls /\ UNCHANGED <<left, fit>>
      BY <1>2 DEF Admit, TasksOK
    <2>4. \E there \in Engaged : To(c, there)
      BY <1>2 DEF Admit, Engaged
    <2> QED
      BY <2>1, <2>2, <2>3, <2>4, ToType, PhaseTypes
  <1>3. CASE GiveUp(c)
    <2>1. CircuitsOK' /\ MoneyOK' /\ LocalOK'
      BY <1>3, CircuitsStay, MoneyStays, LocalStays DEF GiveUp
    <2> QED
      BY <1>3, <2>1, EndType, PhaseTypes DEF GiveUp
  <1> QED
    BY <1>1, <1>2, <1>3 DEF Choose

LEMMA PayType ==
    ASSUME GatewayConstantsOK, TypeInv, NEW c \in Calls, Pay(c)
    PROVE  TypeInv'
  <1> USE DEF TypeInv, GatewayTypeOK
  <1>1. CircuitsOK' /\ LocalOK'
    BY CircuitsStay, LocalStays DEF Pay, PrepareCharge, Reserve, Ask, Settle
  <1>2. CASE PrepareCharge(c)
    <2>1. PICK tokens \in 1 .. MaxTokens - charged[c] :
             /\ bound' = [bound EXCEPT ![c] = tokens]
             /\ charged' = [charged EXCEPT ![c] = @ + tokens]
      BY <1>2 DEF PrepareCharge
    <2>2. MaxTokens \in Nat /\ charged[c] \in Int
      BY DEF GatewayConstantsOK, MoneyOK
    <2>3. tokens \in Nat /\ charged[c] + tokens \in Int
      BY <2>1, <2>2
    <2>4. MoneyOK'
      BY <1>2, <2>1, <2>3 DEF PrepareCharge, MoneyOK, rows
    <2>5. /\ phase[c] \in Engaged /\ To(c, "reserving") /\ "reserving" \in Phases
          /\ loop' \subseteq Calls /\ probing' \subseteq Calls /\ UNCHANGED <<left, fit>>
      BY <1>2 DEF PrepareCharge, Engaged, Phases, TasksOK
    <2> QED
      BY <1>1, <2>4, <2>5, ToType, EngagedCandidate
  <1>3. CASE Reserve(c)
    <2>1. MoneyOK'
      BY <1>3 DEF Reserve, MoneyOK, budgets
    <2>2. /\ phase[c] \in Engaged /\ To(c, "reserved") /\ "reserved" \in Phases
          /\ loop' \subseteq Calls /\ probing' \subseteq Calls /\ UNCHANGED <<left, fit>>
      BY <1>3 DEF Reserve, Engaged, Phases, TasksOK
    <2> QED
      BY <1>1, <2>1, <2>2, ToType, EngagedCandidate
  <1>4. CASE Ask(c)
    <2>1. PICK n \in Uses : uses' = [uses EXCEPT ![c] = n]
      BY <1>4 DEF Ask
    <2>2. n \in Nat
      BY DEF GatewayConstantsOK
    <2>3. MoneyOK'
      BY <1>4, <2>1, <2>2 DEF Ask, MoneyOK, rows
    <2>4. /\ phase[c] \in Engaged /\ To(c, "asking") /\ "asking" \in Phases
          /\ loop' \subseteq Calls /\ probing' \subseteq Calls /\ UNCHANGED <<left, fit>>
      BY <1>4 DEF Ask, Engaged, Phases, TasksOK
    <2> QED
      BY <1>1, <2>3, <2>4, ToType, EngagedCandidate
  <1>5. CASE Settle(c)
    <2>1. MoneyOK'
      BY <1>5 DEF Settle, MoneyOK, budgets, rows
    <2>2. loop' \subseteq Calls
      BY <1>5 DEF Settle, TasksOK
    <2> QED
      BY <1>1, <1>5, <2>1, <2>2, EndType, PhaseTypes DEF Settle
  <1> QED
    BY <1>2, <1>3, <1>4, <1>5 DEF Pay

LEMMA AnswerType ==
    ASSUME TypeInv, NEW c \in Calls, Answer(c)
    PROVE  TypeInv'
  <1> USE DEF TypeInv, GatewayTypeOK
  <1>1. phase[c] \in Engaged
    BY DEF Answer, Engaged
  <1>2. CircuitsOK' /\ LocalOK'
    BY <1>1, EngagedCandidate, SucceedType, LocalStays DEF Answer
  <1>3. UNCHANGED <<bound, uses, rows>>
    BY DEF Answer
  <1>4. bound[c] \in Nat /\ uses[c] \in Nat /\ charged[c] \in Int
    BY DEF MoneyOK
  <1>5. Finish(c) \/ UNCHANGED <<receipt, charged>>
    BY DEF Answer
  <1>6. receipt' \subseteq Calls
    BY <1>5 DEF Finish, MoneyOK
  <1>7. charged' \in [Calls -> Int]
    BY <1>4, <1>5 DEF Finish, MoneyOK
  <1>8. MoneyOK'
    BY <1>3, <1>6, <1>7 DEF MoneyOK, rows
  <1>9. loop' \subseteq Calls /\ (End(c, "settling") \/ End(c, "done"))
    BY DEF Answer, TasksOK
  <1> QED
    BY <1>2, <1>8, <1>9, EndType, PhaseTypes

LEMMA FailType ==
    ASSUME GatewayConstantsOK, TypeInv, NEW c \in Calls, Fail(c) \/ FailPriming(c)
    PROVE  TypeInv'
  <1> USE DEF TypeInv, GatewayTypeOK
  <1>1. phase[c] \in Engaged
    BY DEF Fail, FailPriming, Engaged
  <1>2. Candidate(c) \in Profiles /\ left[c] # <<>> /\ Tail(left[c]) \in Seq(Profiles)
    BY <1>1, EngagedCandidate, CandidateType
  <1>3. PICK kind \in FailureKinds : Failure(Candidate(c), kind) /\ Advance(c, kind)
    BY DEF Fail, FailPriming
  <1>4. CircuitsOK' /\ MoneyOK' /\ LocalOK'
    BY <1>2, <1>3, FailureType, MoneyStays, LocalStays DEF Fail, FailPriming
  <1>5. PICK rest \in Seq(Profiles) : left' = [left EXCEPT ![c] = rest]
    <2>1. <<>> \in Seq(Profiles)
      BY EmptySeq
    <2> QED
      BY <1>2, <1>3, <2>1 DEF Advance
  <1>6. \E there \in {"choosing", "closing"} : phase' = [phase EXCEPT ![c] = there]
    BY DEF Fail, FailPriming, To
  <1>7. loop' \subseteq Calls /\ UNCHANGED <<fit, probing>>
    BY DEF Fail, FailPriming, TasksOK
  <1>8. TasksOK' /\ EngagedSomewhere'
    BY <1>5, <1>6, <1>7, PhaseTypes, DropType
  <1> QED
    BY <1>4, <1>8

LEMMA ReceiveType ==
    ASSUME GatewayConstantsOK, TypeInv, NEW c \in Calls, Receive(c) \/ Break(c)
    PROVE  TypeInv'
  <1> USE DEF TypeInv, GatewayTypeOK
  <1>1. CASE OpenStream(c)
    <2>1. CircuitsOK' /\ MoneyOK' /\ LocalOK'
      BY <1>1, CircuitsStay, MoneyStays, LocalStays DEF OpenStream
    <2>2. /\ To(c, "priming") \/ To(c, "streaming")
          /\ loop' \subseteq Calls /\ probing' \subseteq Calls /\ UNCHANGED <<left, fit>>
      BY <1>1 DEF OpenStream, Engaged, TasksOK
    <2>3. phase[c] \in Engaged
      BY <1>1 DEF OpenStream, Engaged
    <2>4. "priming" \in Phases /\ "streaming" \in Phases
      BY DEF Phases, Engaged
    <2> QED
      BY <2>1, <2>2, <2>3, <2>4, ToType, EngagedCandidate
  <1>2. CASE CloseRaw(c)
    <2>1. CircuitsOK' /\ MoneyOK' /\ LocalOK'
      BY <1>2, CircuitsStay, MoneyStays, LocalStays DEF CloseRaw
    <2>2. /\ To(c, "choosing") /\ UNCHANGED <<left, fit>>
          /\ loop' \subseteq Calls /\ probing' \subseteq Calls
      BY <1>2 DEF CloseRaw, TasksOK
    <2> QED
      BY <2>1, <2>2, ToType, PhaseTypes
  <1>3. CASE EndStream(c) \/ Interrupt(c)
    <2>1. phase[c] \in Engaged /\ loop' \subseteq Calls /\ End(c, "done")
      BY <1>3 DEF EndStream, Interrupt, Engaged, TasksOK
    <2>2. Candidate(c) \in Profiles
      BY <2>1, EngagedCandidate
    <2>3. CircuitsOK' /\ MoneyOK' /\ LocalOK'
      BY <1>3, <2>2, SucceedType, FailureType, ReleaseType, MoneyStays, LocalStays
      DEF EndStream, Interrupt
    <2> QED
      BY <2>1, <2>3, EndType, PhaseTypes
  <1>4. CASE Abandon(c)
    <2>1. CircuitsOK' /\ MoneyOK' /\ LocalOK' /\ loop' \subseteq Calls
      BY <1>4, CircuitsStay, MoneyStays, LocalStays DEF Abandon, TasksOK
    <2> QED
      BY <1>4, <2>1, EndType, PhaseTypes DEF Abandon
  <1> QED
    BY <1>1, <1>2, <1>3, <1>4, AnswerType, FailType DEF Receive, Break

LEMMA TasksStay ==
    ASSUME TasksOK, EngagedSomewhere, UNCHANGED tasks
    PROVE  TasksOK' /\ EngagedSomewhere'
  BY DEF TasksOK, EngagedSomewhere, tasks

LEMMA LocalType ==
    ASSUME TypeInv, LocalModel
    PROVE  TypeInv'
  <1> USE DEF TypeInv, GatewayTypeOK
  <1>1. CircuitsOK' /\ MoneyOK' /\ TasksOK' /\ EngagedSomewhere'
    BY CircuitsStay, MoneyStays, TasksStay DEF LocalModel
  <1>2. LocalOK'
    <2> USE DEF LocalOK
    <2>1. seen' = seen
      BY DEF LocalModel
    <2>2. CASE BeginProbe
      BY <2>1, <2>2 DEF BeginProbe
    <2>3. CASE EndProbe
      <3>1. PICK began \in probe : EndProbe!2!(began)
        BY <2>3 DEF EndProbe
      <3>2. ready' \in BOOLEAN /\ fresh' \in BOOLEAN /\ wordOf' \in Nat
        BY <3>1
      <3>3. generation' \in Nat /\ probe' \subseteq Nat
        BY <2>3, <3>1 DEF EndProbe
      <3> QED
        BY <2>1, <2>3, <3>2, <3>3 DEF EndProbe
    <2>4. CASE GoStale
      BY <2>1, <2>4 DEF GoStale
    <2>5. CASE BeginCommand
      BY <2>1, <2>5 DEF BeginCommand
    <2>6. CASE EndCommand
      BY <2>1, <2>6 DEF EndCommand
    <2>7. CASE CommandAnswered
      BY <2>1, <2>7 DEF CommandAnswered
    <2> QED
      BY <2>2, <2>3, <2>4, <2>5, <2>6, <2>7 DEF LocalModel
  <1> QED
    BY <1>1, <1>2

LEMMA CrashType ==
    ASSUME TypeInv, Crash
    PROVE  TypeInv'
  <1> USE DEF TypeInv, GatewayTypeOK
  <1>1. CircuitsOK'
    BY DEF Crash, CircuitsOK
  <1>2. MoneyOK'
    BY MoneyStays DEF Crash
  <1>3. LocalOK'
    BY DEF Crash, LocalOK
  <1>4. \A c \in Calls : phase'[c] \in Phases \ Engaged
    BY PhaseTypes DEF Crash, TasksOK
  <1>5. <<>> \in Seq(Profiles)
    BY EmptySeq
  <1>6. TasksOK'
    BY <1>4, <1>5 DEF Crash, TasksOK
  <1> QED
    BY <1>1, <1>2, <1>3, <1>4, <1>6 DEF EngagedSomewhere

LEMMA GatewayTypeStep == ASSUME GatewayConstantsOK, TypeInv, [GatewayNext]_gatewayVars PROVE TypeInv'
  <1>1. ASSUME NEW p \in Profiles, CircuitCools(p) PROVE TypeInv'
    <2>1. CircuitsOK'
      BY <1>1 DEF CircuitCools, CircuitsOK, TypeInv, GatewayTypeOK
    <2> QED
      BY <1>1, <2>1, TasksStay, MoneyStays, LocalStays DEF CircuitCools, TypeInv, GatewayTypeOK
  <1>2. CASE UNCHANGED gatewayVars
    <2>1. UNCHANGED <<circuits, tasks, budgets, rows, local, seen>>
      BY <1>2 DEF gatewayVars, circuits, tasks, budgets, rows, local
    <2> QED
      BY <2>1, CircuitsStay, TasksStay, MoneyStays, LocalStays DEF TypeInv, GatewayTypeOK
  <1> QED
    BY <1>1, <1>2, StartType, ChooseType, PayType, ReceiveType, LocalType, CrashType DEF GatewayNext

LEMMA GatewayTypeInit == ASSUME GatewayConstantsOK, GatewayInit PROVE TypeInv
  <1>1. <<>> \in Seq(Profiles)
    BY EmptySeq
  <1>2. CircuitsOK
    BY DEF GatewayInit, CircuitsOK
  <1>3. TasksOK /\ EngagedSomewhere
    BY <1>1, PhaseTypes DEF GatewayInit, TasksOK, EngagedSomewhere
  <1>4. MoneyOK
    <2>1. bound \in [Calls -> Nat] /\ uses \in [Calls -> Nat] /\ charge \in [Calls -> Nat]
      BY DEF GatewayInit
    <2>2. charged = [c \in Calls |-> 0]
      BY DEF GatewayInit
    <2>3. receipt \subseteq Calls /\ usageRow \in [Calls -> {"none", "bound", "settled"}]
      BY DEF GatewayInit
    <2> QED
      BY <2>1, <2>2, <2>3 DEF MoneyOK
  <1>5. LocalOK
    BY DEF GatewayInit, LocalOK
  <1> QED
    BY <1>2, <1>3, <1>4, <1>5 DEF TypeInv, GatewayTypeOK

\* Every state of every execution is of the types GatewayTypeOK gives.
THEOREM GatewayTypeCorrect ==
    ASSUME GatewayConstantsOK
    PROVE  GatewaySpec => []GatewayTypeOK
  <1>1. GatewayInit => TypeInv
    BY GatewayTypeInit
  <1>2. TypeInv => GatewayTypeOK
    BY DEF TypeInv
  <1> QED
    BY <1>1, <1>2, GatewayTypeStep, PTL DEF GatewaySpec

-----------------------------------------------------------------------------
(* The probes.                                                             *)

\* A step of c leaves the other calls where they are.
OnlyMoves(c) ==
    \A d \in Calls \ {c} :
        /\ phase'[d] = phase[d] /\ left'[d] = left[d]
        /\ d \in probing' <=> d \in probing

LEMMA CallMovesAlone ==
    ASSUME TypeInv, NEW c \in Calls, OfCall(c)
    PROVE  OnlyMoves(c)
  <1> USE DEF OnlyMoves, TypeInv, GatewayTypeOK, TasksOK, To, End
  <1>1. CASE Start(c)
    BY <1>1 DEF Start
  <1>2. CASE Choose(c)
    BY <1>2 DEF Choose, Skip, SkipOpen, Admit, GiveUp
  <1>3. CASE Pay(c)
    BY <1>3 DEF Pay, PrepareCharge, Reserve, Ask, Settle
  <1>4. CASE Answer(c) \/ OpenStream(c)
    BY <1>4 DEF Answer, OpenStream
  <1>5. CASE Fail(c) \/ FailPriming(c)
    BY <1>5 DEF Fail, FailPriming, Advance
  <1>6. CASE CloseRaw(c) \/ EndStream(c) \/ Break(c)
    BY <1>6 DEF CloseRaw, EndStream, Break, Interrupt, Abandon
  <1> QED
    BY <1>1, <1>2, <1>3, <1>4, <1>5, <1>6 DEF OfCall, Receive

\* If a step of c ends no probe but its own, every flag has its call.
LEMMA WitnessKept ==
    ASSUME NoDeadProbe, NEW c \in Calls, OnlyMoves(c),
           \A p \in probed' : Probes(c, p)' \/ (p \in probed /\ ~Probes(c, p))
    PROVE  NoDeadProbe'
  <1> SUFFICES ASSUME NEW p \in probed' PROVE \E d \in Calls : Probes(d, p)'
    BY DEF NoDeadProbe
  <1>1. CASE Probes(c, p)'
    BY <1>1
  <1>2. CASE p \in probed /\ ~Probes(c, p)
    <2>1. PICK d \in Calls \ {c} : Probes(d, p)
      BY <1>2 DEF NoDeadProbe
    <2>2. Probes(d, p)'
      BY <2>1 DEF OnlyMoves, Probes, Candidate
    <2> QED
      BY <2>2
  <1> QED
    BY <1>1, <1>2

\* A call that leaves its candidate clears the flag there.
LEMMA LeavingClears ==
    ASSUME NoDeadProbe, NEW c \in Calls, OnlyMoves(c), probed' = probed \ {Candidate(c)}
    PROVE  NoDeadProbe'
  BY WitnessKept DEF Probes

\* A call that does not probe does not matter, as long as no flag is set.
LEMMA IdleKeeps ==
    ASSUME NoDeadProbe, NEW c \in Calls, OnlyMoves(c), phase[c] \notin Engaged,
           probed' \subseteq probed
    PROVE  NoDeadProbe'
  BY WitnessKept DEF Probes

LEMMA StaysEngaged ==
    ASSUME TypeInv, NoDeadProbe, NEW c \in Calls, OnlyMoves(c), probed' = probed,
           NEW there \in Engaged, To(c, there), UNCHANGED <<left, probing>>
    PROVE  NoDeadProbe'
  <1>1. \A p : Probes(c, p) => Probes(c, p)'
    BY DEF TypeInv, GatewayTypeOK, TasksOK, To, Probes, Candidate
  <1> QED
    BY <1>1, WitnessKept

LEMMA ProbeStep ==
    ASSUME TypeInv, NoDeadProbe, NEW c \in Calls, OfCall(c)
    PROVE  NoDeadProbe'
  <1>1. OnlyMoves(c)
    BY CallMovesAlone
  <1>2. CASE Start(c) \/ Skip(c) \/ SkipOpen(c) \/ GiveUp(c)
    BY <1>1, <1>2, IdleKeeps
    DEF Start, Skip, SkipOpen, GiveUp, Offered, HasCandidate, Engaged, circuits
  <1>3. CASE Admit(c)
    <2>1. phase[c] = "choosing" /\ left[c] # <<>>
      BY <1>3 DEF Admit, Offered, HasCandidate
    <2>2. CASE TakesProbe(Candidate(c))
      <3>1. probed' = probed \cup {Candidate(c)}
        BY <1>3, <2>2 DEF Admit, Acquire
      <3>2. Probes(c, Candidate(c))'
        BY <1>3, <2>1, <2>2
        DEF Admit, To, Probes, Candidate, Engaged, TypeInv, GatewayTypeOK, TasksOK
      <3>3. Candidate(c)' = Candidate(c)
        BY <1>3 DEF Admit, Candidate
      <3>4. \A p : ~Probes(c, p)
        BY <2>1 DEF Probes, Engaged
      <3>5. \A p \in probed' : p \in probed \/ p = Candidate(c)
        BY <3>1
      <3>6. \A p \in probed' : Probes(c, p)' \/ (p \in probed /\ ~Probes(c, p))
        BY <3>2, <3>3, <3>4, <3>5 DEF Probes
      <3> QED
        BY <1>1, <3>6, WitnessKept
    <2>3. CASE ~TakesProbe(Candidate(c))
      BY <1>1, <1>3, <2>1, <2>3, IdleKeeps DEF Admit, Acquire, Engaged
    <2> QED
      BY <2>2, <2>3
  <1>4. CASE PrepareCharge(c) \/ Reserve(c) \/ Ask(c) \/ OpenStream(c)
    <2>1. \E there \in Engaged : To(c, there)
      BY <1>4 DEF PrepareCharge, Reserve, Ask, OpenStream, Engaged
    <2>2. UNCHANGED <<probed, left, probing>>
      BY <1>4 DEF PrepareCharge, Reserve, Ask, OpenStream, circuits
    <2> QED
      BY <1>1, <2>1, <2>2, StaysEngaged
  <1>5. CASE Settle(c) \/ CloseRaw(c) \/ Abandon(c)
    BY <1>1, <1>5, IdleKeeps DEF Settle, CloseRaw, Abandon, Engaged, circuits
  <1>6. CASE Answer(c) \/ Fail(c) \/ FailPriming(c) \/ EndStream(c) \/ Interrupt(c)
    <2>1. probed' = probed \ {Candidate(c)}
      BY <1>6
      DEF Answer, Fail, FailPriming, EndStream, Interrupt, Succeed, Failure, Release
    <2> QED
      BY <1>1, <2>1, LeavingClears
  <1> QED
    BY <1>2, <1>3, <1>4, <1>5, <1>6 DEF OfCall, Choose, Pay, Receive, Break

LEMMA ProbeStays ==
    ASSUME NoDeadProbe, UNCHANGED <<probed, phase, left, probing>>
    PROVE  NoDeadProbe'
  BY DEF NoDeadProbe, Probes, Candidate

\* A half-open profile that says it is being probed has a call that took the
\* probe and has not released the profile: interrupting a call anywhere never
\* leaves a flag behind that would keep every later call away
\* (llm_gateway.py:154-161,739-742).
THEOREM ProbesAlive ==
    ASSUME GatewayConstantsOK
    PROVE  GatewaySpec => []NoDeadProbe
  <1>1. GatewayInit => TypeInv /\ NoDeadProbe
    BY GatewayTypeInit DEF GatewayInit, NoDeadProbe
  <1>2. TypeInv /\ NoDeadProbe /\ [GatewayNext]_gatewayVars => TypeInv' /\ NoDeadProbe'
    <2> SUFFICES ASSUME TypeInv, NoDeadProbe, [GatewayNext]_gatewayVars PROVE NoDeadProbe'
      BY GatewayTypeStep
    <2>1. ASSUME NEW c \in Calls, OfCall(c) PROVE NoDeadProbe'
      BY <2>1, ProbeStep
    <2>2. ASSUME NEW p \in Profiles, CircuitCools(p) PROVE NoDeadProbe'
      BY <2>2, ProbeStays DEF CircuitCools, tasks
    <2>3. CASE LocalModel \/ UNCHANGED gatewayVars
      BY <2>3, ProbeStays DEF LocalModel, circuits, tasks, gatewayVars
    <2>4. CASE Crash
      BY <2>4 DEF Crash, NoDeadProbe
    <2> QED
      BY <2>1, <2>2, <2>3, <2>4 DEF GatewayNext, OfCall
  <1> QED
    BY <1>1, <1>2, PTL DEF GatewaySpec

-----------------------------------------------------------------------------
(* The local model.                                                        *)

\* What "ready" rests on: while a command that was answered is not over, and
\* when none is under way, no probe from before the command.
WordIsFresh ==
    /\ ready /\ command = "answered" => wordOf = revision
    /\ ready /\ command = "none" => wordOf >= revision - 1

\* The gate is open only on the word of a probe that began after the last start
\* or stop was sent: a late answer does not reopen it (local_model.py:132-139,
\* 146-181).
THEOREM GateRight ==
    ASSUME GatewayConstantsOK
    PROVE  GatewaySpec => []GateFollowsCommand
  <1>1. GatewayInit => LocalOK /\ WordIsFresh
    BY GatewayTypeInit DEF GatewayInit, WordIsFresh, TypeInv, GatewayTypeOK
  <1>2. LocalOK /\ WordIsFresh /\ [GatewayNext]_gatewayVars => WordIsFresh'
    <2> SUFFICES ASSUME LocalOK, WordIsFresh, [GatewayNext]_gatewayVars PROVE WordIsFresh'
      OBVIOUS
    <2>0. revision \in Nat /\ wordOf \in Nat
      BY DEF LocalOK
    <2>1. CASE UNCHANGED local
      BY <2>1 DEF WordIsFresh, local
    <2>2. CASE LocalModel
      <3>1. CASE EndProbe
        BY <2>0, <3>1 DEF EndProbe, WordIsFresh
      <3>2. CASE BeginProbe \/ GoStale
        BY <3>2 DEF BeginProbe, GoStale, WordIsFresh
      <3>3. CASE BeginCommand \/ CommandAnswered
        BY <3>3 DEF BeginCommand, CommandAnswered, WordIsFresh
      <3>4. CASE EndCommand
        BY <2>0, <3>4 DEF EndCommand, WordIsFresh
      <3> QED
        BY <2>2, <3>1, <3>2, <3>3, <3>4 DEF LocalModel
    <2>3. CASE Crash
      BY <2>3 DEF Crash, WordIsFresh
    <2>4. ASSUME NEW c \in Calls, OfCall(c) PROVE UNCHANGED local
      BY <2>4
      DEF OfCall, Start, Choose, Skip, SkipOpen, Admit, GiveUp, Pay, PrepareCharge, Reserve, Ask,
          Settle, Receive, Answer, OpenStream, Fail, FailPriming, CloseRaw, EndStream,
          Break, Interrupt, Abandon
    <2>5. ASSUME NEW p \in Profiles, CircuitCools(p) PROVE UNCHANGED local
      BY <2>5 DEF CircuitCools
    <2>6. CASE UNCHANGED gatewayVars
      BY <2>1, <2>6 DEF gatewayVars, local
    <2> QED
      BY <2>1, <2>2, <2>3, <2>4, <2>5, <2>6 DEF GatewayNext, OfCall
  <1>3. WordIsFresh => GateFollowsCommand
    BY DEF WordIsFresh, GateFollowsCommand, Routable
  <1>4. GatewaySpec => []LocalOK
    BY GatewayTypeCorrect, PTL DEF GatewayTypeOK
  <1> QED
    BY <1>1, <1>2, <1>3, <1>4, PTL DEF GatewaySpec

-----------------------------------------------------------------------------
(* The charge of an OCR call.                                              *)

Paying == {"reserving", "reserved", "asking", "settling"}
Over == {"settling", "done", "lost"}

\* Before a call is prepared, nothing is.
Untouched(c) ==
    bound[c] = 0 => /\ charged[c] = 0 /\ uses[c] = 0 /\ usageRow[c] = "none"
                    /\ c \notin receipt /\ phase[c] \notin Paying

\* The budget holds the bound until a receipt replaces it.
Held(c) ==
    /\ bound[c] =< MaxTokens
    /\ c \notin receipt => charged[c] = bound[c]
    /\ c \in receipt => charged[c] = uses[c] /\ phase[c] \in Over

\* The row comes before the request, and stays.
RowFirst(c) ==
    /\ usageRow[c] # "none" => charge[c] \in {bound[c], uses[c]}
    /\ phase[c] = "reserved" => usageRow[c] # "none" /\ charge[c] = bound[c]
    /\ phase[c] \in {"reserving", "reserved"} => uses[c] = 0
    /\ uses[c] > 0 => usageRow[c] # "none"

Paid(c) == Untouched(c) /\ Held(c) /\ RowFirst(c)

PaidInv == \A c \in Ocr : Paid(c)

\* The money of call c is as it was.
SameMoney(c) ==
    /\ bound'[c] = bound[c] /\ charged'[c] = charged[c] /\ uses'[c] = uses[c]
    /\ usageRow'[c] = usageRow[c] /\ charge'[c] = charge[c]
    /\ c \in receipt' <=> c \in receipt

LEMMA PaidKept ==
    ASSUME NEW c \in Ocr, Paid(c), SameMoney(c),
           \/ phase'[c] = phase[c]
           \/ phase[c] \notin Over /\ phase'[c] \notin Paying
           \/ phase'[c] \in {"done", "lost"}
    PROVE  Paid(c)'
  BY DEF Paid, Untouched, Held, RowFirst, SameMoney, Over, Paying

LEMMA MoneyUnchanged ==
    ASSUME UNCHANGED budgets, UNCHANGED rows, NEW c
    PROVE  SameMoney(c)
  BY DEF SameMoney, budgets, rows

\* A step of one call does not touch the money of another.
LEMMA OthersMoney ==
    ASSUME TypeInv, NEW c \in Calls, OfCall(c), NEW d \in Calls \ {c}
    PROVE  SameMoney(d)
  <1>1. CASE Start(c) \/ Choose(c) \/ Break(c)
    BY <1>1, MoneyUnchanged
    DEF Start, Choose, Skip, SkipOpen, Admit, GiveUp, Break, Interrupt, Abandon
  <1>2. CASE Pay(c)
    BY <1>2 DEF Pay, PrepareCharge, Reserve, Ask, Settle, SameMoney, budgets, rows, TypeInv,
                GatewayTypeOK, MoneyOK
  <1>3. CASE Answer(c)
    BY <1>3 DEF Answer, Finish, SameMoney, rows, TypeInv, GatewayTypeOK, MoneyOK
  <1>4. CASE OpenStream(c) \/ Fail(c) \/ FailPriming(c) \/ CloseRaw(c) \/ EndStream(c)
    BY <1>4, MoneyUnchanged DEF OpenStream, Fail, FailPriming, CloseRaw, EndStream
  <1> QED
    BY <1>1, <1>2, <1>3, <1>4 DEF OfCall, Receive

LEMMA PrepareStep ==
    ASSUME GatewayConstantsOK, TypeInv, NEW c \in Ocr, c \in Calls, Paid(c), PrepareCharge(c)
    PROVE  Paid(c)'
  <1>1. PICK tokens \in 1 .. MaxTokens - charged[c] :
           /\ bound' = [bound EXCEPT ![c] = tokens]
           /\ charged' = [charged EXCEPT ![c] = @ + tokens]
    BY DEF PrepareCharge
  <1>2. /\ bound[c] = 0 /\ charged[c] = 0 /\ uses[c] = 0 /\ usageRow[c] = "none"
        /\ c \notin receipt
    BY DEF PrepareCharge, Paid, Untouched
  <1>3. MaxTokens \in Nat
    BY DEF GatewayConstantsOK
  <1>4. bound'[c] = tokens /\ charged'[c] = tokens /\ phase'[c] = "reserving"
    BY <1>1, <1>2, <1>3 DEF PrepareCharge, To, TypeInv, GatewayTypeOK, TasksOK, MoneyOK
  <1>5. tokens \in Nat /\ tokens > 0 /\ tokens =< MaxTokens
    BY <1>1, <1>2, <1>3
  <1>6. uses'[c] = 0 /\ usageRow'[c] = "none" /\ receipt' = receipt
    BY <1>2 DEF PrepareCharge, rows
  <1> QED
    BY <1>2, <1>4, <1>5, <1>6 DEF Paid, Untouched, Held, RowFirst

LEMMA ReserveStep ==
    ASSUME TypeInv, NEW c \in Ocr, c \in Calls, Paid(c), Reserve(c)
    PROVE  Paid(c)'
  <1>1. /\ usageRow'[c] = "bound" /\ charge'[c] = bound[c] /\ phase'[c] = "reserved"
        /\ UNCHANGED <<bound, charged, uses, receipt>>
    BY DEF Reserve, To, budgets, TypeInv, GatewayTypeOK, TasksOK, MoneyOK
  <1>2. phase[c] = "reserving"
    BY DEF Reserve
  <1> QED
    BY <1>1, <1>2 DEF Paid, Untouched, Held, RowFirst, Paying, Over

LEMMA AskStep ==
    ASSUME GatewayConstantsOK, TypeInv, NEW c \in Ocr, c \in Calls, Paid(c), Ask(c)
    PROVE  Paid(c)'
  <1>1. /\ phase'[c] = "asking" /\ phase[c] = "reserved"
        /\ UNCHANGED <<bound, charged, receipt, usageRow, charge>>
    BY DEF Ask, To, rows, TypeInv, GatewayTypeOK, TasksOK
  <1>2. usageRow[c] # "none" /\ charge[c] = bound[c] /\ c \notin receipt /\ bound[c] # 0
    BY <1>1 DEF Paid, Untouched, Held, RowFirst, Paying, Over
  <1> QED
    BY <1>1, <1>2 DEF Paid, Untouched, Held, RowFirst

LEMMA AnswerStep ==
    ASSUME TypeInv, NEW c \in Ocr, c \in Calls, c \notin Streams, Paid(c), Answer(c)
    PROVE  Paid(c)'
  <1>1. /\ phase[c] = "asking" /\ phase'[c] = "settling"
        /\ UNCHANGED <<bound, uses, usageRow, charge>>
    BY DEF Answer, End, To, rows, TypeInv, GatewayTypeOK, TasksOK
  <1>2. c \notin receipt /\ charged[c] = bound[c] /\ bound[c] # 0
    BY <1>1 DEF Paid, Untouched, Held, Paying, Over
  <1>3. bound[c] \in Nat /\ uses[c] \in Nat
    BY DEF TypeInv, GatewayTypeOK, MoneyOK
  <1>4. \/ c \in receipt' /\ charged'[c] = uses[c]
        \/ c \notin receipt' /\ charged'[c] = bound[c]
    BY <1>2, <1>3 DEF Answer, Finish, TypeInv, GatewayTypeOK, MoneyOK
  <1> QED
    BY <1>1, <1>2, <1>4 DEF Paid, Untouched, Held, RowFirst, Over

LEMMA SettleStep ==
    ASSUME TypeInv, NEW c \in Ocr, c \in Calls, Paid(c), Settle(c)
    PROVE  Paid(c)'
  <1>1. /\ phase[c] = "settling" /\ phase'[c] = "done"
        /\ UNCHANGED <<bound, charged, uses, receipt>>
    BY DEF Settle, End, To, budgets, TypeInv, GatewayTypeOK, TasksOK
  <1>2. \/ usageRow'[c] = "settled" /\ charge'[c] = uses[c]
        \/ UNCHANGED <<usageRow, charge>>
    BY DEF Settle, rows, TypeInv, GatewayTypeOK, MoneyOK
  <1>3. bound[c] # 0
    BY <1>1 DEF Paid, Untouched, Paying
  <1> QED
    BY <1>1, <1>2, <1>3 DEF Paid, Untouched, Held, RowFirst, Over

LEMMA PaidOwnStep ==
    ASSUME GatewayConstantsOK, TypeInv, NEW c \in Ocr, Paid(c), OfCall(c)
    PROVE  Paid(c)'
  <1>1. c \in Calls /\ c \notin Streams
    BY DEF GatewayConstantsOK
  <1>2. CASE Start(c) \/ Choose(c)
    <2>1. SameMoney(c)
      BY <1>2, MoneyUnchanged DEF Start, Choose, Skip, SkipOpen, Admit, GiveUp
    <2>2. phase[c] \notin Over
      BY <1>2 DEF Start, Choose, Skip, SkipOpen, Admit, GiveUp, Offered, HasCandidate, Over
    <2>3. phase'[c] \notin Paying \/ phase'[c] = phase[c]
      BY <1>1, <1>2 DEF Start, Choose, Skip, SkipOpen, Admit, GiveUp, To, End, TypeInv,
                        GatewayTypeOK, TasksOK, Paying
    <2> QED
      BY <2>1, <2>2, <2>3, PaidKept
  <1>3. CASE Fail(c) \/ FailPriming(c) \/ CloseRaw(c) \/ OpenStream(c)
    <2>1. SameMoney(c)
      BY <1>3, MoneyUnchanged DEF Fail, FailPriming, CloseRaw, OpenStream
    <2>2. phase[c] \notin Over
      BY <1>1, <1>3 DEF Fail, FailPriming, CloseRaw, OpenStream, Over
    <2>3. phase'[c] \notin Paying
      BY <1>1, <1>3 DEF Fail, FailPriming, CloseRaw, OpenStream, To, TypeInv, GatewayTypeOK,
                        TasksOK, Paying
    <2> QED
      BY <2>1, <2>2, <2>3, PaidKept
  <1>4. CASE EndStream(c) \/ Interrupt(c) \/ Abandon(c)
    <2>1. SameMoney(c)
      BY <1>4, MoneyUnchanged DEF EndStream, Interrupt, Abandon
    <2>2. phase'[c] = "done"
      BY <1>1, <1>4 DEF EndStream, Interrupt, Abandon, End, To, TypeInv, GatewayTypeOK, TasksOK
    <2> QED
      BY <2>1, <2>2, PaidKept
  <1> QED
    BY <1>1, <1>2, <1>3, <1>4, PrepareStep, ReserveStep, AskStep, AnswerStep, SettleStep
    DEF OfCall, Pay, Receive, Break

LEMMA PaidInit == ASSUME GatewayConstantsOK, GatewayInit PROVE PaidInv
  <1> SUFFICES ASSUME NEW c \in Ocr PROVE Paid(c)
    BY DEF PaidInv
  <1>1. c \in Calls /\ MaxTokens \in Nat
    BY DEF GatewayConstantsOK
  <1>2. /\ bound[c] = 0 /\ charged[c] = 0 /\ uses[c] = 0 /\ usageRow[c] = "none"
        /\ receipt = {} /\ phase[c] = "idle"
    BY <1>1 DEF GatewayInit
  <1> QED
    BY <1>1, <1>2 DEF Paid, Untouched, Held, RowFirst, Paying

LEMMA PaidStep ==
    ASSUME GatewayConstantsOK, TypeInv, PaidInv, [GatewayNext]_gatewayVars
    PROVE  PaidInv'
  <1> SUFFICES ASSUME NEW c \in Ocr PROVE Paid(c)'
    BY DEF PaidInv
  <1>1. Paid(c) /\ c \in Calls
    BY DEF PaidInv, GatewayConstantsOK
  <1>2. CASE OfCall(c)
    BY <1>1, <1>2, PaidOwnStep
  <1>3. ASSUME NEW d \in Calls \ {c}, OfCall(d) PROVE Paid(c)'
    <2>1. SameMoney(c) /\ phase'[c] = phase[c]
      BY <1>1, <1>3, OthersMoney, CallMovesAlone DEF OnlyMoves
    <2> QED
      BY <1>1, <2>1, PaidKept
  <1>4. ASSUME UNCHANGED <<budgets, rows, phase>> PROVE Paid(c)'
    BY <1>1, <1>4, MoneyUnchanged, PaidKept
  <1>5. ASSUME NEW p \in Profiles, CircuitCools(p) PROVE Paid(c)'
    BY <1>4, <1>5 DEF CircuitCools, tasks
  <1>6. CASE LocalModel
    BY <1>4, <1>6 DEF LocalModel, tasks
  <1>7. CASE UNCHANGED gatewayVars
    BY <1>4, <1>7 DEF gatewayVars, budgets, rows
  <1>8. CASE Crash
    <2>1. SameMoney(c)
      BY <1>8, MoneyUnchanged DEF Crash
    <2>2. phase'[c] = phase[c] \/ phase'[c] = "lost"
      BY <1>1, <1>8 DEF Crash
    <2> QED
      BY <1>1, <2>1, <2>2, PaidKept
  <1> QED
    BY <1>1, <1>2, <1>3, <1>5, <1>6, <1>7, <1>8 DEF GatewayNext, OfCall

LEMMA PaidMeans ==
    ASSUME GatewayConstantsOK, TypeInv, PaidInv
    PROVE  NothingFree /\ BudgetKept
  <1> SUFFICES ASSUME NEW c \in Ocr
               PROVE  /\ uses[c] > 0 => usageRow[c] # "none" /\ (charge[c] >= uses[c] \/ Overran(c))
                      /\ charged[c] =< MaxTokens \/ Overran(c)
                      /\ charged[c] >= uses[c] \/ Overran(c)
                      /\ c \in receipt \/ charged[c] = bound[c]
    BY DEF NothingFree, BudgetKept
  <1>1. c \in Calls /\ MaxTokens \in Nat
    BY DEF GatewayConstantsOK
  <1>2. bound[c] \in Nat /\ uses[c] \in Nat
    BY <1>1 DEF TypeInv, GatewayTypeOK, MoneyOK
  <1>3. Held(c) /\ RowFirst(c)
    BY DEF PaidInv, Paid
  <1> QED
    BY <1>2, <1>1, <1>3 DEF Held, RowFirst, Overran

\* However an OCR call is interrupted, and with or without a receipt: what was
\* sent is charged to the chat, and its budget neither is exceeded nor given
\* back, unless the provider went over the bound it was asked to keep
\* (media_budget.py:18-49, model_budget.py:106-113,188-215).
THEOREM ChargesRight ==
    ASSUME GatewayConstantsOK
    PROVE  GatewaySpec => [](NothingFree /\ BudgetKept)
  <1>1. GatewayInit => TypeInv /\ PaidInv
    BY GatewayTypeInit, PaidInit
  <1>2. TypeInv /\ PaidInv /\ [GatewayNext]_gatewayVars => TypeInv' /\ PaidInv'
    BY GatewayTypeStep, PaidStep
  <1>3. TypeInv /\ PaidInv => NothingFree /\ BudgetKept
    BY PaidMeans
  <1> QED
    BY <1>1, <1>2, <1>3, PTL DEF GatewaySpec

-----------------------------------------------------------------------------
\* The guardians.

-----------------------------------------------------------------------------
(* Types.                                                                  *)

LEMMA OperationType ==
    ASSUME ConstantsOK, NEW o \in Operations
    PROVE  Of(o) \in Guardians /\ Number(o) \in 1..MaxActions /\ o = <<Of(o), Number(o)>>
  BY DEF ConstantsOK, Of, Number

\* A row that is changed in one place is a row.
LEMMA RowType ==
    ASSUME NEW row \in RepairRows
    PROVE  /\ \A s \in Statuses : [row EXCEPT !.status = s] \in RepairRows
           /\ \A k \in {"job", "service"} : [row EXCEPT !.kind = k] \in RepairRows
           /\ \A r \in Runners \cup {Nobody} : [row EXCEPT !.owner = r] \in RepairRows
           /\ \A r \in Runners \cup {Nobody} : [row EXCEPT !.fence = r] \in RepairRows
           /\ \A b \in BOOLEAN : [row EXCEPT !.live = b] \in RepairRows
           /\ \A b \in BOOLEAN : [row EXCEPT !.started = b] \in RepairRows
           /\ \A b \in BOOLEAN : [row EXCEPT !.handle = b] \in RepairRows
           /\ [row EXCEPT !.saw = "none"] \in RepairRows
           /\ \A a \in {"ontime", "late", "over"} : [row EXCEPT !.age = a] \in RepairRows
  BY DEF RepairRows

\* Each operator of the ledger keeps its types.
LEMMA LedgerTypes ==
    ASSUME LedgerOK, NEW o \in Operations
    PROVE  /\ \A kind \in {"service", "job"} : Prepare(o, kind) => LedgerOK'
           /\ Approve(o) => LedgerOK'
           /\ CancelOperation(o) => LedgerOK'
           /\ \A r \in Runners : Claim(r, o) => LedgerOK'
           /\ Refuse(o) => LedgerOK'
           /\ Checkpoint(o) => LedgerOK'
           /\ ApprovalLapses(o) \/ DeadlinePasses(o) \/ LeaseRunsOut(o) => LedgerOK'
  <1> DEFINE row == op[o]
  <1>a. row \in RepairRows /\ approval[o] \in ApprovalRows /\ row.status \in Statuses
    BY DEF LedgerOK, RepairRows
  <1>b. \A new \in RepairRows : op' = [op EXCEPT ![o] = new] => op' \in [Operations -> RepairRows]
    BY DEF LedgerOK
  <1>c. \A new \in ApprovalRows :
           approval' = [approval EXCEPT ![o] = new] => approval' \in [Operations -> ApprovalRows]
    BY DEF LedgerOK
  <1>d. /\ \A s \in {"given", "consumed"} : [approval[o] EXCEPT !.state = s] \in ApprovalRows
        /\ [approval[o] EXCEPT !.lapsed = TRUE] \in ApprovalRows
    BY <1>a DEF ApprovalRows
  <1>e. UNCHANGED approval => approval' \in [Operations -> ApprovalRows]
    BY DEF LedgerOK
  <1>f. UNCHANGED op => op' \in [Operations -> RepairRows]
    BY DEF LedgerOK
  <1>g. {"awaiting_approval", "queued", "cancelled", "cancelling", "running", "needs_attention"}
           \subseteq Statuses
    BY DEF Statuses, InFlight, Ended
  <1>1. ASSUME NEW kind \in {"service", "job"}, Prepare(o, kind) PROVE LedgerOK'
    <2> DEFINE new == [[row EXCEPT !.kind = kind] EXCEPT !.status = "awaiting_approval"]
    <2>1. new \in RepairRows
      BY <1>a, <1>g, RowType
    <2>2. op' = [op EXCEPT ![o] = new]
      BY <1>1 DEF Prepare
    <2> QED
      BY <1>1, <1>b, <1>e, <2>1, <2>2 DEF LedgerOK, Prepare
  <1>2. ASSUME Approve(o) PROVE LedgerOK'
    <2>1. [row EXCEPT !.status = "queued"] \in RepairRows
      BY <1>a, <1>g, RowType
    <2>2. /\ op' = [op EXCEPT ![o] = [row EXCEPT !.status = "queued"]]
          /\ approval' = [approval EXCEPT ![o] = [approval[o] EXCEPT !.state = "given"]]
      BY <1>2 DEF Approve
    <2> QED
      BY <1>b, <1>c, <1>d, <2>1, <2>2 DEF LedgerOK
  <1>3. ASSUME CancelOperation(o) PROVE LedgerOK'
    <2> DEFINE s == IF row.status \in {"awaiting_approval", "queued"} THEN "cancelled"
                                                                      ELSE "cancelling"
    <2>1. [row EXCEPT !.status = s] \in RepairRows
      BY <1>a, <1>g, RowType
    <2>2. op' = [op EXCEPT ![o] = [row EXCEPT !.status = s]]
      BY <1>3 DEF CancelOperation
    <2> QED
      BY <1>3, <1>b, <1>e, <2>1, <2>2 DEF LedgerOK, CancelOperation
  <1>4. ASSUME NEW r \in Runners, Claim(r, o) PROVE LedgerOK'
    <2> DEFINE s == IF row.status = "cancelling" THEN row.status ELSE "running"
               new == [[[[row EXCEPT !.status = s] EXCEPT !.owner = r] EXCEPT !.live = TRUE]
                          EXCEPT !.fence = r]
    <2>1. new \in RepairRows
      BY <1>a, <1>g, RowType
    <2>2. op' = [op EXCEPT ![o] = new]
      BY <1>4 DEF Claim
    <2>3. approval' \in [Operations -> ApprovalRows]
      BY <1>4, <1>c, <1>d, <1>e DEF Claim
    <2> QED
      BY <1>b, <2>1, <2>2, <2>3 DEF LedgerOK
  <1>5. ASSUME Refuse(o) PROVE LedgerOK'
    <2> DEFINE new == [[[row EXCEPT !.status = "needs_attention"] EXCEPT !.owner = Nobody]
                          EXCEPT !.live = FALSE]
    <2>1. new \in RepairRows
      BY <1>a, <1>g, RowType
    <2>2. op' = [op EXCEPT ![o] = new]
      BY <1>5 DEF Refuse, Released
    <2> QED
      BY <1>5, <1>b, <1>e, <2>1, <2>2 DEF LedgerOK, Refuse
  <1>6. ASSUME Checkpoint(o) PROVE LedgerOK'
    <2>1. [row EXCEPT !.started = TRUE] \in RepairRows
      BY <1>a, RowType
    <2>2. op' = [op EXCEPT ![o] = [row EXCEPT !.started = TRUE]]
      BY <1>6 DEF Checkpoint
    <2> QED
      BY <1>6, <1>b, <1>e, <2>1, <2>2 DEF LedgerOK, Checkpoint
  <1>7. ASSUME ApprovalLapses(o) PROVE LedgerOK'
    BY <1>7, <1>c, <1>d, <1>f DEF LedgerOK, ApprovalLapses
  <1>8. ASSUME DeadlinePasses(o) PROVE LedgerOK'
    <2> DEFINE a == IF row.age = "ontime" THEN "late" ELSE "over"
    <2>1. [row EXCEPT !.age = a] \in RepairRows
      BY <1>a, RowType
    <2>2. op' = [op EXCEPT ![o] = [row EXCEPT !.age = a]]
      BY <1>8 DEF DeadlinePasses
    <2> QED
      BY <1>8, <1>b, <1>e, <2>1, <2>2 DEF LedgerOK, DeadlinePasses
  <1>9. ASSUME LeaseRunsOut(o) PROVE LedgerOK'
    <2>1. [row EXCEPT !.live = FALSE] \in RepairRows
      BY <1>a, RowType
    <2>2. op' = [op EXCEPT ![o] = [row EXCEPT !.live = FALSE]]
      BY <1>9 DEF LeaseRunsOut
    <2> QED
      BY <1>9, <1>b, <1>e, <2>1, <2>2 DEF LedgerOK, LeaseRunsOut
  <1> QED
    BY <1>1, <1>2, <1>3, <1>4, <1>5, <1>6, <1>7, <1>8, <1>9

LEMMA FinishType ==
    ASSUME LedgerOK, NEW o \in Operations, NEW r \in Runners,
           NEW verdict \in Statuses, NEW started \in BOOLEAN, NEW handle \in BOOLEAN,
           FinishOperation(r, o, verdict, started, handle, "none")
    PROVE  LedgerOK'
  <1> DEFINE s == IF op[o].status = "cancelling" /\ verdict \in {"running", "reconciling"}
                  THEN "cancelling" ELSE verdict
             new == [[[Released(op[o], s) EXCEPT !.started = started] EXCEPT !.handle = handle]
                        EXCEPT !.saw = "none"]
  <1>1. s \in Statuses /\ op[o] \in RepairRows
    BY DEF LedgerOK, Statuses, InFlight
  <1>2. Released(op[o], s) \in RepairRows
    <2>1. Released(op[o], s) = [[[op[o] EXCEPT !.status = s] EXCEPT !.owner = Nobody]
                                  EXCEPT !.live = FALSE]
      BY DEF Released
    <2> HIDE DEF s
    <2>2. [op[o] EXCEPT !.status = s] \in RepairRows
      BY <1>1, RowType
    <2>3. [[op[o] EXCEPT !.status = s] EXCEPT !.owner = Nobody] \in RepairRows
      BY <2>2, RowType
    <2> QED
      BY <2>1, <2>3, RowType
  <1>3. new \in RepairRows
    BY <1>2, RowType
  <1>4. op' = op \/ op' = [op EXCEPT ![o] = new]
    BY DEF FinishOperation
  <1>5. approval' = approval
    BY DEF FinishOperation
  <1> QED
    BY <1>3, <1>4, <1>5 DEF LedgerOK

LEMMA LedgerStays == ASSUME LedgerOK, UNCHANGED ledgerVars PROVE LedgerOK'
  BY DEF LedgerOK, ledgerVars

LEMMA GuardsStay == ASSUME GuardsOK, UNCHANGED guards PROVE GuardsOK'
  BY DEF GuardsOK, guards

LEMMA ChecksStay == ASSUME ChecksOK, UNCHANGED check PROVE ChecksOK'
  BY DEF ChecksOK, Busy

LEMMA RoundsStay == ASSUME RoundsOK, UNCHANGED round PROVE RoundsOK'
  BY DEF RoundsOK

LEMMA WorldStays == ASSUME WorldOK, UNCHANGED world PROVE WorldOK'
  BY DEF WorldOK, world

\* A check that goes on as one.
CheckRows == [at : {"idle", "probing", "recovering", "observing", "proposing", "finishing", "gone"},
              g : Guardians \cup {Nobody}, failures : Nat, used : 0..MaxActions,
              outcome : {"passed", "failed", "unknown"}, attention : BOOLEAN, late : BOOLEAN]

LEMMA CheckType ==
    ASSUME ChecksOK, NEW c \in Checkers, NEW next \in CheckRows, ChecksOn(c, next),
           next.at \notin {"idle", "gone"} => next.g \in Guardians,
           next.at = "proposing" => next.used < MaxActions
    PROVE  ChecksOK'
  <1>1. check' \in [Checkers -> CheckRows] /\ check'[c] = next
    BY DEF ChecksOK, ChecksOn, CheckRows
  <1>2. \A d \in Checkers : d # c => check'[d] = check[d]
    BY DEF ChecksOK, ChecksOn
  <1> QED
    BY <1>1, <1>2 DEF ChecksOK, CheckRows, Busy

LEMMA CheckGoesOn ==
    ASSUME ChecksOK, NEW c \in Checkers, Busy(c),
           NEW there \in {"finishing", "recovering", "observing", "proposing"},
           there = "proposing" => check[c].used < MaxActions,
           \/ ChecksOn(c, Then(c, there))
           \/ \E out \in {"passed", "failed", "unknown"} :
                 ChecksOn(c, [Then(c, there) EXCEPT !.outcome = out])
           \/ \E b \in BOOLEAN : ChecksOn(c, [Then(c, there) EXCEPT !.attention = b])
    PROVE  ChecksOK'
  <1>1. check[c] \in CheckRows /\ check[c].g \in Guardians
    BY DEF ChecksOK, CheckRows
  <1>2. /\ Then(c, there) \in CheckRows
        /\ Then(c, there).at = there /\ Then(c, there).g = check[c].g
        /\ Then(c, there).used = check[c].used
    BY <1>1 DEF Then, CheckRows
  <1> DEFINE Fine(next) == /\ ChecksOn(c, next) /\ next \in CheckRows
                           /\ next.at = there /\ next.g = check[c].g
                           /\ next.used = check[c].used
  <1>3. PICK next : Fine(next)
    <2>1. CASE ChecksOn(c, Then(c, there))
      BY <1>2, <2>1
    <2>2. ASSUME NEW out \in {"passed", "failed", "unknown"},
                 ChecksOn(c, [Then(c, there) EXCEPT !.outcome = out])
          PROVE  \E next : Fine(next)
      <3>1. LET next == [Then(c, there) EXCEPT !.outcome = out]
            IN /\ next \in CheckRows
               /\ next.at = there /\ next.g = check[c].g /\ next.used = check[c].used
        BY <1>2 DEF CheckRows
      <3> QED
        BY <2>2, <3>1
    <2>3. ASSUME NEW b \in BOOLEAN, ChecksOn(c, [Then(c, there) EXCEPT !.attention = b])
          PROVE  \E next : Fine(next)
      <3>1. LET next == [Then(c, there) EXCEPT !.attention = b]
            IN /\ next \in CheckRows
               /\ next.at = there /\ next.g = check[c].g /\ next.used = check[c].used
        BY <1>2 DEF CheckRows
      <3> QED
        BY <2>3, <3>1
    <2> QED
      BY <2>1, <2>2, <2>3
  <1> QED
    BY <1>1, <1>3, CheckType

\* A round that goes on as one.
RoundRows == [at : {"idle", "authorizing", "validating", "committing", "sending", "observing",
                    "finishing"},
              op : Operations \cup {Nobody}, started : BOOLEAN, handle : BOOLEAN,
              verdict : Statuses \ {"absent", "awaiting_approval", "queued"}]

LEMMA RoundType ==
    ASSUME RoundsOK, NEW r \in Runners, NEW next \in RoundRows, RunsOn(r, next),
           next.at # "idle" => next.op \in Operations
    PROVE  RoundsOK'
  <1>1. round' \in [Runners -> RoundRows] /\ round'[r] = next
    BY DEF RoundsOK, RunsOn, RoundRows
  <1>2. \A s \in Runners : s # r => round'[s] = round[s]
    BY DEF RoundsOK, RunsOn
  <1> QED
    BY <1>1, <1>2 DEF RoundsOK, RoundRows

\* The steps of a check.
LEMMA ChecksType ==
    ASSUME ConstantsOK, TypeOK, NEW c \in Checkers, Checks(c)
    PROVE  TypeOK'
  <1> USE DEF TypeOK
  <1>k. check[c] \in CheckRows /\ (Busy(c) => check[c].g \in Guardians)
    BY DEF ChecksOK, CheckRows
  <1>i. NoCheck \in CheckRows /\ [NoCheck EXCEPT !.at = "gone"] \in CheckRows
    <2>1. 0 \in 0..MaxActions
      BY DEF ConstantsOK
    <2> QED
      BY <2>1 DEF NoCheck, CheckRows
  <1>1. CASE ClaimCheck(c)
    <2>1. PICK g \in Guardians :
             /\ status' = [h \in Guardians |-> IF h = g THEN "active" ELSE Swept(h)]
             /\ lease' = [lease EXCEPT ![g] = c]
             /\ live' = live \cup {g}
             /\ ChecksOn(c, [NoCheck EXCEPT !.at = "probing", !.g = g,
                                            !.failures = failures[g], !.used = used[g]])
      BY <1>1 DEF ClaimCheck
    <2> DEFINE next == [NoCheck EXCEPT !.at = "probing", !.g = g,
                                       !.failures = failures[g], !.used = used[g]]
    <2>2. next \in CheckRows /\ next.g = g /\ next.at = "probing"
      BY DEF NoCheck, CheckRows, GuardsOK
    <2>3. ChecksOK'
      <3> HIDE DEF next
      <3> QED
        BY <2>1, <2>2, CheckType DEF next
    <2>4. GuardsOK'
      BY <1>1, <2>1 DEF ClaimCheck, GuardsOK, Swept, GuardianStatuses
    <2> QED
      BY <1>1, <2>3, <2>4, LedgerStays, RoundsStay, WorldStays DEF ClaimCheck
  <1>2. CASE Probe(c)
    <2>1. Busy(c)
      BY <1>2 DEF Probe, Busy
    <2>2. \E there \in {"finishing", "recovering", "observing"} :
             \/ ChecksOn(c, Then(c, there))
             \/ \E out \in {"passed", "failed", "unknown"} :
                    ChecksOn(c, [Then(c, there) EXCEPT !.outcome = out])
      BY <1>2 DEF Probe
    <2>3. ChecksOK'
      BY <2>1, <2>2, CheckGoesOn
    <2> QED
      BY <1>2, <2>3, LedgerStays, GuardsStay, RoundsStay, WorldStays DEF Probe
  <1>3. CASE Recover(c)
    <2>1. check[c].g \in Guardians
      BY <1>3, <1>k DEF Recover, Busy
    <2>2. ChecksOK'
      <3>1. Busy(c)
        BY <1>3 DEF Recover, Busy
      <3> QED
        BY <1>3, <3>1, CheckGoesOn DEF Recover
    <2>3. WorldOK'
      BY <1>3 DEF Recover, WorldOK
    <2> QED
      BY <1>3, <2>2, <2>3, LedgerStays, GuardsStay, RoundsStay DEF Recover
  <1>4. CASE Observe(c)
    <2>1. check[c].g \in Guardians
      BY <1>4, <1>k DEF Observe, Busy
    <2>2. ChecksOK'
      <3>1. Busy(c)
        BY <1>4 DEF Observe, Busy
      <3> QED
        BY <1>4, <3>1, CheckGoesOn DEF Observe
    <2>3. WorldOK'
      BY <1>4, <2>1 DEF Observe, WorldOK
    <2> QED
      BY <1>4, <2>2, <2>3, LedgerStays, GuardsStay, RoundsStay DEF Observe
  <1>5. CASE Propose(c)
    <2> DEFINE g == check[c].g
               n == check[c].used
    <2>1. g \in Guardians /\ n \in 0..MaxActions /\ n < MaxActions
      BY <1>5, <1>k DEF Propose, Busy, ChecksOK, CheckRows
    <2>2. <<g, n + 1>> \in Operations
      BY <2>1 DEF ConstantsOK
    <2>3. \E b \in BOOLEAN : ChecksOn(c, [Then(c, "finishing") EXCEPT !.attention = b])
      BY <1>5 DEF Propose, Reports
    <2>4. ChecksOK'
      <3>1. Busy(c)
        BY <1>5 DEF Propose, Busy
      <3> QED
        BY <2>3, <3>1, CheckGoesOn
    <2>5. UNCHANGED ledgerVars \/ \E kind \in {"service", "job"} : Prepare(<<g, n + 1>>, kind)
      BY <1>5 DEF Propose
    <2>6. LedgerOK'
      BY <2>2, <2>5, LedgerStays, LedgerTypes
    <2> QED
      BY <1>5, <2>4, <2>6, GuardsStay, RoundsStay, WorldStays DEF Propose
  <1>6. CASE FinishCheck(c)
    <2>1. check[c].g \in Guardians /\ check[c].outcome \in {"passed", "failed", "unknown"}
      BY <1>6, <1>k DEF FinishCheck, Busy, CheckRows
    <2>2. ChecksOK'
      BY <1>6, <1>i, CheckType DEF FinishCheck, NoCheck
    <2>3. \A m : StatusAfter(c, check[c].g, m) \in GuardianStatuses
      BY <2>1 DEF StatusAfter, GuardianStatuses
    <2>4. GuardsOK'
      BY <1>6, <2>1, <2>3 DEF FinishCheck, GuardsOK
    <2>5. WorldOK'
      BY <1>6 DEF FinishCheck, WorldOK
    <2> QED
      BY <1>6, <2>2, <2>4, <2>5, LedgerStays, RoundsStay DEF FinishCheck
  <1>7. CASE BreakOff(c) \/ StopChecking(c)
    <2>1. ChecksOK'
      BY <1>7, <1>i, CheckType DEF BreakOff, StopChecking, NoCheck
    <2> QED
      BY <1>7, <2>1, LedgerStays, GuardsStay, RoundsStay, WorldStays DEF BreakOff, StopChecking
  <1> QED
    BY <1>1, <1>2, <1>3, <1>4, <1>5, <1>6, <1>7 DEF Checks

\* A round goes on, or has its verdict.
LEMMA RoundGoesOn ==
    ASSUME RoundsOK, NEW r \in Runners, round[r].at # "idle",
           NEW there \in {"validating", "committing", "sending", "finishing"},
           NEW verdict \in Statuses \ {"absent", "awaiting_approval", "queued"},
           \/ RunsOn(r, [round[r] EXCEPT !.at = there])
           \/ RunsOn(r, [round[r] EXCEPT !.started = TRUE, !.at = there])
           \/ RunsOn(r, Ends(r, verdict))
           \/ RunsOn(r, [Ends(r, verdict) EXCEPT !.handle = TRUE])
    PROVE  RoundsOK'
  <1>1. round[r] \in RoundRows /\ round[r].op \in Operations
    BY DEF RoundsOK, RoundRows
  <1> DEFINE Fine(next) == /\ RunsOn(r, next) /\ next \in RoundRows
                           /\ next.op = round[r].op
  <1>2. PICK next : Fine(next)
    <2>1. CASE RunsOn(r, [round[r] EXCEPT !.at = there])
      <3>1. LET next == [round[r] EXCEPT !.at = there]
            IN next \in RoundRows /\ next.op = round[r].op
        BY <1>1 DEF RoundRows
      <3> QED
        BY <2>1, <3>1
    <2>2. CASE RunsOn(r, [round[r] EXCEPT !.started = TRUE, !.at = there])
      <3>1. LET next == [round[r] EXCEPT !.started = TRUE, !.at = there]
            IN next \in RoundRows /\ next.op = round[r].op
        BY <1>1 DEF RoundRows
      <3> QED
        BY <2>2, <3>1
    <2>3. Ends(r, verdict) \in RoundRows /\ Ends(r, verdict).op = round[r].op
      BY <1>1 DEF RoundRows, Ends
    <2>4. CASE RunsOn(r, Ends(r, verdict))
      BY <2>3, <2>4
    <2>5. CASE RunsOn(r, [Ends(r, verdict) EXCEPT !.handle = TRUE])
      <3>1. LET next == [Ends(r, verdict) EXCEPT !.handle = TRUE]
            IN next \in RoundRows /\ next.op = round[r].op
        BY <2>3 DEF RoundRows
      <3> QED
        BY <2>5, <3>1
    <2> QED
      BY <2>1, <2>2, <2>4, <2>5
  <1> QED
    BY <1>1, <1>2, RoundType

\* The steps of a runner.
LEMMA RunsType ==
    ASSUME ConstantsOK, TypeOK, NEW r \in Runners, Runs(r)
    PROVE  TypeOK'
  <1> USE DEF TypeOK
  <1>v. /\ {"needs_attention", "failed", "running", "reconciling", "cancelling"} \cup Ended
              \subseteq Statuses \ {"absent", "awaiting_approval", "queued"}
        /\ "failed" \in Statuses \ {"absent", "awaiting_approval", "queued"}
    BY DEF Statuses, InFlight, Ended
  <1>n. NoRound \in RoundRows /\ NoRound.at = "idle"
    BY <1>v DEF NoRound, RoundRows
  <1>o. round[r].at # "idle" => round[r].op \in Operations
    BY DEF RoundsOK
  <1>1. CASE TakeUp(r)
    <2>1. PICK o \in Operations :
             \/ /\ Claim(r, o)
                /\ RunsOn(r, [NoRound EXCEPT !.op = o, !.started = op[o].started,
                                !.handle = op[o].handle,
                                !.at = IF op[o].handle THEN "observing" ELSE "authorizing"])
             \/ Refuse(o) /\ UNCHANGED round
      BY <1>1 DEF TakeUp
    <2> DEFINE next == [NoRound EXCEPT !.op = o, !.started = op[o].started,
                          !.handle = op[o].handle,
                          !.at = IF op[o].handle THEN "observing" ELSE "authorizing"]
    <2>2. op[o] \in RepairRows
      BY DEF LedgerOK
    <2>3. next \in RoundRows /\ next.op = o
      BY <1>v, <2>2 DEF NoRound, RoundRows, RepairRows
    <2>4. LedgerOK'
      BY <2>1, LedgerTypes
    <2>5. RoundsOK'
      <3> HIDE DEF next
      <3> QED
        BY <2>1, <2>3, RoundType, RoundsStay DEF next
    <2> QED
      BY <1>1, <2>4, <2>5, GuardsStay, ChecksStay, WorldStays DEF TakeUp
  <1>2. CASE Authorize(r)
    <2>1. RoundsOK'
      BY <1>2, <1>v, RoundGoesOn DEF Authorize
    <2> QED
      BY <1>2, <2>1, LedgerStays, GuardsStay, ChecksStay, WorldStays DEF Authorize
  <1>3. CASE Validate(r)
    <2>1. RoundsOK'
      BY <1>3, <1>v, RoundGoesOn DEF Validate
    <2> QED
      BY <1>3, <2>1, LedgerStays, GuardsStay, ChecksStay, WorldStays DEF Validate
  <1>4. CASE Commit(r)
    <2>1. RoundsOK'
      BY <1>4, <1>v, RoundGoesOn DEF Commit
    <2>2. LedgerOK'
      BY <1>4, <1>o, LedgerTypes, LedgerStays DEF Commit
    <2> QED
      BY <1>4, <2>1, <2>2, GuardsStay, ChecksStay, WorldStays DEF Commit
  <1>5. CASE Send(r)
    <2>1. RoundsOK'
      BY <1>5, <1>v, RoundGoesOn DEF Send
    <2>2. WorldOK'
      BY <1>5, <1>o DEF Send, WorldOK
    <2> QED
      BY <1>5, <2>1, <2>2, LedgerStays, GuardsStay, ChecksStay DEF Send
  <1>6. CASE LookAtJob(r)
    <2>1. RoundsOK'
      BY <1>6, <1>v, RoundGoesOn DEF LookAtJob
    <2> QED
      BY <1>6, <2>1, LedgerStays, GuardsStay, ChecksStay, WorldStays DEF LookAtJob
  <1>7. CASE FinishRound(r)
    <2>1. RoundsOK'
      BY <1>7, <1>n, RoundType DEF FinishRound
    <2>2. /\ round[r].verdict \in Statuses
          /\ round[r].started \in BOOLEAN /\ round[r].handle \in BOOLEAN
      BY DEF RoundsOK
    <2>3. LedgerOK'
      BY <1>7, <1>o, <2>2, FinishType DEF FinishRound
    <2> QED
      BY <1>7, <2>1, <2>3, GuardsStay, ChecksStay, WorldStays DEF FinishRound
  <1>8. CASE StopRunning(r)
    <2>1. RoundsOK'
      BY <1>8, <1>n, RoundType DEF StopRunning
    <2> QED
      BY <1>8, <2>1, LedgerStays, GuardsStay, ChecksStay, WorldStays DEF StopRunning
  <1> QED
    BY <1>1, <1>2, <1>3, <1>4, <1>5, <1>6, <1>7, <1>8 DEF Runs

\* The steps of administrators.
LEMMA AdministerType ==
    ASSUME ConstantsOK, TypeOK, Sweep \/ Administer
    PROVE  TypeOK'
  <1> USE DEF TypeOK
  <1>1. CASE Sweep
    <2>1. GuardsOK'
      BY <1>1 DEF Sweep, Swept, GuardsOK, GuardianStatuses
    <2> QED
      BY <1>1, <2>1, LedgerStays, ChecksStay, RoundsStay, WorldStays DEF Sweep
  <1>2. ASSUME NEW g \in Guardians, Create(g) PROVE TypeOK'
    <2>1. GuardsOK'
      BY <1>2 DEF Create, GuardsOK, GuardianStatuses
    <2> QED
      BY <1>2, <2>1, LedgerStays, ChecksStay, RoundsStay, WorldStays DEF Create
  <1>3. ASSUME NEW g \in Guardians, NEW new \in {"active", "paused", "cancelled"},
               SetStatus(g, new) PROVE TypeOK'
    <2>1. GuardsOK'
      BY <1>3 DEF SetStatus, GuardsOK, GuardianStatuses
    <2> QED
      BY <1>3, <2>1, LedgerStays, ChecksStay, RoundsStay, WorldStays DEF SetStatus
  <1>4. ASSUME NEW o \in Operations, Confirm(o) PROVE TypeOK'
    <2>1. Of(o) \in Guardians
      BY OperationType
    <2>2. used[Of(o)] \in 0..MaxActions /\ used[Of(o)] < MaxActions /\ MaxActions \in Nat
      BY <1>4, <2>1 DEF Confirm, GuardsOK, ConstantsOK
    <2>3. used[Of(o)] + 1 \in 0..MaxActions
      BY <2>2
    <2>4. GuardsOK'
      BY <1>4, <2>1, <2>3 DEF Confirm, GuardsOK
    <2>5. LedgerOK'
      BY <1>4, LedgerTypes DEF Confirm
    <2> QED
      BY <1>4, <2>4, <2>5, ChecksStay, RoundsStay, WorldStays DEF Confirm
  <1>5. ASSUME NEW o \in Operations, CancelRepair(o) PROVE TypeOK'
    BY <1>5, LedgerTypes, GuardsStay, ChecksStay, RoundsStay, WorldStays DEF CancelRepair
  <1>6. CASE Resolve \/ Maintain
    <2>1. WorldOK'
      BY <1>6 DEF Resolve, Maintain, WorldOK
    <2> QED
      BY <1>6, <2>1, LedgerStays, GuardsStay, ChecksStay, RoundsStay DEF Resolve, Maintain
  <1> QED
    BY <1>1, <1>2, <1>3, <1>4, <1>5, <1>6 DEF Administer

\* The steps of time.
LEMMA TimeType ==
    ASSUME ConstantsOK, TypeOK, TimePasses
    PROVE  TypeOK'
  <1> USE DEF TypeOK
  <1>1. ASSUME NEW c \in Checkers, CheckLate(c) PROVE TypeOK'
    <2> DEFINE next == [check[c] EXCEPT !.late = TRUE]
    <2>1. check[c] \in CheckRows /\ check[c].g \in Guardians
      BY <1>1 DEF CheckLate, ChecksOK, CheckRows
    <2>2. /\ next \in CheckRows /\ next.g = check[c].g
          /\ next.at = check[c].at /\ next.used = check[c].used
      BY <2>1 DEF CheckRows
    <2>3. ChecksOn(c, next) /\ (check[c].at = "proposing" => check[c].used < MaxActions)
      BY <1>1 DEF CheckLate, ChecksOK
    <2>4. ChecksOK'
      <3> HIDE DEF next
      <3> QED
        BY <2>1, <2>2, <2>3, CheckType
    <2>5. GuardsOK'
      BY <1>1 DEF CheckLate, GuardsOK
    <2> QED
      BY <1>1, <2>4, <2>5, LedgerStays, RoundsStay, WorldStays DEF CheckLate
  <1>2. ASSUME NEW g \in Guardians, LeaseLapses(g) PROVE TypeOK'
    <2>1. GuardsOK'
      BY <1>2 DEF LeaseLapses, GuardsOK
    <2> QED
      BY <1>2, <2>1, LedgerStays, ChecksStay, RoundsStay, WorldStays DEF LeaseLapses
  <1>3. ASSUME NEW g \in Guardians, Expire(g) PROVE TypeOK'
    <2>1. GuardsOK'
      BY <1>3 DEF Expire, GuardsOK
    <2>2. \A o \in Operations :
             /\ approval[o] \in ApprovalRows
             /\ [approval[o] EXCEPT !.lapsed = TRUE] \in ApprovalRows
      BY DEF LedgerOK, ApprovalRows
    <2>3. LedgerOK'
      BY <1>3, <2>2 DEF Expire, LedgerOK
    <2> QED
      BY <1>3, <2>1, <2>3, ChecksStay, RoundsStay, WorldStays DEF Expire
  <1>4. ASSUME NEW o \in Operations, CoolDown(o) PROVE TypeOK'
    <2>1. WorldOK'
      BY <1>4 DEF CoolDown, WorldOK
    <2> QED
      BY <1>4, <2>1, LedgerStays, GuardsStay, ChecksStay, RoundsStay DEF CoolDown
  <1>5. ASSUME NEW o \in Operations, RepairTime(o) PROVE TypeOK'
    BY <1>5, LedgerTypes, GuardsStay, ChecksStay, RoundsStay, WorldStays DEF RepairTime
  <1> QED
    BY <1>1, <1>2, <1>3, <1>4, <1>5 DEF TimePasses

LEMMA TypeInit == ASSUME ConstantsOK, Init PROVE TypeOK
  <1>1. NoOperation \in RepairRows /\ [state |-> "none", lapsed |-> FALSE] \in ApprovalRows
    BY DEF NoOperation, RepairRows, ApprovalRows, Statuses
  <1>2. LedgerOK
    BY <1>1 DEF Init, LedgerInit, LedgerOK
  <1>3. 0 \in 0..MaxActions
    BY DEF ConstantsOK
  <1>4. GuardsOK
    BY <1>3 DEF Init, GuardsOK, GuardianStatuses
  <1>5. ChecksOK
    BY <1>3 DEF Init, ChecksOK, NoCheck, Busy
  <1>6. RoundsOK
    BY DEF Init, RoundsOK, NoRound, Statuses, Ended
  <1>7. WorldOK
    BY DEF Init, WorldOK
  <1> QED
    BY <1>2, <1>4, <1>5, <1>6, <1>7 DEF TypeOK

LEMMA TypeStep == ASSUME ConstantsOK, TypeOK, [Next]_vars PROVE TypeOK'
  <1>1. CASE UNCHANGED vars
    <2>1. UNCHANGED ledgerVars /\ UNCHANGED guards /\ UNCHANGED world
      BY <1>1 DEF vars, ledgerVars, guards, world
    <2> QED
      BY <1>1, <2>1, LedgerStays, GuardsStay, ChecksStay, RoundsStay, WorldStays DEF TypeOK, vars
  <1> QED
    BY <1>1, ChecksType, RunsType, AdministerType, TimeType DEF Next

\* The rows, the checks, the rounds and the history keep their types, whatever the
\* guardians, the processes and their limits.
THEOREM TypeCorrect ==
    ASSUME ConstantsOK
    PROVE  Spec => []TypeOK
  BY TypeInit, TypeStep, PTL DEF Spec

-----------------------------------------------------------------------------
(* What steps do to the ledger.                                            *)

\* Whatever a step does, it does one of these to the ledger.
LedgerStep ==
    \/ UNCHANGED ledgerVars
    \/ \E o \in Operations :
          \/ \E kind \in {"service", "job"} : Prepare(o, kind)
          \/ Confirm(o) /\ Approve(o)
          \/ CancelOperation(o)
          \/ \E r \in Runners : Claim(r, o)
          \/ Refuse(o)
          \/ Checkpoint(o)
          \/ ApprovalLapses(o)
          \/ DeadlinePasses(o)
          \/ LeaseRunsOut(o)
    \/ \E g \in Guardians : Expire(g)
    \/ \E r \in Runners : FinishRound(r) /\ round[r].op \in Operations

LEMMA EveryLedgerStep == ASSUME ConstantsOK, TypeOK, [Next]_vars PROVE LedgerStep
  <1>1. ASSUME NEW c \in Checkers, Checks(c) PROVE LedgerStep
    <2>1. CASE Propose(c)
      <3> DEFINE o == <<check[c].g, check[c].used + 1>>
      <3>1. /\ check[c].g \in Guardians /\ check[c].used \in 0..MaxActions
            /\ check[c].used < MaxActions
        BY <2>1 DEF Propose, TypeOK, ChecksOK, Busy
      <3>2. o \in Operations
        BY <3>1 DEF ConstantsOK
      <3>3. UNCHANGED ledgerVars \/ \E kind \in {"service", "job"} : Prepare(o, kind)
        BY <2>1 DEF Propose
      <3> QED
        BY <3>2, <3>3 DEF LedgerStep
    <2>2. CASE ~Propose(c)
      <3>1. UNCHANGED ledgerVars
        BY <1>1, <2>2 DEF Checks, ClaimCheck, Probe, Recover, Observe, FinishCheck, BreakOff,
                          StopChecking
      <3> QED
        BY <3>1 DEF LedgerStep
    <2> QED
      BY <2>1, <2>2
  <1>2. ASSUME NEW r \in Runners, Runs(r) PROVE LedgerStep
    <2>1. round[r].at # "idle" => round[r].op \in Operations
      BY DEF TypeOK, RoundsOK
    <2>2. CASE TakeUp(r)
      BY <2>2 DEF TakeUp, LedgerStep
    <2>3. CASE Commit(r)
      BY <2>1, <2>3 DEF Commit, LedgerStep
    <2>4. CASE FinishRound(r)
      BY <2>1, <2>4 DEF FinishRound, LedgerStep
    <2>5. CASE Authorize(r) \/ Validate(r) \/ Send(r) \/ LookAtJob(r) \/ StopRunning(r)
      BY <2>5 DEF Authorize, Validate, Send, LookAtJob, StopRunning, LedgerStep
    <2> QED
      BY <1>2, <2>2, <2>3, <2>4, <2>5 DEF Runs
  <1>3. CASE Sweep \/ Administer
    <2>1. ASSUME NEW o \in Operations, Confirm(o) PROVE LedgerStep
      BY <2>1 DEF Confirm, LedgerStep
    <2>2. ASSUME NEW o \in Operations, CancelRepair(o) PROVE LedgerStep
      BY <2>2 DEF CancelRepair, LedgerStep
    <2> QED
      BY <1>3, <2>1, <2>2
         DEF Administer, Sweep, Create, SetStatus, Resolve, Maintain, LedgerStep
  <1>4. CASE TimePasses
    <2>1. ASSUME NEW o \in Operations, RepairTime(o) PROVE LedgerStep
      BY <2>1 DEF RepairTime, LedgerStep
    <2>2. ASSUME NEW g \in Guardians, Expire(g) PROVE LedgerStep
      BY <2>2 DEF LedgerStep
    <2> QED
      BY <1>4, <2>1, <2>2 DEF TimePasses, CheckLate, LeaseLapses, CoolDown, LedgerStep
  <1>5. CASE UNCHANGED vars
    BY <1>5 DEF vars, ledgerVars, LedgerStep
  <1> QED
    BY <1>1, <1>2, <1>3, <1>4, <1>5 DEF Next

\* A write cannot have been sent yet.
Unsent == {"absent", "awaiting_approval", "queued"}

\* A lease is held on what is being carried out or stopped.
LeaseInFlight == \A o \in Operations : op[o].live => op[o].status \in {"running", "cancelling"}

\* What no step undoes, and who does the rest.
Moved(o) ==
    /\ Approved(o) => Approved(o)'
    /\ Approved(o)' /\ ~Approved(o) => Confirm(o)
    /\ approval[o].lapsed => approval'[o].lapsed
    /\ op[o].status = "succeeded" => op'[o].status = "succeeded"
    /\ op'[o].status \in Unsent => op[o].status \in Unsent
    /\ op'[o].live => op'[o].status \in {"running", "cancelling"}
    /\ \/ op'[o].handle => op[o].handle
       \/ \E r \in Runners : FinishRound(r) /\ round[r].op = o /\ round[r].handle
    /\ \/ op'[o].status = "succeeded" => op[o].status = "succeeded"
       \/ \E r \in Runners : FinishRound(r) /\ round[r].op = o /\ round[r].verdict = "succeeded"

LEMMA LedgerMoves ==
    ASSUME ConstantsOK, TypeOK, LeaseInFlight, [Next]_vars, NEW o \in Operations
    PROVE  Moved(o)
  <1> USE DEF Moved, Approved, Unsent, LeaseInFlight
  <1>0. LedgerStep
    BY EveryLedgerStep
  <1>t. op \in [Operations -> RepairRows] /\ approval \in [Operations -> ApprovalRows]
    BY DEF TypeOK, LedgerOK
  <1>1. CASE UNCHANGED ledgerVars
    BY <1>1 DEF ledgerVars
  <1>2. ASSUME NEW p \in Operations, NEW kind \in {"service", "job"}, Prepare(p, kind)
        PROVE  Moved(o)
    BY <1>2, <1>t DEF Prepare, RepairRows
  <1>3. ASSUME NEW p \in Operations, Confirm(p), Approve(p) PROVE Moved(o)
    BY <1>3, <1>t DEF Approve, RepairRows, ApprovalRows
  <1>4. ASSUME NEW p \in Operations, CancelOperation(p) PROVE Moved(o)
    BY <1>4, <1>t DEF CancelOperation, RepairRows, Ended
  <1>5. ASSUME NEW p \in Operations, NEW r \in Runners, Claim(r, p) PROVE Moved(o)
    <2>1. op[p].status \in InFlight
      BY <1>5 DEF Claim, Claimable
    <2>2. \/ approval' = approval
          \/ approval' = [approval EXCEPT ![p].state = "consumed"] /\ Approved(p)
      BY <1>5 DEF Claim, ApprovalUsable
    <2>3. op' = [op EXCEPT ![p].status = IF @ = "cancelling" THEN @ ELSE "running",
                           ![p].owner = r, ![p].live = TRUE, ![p].fence = r]
      BY <1>5 DEF Claim
    <2>4. p # o => op'[o] = op[o] /\ approval'[o] = approval[o]
      BY <2>2, <2>3, <1>t
    <2>5. op'[p].status \in {"running", "cancelling"} /\ op'[p].handle = op[p].handle
      BY <2>3, <1>t DEF RepairRows
    <2>6. approval'[p].lapsed = approval[p].lapsed /\ (Approved(p)' <=> Approved(p))
      BY <2>2, <1>t DEF ApprovalRows
    <2> QED
      BY <2>1, <2>4, <2>5, <2>6 DEF InFlight
  <1>6. ASSUME NEW p \in Operations, Refuse(p) PROVE Moved(o)
    BY <1>6, <1>t DEF Refuse, Released, Claimable, RepairRows, InFlight
  <1>7. ASSUME NEW p \in Operations, Checkpoint(p) PROVE Moved(o)
    BY <1>7, <1>t DEF Checkpoint, RepairRows
  <1>8. ASSUME NEW p \in Operations, ApprovalLapses(p) PROVE Moved(o)
    BY <1>8, <1>t DEF ApprovalLapses, ApprovalRows
  <1>9. ASSUME NEW p \in Operations, DeadlinePasses(p) PROVE Moved(o)
    BY <1>9, <1>t DEF DeadlinePasses, RepairRows
  <1>10. ASSUME NEW p \in Operations, LeaseRunsOut(p) PROVE Moved(o)
    BY <1>10, <1>t DEF LeaseRunsOut, RepairRows
  <1>11. ASSUME NEW g \in Guardians, Expire(g) PROVE Moved(o)
    BY <1>11, <1>t DEF Expire, ApprovalRows
  <1>12. ASSUME NEW r \in Runners, FinishRound(r), round[r].op \in Operations PROVE Moved(o)
    <2> DEFINE p == round[r].op
               verdict == round[r].verdict
               s == IF op[p].status = "cancelling" /\ verdict \in {"running", "reconciling"}
                    THEN "cancelling" ELSE verdict
    <2>1. FinishOperation(r, p, verdict, round[r].started, round[r].handle, "none")
      BY <1>12 DEF FinishRound
    <2>2. CASE ~HoldsLease(r, p)
      BY <2>1, <2>2 DEF FinishOperation
    <2>3. CASE HoldsLease(r, p)
      <3>1. /\ approval' = approval
            /\ op' = [op EXCEPT ![p] = [Released(op[p], s) EXCEPT !.started = round[r].started,
                                           !.handle = round[r].handle, !.saw = "none"]]
        BY <2>1, <2>3 DEF FinishOperation
      <3>2. op[p].status \in {"running", "cancelling"}
        BY <1>12, <2>3 DEF HoldsLease
      <3>3. verdict \notin Unsent
        BY DEF TypeOK, RoundsOK
      <3>4. p # o => op'[o] = op[o]
        BY <3>1, <1>t
      <3>5. /\ op'[p].status = s /\ op'[p].handle = round[r].handle
            /\ op'[p].live = FALSE
        BY <3>1, <1>t, <1>12 DEF Released, RepairRows
      <3>6. s \notin Unsent /\ (s = "succeeded" => verdict = "succeeded")
        BY <3>3
      <3> QED
        BY <1>12, <3>1, <3>2, <3>4, <3>5, <3>6
    <2> QED
      BY <2>2, <2>3
  <1> QED
    BY <1>0, <1>1, <1>2, <1>3, <1>4, <1>5, <1>6, <1>7, <1>8, <1>9, <1>10, <1>11, <1>12
       DEF LedgerStep

-----------------------------------------------------------------------------
(* Repairs.                                                                *)

\* Before its write, a round.
Fresh(r) == round[r].at \in {"authorizing", "validating", "committing", "sending"}

\* What says that a write was sent is right.
SentIsKnown ==
    \A o \in Operations : op[o].handle \/ op[o].status = "succeeded" => o \in sent

RoundsKnow ==
    \A r \in Runners :
        /\ round[r].handle => round[r].op \in sent
        /\ round[r].verdict = "succeeded" => round[r].handle
        /\ round[r].at = "observing" => round[r].handle

NotYetSent == \A o \in sent : op[o].status \notin Unsent

\* A round before its write is the only one, and none has been before it.
FreshRounds ==
    \A r \in Runners : Fresh(r) =>
        /\ op[round[r].op].status \notin Unsent /\ round[r].op \notin sent
        /\ \A s \in Runners : Fresh(s) /\ round[s].op = round[r].op => s = r

ApprovedRounds ==
    \A r \in Runners : round[r].at \in {"validating", "committing", "sending"} =>
        Approved(round[r].op)

SentApproved == \A o \in sent : Approved(o)

LapsesTogether ==
    \A o \in Operations : Approved(o) /\ Of(o) \in expired => approval[o].lapsed

SendInv == /\ LeaseInFlight /\ SentIsKnown /\ RoundsKnow /\ NotYetSent
           /\ FreshRounds /\ ApprovedRounds /\ SentApproved

CountInv == LapsesTogether /\ RepairsCounted /\ OneRepairAtATime

\* What the steps do to what is not the ledger's.
LEMMA OtherMoves ==
    ASSUME [Next]_vars
    PROVE  /\ UNCHANGED sent \/ \E r \in Runners : Send(r)
           /\ cooled \subseteq cooled'
           /\ UNCHANGED expired \/ \E g \in Guardians : Expire(g)
           /\ UNCHANGED used \/ \E o \in Operations : Confirm(o)
           /\ UNCHANGED round \/ \E r \in Runners : Runs(r)
  <1> USE DEF guards, world, vars
  <1>1. ASSUME NEW c \in Checkers, Checks(c)
        PROVE  UNCHANGED <<sent, cooled, expired, used, round>>
    BY <1>1 DEF Checks, ClaimCheck, Probe, Recover, Observe, Propose, FinishCheck, BreakOff,
                StopChecking
  <1>2. ASSUME NEW r \in Runners, Runs(r)
        PROVE  /\ UNCHANGED <<cooled, expired, used>>
               /\ UNCHANGED sent \/ Send(r)
    BY <1>2 DEF Runs, TakeUp, Authorize, Validate, Commit, LookAtJob, FinishRound, StopRunning,
                Send
  <1>3. CASE Sweep \/ Administer
    <2>1. \A o \in Operations : Confirm(o) => UNCHANGED <<sent, cooled, expired, round>>
      BY DEF Confirm
    <2>2. \A o \in Operations : CancelRepair(o) => UNCHANGED <<sent, cooled, expired, used, round>>
      BY DEF CancelRepair
    <2> QED
      BY <1>3, <2>1, <2>2 DEF Administer, Sweep, Create, SetStatus, Resolve, Maintain
  <1>4. CASE TimePasses
    <2>1. \A o \in Operations : RepairTime(o) => UNCHANGED <<sent, cooled, expired, used, round>>
      BY DEF RepairTime
    <2>2. \A o \in Operations : CoolDown(o) =>
             cooled \subseteq cooled' /\ UNCHANGED <<sent, expired, used, round>>
      BY DEF CoolDown
    <2>3. \A g \in Guardians : Expire(g) => UNCHANGED <<sent, cooled, used, round>>
      BY DEF Expire
    <2> QED
      BY <1>4, <2>1, <2>2, <2>3 DEF TimePasses, CheckLate, LeaseLapses
  <1>5. CASE UNCHANGED vars
    BY <1>5
  <1> QED
    BY <1>1, <1>2, <1>3, <1>4, <1>5 DEF Next

\* A round is another runner's, goes on from what it was, or is a new one.
RoundMoved(s) ==
    \/ round'[s] = round[s]
    \/ round'[s].at = "idle" /\ ~round'[s].handle /\ round'[s].verdict = "failed"
    \/ /\ round'[s].op = round[s].op
       /\ \/ /\ round'[s].at \in {"validating", "committing", "sending"} /\ Fresh(s)
             /\ round[s].at # "sending"
             /\ Approved(round[s].op) \/ round[s].at \in {"validating", "committing"}
          \/ round'[s].at = "finishing" /\ round[s].at # "idle"
       /\ (round'[s].handle => round[s].handle \/ Send(s))
       /\ (round'[s].verdict = "succeeded" =>
               round'[s].handle /\ (round[s].verdict = "succeeded" \/ round[s].at = "observing"))

LEMMA RoundMoves ==
    ASSUME TypeOK, RoundsKnow, NEW r \in Runners, Runs(r), NEW s \in Runners
    PROVE  \/ RoundMoved(s)
           \/ s = r /\ TakeUp(s)
  <1> USE DEF RoundMoved
  <1>t. round \in [Runners -> RoundRows]
    BY DEF TypeOK, RoundsOK, RoundRows
  <1>k. /\ round[s].verdict = "succeeded" => round[s].handle
        /\ round[s].at = "observing" => round[s].handle
    BY DEF RoundsKnow
  <1>1. CASE s # r
    <2>1. UNCHANGED round \/ \E next : RunsOn(r, next)
      BY DEF Runs, TakeUp, Authorize, Validate, Commit, Send, LookAtJob, FinishRound, StopRunning
    <2> QED
      BY <1>1, <1>t, <2>1 DEF RunsOn
  <1>2. CASE s = r
    <2>a. \A next : RunsOn(s, next) => round'[s] = next
      BY <1>t DEF RunsOn
    <2>b. /\ \A there : /\ [round[s] EXCEPT !.at = there].at = there
                        /\ [round[s] EXCEPT !.at = there].op = round[s].op
                        /\ [round[s] EXCEPT !.at = there].handle = round[s].handle
                        /\ [round[s] EXCEPT !.at = there].verdict = round[s].verdict
          /\ \A v : /\ Ends(s, v).at = "finishing" /\ Ends(s, v).op = round[s].op
                    /\ Ends(s, v).handle = round[s].handle /\ Ends(s, v).verdict = v
          /\ \A there :
                LET next == [round[s] EXCEPT !.started = TRUE, !.at = there]
                IN /\ next.at = there /\ next.op = round[s].op
                   /\ next.handle = round[s].handle /\ next.verdict = round[s].verdict
      BY <1>t DEF RoundRows, Ends
    <2>1. CASE Authorize(s)
      <3>1. CASE RunsOn(s, [round[s] EXCEPT !.at = "validating"]) /\ Approved(round[s].op)
        <4>0. round'[s] = [round[s] EXCEPT !.at = "validating"]
          BY <3>1, <1>t DEF RunsOn
        <4>1. /\ round'[s].at \in {"validating", "committing", "sending"}
              /\ round'[s].op = round[s].op /\ round'[s].handle = round[s].handle
              /\ round'[s].verdict = round[s].verdict
          BY <4>0, <1>t DEF RoundRows
        <4>2. round[s].at = "authorizing"
          BY <2>1 DEF Authorize
        <4> QED
          BY <3>1, <4>1, <4>2, <1>k DEF Fresh
      <3>2. CASE RunsOn(s, Ends(s, "needs_attention")) \/ RunsOn(s, Ends(s, "failed"))
        BY <2>1, <3>2, <2>a, <2>b DEF Authorize
      <3> QED
        BY <2>1, <3>1, <3>2 DEF Authorize
    <2>2. CASE Validate(s)
      <3>1. CASE \E there \in {"committing", "sending"} :
                    RunsOn(s, [round[s] EXCEPT !.started = TRUE, !.at = there])
        <4>0. \E there \in {"committing", "sending"} :
                 round'[s] = [round[s] EXCEPT !.started = TRUE, !.at = there]
          BY <3>1, <1>t DEF RunsOn
        <4>1. /\ round'[s].at \in {"validating", "committing", "sending"}
              /\ round'[s].op = round[s].op /\ round'[s].handle = round[s].handle
              /\ round'[s].verdict = round[s].verdict
          BY <4>0, <1>t DEF RoundRows
        <4>2. round[s].at = "validating"
          BY <2>2 DEF Validate
        <4> QED
          BY <3>1, <4>1, <4>2, <1>k DEF Fresh
      <3>2. CASE RunsOn(s, Ends(s, "needs_attention"))
        BY <2>2, <3>2, <2>a, <2>b DEF Validate
      <3> QED
        BY <2>2, <3>1, <3>2 DEF Validate
    <2>3. CASE Commit(s)
      <3>1. CASE RunsOn(s, [round[s] EXCEPT !.at = "sending"])
        <4>0. round'[s] = [round[s] EXCEPT !.at = "sending"]
          BY <3>1, <1>t DEF RunsOn
        <4>1. /\ round'[s].at \in {"validating", "committing", "sending"}
              /\ round'[s].op = round[s].op /\ round'[s].handle = round[s].handle
              /\ round'[s].verdict = round[s].verdict
          BY <4>0, <1>t DEF RoundRows
        <4>2. round[s].at = "committing"
          BY <2>3 DEF Commit
        <4> QED
          BY <3>1, <4>1, <4>2, <1>k DEF Fresh
      <3>2. CASE RunsOn(s, Ends(s, "needs_attention"))
        BY <2>3, <3>2, <2>a, <2>b DEF Commit
      <3> QED
        BY <2>3, <3>1, <3>2 DEF Commit
    <2>4. CASE Send(s)
      <3>0. round[s].at = "sending"
        BY <2>4 DEF Send
      <3>1. CASE RunsOn(s, [Ends(s, "running") EXCEPT !.handle = TRUE])
        <4>1. PICK e : e = Ends(s, "running")
          OBVIOUS
        <4>2. round'[s] = [e EXCEPT !.handle = TRUE]
          BY <3>1, <4>1, <2>a
        <4>3. e \in RoundRows
          <5>1. round[s] \in RoundRows
            BY <1>t
          <5>2. "running" \in Statuses \ {"absent", "awaiting_approval", "queued"}
            BY DEF Statuses, InFlight
          <5> QED
            BY <4>1, <5>1, <5>2 DEF Ends, RoundRows
        <4>4. /\ round'[s].at = e.at /\ round'[s].op = e.op
              /\ round'[s].handle /\ round'[s].verdict = e.verdict
          BY <4>2, <4>3 DEF RoundRows
        <4>5. e.at = "finishing" /\ e.op = round[s].op /\ e.verdict = "running"
          BY <4>1, <2>b
        <4> QED
          BY <2>4, <3>0, <4>4, <4>5 DEF Fresh
      <3>2. ASSUME NEW verdict \in {"reconciling", "needs_attention"}, RunsOn(s, Ends(s, verdict))
            PROVE  RoundMoved(s)
        <4>1. round'[s] = Ends(s, verdict)
          BY <3>2, <2>a
        <4>2. /\ round'[s].at = "finishing" /\ round'[s].op = round[s].op
              /\ round'[s].handle = round[s].handle /\ round'[s].verdict = verdict
          BY <4>1, <2>b
        <4> QED
          BY <3>0, <4>2, <1>k DEF Fresh
      <3> QED
        BY <2>4, <3>1, <3>2 DEF Send
    <2>5. CASE LookAtJob(s)
      BY <2>5, <1>t, <1>k DEF LookAtJob, RunsOn, Ends, Fresh, RoundRows
    <2>6. CASE FinishRound(s) \/ StopRunning(s)
      BY <2>6, <1>t DEF FinishRound, StopRunning, RunsOn, NoRound
    <2> QED
      BY <1>2, <2>1, <2>2, <2>3, <2>4, <2>5, <2>6 DEF Runs
  <1> QED
    BY <1>1, <1>2

\* A new round observes what was sent, or has just taken an operation out of the queue.
LEMMA NewRound ==
    ASSUME TypeOK, SendInv, NEW r \in Runners, TakeUp(r)
    PROVE  \/ round'[r] = round[r]
           \/ /\ round'[r].at = "observing" /\ round'[r].handle
              /\ round'[r].op \in sent /\ round'[r].verdict = "failed"
           \/ /\ round'[r].at = "authorizing" /\ ~round'[r].handle
              /\ round'[r].verdict = "failed"
              /\ round'[r].op \in Operations
              /\ op[round'[r].op].status = "queued" /\ op'[round'[r].op].status \notin Unsent
  <1>1. PICK o \in Operations :
           \/ /\ Claim(r, o)
              /\ RunsOn(r, [NoRound EXCEPT !.op = o, !.started = op[o].started,
                              !.handle = op[o].handle,
                              !.at = IF op[o].handle THEN "observing" ELSE "authorizing"])
           \/ Refuse(o) /\ UNCHANGED round
    BY DEF TakeUp
  <1>t. /\ round \in [Runners -> RoundRows] /\ op \in [Operations -> RepairRows]
        /\ op[o].handle \in BOOLEAN /\ op[o].kind \notin HostControlled
    BY DEF TypeOK, RoundsOK, RoundRows, LedgerOK, RepairRows, HostControlled
  <1>2. CASE UNCHANGED round
    BY <1>2
  <1>3. CASE ~UNCHANGED round
    <2>1. /\ Claim(r, o)
          /\ round'[r] = [NoRound EXCEPT !.op = o, !.started = op[o].started,
                            !.handle = op[o].handle,
                            !.at = IF op[o].handle THEN "observing" ELSE "authorizing"]
      BY <1>1, <1>3, <1>t DEF RunsOn
    <2>2. CASE op[o].handle
      BY <2>1, <2>2, <1>t DEF NoRound, SendInv, SentIsKnown
    <2>3. CASE ~op[o].handle
      <3>1. op[o].status = "queued"
        BY <2>1, <2>3, <1>t DEF Claim, OutcomeUnknown
      <3>2. op'[o].status = "running"
        BY <2>1, <3>1, <1>t DEF Claim, RepairRows
      <3> QED
        BY <2>1, <2>3, <3>1, <3>2 DEF NoRound, Unsent
    <2> QED
      BY <2>2, <2>3, <1>t
  <1> QED
    BY <1>2, <1>3

LEMMA SendInit == ASSUME Init PROVE SendInv
  <1>1. \A o \in Operations : op[o] = NoOperation
    BY DEF Init, LedgerInit
  <1>2. sent = {} /\ \A r \in Runners : round[r] = NoRound
    BY DEF Init
  <1> QED
    BY <1>1, <1>2 DEF SendInv, LeaseInFlight, SentIsKnown, RoundsKnow, NotYetSent, FreshRounds,
                      ApprovedRounds, SentApproved, NoOperation, NoRound, Fresh

LEMMA SendStep ==
    ASSUME ConstantsOK, TypeOK, SendInv, [Next]_vars
    PROVE  SendInv'
  <1> USE DEF SendInv
  <1>m. \A o \in Operations : Moved(o)
    BY LedgerMoves
  <1>t. \A r \in Runners : round[r].at # "idle" => round[r].op \in Operations
    BY DEF TypeOK, RoundsOK
  <1>T. TypeOK'
    BY TypeStep
  <1>s. sent \subseteq sent' /\ sent \subseteq Operations /\ sent' \subseteq Operations
    BY OtherMoves, <1>T DEF Send, TypeOK, WorldOK
  <1>n. \A o \in sent' : o \notin sent => \E r \in Runners : Send(r) /\ round[r].op = o
    BY OtherMoves DEF Send
  <1>f. ASSUME NEW r \in Runners, Send(r) PROVE Fresh(r) /\ round'[r].at = "finishing"
    <2>1. round \in [Runners -> RoundRows]
      BY DEF TypeOK, RoundsOK, RoundRows
    <2>2. \E v : \/ RunsOn(r, Ends(r, v))
                \/ RunsOn(r, [Ends(r, v) EXCEPT !.handle = TRUE])
      BY <1>f DEF Send
    <2>3. \A v : Ends(r, v).at = "finishing" /\ [Ends(r, v) EXCEPT !.handle = TRUE].at = "finishing"
      BY <2>1 DEF Ends, RoundRows
    <2> QED
      BY <1>f, <2>1, <2>2, <2>3 DEF Send, Fresh, RunsOn
  <1>r. \A s \in Runners : RoundMoved(s) \/ TakeUp(s)
    BY OtherMoves, RoundMoves DEF RoundMoved
  <1>1. LeaseInFlight'
    BY <1>m DEF Moved, LeaseInFlight
  <1>2. SentIsKnown'
    <2>1. SUFFICES ASSUME NEW o \in Operations, op'[o].handle \/ op'[o].status = "succeeded"
                   PROVE  o \in sent'
      BY DEF SentIsKnown
    <2>2. \A r \in Runners : round[r].handle \/ round[r].verdict = "succeeded" => round[r].op \in sent
      BY DEF RoundsKnow
    <2> QED
      BY <2>1, <2>2, <1>m, <1>s DEF Moved, SentIsKnown
  <1>3. RoundsKnow'
    <2> SUFFICES ASSUME NEW s \in Runners
                 PROVE  /\ round'[s].handle => round'[s].op \in sent'
                        /\ round'[s].verdict = "succeeded" => round'[s].handle
                        /\ round'[s].at = "observing" => round'[s].handle
      BY DEF RoundsKnow
    <2>1. CASE RoundMoved(s)
      <3>1. Send(s) => round[s].op \in sent'
        BY DEF Send
      <3> QED
        BY <2>1, <3>1, <1>s DEF RoundMoved, RoundsKnow
    <2>2. CASE TakeUp(s)
      BY <2>2, <1>s, NewRound DEF RoundsKnow
    <2> QED
      BY <2>1, <2>2, <1>r
  <1>4. NotYetSent'
    <2>1. SUFFICES ASSUME NEW o \in sent', op'[o].status \in Unsent PROVE FALSE
      BY DEF NotYetSent
    <2>2. op[o].status \in Unsent
      BY <2>1, <1>m, <1>s DEF Moved
    <2> QED
      BY <2>1, <2>2, <1>n, <1>f DEF NotYetSent, FreshRounds
  <1>5. FreshRounds'
    <2>a. \A s \in Runners :
             \/ ~Fresh(s)'
             \/ Fresh(s) /\ round'[s].op = round[s].op
             \/ /\ round'[s].op \in Operations
                /\ op[round'[s].op].status = "queued" /\ op'[round'[s].op].status \notin Unsent
                /\ TakeUp(s)
      BY <1>r, NewRound DEF RoundMoved, Fresh
    <2>b. \A s \in Runners, r \in Runners : TakeUp(s) /\ r # s => round'[r] = round[r]
      BY DEF TakeUp, RunsOn, TypeOK, RoundsOK
    <2>c. \A s \in Runners : TakeUp(s) => sent' = sent
      BY DEF TakeUp, world
    <2> SUFFICES ASSUME NEW r \in Runners, Fresh(r)'
                 PROVE  /\ op'[round'[r].op].status \notin Unsent /\ round'[r].op \notin sent'
                        /\ \A s \in Runners :
                               Fresh(s)' /\ round'[s].op = round'[r].op => s = r
      BY DEF FreshRounds, Fresh
    <2>1. CASE Fresh(r) /\ round'[r].op = round[r].op
      <3>1. round[r].op \in Operations
        BY <2>1, <1>t DEF Fresh
      <3>2. op'[round[r].op].status \notin Unsent
        BY <2>1, <3>1, <1>m DEF Moved, FreshRounds
      <3>3. round[r].op \notin sent'
        <4>1. SUFFICES ASSUME NEW s \in Runners, Send(s), round[s].op = round[r].op PROVE FALSE
          BY <2>1, <1>n DEF FreshRounds
        <4>2. s = r
          BY <2>1, <4>1, <1>f DEF FreshRounds
        <4> QED
          BY <4>1, <4>2, <1>f DEF Fresh
      <3>4. ASSUME NEW s \in Runners, Fresh(s)', round'[s].op = round[r].op PROVE s = r
        <4>1. CASE Fresh(s) /\ round'[s].op = round[s].op
          BY <2>1, <3>4, <4>1 DEF FreshRounds
        <4>2. CASE op[round'[s].op].status = "queued"
          BY <2>1, <3>4, <4>2 DEF FreshRounds, Unsent
        <4> QED
          BY <2>a, <3>4, <4>1, <4>2
      <3> QED
        BY <2>1, <3>2, <3>3, <3>4
    <2>2. CASE /\ round'[r].op \in Operations
               /\ op[round'[r].op].status = "queued" /\ op'[round'[r].op].status \notin Unsent
               /\ TakeUp(r)
      <3>1. round'[r].op \notin sent'
        BY <2>2, <2>c DEF NotYetSent, Unsent
      <3>2. ASSUME NEW s \in Runners, Fresh(s)', round'[s].op = round'[r].op, s # r PROVE FALSE
        <4>1. Fresh(s) /\ round[s].op = round'[r].op
          BY <2>2, <2>b, <3>2 DEF Fresh
        <4> QED
          BY <2>2, <4>1 DEF FreshRounds, Unsent
      <3> QED
        BY <2>2, <3>1, <3>2
    <2> QED
      BY <2>a, <2>1, <2>2
  <1>6. ApprovedRounds'
    <2> SUFFICES ASSUME NEW s \in Runners,
                        round'[s].at \in {"validating", "committing", "sending"}
                 PROVE  approval'[round'[s].op].state # "none"
      BY DEF ApprovedRounds, Approved
    <2>1. CASE RoundMoved(s)
      <3>1. round[s].at # "idle" /\ round'[s].op = round[s].op /\ Approved(round[s].op)
        BY <2>1 DEF RoundMoved, ApprovedRounds, Fresh
      <3>2. round[s].op \in Operations
        BY <3>1, <1>t
      <3> QED
        BY <3>1, <3>2, <1>m DEF Moved, Approved
    <2>2. CASE TakeUp(s)
      <3>1. round'[s] = round[s]
        BY <2>2, NewRound
      <3>2. Approved(round[s].op) /\ round[s].op \in Operations
        BY <3>1, <1>t DEF ApprovedRounds
      <3> QED
        BY <3>1, <3>2, <1>m DEF Moved, Approved
    <2> QED
      BY <2>1, <2>2, <1>r
  <1>7. SentApproved'
    <2> SUFFICES ASSUME NEW o \in sent' PROVE Approved(o)'
      BY DEF SentApproved, Approved
    <2>1. Approved(o)
      <3>1. CASE o \in sent
        BY <3>1 DEF SentApproved
      <3>2. CASE o \notin sent
        <4>1. PICK r \in Runners : Send(r) /\ round[r].op = o
          BY <3>2, <1>n
        <4>2. round[r].at = "sending"
          BY <4>1 DEF Send
        <4> QED
          BY <4>1, <4>2 DEF ApprovedRounds
      <3> QED
        BY <3>1, <3>2
    <2> QED
      BY <2>1, <1>m, <1>s DEF Moved
  <1> QED
    BY <1>1, <1>2, <1>3, <1>4, <1>5, <1>6, <1>7

LEMMA CountInit == ASSUME ConstantsOK, Init PROVE CountInv
  <1>1. /\ \A o \in Operations : ~Approved(o)
        /\ \A g \in Guardians : used[g] = 0
    BY DEF Init, LedgerInit, Approved
  <1>2. \A o \in Operations : Of(o) \in Guardians /\ Number(o) \in Nat /\ Number(o) >= 1
    BY OperationType
  <1> QED
    BY <1>1, <1>2 DEF CountInv, LapsesTogether, RepairsCounted, OneRepairAtATime

\* Confirm finds the repair before: it is the latest one that was approved.
LEMMA ConfirmSettles ==
    ASSUME ConstantsOK, TypeOK, RepairsCounted, NEW o \in Operations, Confirm(o),
           NEW p \in Operations, Of(p) = Of(o), Number(p) = used[Of(o)]
    PROVE  op[p].status = "succeeded" /\ p \in cooled
  <1>1. Number(o) = used[Of(o)] + 1 /\ used[Of(o)] \in Nat
    BY OperationType DEF Confirm, TypeOK, GuardsOK
  <1>2. Approved(p) /\ p # o
    BY <1>1 DEF RepairsCounted
  <1>3. ASSUME NEW q \in Operations, Of(q) = Of(o), Approved(q) PROVE Number(q) =< Number(p)
    BY <1>3 DEF RepairsCounted
  <1>4. p \in Previous(o)
    BY <1>2, <1>3 DEF Previous
  <1> QED
    BY <1>4 DEF Confirm

LEMMA CountStep ==
    ASSUME ConstantsOK, TypeOK, SendInv, CountInv, [Next]_vars
    PROVE  CountInv'
  <1> USE DEF CountInv
  <1>m. \A o \in Operations : Moved(o)
    BY LedgerMoves DEF SendInv
  <1>o. \A o \in Operations : Of(o) \in Guardians /\ Number(o) \in Nat /\ o = <<Of(o), Number(o)>>
    BY OperationType
  <1>u. used \in [Guardians -> 0..MaxActions]
    BY DEF TypeOK, GuardsOK
  <1>s. sent \subseteq sent' /\ cooled \subseteq cooled'
    BY OtherMoves DEF Send
  <1>1. LapsesTogether'
    <2> SUFFICES ASSUME NEW o \in Operations, Approved(o)', Of(o) \in expired'
                 PROVE  approval'[o].lapsed
      BY DEF LapsesTogether
    <2>1. CASE Of(o) \in expired
      <3>1. ~Confirm(o)
        BY <2>1 DEF Confirm
      <3>2. Approved(o)
        BY <3>1, <1>m DEF Moved
      <3> QED
        BY <2>1, <3>2, <1>m DEF Moved, LapsesTogether
    <2>2. CASE Of(o) \notin expired
      <3>1. PICK g \in Guardians : Expire(g)
        BY <2>2, OtherMoves
      <3>2. Of(o) = g
        BY <2>2, <3>1 DEF Expire
      <3>3. Approved(o) \/ Confirm(o)
        BY <1>m DEF Moved
      <3>4. ~Confirm(o)
        BY <3>1, <3>2 DEF Confirm, Expire
      <3>5. approval'[o] = [approval[o] EXCEPT !.lapsed = TRUE]
        BY <3>1, <3>2, <3>3, <3>4 DEF Expire
      <3>6. approval[o] \in ApprovalRows
        BY DEF TypeOK, LedgerOK
      <3> QED
        BY <3>5, <3>6 DEF ApprovalRows
    <2> QED
      BY <2>1, <2>2
  <1>2. CASE UNCHANGED used
    <2>1. ASSUME NEW o \in Operations PROVE ~Confirm(o)
      BY <1>2, <1>o, <1>u DEF Confirm
    <2>2. RepairsCounted'
      BY <1>2, <2>1, <1>m DEF Moved, RepairsCounted, Approved
    <2>3. OneRepairAtATime'
      BY <1>2, <1>m, <1>s DEF Moved, OneRepairAtATime
    <2> QED
      BY <1>1, <2>2, <2>3
  <1>3. ASSUME NEW p \in Operations, Confirm(p) PROVE CountInv'
    <2>1. /\ Number(p) = used[Of(p)] + 1 /\ used' = [used EXCEPT ![Of(p)] = @ + 1]
          /\ approval' = [approval EXCEPT ![p].state = "given"]
      BY <1>3 DEF Confirm, Approve
    <2>2. used'[Of(p)] = used[Of(p)] + 1 /\ \A g \in Guardians : g # Of(p) => used'[g] = used[g]
      BY <2>1, <1>o, <1>u
    <2>3. Approved(p)' /\ \A o \in Operations : o # p => (Approved(o)' <=> Approved(o))
      BY <2>1 DEF Approved, TypeOK, LedgerOK, ApprovalRows
    <2>4. RepairsCounted'
      <3> SUFFICES ASSUME NEW o \in Operations
                   PROVE  Approved(o)' <=> Number(o) =< used'[Of(o)]
        BY DEF RepairsCounted
      <3>1. CASE o = p
        BY <2>1, <2>2, <2>3, <3>1, <1>o, <1>u
      <3>2. CASE o # p /\ Of(o) = Of(p)
        <4>1. Number(o) # Number(p)
          BY <3>2, <1>o
        <4>2. used[Of(p)] \in Nat
          BY <1>o, <1>u
        <4> QED
          BY <2>1, <2>2, <2>3, <3>2, <4>1, <4>2, <1>o DEF RepairsCounted
      <3>3. CASE Of(o) # Of(p)
        BY <2>2, <2>3, <3>3, <1>o DEF RepairsCounted
      <3> QED
        BY <3>1, <3>2, <3>3
    <2>5. OneRepairAtATime'
      <3> SUFFICES ASSUME NEW o \in Operations, Number(o) < used'[Of(o)]
                   PROVE  op'[o].status = "succeeded" /\ o \in sent' /\ o \in cooled'
        BY DEF OneRepairAtATime
      <3>1. op[o].status = "succeeded" /\ o \in sent /\ o \in cooled
        <4>1. CASE Number(o) < used[Of(o)]
          BY <4>1 DEF OneRepairAtATime
        <4>2. CASE ~(Number(o) < used[Of(o)])
          <5>1. Of(o) = Of(p) /\ Number(o) = used[Of(p)]
            BY <2>2, <4>2, <1>o, <1>u
          <5>2. op[o].status = "succeeded" /\ o \in cooled
            BY <1>3, <5>1, ConfirmSettles
          <5> QED
            BY <5>2 DEF SendInv, SentIsKnown
        <4> QED
          BY <4>1, <4>2
      <3> QED
        BY <3>1, <1>m, <1>s DEF Moved
    <2> QED
      BY <1>1, <2>4, <2>5
  <1> QED
    BY <1>2, <1>3, OtherMoves

RepairInv == TypeOK /\ SendInv /\ CountInv

LEMMA RepairCorrect ==
    ASSUME ConstantsOK
    PROVE  Spec => []RepairInv
  <1>1. Init => RepairInv
    BY TypeInit, SendInit, CountInit DEF RepairInv
  <1>2. RepairInv /\ [Next]_vars => RepairInv'
    BY TypeStep, SendStep, CountStep DEF RepairInv
  <1> QED
    BY <1>1, <1>2, PTL DEF Spec

\* The actions a guardian has used are its confirmed repairs, in their order.
THEOREM ActionsCounted ==
    ASSUME ConstantsOK
    PROVE  Spec => []RepairsCounted
  BY RepairCorrect, PTL DEF RepairInv, CountInv

\* A repair is confirmed only when the one before was sent, has succeeded, and has
\* been looked at for an interval: a guardian never has two under way.
THEOREM RepairsInTurn ==
    ASSUME ConstantsOK
    PROVE  Spec => []OneRepairAtATime
  BY RepairCorrect, PTL DEF RepairInv, CountInv

\* What is sent is a repair that its owner confirmed and the guardian counted.
THEOREM SendsConfirmed ==
    ASSUME ConstantsOK
    PROVE  Spec => []OnlyConfirmedSent
  <1>1. RepairInv => OnlyConfirmedSent
    BY DEF RepairInv, SendInv, CountInv, SentApproved, RepairsCounted, OnlyConfirmedSent, TypeOK,
           WorldOK
  <1> QED
    BY <1>1, RepairCorrect, PTL

\* The write of a repair is sent once at most, by whichever runner.
THEOREM SendsOnce ==
    ASSUME ConstantsOK
    PROVE  Spec => SentOnce
  <1>1. RepairInv => \A r \in Runners : Send(r) => round[r].op \notin sent
    BY DEF RepairInv, SendInv, FreshRounds, Fresh, Send
  <1>2. RepairInv /\ [Next]_vars =>
           [\A r \in Runners : Send(r) => round[r].op \notin sent]_vars
    BY <1>1
  <1> QED
    BY <1>2, RepairCorrect, PTL DEF Spec, SentOnce

\* The checkpoint before a write over SSH is refused once the guardian's time is
\* over: the approval of a repair lapses with its guardian.
THEOREM CommitsInTime ==
    ASSUME ConstantsOK
    PROVE  Spec => CommittedInTime
  <1>1. ASSUME RepairInv, Next, NEW r \in Runners,
               round[r].at = "committing", round'[r].at = "sending"
        PROVE  Of(round[r].op) \notin expired
    <2>1. round[r].op \in Operations /\ round \in [Runners -> RoundRows]
      BY <1>1 DEF RepairInv, TypeOK, RoundsOK, RoundRows
    <2>2. PICK s \in Runners : Runs(s)
      BY <1>1, OtherMoves
    <2>3. s = r
      <3>1. UNCHANGED round \/ \E next : RunsOn(s, next)
        BY <2>2 DEF Runs, TakeUp, Authorize, Validate, Commit, Send, LookAtJob, FinishRound,
                    StopRunning
      <3> QED
        BY <1>1, <2>1, <3>1 DEF RunsOn
    <2>4. Commit(r)
      <3>1. ~StopRunning(r)
        BY <1>1, <2>1 DEF StopRunning, RunsOn, NoRound
      <3> QED
        BY <1>1, <2>2, <2>3, <3>1
           DEF Runs, TakeUp, Authorize, Validate, Send, LookAtJob, FinishRound
    <2>5. CheckpointAccepted(r, round[r].op)
      BY <1>1, <2>1, <2>4 DEF Commit, RunsOn, Ends, RoundRows
    <2>6. Approved(round[r].op) /\ ~approval[round[r].op].lapsed
      BY <2>5 DEF CheckpointAccepted, Approved
    <2> QED
      BY <1>1, <2>1, <2>6 DEF RepairInv, CountInv, LapsesTogether
  <1>2. RepairInv /\ [Next]_vars =>
           [\A r \in Runners :
               round[r].at = "committing" /\ round'[r].at = "sending" =>
                  Of(round[r].op) \notin expired]_vars
    BY <1>1
  <1> QED
    BY <1>2, RepairCorrect, PTL DEF Spec, CommittedInTime

-----------------------------------------------------------------------------
(* Checks.                                                                 *)

\* A lease is held on what is active, or was when its time ended.
LeasedIsActive ==
    \A g \in Guardians :
        /\ lease[g] # Nobody => status[g] = "active" \/ (status[g] = "completed" /\ g \in expired)
        /\ status[g] = "completed" => g \in expired

\* The failures that a check was claimed with are those of the row while it has the
\* lease, and it has reported what it is going to count.
ChecksKnow ==
    \A c \in Checkers :
        LET g == check[c].g IN
        Busy(c) /\ lease[g] = c =>
            /\ check[c].failures = failures[g]
            /\ (check[c].at \in {"recovering", "proposing", "finishing"}
                  /\ check[c].outcome = "failed" /\ failures[g] + 1 >= Threshold)
               => g \in told

CheckInv == LeasedIsActive /\ ChecksKnow /\ FailuresReported

LEMMA CheckInit == ASSUME ConstantsOK, Init PROVE CheckInv
  <1>1. \A g \in Guardians : lease[g] = Nobody /\ status[g] = "absent" /\ failures[g] = 0
    BY DEF Init
  <1>2. \A c \in Checkers : ~Busy(c)
    BY DEF Init, NoCheck, Busy
  <1>3. ~(0 >= Threshold)
    BY DEF ConstantsOK
  <1> QED
    BY <1>1, <1>2, <1>3 DEF CheckInv, LeasedIsActive, ChecksKnow, FailuresReported

\* A check goes on, with what it was claimed with.
GoesOn(c) ==
    /\ \A d \in Checkers \ {c} : check'[d] = check[d]
    /\ check'[c].g = check[c].g /\ check'[c].failures = check[c].failures

\* A check that has nothing more to report.
Reported(c) ==
    /\ check[c].at \in {"recovering", "proposing", "finishing"} /\ check[c].outcome = "failed"
    /\ check[c].failures + 1 >= Threshold
    => check[c].g \in told

LEMMA GoesOnKeeps ==
    ASSUME ConstantsOK, TypeOK, CheckInv, NEW c \in Checkers, GoesOn(c), Busy(c),
           UNCHANGED <<lease, failures>>, told \subseteq told',
           lease[check[c].g] = c => Reported(c)'
    PROVE  ChecksKnow'
  <1> SUFFICES ASSUME NEW d \in Checkers, Busy(d)', lease'[check'[d].g] = d
               PROVE  /\ check'[d].failures = failures'[check'[d].g]
                      /\ check'[d].at \in {"recovering", "proposing", "finishing"}
                           /\ check'[d].outcome = "failed"
                           /\ failures'[check'[d].g] + 1 >= Threshold => check'[d].g \in told'
    BY DEF ChecksKnow
  <1>1. CASE d = c
    <2>1. check'[c].failures = failures'[check'[c].g]
      BY <1>1 DEF CheckInv, ChecksKnow, GoesOn
    <2>2. Reported(c)'
      BY <1>1 DEF GoesOn
    <2> QED
      BY <1>1, <2>1, <2>2 DEF Reported
  <1>2. CASE d # c
    BY <1>2 DEF CheckInv, ChecksKnow, GoesOn, Busy
  <1> QED
    BY <1>1, <1>2

\* A check that is over leaves the others what they know.
LEMMA EndKeeps ==
    ASSUME ConstantsOK, TypeOK, CheckInv, NEW c \in Checkers, NEW next \in CheckRows,
           ChecksOn(c, next), next.at \in {"idle", "gone"},
           UNCHANGED <<lease, failures, told>>
    PROVE  ChecksKnow'
  <1>1. ~Busy(c)' /\ \A d \in Checkers \ {c} : check'[d] = check[d]
    BY DEF ChecksOn, Busy, TypeOK, ChecksOK
  <1> QED
    BY <1>1 DEF CheckInv, ChecksKnow, Busy

LEMMA KnowStays ==
    ASSUME ChecksKnow, UNCHANGED <<check, lease, failures, told>> PROVE ChecksKnow'
  BY DEF ChecksKnow, Busy

LEMMA ReportStays ==
    ASSUME FailuresReported, UNCHANGED failures, told \subseteq told' PROVE FailuresReported'
  BY DEF FailuresReported

LEMMA ActiveStays ==
    ASSUME LeasedIsActive, UNCHANGED <<lease, status, expired>> PROVE LeasedIsActive'
  BY DEF LeasedIsActive

LEMMA CheckStep ==
    ASSUME ConstantsOK, TypeOK, CheckInv, [Next]_vars
    PROVE  CheckInv'
  <1> USE DEF CheckInv
  <1>t. /\ check \in [Checkers -> CheckRows]
        /\ \A c \in Checkers : Busy(c) => check[c].g \in Guardians
        /\ status \in [Guardians -> GuardianStatuses]
        /\ lease \in [Guardians -> Checkers \cup {Nobody}]
        /\ failures \in [Guardians -> Nat]
        /\ Nobody \notin Checkers /\ Threshold \in Nat \ {0}
    BY DEF TypeOK, ChecksOK, GuardsOK, CheckRows, ConstantsOK
  <1>i. NoCheck \in CheckRows /\ [NoCheck EXCEPT !.at = "gone"] \in CheckRows
        /\ NoCheck.at = "idle" /\ [NoCheck EXCEPT !.at = "gone"].at = "gone"
    <2>1. 0 \in 0..MaxActions
      BY DEF ConstantsOK
    <2> QED
      BY <2>1 DEF NoCheck, CheckRows
  <1>1. ASSUME NEW c \in Checkers, ClaimCheck(c) PROVE CheckInv'
    <2>1. PICK g \in Guardians :
             /\ status[g] \in {"scheduled", "active", "needs_attention"} /\ g \notin expired
             /\ status' = [h \in Guardians |-> IF h = g THEN "active" ELSE Swept(h)]
             /\ lease' = [lease EXCEPT ![g] = c]
             /\ ChecksOn(c, [NoCheck EXCEPT !.at = "probing", !.g = g,
                                            !.failures = failures[g], !.used = used[g]])
      BY <1>1 DEF ClaimCheck
    <2>2. UNCHANGED <<failures, told, expired>>
      BY <1>1 DEF ClaimCheck, world
    <2>3. /\ check'[c].at = "probing" /\ check'[c].g = g /\ check'[c].failures = failures[g]
          /\ \A d \in Checkers \ {c} : check'[d] = check[d]
      BY <2>1, <1>t DEF ChecksOn, NoCheck
    <2>4. ChecksKnow'
      BY <2>1, <2>2, <2>3, <1>t DEF ChecksKnow, Busy
    <2>5. LeasedIsActive'
      BY <2>1, <2>2, <1>t DEF LeasedIsActive, Swept
    <2> QED
      BY <2>2, <2>4, <2>5, ReportStays
  <1>2. ASSUME NEW c \in Checkers, Probe(c) PROVE CheckInv'
    <2>1. check[c].at = "probing" /\ Busy(c) /\ check[c] \in CheckRows
      BY <1>2, <1>t DEF Probe, Busy
    <2>2. UNCHANGED <<status, lease, failures, told, expired>>
      BY <1>2 DEF Probe, guards, world
    <2>3. PICK next :
             /\ ChecksOn(c, next)
             /\ \E there \in {"recovering", "observing", "finishing"},
                  out \in {"passed", "failed", "unknown"} :
                   /\ next = [Then(c, there) EXCEPT !.outcome = out]
                   /\ there # "observing" /\ out = "failed" => ~(check[c].failures + 1 >= Threshold)
      BY <1>2 DEF Probe
    <2>4. /\ next.g = check[c].g /\ next.failures = check[c].failures
          /\ next.at \in {"recovering", "proposing", "finishing"} /\ next.outcome = "failed"
               => ~(check[c].failures + 1 >= Threshold)
      BY <2>1, <2>3 DEF Then, CheckRows
    <2>5. GoesOn(c) /\ check'[c] = next
      BY <2>3, <2>4, <1>t DEF GoesOn, ChecksOn
    <2>6. Reported(c)'
      BY <2>4, <2>5 DEF Reported
    <2> QED
      BY <2>1, <2>2, <2>5, <2>6, GoesOnKeeps, ReportStays, ActiveStays
  <1>3. ASSUME NEW c \in Checkers, Recover(c) \/ Observe(c) PROVE CheckInv'
    <2>1. Busy(c) /\ check[c] \in CheckRows
      BY <1>3, <1>t DEF Recover, Observe, Busy
    <2>2. /\ UNCHANGED <<status, lease, failures, expired>> /\ told \subseteq told'
          /\ check[c].g \in told' \/ (told' = told /\ Recover(c))
      BY <1>3 DEF Recover, Observe, guards
    <2>3. PICK there \in {"proposing", "finishing"} : ChecksOn(c, Then(c, there))
      BY <1>3 DEF Recover, Observe
    <2>4. GoesOn(c) /\ check'[c].outcome = check[c].outcome
      BY <2>1, <2>3, <1>t DEF GoesOn, ChecksOn, Then, CheckRows
    <2>5. lease[check[c].g] = c => Reported(c)'
      <3>1. CASE check[c].g \in told'
        BY <2>4, <3>1 DEF Reported, GoesOn
      <3>2. CASE told' = told /\ Recover(c)
        BY <2>1, <2>4, <3>2 DEF Reported, Recover, GoesOn, ChecksKnow
      <3> QED
        BY <2>2, <3>1, <3>2
    <2> QED
      BY <2>1, <2>2, <2>4, <2>5, GoesOnKeeps, ReportStays, ActiveStays
  <1>4. ASSUME NEW c \in Checkers, Propose(c) PROVE CheckInv'
    <2>1. Busy(c) /\ check[c] \in CheckRows /\ check[c].at = "proposing"
      BY <1>4, <1>t DEF Propose, Busy
    <2>2. UNCHANGED <<status, lease, failures, expired, told>>
      BY <1>4 DEF Propose, guards, world
    <2>3. PICK b \in BOOLEAN : ChecksOn(c, [Then(c, "finishing") EXCEPT !.attention = b])
      BY <1>4 DEF Propose, Reports
    <2>4. GoesOn(c) /\ check'[c].outcome = check[c].outcome
      BY <2>1, <2>3, <1>t DEF GoesOn, ChecksOn, Then, CheckRows
    <2>5. lease[check[c].g] = c => Reported(c)'
      BY <2>1, <2>2, <2>4 DEF Reported, GoesOn, ChecksKnow
    <2> QED
      BY <2>1, <2>2, <2>4, <2>5, GoesOnKeeps, ReportStays, ActiveStays
  <1>5. ASSUME NEW c \in Checkers, FinishCheck(c) PROVE CheckInv'
    <2> DEFINE g == check[c].g
    <2>1. Busy(c) /\ check[c] \in CheckRows /\ g \in Guardians /\ check[c].at = "finishing"
      BY <1>5, <1>t DEF FinishCheck, Busy
    <2>2. ChecksOn(c, NoCheck) /\ expired' = expired
      BY <1>5 DEF FinishCheck
    <2>3. CASE ~HoldsCheck(c, g)
      <3>1. UNCHANGED <<status, lease, failures, told>>
        BY <1>5, <2>3 DEF FinishCheck
      <3> QED
        BY <2>2, <3>1, <1>i, EndKeeps, ReportStays, ActiveStays
    <2>4. CASE HoldsCheck(c, g)
      <3> DEFINE counted == CASE check[c].outcome = "passed"  -> 0
                              [] check[c].outcome = "failed"  -> failures[g] + 1
                              [] check[c].outcome = "unknown" -> failures[g]
      <3>1. /\ status' = [status EXCEPT ![g] = StatusAfter(c, g, counted)]
            /\ failures' = [failures EXCEPT ![g] = counted]
            /\ lease' = [lease EXCEPT ![g] = Nobody]
            /\ told' = IF check[c].outcome = "passed" THEN told \ {g} ELSE told
        BY <1>5, <2>4 DEF FinishCheck
      <3>2. lease[g] = c
        BY <2>4 DEF HoldsCheck
      <3>3. ~Busy(c)' /\ \A d \in Checkers \ {c} : check'[d] = check[d]
        BY <2>2, <1>t DEF ChecksOn, Busy, NoCheck
      <3>4. ChecksKnow'
        <4> SUFFICES ASSUME NEW d \in Checkers, Busy(d)', lease'[check'[d].g] = d
                     PROVE  /\ check'[d].failures = failures'[check'[d].g]
                            /\ check'[d].at \in {"recovering", "proposing", "finishing"}
                                 /\ check'[d].outcome = "failed"
                                 /\ failures'[check'[d].g] + 1 >= Threshold
                                 => check'[d].g \in told'
          BY DEF ChecksKnow
        <4>1. d # c /\ Busy(d) /\ check'[d] = check[d]
          BY <3>3 DEF Busy
        <4>2. check[d].g \in Guardians /\ check[d].g # g
          BY <2>1, <3>1, <4>1, <1>t
        <4>3. /\ lease[check[d].g] = d /\ failures'[check[d].g] = failures[check[d].g]
              /\ check[d].g \in told => check[d].g \in told'
          BY <2>1, <3>1, <4>1, <4>2, <1>t
        <4> QED
          BY <4>1, <4>3 DEF ChecksKnow
      <3>5. LeasedIsActive'
        <4>1. g \in expired => StatusAfter(c, g, counted) = "completed"
          BY DEF StatusAfter
        <4>2. g \notin expired => StatusAfter(c, g, counted) # "completed"
          BY <2>1 DEF StatusAfter, CheckRows
        <4> HIDE DEF counted
        <4> QED
          BY <2>1, <2>2, <3>1, <4>1, <4>2, <1>t DEF LeasedIsActive
      <3>6. FailuresReported'
        <4>1. ASSUME NEW h \in Guardians, h # g, failures'[h] >= Threshold PROVE h \in told'
          BY <3>1, <4>1, <1>t DEF FailuresReported
        <4>2. ASSUME failures'[g] >= Threshold PROVE g \in told'
          <5>1. failures'[g] = counted
            BY <2>1, <3>1, <1>t
          <5>2. CASE check[c].outcome = "passed"
            BY <4>2, <5>1, <5>2, <1>t
          <5>3. CASE check[c].outcome = "failed"
            BY <2>1, <3>1, <3>2, <4>2, <5>1, <5>3 DEF ChecksKnow
          <5>4. CASE check[c].outcome = "unknown"
            BY <2>1, <3>1, <4>2, <5>1, <5>4 DEF FailuresReported
          <5> QED
            BY <2>1, <5>2, <5>3, <5>4 DEF CheckRows
        <4> QED
          BY <4>1, <4>2 DEF FailuresReported
      <3> QED
        BY <3>4, <3>5, <3>6
    <2> QED
      BY <2>3, <2>4
  <1>6. ASSUME NEW c \in Checkers, BreakOff(c) \/ StopChecking(c) PROVE CheckInv'
    <2>1. UNCHANGED <<status, lease, failures, expired, told>>
      BY <1>6 DEF BreakOff, StopChecking, guards, world
    <2> QED
      BY <1>6, <2>1, <1>i, EndKeeps, ReportStays, ActiveStays DEF BreakOff, StopChecking
  <1>7. ASSUME NEW g \in Guardians, NEW new \in {"active", "paused", "cancelled"},
               SetStatus(g, new) PROVE CheckInv'
    <2>1. UNCHANGED <<failures, expired, check, told>>
      BY <1>7 DEF SetStatus, world
    <2>2. ChecksKnow'
      BY <1>7, <2>1, <1>t DEF SetStatus, ChecksKnow, Busy
    <2>3. LeasedIsActive'
      BY <1>7, <2>1, <1>t DEF SetStatus, LeasedIsActive
    <2> QED
      BY <2>1, <2>2, <2>3, ReportStays
  <1>8. ASSUME NEW g \in Guardians, Create(g) PROVE CheckInv'
    <2>1. UNCHANGED <<lease, failures, expired, check, told>>
      BY <1>8 DEF Create, world
    <2>2. LeasedIsActive'
      BY <1>8, <2>1, <1>t DEF Create, LeasedIsActive
    <2> QED
      BY <2>1, <2>2, ReportStays, KnowStays
  <1>9. CASE Sweep
    <2>1. UNCHANGED <<lease, failures, expired, check, told>>
      BY <1>9 DEF Sweep, world
    <2>2. LeasedIsActive'
      BY <1>9, <2>1, <1>t DEF Sweep, Swept, LeasedIsActive
    <2> QED
      BY <2>1, <2>2, ReportStays, KnowStays
  <1>10. ASSUME NEW c \in Checkers, CheckLate(c) PROVE CheckInv'
    <2>1. UNCHANGED <<status, lease, failures, expired, told>>
      BY <1>10 DEF CheckLate, world
    <2>2. Busy(c) /\ check[c] \in CheckRows
      BY <1>10, <1>t DEF CheckLate
    <2>3. GoesOn(c) /\ check'[c].outcome = check[c].outcome /\ check'[c].at = check[c].at
      BY <1>10, <2>2, <1>t DEF CheckLate, GoesOn, ChecksOn, CheckRows
    <2>4. lease[check[c].g] = c => Reported(c)'
      BY <2>1, <2>2, <2>3 DEF Reported, GoesOn, ChecksKnow
    <2> QED
      BY <2>1, <2>2, <2>3, <2>4, GoesOnKeeps, ReportStays, ActiveStays
  <1>11. ASSUME NEW g \in Guardians, Expire(g) PROVE CheckInv'
    <2>1. UNCHANGED <<status, lease, failures, check, told>> /\ expired \subseteq expired'
      BY <1>11 DEF Expire, world
    <2>2. LeasedIsActive'
      BY <2>1 DEF LeasedIsActive
    <2> QED
      BY <2>1, <2>2, ReportStays, KnowStays
  <1>12. CASE UNCHANGED <<status, lease, failures, expired, check, told>>
    BY <1>12, ReportStays, KnowStays, ActiveStays
  <1>13. ASSUME NEW r \in Runners, Runs(r)
         PROVE  UNCHANGED <<status, lease, failures, expired, check, told>>
    BY <1>13 DEF Runs, TakeUp, Authorize, Validate, Commit, Send, LookAtJob, FinishRound,
                 StopRunning, guards, world
  <1>14. ASSUME NEW o \in Operations, Confirm(o) \/ CancelRepair(o) \/ CoolDown(o) \/ RepairTime(o)
         PROVE  UNCHANGED <<status, lease, failures, expired, check, told>>
    BY <1>14 DEF Confirm, CancelRepair, CoolDown, RepairTime, guards, world
  <1>15. ASSUME Resolve \/ Maintain \/ UNCHANGED vars \/ \E g \in Guardians : LeaseLapses(g)
         PROVE  UNCHANGED <<status, lease, failures, expired, check, told>>
    BY <1>15 DEF Resolve, Maintain, LeaseLapses, guards, world, vars
  <1> QED
    BY <1>1, <1>2, <1>3, <1>4, <1>5, <1>6, <1>7, <1>8, <1>9, <1>10, <1>11, <1>12, <1>13,
       <1>14, <1>15 DEF Next, Checks, Administer, TimePasses

LEMMA CheckCorrect ==
    ASSUME ConstantsOK
    PROVE  Spec => [](TypeOK /\ CheckInv)
  <1>1. Init => TypeOK /\ CheckInv
    BY TypeInit, CheckInit
  <1>2. TypeOK /\ CheckInv /\ [Next]_vars => TypeOK' /\ CheckInv'
    BY TypeStep, CheckStep
  <1> QED
    BY <1>1, <1>2, PTL DEF Spec

\* A guardian does not count its threshold of failures without having told the
\* incident of its target: a check that counts one counts it under the lease with
\* which it was reported.
THEOREM FailuresAreReported ==
    ASSUME ConstantsOK
    PROVE  Spec => []FailuresReported
  BY CheckCorrect, PTL DEF CheckInv

\* A check that was under way when its guardian was paused, cancelled or completed
\* does not set it going again: it has lost its lease.
THEOREM StopsHold ==
    ASSUME ConstantsOK
    PROVE  Spec => StopsStay
  <1> DEFINE Stays(g) ==
        status[g] \in {"paused", "cancelled", "completed"} /\ status'[g] # status[g] =>
             \/ \E new \in {"active", "paused", "cancelled"} : SetStatus(g, new)
             \/ g \in expired /\ status'[g] = "completed"
  <1>1. ASSUME TypeOK, CheckInv, Next, NEW g \in Guardians PROVE Stays(g)
    <2>t. status \in [Guardians -> GuardianStatuses] /\ lease \in [Guardians -> Checkers \cup {Nobody}]
      BY <1>1 DEF TypeOK, GuardsOK
    <2>1. ASSUME NEW c \in Checkers, ClaimCheck(c) PROVE Stays(g)
      BY <2>1, <2>t DEF ClaimCheck, Swept
    <2>2. ASSUME NEW c \in Checkers, FinishCheck(c) PROVE Stays(g)
      <3> DEFINE h == check[c].g
      <3>1. \/ status' = status
            \/ \E new : lease[h] = c /\ status' = [status EXCEPT ![h] = new]
                        /\ (h \in expired => new = "completed")
        BY <2>2 DEF FinishCheck, HoldsCheck, StatusAfter
      <3>2. h \in Guardians /\ Nobody # c
        BY <2>2, <1>1 DEF FinishCheck, TypeOK, ChecksOK, Busy, ConstantsOK
      <3>3. lease[h] = c => status[h] = "active" \/ (status[h] = "completed" /\ h \in expired)
        BY <1>1, <3>2 DEF CheckInv, LeasedIsActive
      <3> QED
        BY <2>t, <3>1, <3>2, <3>3
    <2>3. CASE Sweep
      BY <2>3, <2>t DEF Sweep, Swept
    <2>4. ASSUME NEW h \in Guardians, Create(h) PROVE Stays(g)
      BY <2>4, <2>t DEF Create
    <2>5. ASSUME NEW h \in Guardians, NEW new \in {"active", "paused", "cancelled"},
                 SetStatus(h, new) PROVE Stays(g)
      <3>1. CASE h = g
        BY <2>5, <3>1
      <3>2. CASE h # g
        BY <2>5, <2>t, <3>2 DEF SetStatus
      <3> QED
        BY <3>1, <3>2
    <2>6. ASSUME NEW c \in Checkers, Checks(c), ~ClaimCheck(c), ~FinishCheck(c)
          PROVE  status' = status
      BY <2>6 DEF Checks, Probe, Recover, Observe, Propose, BreakOff, StopChecking, guards
    <2>7. ASSUME NEW r \in Runners, Runs(r) PROVE status' = status
      BY <2>7 DEF Runs, TakeUp, Authorize, Validate, Commit, Send, LookAtJob, FinishRound,
                  StopRunning, guards
    <2>8. ASSUME NEW o \in Operations, Confirm(o) \/ CancelRepair(o) \/ CoolDown(o) \/ RepairTime(o)
          PROVE  status' = status
      BY <2>8 DEF Confirm, CancelRepair, CoolDown, RepairTime, guards
    <2>9. ASSUME \/ Resolve \/ Maintain \/ \E c \in Checkers : CheckLate(c)
                 \/ \E h \in Guardians : LeaseLapses(h) \/ Expire(h)
          PROVE  status' = status
      BY <2>9 DEF Resolve, Maintain, CheckLate, LeaseLapses, Expire, guards
    <2>10. status' = status => Stays(g)
      OBVIOUS
    <2> HIDE DEF Stays
    <2> QED
      BY <1>1, <2>1, <2>2, <2>3, <2>4, <2>5, <2>6, <2>7, <2>8, <2>9, <2>10
         DEF Next, Administer, TimePasses
  <1>2. TypeOK /\ CheckInv /\ [Next]_vars => [\A g \in Guardians : Stays(g)]_vars
    BY <1>1
  <1> QED
    BY <1>2, CheckCorrect, PTL DEF Spec, StopsStay
=============================================================================
