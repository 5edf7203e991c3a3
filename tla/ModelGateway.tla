---------------------------- MODULE ModelGateway ----------------------------
(***************************************************************************)
(* The model gateway of one process (llm_gateway.py) with what it relies   *)
(* on: the circuits of ModelHealthRegistry, the readiness cache of the     *)
(* local model (local_model.py), the budget of a call (model_budget.py)    *)
(* and the durable charge of an OCR call (media_budget.py, quota.py).      *)
(*                                                                         *)
(* A call goes through the candidates of its preferred profile until one   *)
(* answers.  All calls run as tasks of one event loop: what a task does    *)
(* between two awaits is one step for the others, except that the calls of *)
(* the store and an administrator's start or stop of the local model run   *)
(* in threads.  "loop" names the task that is in the middle of choosing a  *)
(* candidate, which it does without awaiting.                              *)
(*                                                                         *)
(* The circuit of a profile is closed, open (cooling down) or half-open;   *)
(* in the last case one call may probe it.  Nothing in the registry says   *)
(* whose the probe is: a call that ends clears the flag of its profile     *)
(* whether it set it or not.                                               *)
(*                                                                         *)
(* An OCR call may cost its chat something, so it runs under a budget of   *)
(* one request, and its bound is charged to the chat in a transaction      *)
(* before the request is sent; the receipt, if there is one, corrects the  *)
(* charge afterwards.  What the provider really used ("uses") is decided   *)
(* when the request is sent and seen only if a receipt arrives.            *)
(***************************************************************************)
EXTENDS Integers, Sequences, FiniteSetsExt

CONSTANTS
    Calls,          \* calls of create_completion_with_profile
    Ocr,            \* those of VisionAdapter.recognize
    Streams,        \* those that ask for a stream
    Profiles,       \* ModelCatalog.profiles
    Route,          \* for each profile: itself, then its fallbacks in order
    Fits,           \* sets of profiles that a request may be offered
    NoBreaker,      \* profiles with circuit_breaker_enabled = False
    Local,          \* the profile of LocalModelRuntime, as a set of at most one
    FailureThreshold, \* failure_threshold
    MaxTokens,      \* model_max_tokens, the budget of an OCR call
    DailyLimit,     \* what OCR may be charged to the chat in a day
    Uses            \* what a request may really cost

GatewayConstantsOK ==
    /\ Ocr \subseteq Calls
    /\ Streams \subseteq Calls \ Ocr
    /\ Route \in [Profiles -> Seq(Profiles)]
    /\ Fits \subseteq SUBSET Profiles
    /\ NoBreaker \subseteq Profiles
    /\ Local \subseteq Profiles
    /\ FailureThreshold \in Nat \ {0}
    /\ MaxTokens \in Nat \ {0}
    /\ DailyLimit \in Nat
    /\ Uses \subseteq Nat

VARIABLES
    opened, failureCount, probed, last, \* ModelHealthRegistry._circuits; probed
                                        \*   has those with probe_in_flight
    phase, left, fit, probing,          \* the tasks: how far, candidates left,
                                        \*   the ones that fit; probing has
                                        \*   those that took a probe
    loop,                               \* the task that is choosing, if any
    bound, charged, uses, receipt,      \* an OCR call's ModelCallBudget
    usageRow, charge,                   \* its row in usage_events
    ready, fresh, command, revision,    \* LocalModelRuntime; command: how far
    generation,                         \*   an administrator's start or stop is
    probe,                              \* its probe_once in flight
    seen,                               \* LLMGateway._ready_generation
    wordOf                              \* history: the revision at which the
                                        \*   probe began that gave "ready"

circuits == <<opened, failureCount, probed, last>>
tasks == <<phase, left, fit, probing, loop>>
budgets == <<bound, charged, uses, receipt>>
rows == <<usageRow, charge>>
local == <<ready, fresh, command, revision, generation, probe, wordOf>>
gatewayVars == <<opened, failureCount, probed, last, phase, left, fit, probing, loop,
                 bound, charged, uses, receipt, usageRow, charge, ready, fresh, command,
                 revision, generation, probe, seen, wordOf>>

FailureKinds == {"network", "provider", "rate_limit", "model_unavailable", "refusal"}
Retryable == FailureKinds \ {"refusal"}
OpensAtOnce == {"rate_limit", "model_unavailable"}
CuredByReadiness == {"network", "model_unavailable"}

\* between acquire and release of a profile
Engaged == {"guarding", "reserving", "reserved", "asking", "priming", "streaming"}
Phases == Engaged \cup {"idle", "choosing", "closing", "settling", "done", "lost"}

GatewayInit ==
    /\ opened = [p \in Profiles |-> "closed"]
    /\ failureCount = [p \in Profiles |-> 0]
    /\ probed = {}
    /\ last = [p \in Profiles |-> ""]
    /\ phase = [c \in Calls |-> "idle"]
    /\ left = [c \in Calls |-> <<>>]
    /\ fit = [c \in Calls |-> {}]
    /\ probing = {}
    /\ loop = {}
    /\ bound = [c \in Calls |-> 0]
    /\ charged = [c \in Calls |-> 0]
    /\ uses = [c \in Calls |-> 0]
    /\ receipt = {}
    /\ usageRow = [c \in Calls |-> "none"]
    /\ charge = [c \in Calls |-> 0]
    /\ ready = FALSE /\ fresh = FALSE /\ command = "none"
    /\ revision = 0 /\ generation = 0 /\ probe = {} /\ seen = 0 /\ wordOf = 0

To(c, there) == phase' = [phase EXCEPT ![c] = there]

End(c, there) ==
    /\ To(c, there)
    /\ left' = [left EXCEPT ![c] = <<>>]
    /\ fit' = [fit EXCEPT ![c] = {}]
    /\ probing' = probing \ {c}

-----------------------------------------------------------------------------
(* Choosing a candidate.                                                   *)

\* "fit": configured, in the scope, able to serve the request, not excluded
Start(c) ==
    /\ loop = {}
    /\ phase[c] = "idle"
    /\ \E p \in Profiles, F \in Fits :
          /\ left' = [left EXCEPT ![c] = Route[p]]
          /\ fit' = [fit EXCEPT ![c] = F]
    /\ To(c, "choosing")
    /\ loop' = {c}
    /\ UNCHANGED <<circuits, probing, budgets, rows, local, seen>>

\* LocalModelRuntime.snapshot()["ready"]
Routable == ready /\ fresh /\ command = "none"

\* the candidate in question, and the profile an engaged call is at
Candidate(c) == Head(left[c])

HasCandidate(c) == loop = {c} /\ phase[c] = "choosing" /\ left[c] # <<>>

Offered(c) ==
    /\ HasCandidate(c)
    /\ Candidate(c) \in fit[c]
    /\ Candidate(c) \in Local => Routable

Skip(c) ==
    /\ HasCandidate(c)
    /\ ~Offered(c)
    /\ left' = [left EXCEPT ![c] = Tail(@)]
    /\ UNCHANGED <<circuits, phase, fit, probing, loop, budgets, rows, local, seen>>

\* readiness_recovered, when the gateway sees a new generation
Cured(p) == p \in Local /\ generation # seen /\ last[p] \in CuredByReadiness

See(p) == seen' = IF p \in Local THEN generation ELSE seen

CanAcquire(p) ==
    \/ p \in NoBreaker \/ Cured(p)
    \/ opened[p] = "closed"
    \/ opened[p] = "cooled" /\ p \notin probed

TakesProbe(p) == p \notin NoBreaker /\ ~Cured(p) /\ opened[p] # "closed"

SkipOpen(c) ==
    /\ Offered(c)
    /\ ~CanAcquire(Candidate(c))
    /\ See(Candidate(c))
    /\ left' = [left EXCEPT ![c] = Tail(@)]
    /\ UNCHANGED <<circuits, phase, fit, probing, loop, budgets, rows, local>>

Acquire(p) ==
    /\ opened' = [opened EXCEPT
          ![p] = IF p \in NoBreaker \/ Cured(p) THEN "closed" ELSE @]
    /\ failureCount' = [failureCount EXCEPT ![p] = IF Cured(p) THEN 0 ELSE @]
    /\ probed' = IF TakesProbe(p) THEN probed \cup {p}
                 ELSE IF p \in NoBreaker \/ Cured(p) THEN probed \ {p}
                 ELSE probed
    /\ UNCHANGED last

\* the first await: the budget's hook, or else the provider
Admit(c) ==
    /\ Offered(c)
    /\ CanAcquire(Candidate(c))
    /\ See(Candidate(c))
    /\ Acquire(Candidate(c))
    /\ probing' = IF TakesProbe(Candidate(c)) THEN probing \cup {c}
                                               ELSE probing \ {c}
    /\ To(c, IF c \in Ocr THEN "guarding" ELSE "asking")
    /\ loop' = {}
    /\ UNCHANGED <<left, fit, budgets, rows, local>>

GiveUp(c) ==
    /\ loop = {c}
    /\ phase[c] = "choosing"
    /\ left[c] = <<>>
    /\ End(c, "done")
    /\ loop' = {}
    /\ UNCHANGED <<circuits, budgets, rows, local, seen>>

-----------------------------------------------------------------------------
(* The budget and the charge of an OCR call.                               *)

\* before_request returned; ModelCallBudget.prepare, for one request at most
PrepareCharge(c) ==
    /\ loop = {}
    /\ phase[c] = "guarding"
    /\ bound[c] = 0
    /\ \E tokens \in 1 .. MaxTokens - charged[c] :
          /\ bound' = [bound EXCEPT ![c] = tokens]
          /\ charged' = [charged EXCEPT ![c] = @ + tokens]
    /\ To(c, "reserving")
    /\ UNCHANGED <<circuits, left, fit, probing, loop, uses, receipt, rows, local, seen>>

ChargedToChat == MapThenSumSet(LAMBDA c : charge[c], Calls)

\* OCRUsage.reserve: one transaction under the advisory lock of the chat
Reserve(c) ==
    /\ phase[c] = "reserving"
    /\ ChargedToChat + bound[c] =< DailyLimit
    /\ usageRow' = [usageRow EXCEPT ![c] = "bound"]
    /\ charge' = [charge EXCEPT ![c] = bound[c]]
    /\ To(c, "reserved")
    /\ UNCHANGED <<circuits, left, fit, probing, loop, budgets, local, seen>>

Ask(c) ==
    /\ loop = {}
    /\ phase[c] = "reserved"
    /\ \E n \in Uses : uses' = [uses EXCEPT ![c] = n]
    /\ To(c, "asking")
    /\ UNCHANGED <<circuits, left, fit, probing, loop, bound, charged, receipt, rows,
                   local, seen>>

\* CallReservation.finish with the usage of the response, if it has one
Finish(c) ==
    \/ /\ receipt' = receipt \cup {c}
       /\ charged' = [charged EXCEPT ![c] = @ + uses[c] - bound[c]]
    \/ UNCHANGED <<receipt, charged>>

\* OCRUsage.settle: a receipt replaces the bound
Settle(c) ==
    /\ phase[c] = "settling"
    /\ IF c \in receipt
       THEN /\ usageRow' = [usageRow EXCEPT ![c] = "settled"]
            /\ charge' = [charge EXCEPT ![c] = uses[c]]
       ELSE UNCHANGED rows
    /\ End(c, "done")
    /\ UNCHANGED <<circuits, loop, budgets, local, seen>>

-----------------------------------------------------------------------------
(* The provider's answers.                                                 *)

Succeed(p) ==
    /\ opened' = [opened EXCEPT ![p] = "closed"]
    /\ failureCount' = [failureCount EXCEPT ![p] = 0]
    /\ probed' = probed \ {p}
    /\ last' = [last EXCEPT ![p] = ""]

Counted(p) == IF failureCount[p] < FailureThreshold THEN failureCount[p] + 1 ELSE FailureThreshold

ShouldOpen(p, kind) ==
    /\ p \notin NoBreaker
    /\ kind \in Retryable
    /\ kind \in OpensAtOnce \/ Counted(p) = FailureThreshold

Failure(p, kind) ==
    /\ opened' = [opened EXCEPT ![p] = IF ShouldOpen(p, kind) THEN "open" ELSE @]
    /\ failureCount' = [failureCount EXCEPT
          ![p] = IF kind \in Retryable THEN Counted(p) ELSE @]
    /\ probed' = probed \ {p}
    /\ last' = [last EXCEPT ![p] = kind]

Release(p) ==
    /\ probed' = probed \ {p}
    /\ UNCHANGED <<opened, failureCount, last>>

\* a failure that may be retried leaves the other candidates, others none
Advance(c, kind) ==
    left' = [left EXCEPT ![c] = IF kind \in Retryable THEN Tail(@) ELSE <<>>]

Answer(c) ==
    /\ loop = {}
    /\ phase[c] = "asking"
    /\ c \notin Streams
    /\ Succeed(Candidate(c))
    /\ IF c \in Ocr THEN End(c, "settling") /\ Finish(c)
                    ELSE End(c, "done") /\ UNCHANGED <<receipt, charged>>
    /\ UNCHANGED <<loop, bound, uses, rows, local, seen>>

\* the response is a stream; then its first content arrives
OpenStream(c) ==
    /\ loop = {}
    /\ c \in Streams
    /\ \/ phase[c] = "asking" /\ To(c, "priming")
       \/ phase[c] = "priming" /\ To(c, "streaming")
    /\ UNCHANGED <<circuits, left, fit, probing, loop, budgets, rows, local, seen>>

\* LLMError or a timeout of the provider; a bad configuration is a refusal
Fail(c) ==
    /\ loop = {}
    /\ \E kind \in FailureKinds :
          /\ phase[c] = "asking" \/ (phase[c] = "guarding" /\ kind = "refusal")
          /\ Failure(Candidate(c), kind)
          /\ Advance(c, kind)
    /\ To(c, "choosing")
    /\ loop' = {c}
    /\ UNCHANGED <<fit, probing, budgets, rows, local, seen>>

\* the same before the first content; the transport is then closed
FailPriming(c) ==
    /\ loop = {}
    /\ phase[c] = "priming"
    /\ \E kind \in FailureKinds : Failure(Candidate(c), kind) /\ Advance(c, kind)
    /\ To(c, "closing")
    /\ UNCHANGED <<fit, probing, loop, budgets, rows, local, seen>>

CloseRaw(c) ==
    /\ loop = {}
    /\ phase[c] = "closing"
    /\ To(c, "choosing")
    /\ loop' = {c}
    /\ UNCHANGED <<circuits, left, fit, probing, budgets, rows, local, seen>>

EndStream(c) ==
    /\ loop = {}
    /\ phase[c] = "streaming"
    /\ \/ Succeed(Candidate(c))
       \/ \E kind \in FailureKinds : Failure(Candidate(c), kind)
    /\ End(c, "done")
    /\ UNCHANGED <<loop, budgets, rows, local, seen>>

\* cancelled, refused by a hook, out of budget, lease lost, closed early
Interrupt(c) ==
    /\ loop = {}
    /\ phase[c] \in Engaged
    /\ Release(Candidate(c))
    /\ End(c, "done")
    /\ UNCHANGED <<loop, budgets, rows, local, seen>>

\* cancelled while it only tidies up
Abandon(c) ==
    /\ loop = {}
    /\ phase[c] \in {"closing", "settling"}
    /\ End(c, "done")
    /\ UNCHANGED <<circuits, loop, budgets, rows, local, seen>>

-----------------------------------------------------------------------------
(* Time, the local model and the process.                                  *)

CircuitCools(p) ==
    /\ opened[p] = "open"
    /\ opened' = [opened EXCEPT ![p] = "cooled"]
    /\ UNCHANGED <<failureCount, probed, last, tasks, budgets, rows, local, seen>>

\* probe_once: the revision is read first, compared when the answer is in
BeginProbe ==
    /\ loop = {}
    /\ Local # {}
    /\ probe = {}
    /\ probe' = {revision}
    /\ UNCHANGED <<ready, fresh, command, revision, generation, wordOf>>

EndProbe ==
    /\ loop = {}
    /\ \E began \in probe :
          IF began = revision
          THEN /\ ready' \in BOOLEAN
               /\ fresh' = TRUE
               /\ wordOf' = began
               /\ generation' = IF ready' /\ ~Routable THEN generation + 1
                                                       ELSE generation
          ELSE UNCHANGED <<ready, fresh, wordOf, generation>>
    /\ probe' = {}
    /\ UNCHANGED <<command, revision>>

\* no probe for three intervals
GoStale ==
    /\ fresh
    /\ fresh' = FALSE
    /\ UNCHANGED <<ready, command, revision, generation, probe, wordOf>>

\* control, in a thread; AdminControlStore.mutate lets one command in at a time
BeginCommand ==
    /\ Local # {}
    /\ command = "none"
    /\ command' = "sent"
    /\ revision' = revision + 1
    /\ UNCHANGED <<ready, fresh, generation, probe, wordOf>>

\* accepted or not confirmed: not ready in both cases
CommandAnswered ==
    /\ command = "sent"
    /\ command' = "answered"
    /\ ready' = FALSE
    /\ UNCHANGED <<fresh, revision, generation, probe, wordOf>>

\* its "finally", which takes the lock anew
EndCommand ==
    /\ command = "answered"
    /\ command' = "none"
    /\ revision' = revision + 1
    /\ UNCHANGED <<ready, fresh, generation, probe, wordOf>>

\* everything but the rows is RAM
Crash ==
    /\ opened' = [p \in Profiles |-> "closed"]
    /\ failureCount' = [p \in Profiles |-> 0]
    /\ probed' = {}
    /\ last' = [p \in Profiles |-> ""]
    /\ phase' = [c \in Calls |->
          IF phase[c] \in {"idle", "done"} THEN phase[c] ELSE "lost"]
    /\ left' = [c \in Calls |-> <<>>]
    /\ fit' = [c \in Calls |-> {}]
    /\ probing' = {}
    /\ loop' = {}
    /\ ready' = FALSE /\ fresh' = FALSE /\ command' = "none"
    /\ revision' = 0 /\ generation' = 0 /\ probe' = {} /\ seen' = 0 /\ wordOf' = 0
    /\ UNCHANGED <<budgets, rows>>

-----------------------------------------------------------------------------

Choose(c) == Skip(c) \/ SkipOpen(c) \/ Admit(c) \/ GiveUp(c)

Pay(c) == PrepareCharge(c) \/ Reserve(c) \/ Ask(c) \/ Settle(c)

Receive(c) ==
    Answer(c) \/ OpenStream(c) \/ Fail(c) \/ FailPriming(c) \/ CloseRaw(c) \/ EndStream(c)

Break(c) == Interrupt(c) \/ Abandon(c)

LocalModel ==
    /\ \/ BeginProbe \/ EndProbe \/ GoStale
       \/ BeginCommand \/ CommandAnswered \/ EndCommand
    /\ UNCHANGED <<circuits, tasks, budgets, rows, seen>>

GatewayNext ==
    \/ \E c \in Calls : Start(c) \/ Choose(c) \/ Pay(c) \/ Receive(c) \/ Break(c)
    \/ \E p \in Profiles : CircuitCools(p)
    \/ LocalModel
    \/ Crash

GatewaySpec == GatewayInit /\ [][GatewayNext]_gatewayVars

\* requests have timeouts, and the caller of a stream closes it
Fairness ==
    \A c \in Calls : WF_gatewayVars(Choose(c) \/ Pay(c) \/ Receive(c) \/ Break(c))

FairSpec == GatewaySpec /\ Fairness

-----------------------------------------------------------------------------
(* Properties.                                                             *)

CircuitsOK ==
    /\ opened \in [Profiles -> {"closed", "open", "cooled"}]
    /\ failureCount \in [Profiles -> Nat]
    /\ probed \subseteq Profiles
    /\ last \in [Profiles -> FailureKinds \cup {""}]

TasksOK ==
    /\ phase \in [Calls -> Phases]
    /\ left \in [Calls -> Seq(Profiles)]
    /\ fit \in [Calls -> SUBSET Profiles]
    /\ probing \subseteq Calls
    /\ loop \subseteq Calls

MoneyOK ==
    /\ bound \in [Calls -> Nat]
    /\ charged \in [Calls -> Int]
    /\ uses \in [Calls -> Nat]
    /\ receipt \subseteq Calls
    /\ usageRow \in [Calls -> {"none", "bound", "settled"}]
    /\ charge \in [Calls -> Nat]

LocalOK ==
    /\ ready \in BOOLEAN /\ fresh \in BOOLEAN
    /\ command \in {"none", "sent", "answered"}
    /\ revision \in Nat /\ generation \in Nat /\ seen \in Nat /\ wordOf \in Nat
    /\ probe \subseteq Nat

GatewayTypeOK == CircuitsOK /\ TasksOK /\ MoneyOK /\ LocalOK

\* call c has taken the probe of p and is between acquire and release
Probes(c, p) ==
    phase[c] \in Engaged /\ c \in probing /\ left[c] # <<>> /\ Candidate(c) = p

\* A half-open profile that says it is being probed really is.  A flag without
\* a call behind it would keep every later call away from the profile until the
\* process restarts (llm_gateway.py:154-161,739-742).
NoDeadProbe == \A p \in probed : \E c \in Calls : Probes(c, p)

Overran(c) == uses[c] > bound[c]

\* Whatever interrupts an OCR call, and whether a receipt arrives or not, a
\* request that was sent has its durable charge, and the charge covers what
\* the request used unless the provider went over the bound
\* (media_budget.py:18-49, model_budget.py:106-113).
NothingFree ==
    \A c \in Ocr : uses[c] > 0 =>
        /\ usageRow[c] # "none"
        /\ charge[c] >= uses[c] \/ Overran(c)

\* A budget is not exceeded, and nothing of it is given back without a receipt
\* (model_budget.py:106-113,188-215).
BudgetKept ==
    \A c \in Ocr :
        /\ charged[c] =< MaxTokens \/ Overran(c)
        /\ charged[c] >= uses[c] \/ Overran(c)
        /\ c \in receipt \/ charged[c] = bound[c]

\* The chat's daily limit holds for all its OCR calls together
\* (media_budget.py:26-39).
QuotaKept == ChargedToChat =< DailyLimit \/ \E c \in Ocr : Overran(c)

\* The local model is offered to calls only on the word of a probe that began
\* after the last start or stop was sent: none begun before a command reopens
\* the gate (local_model.py:132-139,146-181).  A command adds two to the
\* revision, one when it is sent and one when it is over.
GateFollowsCommand == Routable => wordOf >= revision - 1

\* Every probe of a half-open profile comes to an end.
ProbesEnd == \A p \in Profiles : p \in probed ~> p \notin probed

\* Every call comes to an end.
CallsEnd == \A c \in Calls : phase[c] # "idle" ~> phase[c] \in {"done", "lost"}
=============================================================================
