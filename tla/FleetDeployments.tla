-------------------------- MODULE FleetDeployments --------------------------
(***************************************************************************)
(* Deployers (cluster_deployer/) that drive the ledger of DeploymentStore  *)
(* over HTTP and switch the hosts over SSH.                                *)
(*                                                                         *)
(* A deployer works on one deployment at a time.  Each step of it is one   *)
(* call to the control plane or one remote command; between two steps the  *)
(* rows, the lease and the hosts may change under it.  A lease guard       *)
(* renews the lease beside that work; it stops for good when it learns of  *)
(* a cancellation or cannot renew.                                         *)
(*                                                                         *)
(* A call that fails may or may not have been applied.  A switch that is   *)
(* stopped or fails may or may not have switched its host, or goes on      *)
(* there: what is killed is the local ssh client (ProcessRunner._terminate *)
(* and the timeouts of nix_host.py), and nothing says when its remote side *)
(* ends.                                                                   *)
(***************************************************************************)
EXTENDS DeploymentStore

CONSTANTS
    Base,           \* the system closure every host starts with
    RollsBack,      \* deployments with failure_policy = "rollback_deployed"
    Flaky,          \* hosts to which a copy may fail without counting as a fault
    MaxTrouble      \* bound on failing calls and commands, crashes, cancels

ASSUME FleetAssumption ==
    /\ Base \notin Deployments
    /\ RollsBack \subseteq Deployments
    /\ Flaky \subseteq Hosts
    /\ MaxTrouble \in Nat

VARIABLES
    proc,           \* what each deployer is doing
    diskReceipts,   \* completions a deployer keeps on disk: its receipts directory
    host,           \* the closure each host runs: the deployment that built it, or Base
    seen,           \* the version of each deployment its reviewer last looked at
    touched,        \* history: the hosts on which a deployment started its activation
    adrift,         \* switches that outlived their ssh client; over once they have taken effect
    trouble

procVars == <<proc, diskReceipts, host, seen, touched, adrift, trouble>>
fleetVars == <<storeVars, procVars>>

Closures == Deployments \cup {Base}

\* at counts through Order[dep] and cursor through the hosts to be skipped;
\* found is the evidence gathered so far, fate what became of the apply.
Resting == [dep |-> Nobody, fence |-> 0, pc |-> "idle", at |-> 0, guard |-> "on",
            cursor |-> 0, found |-> <<>>, fate |-> "ok"]

FleetInit ==
    /\ StoreInit
    /\ proc = [p \in Deployers |-> Resting]
    /\ diskReceipts = [p \in Deployers |-> {}]
    /\ host = [h \in Hosts |-> Base]
    /\ seen = [d \in Deployments |-> 0]
    /\ touched = [d \in Deployments |-> {}]
    /\ adrift = {}
    /\ trouble = 0

Interfere == trouble < MaxTrouble /\ trouble' = trouble + 1

-----------------------------------------------------------------------------
(* The control plane and the administrators.                               *)

Administer(d) ==
    \/ Prepare(d) /\ UNCHANGED procVars
    \/ /\ dep[d].status \in {"preflight_queued", "awaiting_approval"}    \* has a look
       /\ seen[d] # dep[d].version
       /\ seen' = [seen EXCEPT ![d] = dep[d].version]
       /\ UNCHANGED <<storeVars, proc, diskReceipts, host, touched, adrift, trouble>>
    \/ Approve(d, seen[d]) /\ UNCHANGED procVars
    \/ Cancel(d) /\ Interfere /\ UNCHANGED <<proc, diskReceipts, host, seen, touched, adrift>>

\* A deadline matters only while it is going to be read.
TimePasses(d) ==
    /\ \/ /\ dep[d].status \in Waiting \/ \E p \in Deployers : proc[p].pc = "start" /\ proc[p].dep = d
          /\ DeadlinePasses(d)
       \/ ApprovalLapses(d)
    /\ UNCHANGED procVars

\* A lease is renewed every 20 of its 120 seconds and a renewal fails within
\* 30, after which the running command is killed here within 5: it runs out only when
\* nobody renews it and its deployer waits for no command any more.
LeaseEnds(d) ==
    /\ \A p \in Deployers : proc[p].dep = d /\ proc[p].fence = dep[d].fence =>
            proc[p].guard # "on" /\ proc[p].pc \notin {"switching", "restoring"}
    /\ LeaseRunsOut(d)
    /\ UNCHANGED procVars

-----------------------------------------------------------------------------
(* Calls of a deployer.                                                    *)

HoldsFence(p) == HoldsLease(p, proc[p].dep, proc[p].fence)

\* The deployments a deployer asks for: claim(backend = "ssh").
SshBacked == Deployments \ OpsBacked

Goes(p, to) == proc' = [proc EXCEPT ![p] = to]

\* The host the deployer is at, and the host it skips.
Here(p) == Order[proc[p].dep][proc[p].at]
Skipped(p) == Order[proc[p].dep][proc[p].cursor]

\* One update_target call: it is applied and the deployer goes on (yes), it is
\* refused, or it fails on the way there or back (no).
Tell(p, h, s, yes, no) ==
    LET d == proc[p].dep
        accepted == TargetUpdateAccepted(p, d, proc[p].fence, h, s)
    IN /\ \/ accepted /\ UpdateTarget(d, h, s) /\ Goes(p, yes) /\ UNCHANGED trouble
          \/ ~accepted /\ UNCHANGED storeVars /\ Goes(p, no) /\ UNCHANGED trouble
          \/ /\ Interfere
             /\ UNCHANGED storeVars \/ (accepted /\ UpdateTarget(d, h, s))
             /\ Goes(p, no)
       /\ UNCHANGED <<diskReceipts, host, seen, touched, adrift>>

GuardOn(p) == proc[p].guard = "on"
To(p, pc) == [proc[p] EXCEPT !.pc = pc]

\* guard.check() raises: LeaseLost ends the work without a word to the control
\* plane, DeploymentCancelled goes its own way.
Stopped(p, cancelled) == IF proc[p].guard = "lost" THEN Resting ELSE cancelled

\* A command that only reads, builds or copies: it succeeds, fails, or is stopped.
Runs(p, succeeds, ok, failed, cancelled) ==
    /\ \/ GuardOn(p) /\ Goes(p, IF succeeds THEN ok ELSE failed) /\ UNCHANGED trouble
       \/ GuardOn(p) /\ succeeds /\ Goes(p, failed) /\ Interfere
       \/ ~GuardOn(p) /\ Goes(p, Stopped(p, cancelled)) /\ UNCHANGED trouble
    /\ UNCHANGED <<storeVars, diskReceipts, host, seen, touched, adrift>>

\* The ssh client of a switch of d has ended without an exit status: the host is as it was, or
\* switched, or the switch goes on there.
Severed(d, h, to) ==
    \/ \E c \in {host[h], to} : host' = [host EXCEPT ![h] = c] /\ UNCHANGED adrift
    \/ /\ adrift' = adrift \cup {[dep |-> d, host |-> h, to |-> to, over |-> FALSE]}
       /\ UNCHANGED host

\* A switch-to-configuration on the host the deployer is at, under way.
Switches(p, to, ok, failed, cancelled) ==
    /\ \/ /\ GuardOn(p) /\ host' = [host EXCEPT ![Here(p)] = to]
          /\ Goes(p, ok) /\ UNCHANGED <<adrift, trouble>>
       \/ /\ \/ GuardOn(p) /\ Goes(p, failed) /\ Interfere
             \/ ~GuardOn(p) /\ Goes(p, Stopped(p, cancelled)) /\ UNCHANGED trouble
          /\ Severed(proc[p].dep, Here(p), to)
    /\ UNCHANGED <<storeVars, diskReceipts, seen, touched>>

\* A switch that nobody waits for takes effect, at any time or never: after the row has ended,
\* after the lease, and while another deployment has the host.
AdriftLands(s) ==
    /\ s \in adrift /\ ~s.over
    /\ host' = [host EXCEPT ![s.host] = s.to]
    /\ adrift' = (adrift \ {s}) \cup {[s EXCEPT !.over = TRUE]}
    /\ UNCHANGED <<storeVars, proc, diskReceipts, seen, touched, trouble>>

\* claim, after the flush of the receipts (which gives up when the control plane
\* cannot be reached).
ClaimDeployment(p) ==
    /\ proc[p].pc = "idle"
    /\ \E d \in SshBacked \cup {Nobody} :
        /\ ClaimRow(p, SshBacked, d)
        /\ dep' # dep
        /\ IF d = Nobody THEN UNCHANGED proc
           ELSE Goes(p, [Resting EXCEPT !.dep = d, !.fence = dep'[d].fence, !.pc = "start", !.at = 1])
    /\ IF diskReceipts[p] = {} THEN UNCHANGED trouble ELSE Interfere
    /\ UNCHANGED <<diskReceipts, host, seen, touched, adrift>>

\* The answer to a claim is lost: nobody knows of the lease.
ClaimAnswerLost(p) ==
    /\ proc[p].pc = "idle"
    /\ Interfere
    /\ \E d \in SshBacked : ClaimRow(p, SshBacked, d)
    /\ UNCHANGED <<proc, diskReceipts, host, seen, touched, adrift>>

\* DeploymentService.claim: the policy changed since the deployment was prepared.
PolicyChanged(p) ==
    /\ proc[p].pc = "start" /\ HoldsFence(p)
    /\ Interfere
    /\ CompletePhase(proc[p].dep, FALSE, NoPreview)
    /\ Goes(p, Resting)
    /\ UNCHANGED <<diskReceipts, host, seen, touched, adrift>>

\* _validate_claim and checkout: a late or mismatching contract is refused.
Start(p) ==
    LET d == proc[p].dep
    IN /\ proc[p].pc = "start"
       /\ Runs(p, ~dep[d].late, To(p, IF dep[d].phase = "apply" THEN "check" ELSE "mark"),
               To(p, "giveup"), To(p, "giveup"))

\* On to the next host of the order, or to the end of the phase.
Onward(p, pc, first) ==
    IF proc[p].at < Len(Order[proc[p].dep])
    THEN [proc[p] EXCEPT !.at = @ + 1, !.pc = pc] ELSE [proc[p] EXCEPT !.at = 1, !.pc = first]

\* _preflight, host after host: mark it, read and build, report it ready.
Preflight(p) ==
    \/ /\ proc[p].pc = "mark"
       /\ Tell(p, Here(p), "preflighting", To(p, "read"), To(p, "giveup"))
    \/ /\ proc[p].pc = "read"
       /\ Runs(p, TRUE, [To(p, "ready") EXCEPT !.found = Append(@, host[Here(p)])],
               To(p, "spoilt"), To(p, "giveup"))
    \/ proc[p].pc = "spoilt" /\ Tell(p, Here(p), "failed", To(p, "giveup"), To(p, "giveup"))
    \/ /\ proc[p].pc = "ready"
       /\ Tell(p, Here(p), "build_ready", Onward(p, "mark", "finish"), To(p, "giveup"))

\* Mutant: the closures of the preview are not compared again before an apply.
Unchanged_Assumed(p) == TRUE

\* The host still runs the closure that the approved preview replaces.
Unchanged(p) == host[Here(p)] = dep[proc[p].dep].preview[proc[p].at]

\* _apply begins by comparing every host with the preview.
CheckHost(p) ==
    /\ proc[p].pc = "check"
    /\ Runs(p, Unchanged(p), Onward(p, "check", "begin"), To(p, "giveup"), To(p, "giveup"))

\* What follows when a host has failed and the hosts after it are skipped.
AfterFailure(p) ==
    IF proc[p].fate = "failed" /\ proc[p].dep \in RollsBack /\ proc[p].at > 1
    THEN [proc[p] EXCEPT !.pc = "undo", !.at = @ - 1] ELSE To(p, "finish")

SkipFrom(p, i) ==
    IF i <= Len(Order[proc[p].dep]) THEN [proc[p] EXCEPT !.pc = "skip", !.cursor = i]
    ELSE AfterFailure(p)

\* Mutant: a host in doubt is recorded like one that was never switched.
Recorded_Failed(fate) == "failed"

\* A host is in doubt once its activation has started, failed before that.
Recorded(fate) == IF fate = "unknown" THEN "unknown" ELSE "failed"

Fails(p, fate) == [proc[p] EXCEPT !.pc = "record", !.fate = fate]

\* _activate_target.
Activate(p) ==
    \/ /\ proc[p].pc = "begin"
       /\ IF GuardOn(p) THEN Tell(p, Here(p), "deploying", To(p, "copy"), Fails(p, "failed"))
          ELSE /\ Goes(p, Stopped(p, [SkipFrom(p, proc[p].at) EXCEPT !.fate = "cancelled"]))
               /\ UNCHANGED <<storeVars, diskReceipts, host, seen, touched, adrift, trouble>>
    \/ /\ proc[p].pc = "copy"       \* and the call that announces the activation
       /\ \/ Runs(p, HoldsFence(p), To(p, "switch"), Fails(p, "failed"), Fails(p, "cancelled"))
          \/ /\ Here(p) \in Flaky /\ GuardOn(p)
             /\ Goes(p, Fails(p, "failed"))
             /\ UNCHANGED <<storeVars, diskReceipts, host, seen, touched, adrift, trouble>>
    \/ /\ proc[p].pc = "switch"
       /\ IF GuardOn(p)
          THEN /\ Goes(p, To(p, "switching"))
               /\ touched' = [touched EXCEPT ![proc[p].dep] = @ \cup {Here(p)}]
          ELSE Goes(p, Stopped(p, Fails(p, "unknown"))) /\ UNCHANGED touched
       /\ UNCHANGED <<storeVars, diskReceipts, host, seen, adrift, trouble>>
    \/ /\ proc[p].pc = "switching"
       /\ Switches(p, proc[p].dep, To(p, "report"), Fails(p, "unknown"), Fails(p, "unknown"))
    \/ /\ proc[p].pc = "report"
       /\ Tell(p, Here(p), "verifying", To(p, "verify"), Fails(p, "unknown"))
    \/ /\ proc[p].pc = "verify"
       /\ Runs(p, host[Here(p)] = proc[p].dep, To(p, "verified"), Fails(p, "unknown"),
               Fails(p, "unknown"))
    \/ /\ proc[p].pc = "verified"
       /\ Tell(p, Here(p), "succeeded", Onward(p, "begin", "finish"), Fails(p, "unknown"))

\* A failure is recorded (when even that fails, the apply gives up), and the
\* hosts after it are skipped, whether or not the calls succeed.
HandleFailure(p) ==
    \/ /\ proc[p].pc = "record"
       /\ Tell(p, Here(p), Recorded(proc[p].fate), SkipFrom(p, proc[p].at + 1), To(p, "giveup"))
    \/ /\ proc[p].pc = "skip"
       /\ LET onward == SkipFrom(p, proc[p].cursor + 1)
          IN Tell(p, Skipped(p), "skipped", onward, onward)

\* _rollback_target, from the last host that was deployed to the first.
Rollback(p) ==
    LET previous == dep[proc[p].dep].preview[proc[p].at]
        onward == IF proc[p].at > 1 THEN [proc[p] EXCEPT !.pc = "undo", !.at = @ - 1]
                  ELSE To(p, "finish")
    IN \/ proc[p].pc = "undo" /\ Tell(p, Here(p), "rollback_pending", To(p, "undoing"), To(p, "stuck"))
       \/ proc[p].pc = "undoing" /\ Tell(p, Here(p), "rolling_back", To(p, "restore"), To(p, "stuck"))
       \/ /\ proc[p].pc = "restore"
          /\ Goes(p, IF GuardOn(p) THEN To(p, "restoring") ELSE Stopped(p, To(p, "giveup")))
          /\ UNCHANGED <<storeVars, diskReceipts, host, seen, touched, adrift, trouble>>
       \/ /\ proc[p].pc = "restoring"
          /\ Switches(p, previous, To(p, "restored"), To(p, "stuck"), To(p, "giveup"))
       \/ proc[p].pc = "restored" /\ Tell(p, Here(p), "rolled_back", onward, To(p, "stuck"))
       \/ proc[p].pc = "stuck" /\ Tell(p, Here(p), "rollback_failed", onward, To(p, "giveup"))

\* The end of _run_deployment: the outcome is reported once.
FinishPhase(p) ==
    /\ proc[p].pc = "finish"
    /\ \/ /\ ~GuardOn(p)
          /\ Goes(p, Stopped(p, To(p, "giveup")))
          /\ UNCHANGED <<storeVars, trouble>>
       \/ /\ GuardOn(p)
          /\ \/ /\ HoldsFence(p)
                /\ CompletePhase(proc[p].dep, proc[p].fate = "ok", proc[p].found)
                /\ Goes(p, Resting) /\ UNCHANGED trouble
             \/ ~HoldsFence(p) /\ Goes(p, To(p, "giveup")) /\ UNCHANGED <<storeVars, trouble>>
             \/ /\ Interfere
                /\ \/ UNCHANGED storeVars
                   \/ HoldsFence(p) /\ CompletePhase(proc[p].dep, proc[p].fate = "ok", proc[p].found)
                /\ Goes(p, To(p, "giveup"))
    /\ UNCHANGED <<diskReceipts, host, seen, touched, adrift>>

\* _complete_best_effort(ok = False): when it fails it becomes a local receipt.
GiveUp(p) ==
    LET d == proc[p].dep
        keep == diskReceipts' = [diskReceipts EXCEPT ![p] = @ \cup {[dep |-> d, fence |-> proc[p].fence]}]
    IN /\ proc[p].pc = "giveup"
       /\ \/ HoldsFence(p) /\ CompletePhase(d, FALSE, NoPreview) /\ UNCHANGED <<diskReceipts, trouble>>
          \/ ~HoldsFence(p) /\ keep /\ UNCHANGED <<storeVars, trouble>>
          \/ /\ Interfere /\ keep
             /\ UNCHANGED storeVars \/ (HoldsFence(p) /\ CompletePhase(d, FALSE, NoPreview))
       /\ Goes(p, Resting)
       /\ UNCHANGED <<host, seen, touched, adrift>>

\* _flush_local_receipts: a receipt that is refused is put aside.
Flush(p) ==
    /\ proc[p].pc = "idle"
    /\ \E r \in diskReceipts[p] :
        /\ diskReceipts' = [diskReceipts EXCEPT ![p] = @ \ {r}]
        /\ IF HoldsLease(p, r.dep, r.fence) THEN CompletePhase(r.dep, FALSE, NoPreview)
           ELSE UNCHANGED storeVars
    /\ UNCHANGED <<proc, host, seen, touched, adrift, trouble>>

\* The renew loop of the guard: it learns of a cancellation, is refused, or fails.
RenewLoop(p) ==
    /\ proc[p].pc # "idle" /\ GuardOn(p)
    /\ \/ /\ HoldsFence(p) /\ dep[proc[p].dep].cancel
          /\ Goes(p, [proc[p] EXCEPT !.guard = "cancel"]) /\ UNCHANGED trouble
       \/ ~HoldsFence(p) /\ Goes(p, [proc[p] EXCEPT !.guard = "lost"]) /\ UNCHANGED trouble
       \/ Goes(p, [proc[p] EXCEPT !.guard = "lost"]) /\ Interfere
    /\ UNCHANGED <<storeVars, diskReceipts, host, seen, touched, adrift>>

\* The deployer dies, and is started again with the receipts it has on disk.
DeployerCrashes(p) ==
    /\ proc[p].pc # "idle"
    /\ Interfere
    /\ CASE proc[p].pc = "switching" -> Severed(proc[p].dep, Here(p), proc[p].dep)
         [] proc[p].pc = "restoring" ->
                Severed(proc[p].dep, Here(p), dep[proc[p].dep].preview[proc[p].at])
         [] OTHER -> UNCHANGED <<host, adrift>>
    /\ Goes(p, Resting)
    /\ UNCHANGED <<storeVars, diskReceipts, seen, touched>>

-----------------------------------------------------------------------------
Works(p) == \/ Start(p) \/ Preflight(p) \/ CheckHost(p) \/ Activate(p) \/ HandleFailure(p)
            \/ Rollback(p) \/ FinishPhase(p) \/ GiveUp(p)

\* One round of run_forever.
Loop(p) == Flush(p) \/ ClaimDeployment(p) \/ Works(p)

FleetNext ==
    \/ \E d \in Deployments : Administer(d) \/ TimePasses(d) \/ LeaseEnds(d)
    \/ \E p \in Deployers : \/ Loop(p) \/ ClaimAnswerLost(p) \/ PolicyChanged(p)
                            \/ RenewLoop(p) \/ DeployerCrashes(p)
    \/ \E s \in adrift : AdriftLands(s)

FleetSpec == FleetInit /\ [][FleetNext]_fleetVars

\* A deployer loops for ever, every call and command of it ends in bounded time,
\* and leases run out.  Administrators, deadlines, cancellations and switches left behind on a
\* host owe nothing.
FairFleetSpec ==
    /\ FleetSpec
    /\ \A p \in Deployers : WF_fleetVars(Loop(p))
    /\ WF_fleetVars(\E d \in Deployments : LeaseEnds(d))

-----------------------------------------------------------------------------
(* Properties.                                                             *)

\* The ledger, the deployers and the hosts stay within their types; at most one
\* deployer believes it works under the current fence of a deployment.
FleetTypeOK ==
    /\ \A d \in Deployments :
        /\ dep[d].status \in DeploymentStatuses
        /\ dep[d].phase \in {"preflight", "apply", "complete"}
        /\ dep[d].deployer \in Deployers \cup {Nobody}
        /\ dep[d].live => dep[d].deployer # Nobody
        /\ dep[d].preview = NoPreview \/ dep[d].preview \in [DOMAIN Order[d] -> Closures]
        /\ target[d] \in [TargetHosts(d) -> TargetStatuses]
        /\ touched[d] \subseteq TargetHosts(d)
    /\ lock \in [Hosts -> Deployments \cup {Nobody}]
    /\ host \in [Hosts -> Closures]
    /\ adrift \subseteq [dep : Deployments, host : Hosts, to : Closures, over : BOOLEAN]
    /\ \A p \in Deployers : \/ proc[p] = Resting
                            \/ /\ proc[p].dep \in Deployments
                               /\ proc[p].at \in DOMAIN Order[proc[p].dep]

\* A switch of d was left behind on h, whether or not it has taken effect by now.
LeftOn(d, h) == \E s \in adrift : s.dep = d /\ s.host = h

\* What a row says of its host is true, whatever calls were lost and whoever died.  A host is
\* not touched before its row says so; a row that ended without an activation means the
\* deployment never started one; a row that succeeded (or was rolled back) means that no switch
\* of this deployment is on its way to the host any more, and that the host runs the new closure
\* (the old one), unless another deployment has touched it whose preview started from there, or
\* which left a switch behind on it.
HostRowsTruthful ==
    \A d \in Deployments : \A h \in TargetHosts(d) :
        LET at(e) == CHOOSE i \in DOMAIN Order[e] : Order[e][i] = h
            before(e) == dep[e].preview[at(e)]
            runs(c) == \/ host[h] = c
                       \/ \E e \in Deployments \ {d} :
                             h \in touched[e] /\ (before(e) = c \/ LeftOn(e, h))
        IN /\ target[d][h] \in {"pending", "preflighting", "build_ready", "failed", "skipped"} =>
                  h \notin touched[d]
           /\ target[d][h] \in {"succeeded", "rolled_back"} => ~LeftOn(d, h)
           /\ target[d][h] = "succeeded" => runs(d)
           /\ target[d][h] = "rolled_back" => runs(before(d))

\* d applies to h under a live lock.
Applies(d, h) == lock[h] = d /\ dep[d].live /\ dep[d].phase = "apply"

\* A host changes only to the closure that the preview of an approved deployment announces or
\* shows, under an approval that was used up for this apply, given by someone who looked at
\* that very preview.  Either the deployment has a live lock on the host, and the host is at
\* one of those closures unless some switch was left behind on it; or a switch of the
\* deployment itself was left behind there and takes effect.  And only a deployment with a live
\* lock leaves one behind.
PreviewRespected ==
    [][/\ \A h \in Hosts : host'[h] # host[h] =>
            \E d \in Deployments : \E i \in DOMAIN Order[d] :
               /\ Order[d][i] = h
               /\ approval[d].consumed /\ seen[d] = approval[d].version - 1
               /\ host'[h] \in {dep[d].preview[i], d}
               /\ \/ /\ Applies(d, h)
                     /\ \/ host[h] \in {dep[d].preview[i], d}
                        \/ \E e \in Deployments : LeftOn(e, h)
                  \/ \E s \in adrift : s.dep = d /\ s.host = h /\ s.to = host'[h] /\ ~s.over
       /\ \A s \in adrift' \ adrift : ~s.over => Applies(s.dep, s.host)]_fleetVars

\* Once a deployment has ended, nothing changes its row or its hosts' rows, and
\* it starts no activation any more: not a deployer that lost its lease, nor a
\* receipt flushed after a restart.
EndedIsFinal ==
    [][\A d \in Deployments : dep[d].status \in Terminal =>
         dep'[d] = dep[d] /\ target'[d] = target[d] /\ touched'[d] = touched[d]]_fleetVars

\* A deployment that waits for a deployer or is in one's hands ends, or waits for
\* its approval, or has been asked to stop: neither a dead deployer nor the locks
\* it left behind hold it up.  (A row left cancelling by a dead deployer stays.)
DeploymentsSettle ==
    \A d \in Deployments :
        dep[d].status \in Running \cup {"preflight_queued", "queued"} ~>
            dep[d].status \in Terminal \cup {"awaiting_approval", "cancelling"}
=============================================================================
