--------------------------- MODULE GatewaySession ---------------------------
(***************************************************************************)
(* The gateway connection of one QQ account (qq_official/gateway.py) on    *)
(* top of the durable inbox (inbox.py): who tells the platform up to which *)
(* number its events are stored, and from where it has to send them again. *)
(*                                                                         *)
(* The account row keeps the resume point of the session.  The connection  *)
(* keeps its own copy in RAM and moves it only after a dispatch has been   *)
(* stored and acknowledged, in three steps: the inbox's transaction, the   *)
(* checkpoint's transaction, the copy.  A connection that breaks cancels   *)
(* the dispatch between any two of them; a transaction that has started    *)
(* still commits.  The RAM copy, not the row, is what a heartbeat and a    *)
(* Resume tell the platform.                                               *)
(*                                                                         *)
(* The platform may send any frame at any time, except that the READY of a *)
(* new session names a session it has not named before.  Every transaction *)
(* asserts the epoch of its lease, so only the holder's can commit;        *)
(* OfficialTurns has the lease itself and the pausing of an account.       *)
(***************************************************************************)
EXTENDS Integers

CONSTANTS
    Procs,          \* processes that may hold the account's lease
    Numbers         \* sequence numbers the platform may send

VARIABLES
    row,        \* the account's session_id and durable_seq
    stored,     \* qq_official_gateway_receipts: <<session, number>>
    lease,      \* the process that holds the account, as a set of at most one
    conn,       \* GatewayConnection.state of each process
    point,      \* its checkpoint, in RAM
    session,    \* its _session_id, and the session_id of its runtime
    frame,      \* the dispatch its worker is busy with
    step,       \* how far that dispatch is
    auth,       \* its auth_failures
    issued,     \* the platform's sessions are 1 .. issued
    begun,      \* history: <<session, number>> of the READY that began it
    jumped      \* history: numbers that a RESUMED acknowledged unseen

store == <<row, stored, begun, jumped>>
dispatching == <<session, frame, step>>
vars == <<row, stored, lease, conn, point, session, frame, step, auth, issued,
          begun, jumped>>

NoSession == 0
NoPoint == [session |-> NoSession, seq |-> 0]
NoFrame == [kind |-> "none", seq |-> 0]

Larger(m, n) == IF m >= n THEN m ELSE n

Alive == {"connecting", "identifying", "resuming", "ready"}
Open == {"identifying", "resuming", "ready"}
MaxAuthFailures == 2

Holds(p) == lease = {p}
HasPoint(p) == point[p].session # NoSession

Init ==
    /\ row = NoPoint
    /\ stored = {}
    /\ lease = {}
    /\ conn = [p \in Procs |-> "closed"]
    /\ point = [p \in Procs |-> NoPoint]
    /\ session = [p \in Procs |-> NoSession]
    /\ frame = [p \in Procs |-> NoFrame]
    /\ step = [p \in Procs |-> "idle"]
    /\ auth = [p \in Procs |-> 0]
    /\ issued = 0
    /\ begun = {}
    /\ jumped = {}

-----------------------------------------------------------------------------
(* The runtime around the connection.                                      *)

\* acquire, then a new connection from the row's checkpoint
Acquire(p) ==
    /\ lease = {}
    /\ conn[p] = "closed"
    /\ lease' = {p}
    /\ conn' = [conn EXCEPT ![p] = "connecting"]
    /\ point' = [point EXCEPT ![p] = row]
    /\ session' = [session EXCEPT ![p] = row.session]
    /\ frame' = [frame EXCEPT ![p] = NoFrame]
    /\ step' = [step EXCEPT ![p] = "idle"]
    /\ auth' = [auth EXCEPT ![p] = 0]
    /\ UNCHANGED <<store, issued>>

\* The database session of the lease ends; its process does not know yet.
LeaseLost ==
    /\ lease # {}
    /\ lease' = {}
    /\ UNCHANGED <<store, conn, point, dispatching, auth, issued>>

\* The end of run(): a dispatch in the works is drained, RAM is given up.
Ended(p) ==
    /\ conn' = [conn EXCEPT ![p] = "closed"]
    /\ point' = [point EXCEPT ![p] = NoPoint]
    /\ session' = [session EXCEPT ![p] = NoSession]
    /\ frame' = [frame EXCEPT ![p] = NoFrame]
    /\ step' = [step EXCEPT ![p] = "idle"]
    /\ auth' = [auth EXCEPT ![p] = 0]
    /\ lease' = lease \ {p}
    /\ UNCHANGED issued

End(p) == Ended(p) /\ UNCHANGED store

\* A stop, a crash, a refused or failing transaction, a full dispatch queue, a
\* frame that breaks the protocol or a closing code of the "stop" policy.
Stop(p) == conn[p] # "closed" /\ End(p)

-----------------------------------------------------------------------------
(* One connection: _session, and the policies of its end.                  *)

\* ensure_current fences the upgrade and the Identify or Resume.
Connect(p) ==
    /\ conn[p] = "connecting" /\ Holds(p)
    /\ conn' = [conn EXCEPT ![p] = IF HasPoint(p) THEN "resuming" ELSE "identifying"]
    /\ UNCHANGED <<store, lease, point, dispatching, auth, issued>>

\* The worker is cancelled with the socket; a connection that was ready for a
\* minute forgets the failures before it.
Leave(p, next, failures) ==
    /\ conn' = [conn EXCEPT ![p] = next]
    /\ frame' = [frame EXCEPT ![p] = NoFrame]
    /\ step' = [step EXCEPT ![p] = "idle"]
    /\ \/ auth' = [auth EXCEPT ![p] = failures]
       \/ conn[p] = "ready" /\ auth' = [auth EXCEPT ![p] = 0]
    /\ UNCHANGED <<store, lease, point, session, issued>>

\* "resume": 1000, 1006, 4008, 4009, a missed acknowledgement, a timeout
Disconnect(p) == conn[p] \in Open /\ Leave(p, "connecting", auth[p])

\* "identify": 4006, 4007, 4900 .. 4913, an invalid session
Reject(p) == conn[p] \in Alive /\ Leave(p, "clearing", auth[p])

\* "refresh" (4004), which clears, and an authentication error of the discovery
AuthFails(p) ==
    /\ conn[p] \in Alive
    /\ \/ auth[p] + 1 >= MaxAuthFailures /\ End(p)
       \/ auth[p] + 1 < MaxAuthFailures /\ Leave(p, "clearing", auth[p] + 1)
       \/ /\ auth[p] + 1 < MaxAuthFailures /\ conn[p] = "connecting"
          /\ Leave(p, "connecting", auth[p] + 1)

\* _clear_checkpoint: the row first, then RAM
Clear(p) ==
    /\ conn[p] = "clearing" /\ Holds(p)
    /\ row' = NoPoint
    /\ conn' = [conn EXCEPT ![p] = "connecting"]
    /\ point' = [point EXCEPT ![p] = NoPoint]
    /\ session' = [session EXCEPT ![p] = NoSession]
    /\ UNCHANGED <<stored, begun, jumped, lease, frame, step, auth, issued>>

\* The clearing commits, and the connection does not learn of it.
ClearUnheard(p) ==
    /\ conn[p] = "clearing" /\ Holds(p)
    /\ row' = NoPoint
    /\ Ended(p)
    /\ UNCHANGED <<stored, begun, jumped>>

-----------------------------------------------------------------------------
(* One dispatch: _dispatch, accept and checkpoint_callback.                *)

Idle(p) == conn[p] \in Open /\ step[p] = "idle"

Begin(p, kind, n, next) ==
    /\ frame' = [frame EXCEPT ![p] = [kind |-> kind, seq |-> n]]
    /\ step' = [step EXCEPT ![p] = next]
    /\ UNCHANGED <<store, lease, conn, point, auth>>

\* The first frame of a new session; elsewhere READY breaks the protocol.
TakeReady(p, n) ==
    /\ Idle(p) /\ conn[p] = "identifying" /\ ~HasPoint(p)
    /\ issued' = issued + 1
    /\ session' = [session EXCEPT ![p] = issued + 1]
    /\ Begin(p, "READY", n, "accept")

TakeEvent(p, n) ==
    /\ Idle(p) /\ session[p] # NoSession
    /\ HasPoint(p) => n <= point[p].seq + 1
    /\ Begin(p, "EVENT", n, "accept")
    /\ UNCHANGED <<session, issued>>

\* Not given to the inbox; it may name a later number than the next.
TakeResumed(p, n) ==
    /\ Idle(p) /\ session[p] # NoSession /\ conn[p] = "resuming"
    /\ Begin(p, "RESUMED", n, "ack")
    /\ UNCHANGED <<session, issued>>

\* A number is missing: the checkpoint stays and the session is resumed.
TakeGap(p, n) ==
    /\ Idle(p) /\ session[p] # NoSession
    /\ HasPoint(p) /\ n > point[p].seq + 1
    /\ Leave(p, "connecting", auth[p])

Accepted(p) ==
    /\ step' = [step EXCEPT ![p] = "ack"]
    /\ UNCHANGED <<jumped, lease, conn, point, session, frame, auth, issued>>

OfSession(p) ==
    \/ row.session = session[p]
    \/ row.session = NoSession /\ frame[p].kind = "READY"

AcceptDuplicate(p) ==
    /\ step[p] = "accept" /\ Holds(p) /\ OfSession(p)
    /\ <<session[p], frame[p].seq>> \in stored
    /\ Accepted(p)
    /\ UNCHANGED <<row, stored, begun>>

AcceptNew(p) ==
    /\ step[p] = "accept" /\ Holds(p) /\ OfSession(p)
    /\ <<session[p], frame[p].seq>> \notin stored
    /\ row.session = session[p] => frame[p].seq = row.seq + 1
    /\ row' = [session |-> session[p], seq |-> frame[p].seq]
    /\ stored' = stored \cup {<<session[p], frame[p].seq>>}
    /\ begun' = begun \cup IF row.session = session[p] THEN {}
                        ELSE {<<session[p], frame[p].seq>>}
    /\ Accepted(p)

\* max(previous or 0, seq) of the next checkpoint
Target(p) == IF HasPoint(p) THEN Larger(point[p].seq, frame[p].seq) ELSE frame[p].seq

Acknowledge(p) ==
    /\ step[p] = "ack" /\ Holds(p) /\ row.session = session[p]
    /\ row' = [session |-> row.session, seq |-> Larger(row.seq, Target(p))]
    /\ jumped' = jumped \cup IF frame[p].kind # "RESUMED" THEN {}
                          ELSE {<<row.session, n>> : n \in row.seq + 1 .. Target(p)}
    /\ step' = [step EXCEPT ![p] = "publish"]
    /\ UNCHANGED <<stored, begun, lease, conn, point, session, frame, auth, issued>>

Publish(p) ==
    /\ step[p] = "publish"
    /\ point' = [point EXCEPT ![p] = [session |-> session[p], seq |-> Target(p)]]
    /\ conn' = IF frame[p].kind = "EVENT" THEN conn ELSE [conn EXCEPT ![p] = "ready"]
    /\ frame' = [frame EXCEPT ![p] = NoFrame]
    /\ step' = [step EXCEPT ![p] = "idle"]
    /\ UNCHANGED <<store, lease, session, auth, issued>>

Take(p, n) == TakeReady(p, n) \/ TakeEvent(p, n) \/ TakeResumed(p, n) \/ TakeGap(p, n)

Act(p) ==
    \/ Acquire(p) \/ Stop(p) \/ Connect(p) \/ Disconnect(p) \/ Reject(p)
    \/ AuthFails(p) \/ Clear(p) \/ ClearUnheard(p)
    \/ \E n \in Numbers : Take(p, n)
    \/ AcceptDuplicate(p) \/ AcceptNew(p) \/ Acknowledge(p) \/ Publish(p)

Next == LeaseLost \/ \E p \in Procs : Act(p)

Spec == Init /\ [][Next]_vars

-----------------------------------------------------------------------------
(* Properties.                                                             *)

Point == [session : Nat, seq : Nat]
Frames == [kind : {"none", "READY", "EVENT", "RESUMED"}, seq : Nat]

\* The types of the variables.
TypeOK ==
    /\ row \in Point
    /\ stored \subseteq Nat \X Nat /\ begun \subseteq Nat \X Nat /\ jumped \subseteq Nat \X Nat
    /\ lease \in {{}} \cup {{p} : p \in Procs}
    /\ conn \in [Procs -> Alive \cup {"closed", "clearing"}]
    /\ point \in [Procs -> Point]
    /\ session \in [Procs -> Nat]
    /\ frame \in [Procs -> Frames]
    /\ step \in [Procs -> {"idle", "accept", "ack", "publish"}]
    /\ auth \in [Procs -> 0 .. MaxAuthFailures - 1]
    /\ issued \in Nat

\* Session s up to n: every number since its READY is in the inbox, or was
\* acknowledged by the platform itself with a RESUMED.
Covered(s, n) ==
    \E e \in begun : e[1] = s /\ \A k \in e[2] .. n : <<s, k>> \in stored \cup jumped

\* Nothing is acknowledged before it is stored: no heartbeat and no Resume of
\* any process, in any interleaving of breaking connections, replayed frames
\* and moving leases, names a number below which an event is missing.
AcknowledgedIsStored == \A p \in Procs : HasPoint(p) => Covered(point[p].session, point[p].seq)

\* A process that takes the account over resumes at a point that is covered.
ResumesCovered == row.session # NoSession => Covered(row.session, row.seq)

\* The holder's copy is of the row's session and never ahead of the row: a
\* connection that breaks between the two replays, it does not skip.
NeverAhead ==
    \A p \in Procs : Holds(p) /\ HasPoint(p) =>
        point[p].session = row.session /\ point[p].seq <= row.seq

\* Within a session the durable number never goes back, and a session is only
\* left by way of the cleared checkpoint.
DurableAdvances ==
    [][row.session # NoSession =>
        \/ row'.session = row.session /\ row'.seq >= row.seq
        \/ row' = NoPoint]_row
=============================================================================
