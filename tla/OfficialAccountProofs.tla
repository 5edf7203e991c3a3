------------------------ MODULE OfficialAccountProofs -----------------------
(***************************************************************************)
(* What the two sides of an official account that do not pass through its  *)
(* outbox promise: GatewaySession, for any processes and any numbers, and  *)
(* OfficialFiles, for any requests, objects and calls.  The two models     *)
(* share no variable; each half of this module has its own invariant.      *)
(*                                                                         *)
(* The connection: the invariant follows a number from the dispatch to the *)
(* copy in RAM.  While p holds the account nobody else writes its row, so  *)
(* what p's own transaction left there (InFlight, Publishing) still stands *)
(* when p's next step relies on it; a process that lost the account keeps  *)
(* a copy that is covered (AcknowledgedIsStored), because stored numbers   *)
(* stay.                                                                   *)
(*                                                                         *)
(* The files on disk: between a collector's last query and its unlink, and *)
(* between a writer's file and its commit, nobody else holds the lock, so  *)
(* what the transaction saw still stands (LockedView).  The rows of files: *)
(* a call that has seen no plan is the only one of its service, and a      *)
(* service that holds the lease is the only one whose calls commit         *)
(* (NoPlanYet).                                                            *)
(***************************************************************************)
EXTENDS GatewaySession, OfficialFiles, TLAPS

-----------------------------------------------------------------------------
\* The connection.

\* Every session the processes and the tables know was issued.
Issued ==
    /\ row.session <= issued
    /\ \A e \in stored \cup begun : e[1] # NoSession /\ e[1] <= issued
    /\ \A p \in Procs : session[p] <= issued

\* A process has the session of its checkpoint, and works only when connected.
Coherent ==
    \A p \in Procs :
        /\ HasPoint(p) => session[p] = point[p].session
        /\ step[p] # "idle" => conn[p] \in Open /\ session[p] # NoSession

\* A READY that has not reached the inbox names a session nobody else knows.
FreshReady ==
    \A p \in Procs : step[p] = "accept" /\ frame[p].kind = "READY" =>
        /\ ~HasPoint(p)
        /\ row.session # session[p]
        /\ \A e \in stored : e[1] # session[p]
        /\ \A q \in Procs \ {p} : session[q] # session[p]

\* No receipt of the row's session is ahead of the row.
StoredBehind == \A e \in stored : e[1] = row.session => e[2] <= row.seq

\* What the inbox has accepted is in the row when it is acknowledged.
InFlight ==
    \A p \in Procs : Holds(p) /\ step[p] = "ack" /\ frame[p].kind # "RESUMED" =>
        row.session = session[p] /\ frame[p].seq <= row.seq

\* What is about to be copied is covered, and in the holder's row.
Publishing ==
    \A p \in Procs : step[p] = "publish" =>
        /\ Covered(session[p], Target(p))
        /\ Holds(p) => row.session = session[p] /\ Target(p) <= row.seq

Inv ==
    /\ TypeOK /\ Issued /\ Coherent /\ FreshReady /\ StoredBehind /\ InFlight
    /\ Publishing /\ AcknowledgedIsStored /\ ResumesCovered /\ NeverAhead

-----------------------------------------------------------------------------
\* Types of a connection that has been left.
LEMMA LeaveTypes ==
    ASSUME TypeOK, NEW p \in Procs, NEW next \in {"connecting", "clearing"},
           NEW failures \in 0 .. MaxAuthFailures - 1, Leave(p, next, failures)
    PROVE  TypeOK'
  <1> USE DEF TypeOK, Leave, MaxAuthFailures
  <1>1. auth' \in [Procs -> 0 .. MaxAuthFailures - 1]
    OBVIOUS
  <1>2. /\ conn' \in [Procs -> Alive \cup {"closed", "clearing"}]
        /\ frame' \in [Procs -> Frames]
        /\ step' \in [Procs -> {"idle", "accept", "ack", "publish"}]
    BY DEF Alive, Frames, NoFrame
  <1> QED
    BY <1>1, <1>2 DEF store

\* Types of a connection that has ended.
LEMMA EndTypes ==
    ASSUME TypeOK, NEW p \in Procs, Ended(p), row' \in Point,
           UNCHANGED <<stored, begun, jumped>>
    PROVE  TypeOK'
  <1> USE DEF TypeOK, Ended
  <1>1. lease' \in {{}} \cup {{q} : q \in Procs}
    <2>1. CASE lease = {}
      BY <2>1
    <2>2. ASSUME NEW q \in Procs, lease = {q}
          PROVE  lease' = {} \/ lease' = {q}
      BY <2>2
    <2> QED
      BY <2>1, <2>2
  <1>2. auth' \in [Procs -> 0 .. MaxAuthFailures - 1] /\ issued' \in Nat
    BY DEF MaxAuthFailures
  <1>3. /\ conn' \in [Procs -> Alive \cup {"closed", "clearing"}]
        /\ point' \in [Procs -> Point]
        /\ session' \in [Procs -> Nat]
        /\ frame' \in [Procs -> Frames]
        /\ step' \in [Procs -> {"idle", "accept", "ack", "publish"}]
    BY DEF Alive, Point, Frames, NoPoint, NoFrame, NoSession
  <1> QED
    BY <1>1, <1>2, <1>3

\* Every step keeps the types.
LEMMA TypeStep ==
    ASSUME Numbers \subseteq Nat, TypeOK, [Next]_vars
    PROVE  TypeOK'
  <1> USE DEF TypeOK, Point, Frames, Alive, Open, NoSession, NoPoint, NoFrame, MaxAuthFailures,
              store, dispatching
  <1>1. CASE LeaseLost
    BY <1>1 DEF LeaseLost
  <1>2. ASSUME NEW p \in Procs, Act(p)
        PROVE  TypeOK'
    <2>1. CASE Acquire(p)
      BY <2>1 DEF Acquire
    <2>2. CASE Stop(p)
      BY <2>2, EndTypes DEF Stop, End
    <2>3. CASE Connect(p)
      BY <2>3 DEF Connect
    <2>a. auth[p] \in 0 .. MaxAuthFailures - 1 /\ 1 \in 0 .. MaxAuthFailures - 1
      OBVIOUS
    <2>4. CASE Disconnect(p)
      BY <2>4, <2>a, LeaveTypes DEF Disconnect
    <2>5. CASE Reject(p)
      BY <2>5, <2>a, LeaveTypes DEF Reject
    <2>6. CASE AuthFails(p)
      <3>1. CASE End(p)
        BY <3>1, EndTypes DEF End
      <3>2. ASSUME NEW next \in {"connecting", "clearing"}, auth[p] + 1 < MaxAuthFailures,
                   Leave(p, next, auth[p] + 1)
            PROVE  TypeOK'
        <4>1. auth[p] + 1 \in 0 .. MaxAuthFailures - 1
          BY <2>a, <3>2
        <4> QED
          BY <4>1, <3>2, LeaveTypes
      <3> QED
        BY <2>6, <3>1, <3>2 DEF AuthFails
    <2>7. CASE Clear(p)
      BY <2>7 DEF Clear
    <2>8. CASE ClearUnheard(p)
      BY <2>8, EndTypes DEF ClearUnheard
    <2>9. ASSUME NEW n \in Numbers, Take(p, n)
          PROVE  TypeOK'
      <3>1. CASE TakeReady(p, n)
        BY <3>1 DEF TakeReady, Begin
      <3>2. CASE TakeEvent(p, n)
        BY <3>2 DEF TakeEvent, Begin
      <3>3. CASE TakeResumed(p, n)
        BY <3>3 DEF TakeResumed, Begin
      <3>4. CASE TakeGap(p, n)
        BY <3>4, <2>a, LeaveTypes DEF TakeGap
      <3> QED
        BY <2>9, <3>1, <3>2, <3>3, <3>4 DEF Take
    <2>10. CASE AcceptDuplicate(p)
      BY <2>10 DEF AcceptDuplicate, Accepted
    <2>11. CASE AcceptNew(p)
      BY <2>11 DEF AcceptNew, Accepted
    <2>12. CASE Acknowledge(p)
      BY <2>12 DEF Acknowledge, Larger, Target
    <2>13. CASE Publish(p)
      BY <2>13 DEF Publish, Larger, Target
    <2> QED
      BY <1>2, <2>1, <2>2, <2>3, <2>4, <2>5, <2>6, <2>7, <2>8, <2>9, <2>10, <2>11, <2>12, <2>13
         DEF Act
  <1>3. CASE UNCHANGED vars
    BY <1>3 DEF vars
  <1> QED
    BY <1>1, <1>2, <1>3 DEF Next

-----------------------------------------------------------------------------
\* A process that gives up its dispatch, and maybe its RAM and the lease, but
\* writes nothing and takes nothing, keeps the invariant.
Resting(p) ==
    /\ UNCHANGED <<store, issued>>
    /\ lease' \subseteq lease
    /\ \A q \in Procs \ {p} :
        /\ point'[q] = point[q] /\ session'[q] = session[q] /\ frame'[q] = frame[q]
        /\ step'[q] = step[q] /\ conn'[q] = conn[q]
    /\ step'[p] = "idle"
    /\ \/ point'[p] = point[p] /\ session'[p] = session[p]
       \/ point'[p] = NoPoint /\ session'[p] = NoSession

LEMMA RestingStep ==
    ASSUME Inv, TypeOK', NEW p \in Procs, Resting(p)
    PROVE  Inv'
  <1> USE DEF Inv, Resting, store
  <1>1. \A q \in Procs : Holds(q)' => Holds(q)
    BY DEF Holds, TypeOK
  <1>2. Issued'
    BY DEF Issued, TypeOK, NoSession, Point
  <1>3. Coherent'
    BY DEF Coherent, HasPoint, NoPoint, NoSession
  <1>4. FreshReady'
    <2> SUFFICES ASSUME NEW q \in Procs, step'[q] = "accept", frame'[q].kind = "READY"
                 PROVE  /\ ~HasPoint(q)'
                        /\ row'.session # session'[q]
                        /\ \A e \in stored' : e[1] # session'[q]
                        /\ \A r \in Procs \ {q} : session'[r] # session'[q]
      BY DEF FreshReady
    <2>1. q # p /\ session[q] # NoSession
      BY DEF Coherent
    <2> QED
      BY <2>1 DEF FreshReady, HasPoint
  <1>5. StoredBehind'
    BY DEF StoredBehind
  <1>6. InFlight'
    BY <1>1 DEF InFlight
  <1>7. Publishing'
    BY <1>1 DEF Publishing, Covered, Target, HasPoint
  <1>8. AcknowledgedIsStored' /\ ResumesCovered'
    BY DEF AcknowledgedIsStored, ResumesCovered, Covered, HasPoint, NoPoint
  <1>9. NeverAhead'
    BY <1>1 DEF NeverAhead, HasPoint, NoPoint
  <1> QED
    BY <1>2, <1>3, <1>4, <1>5, <1>6, <1>7, <1>8, <1>9

\* Leaving a connection, ending it and losing the lease are rests.
LEMMA LeaveStep ==
    ASSUME Inv, TypeOK', NEW p \in Procs, NEW next \in {"connecting", "clearing"},
           NEW failures, Leave(p, next, failures)
    PROVE  Inv'
  <1>1. Resting(p)
    BY DEF Resting, Leave, Inv, TypeOK
  <1> QED
    BY <1>1, RestingStep

LEMMA EndStep ==
    ASSUME Inv, TypeOK', NEW p \in Procs, End(p)
    PROVE  Inv'
  <1>1. Resting(p)
    BY DEF Resting, End, Ended, Inv, TypeOK
  <1> QED
    BY <1>1, RestingStep

LEMMA LeaseLostStep ==
    ASSUME Inv, TypeOK', LeaseLost
    PROVE  Inv'
  <1> USE DEF Inv, LeaseLost, store, dispatching
  <1>1. \A q \in Procs : ~Holds(q)'
    BY DEF Holds
  <1>2. Issued' /\ Coherent' /\ StoredBehind'
    BY DEF Issued, Coherent, StoredBehind, HasPoint
  <1>3. FreshReady'
    BY DEF FreshReady, HasPoint
  <1>4. InFlight' /\ NeverAhead'
    BY <1>1 DEF InFlight, NeverAhead
  <1>5. Publishing' /\ AcknowledgedIsStored' /\ ResumesCovered'
    BY <1>1 DEF Publishing, AcknowledgedIsStored, ResumesCovered, Covered, HasPoint, Target
  <1> QED
    BY <1>2, <1>3, <1>4, <1>5

-----------------------------------------------------------------------------
(* The other steps.  Only p moves, and lease is p's if it is anybody's.    *)

LEMMA AcquireStep ==
    ASSUME Inv, TypeOK', NEW p \in Procs, Acquire(p)
    PROVE  Inv'
  <1> USE DEF Inv, Acquire, store, TypeOK
  <1>1. \A q \in Procs : Holds(q)' => q = p
    BY DEF Holds
  <1>2. Issued' /\ Coherent' /\ StoredBehind'
    BY DEF Issued, Coherent, StoredBehind, HasPoint, NoSession, Open
  <1>3. FreshReady'
    <2> SUFFICES ASSUME NEW q \in Procs, step'[q] = "accept", frame'[q].kind = "READY"
                 PROVE  /\ ~HasPoint(q)'
                        /\ row'.session # session'[q]
                        /\ \A e \in stored' : e[1] # session'[q]
                        /\ \A r \in Procs \ {q} : session'[r] # session'[q]
      BY DEF FreshReady
    <2>1. q # p
      OBVIOUS
    <2> QED
      BY <2>1 DEF FreshReady, HasPoint
  <1>4. InFlight' /\ NeverAhead'
    BY <1>1 DEF InFlight, NeverAhead, HasPoint, Point
  <1>5. Publishing'
    BY <1>1 DEF Publishing, Covered, HasPoint, Target
  <1>6. AcknowledgedIsStored' /\ ResumesCovered'
    BY DEF AcknowledgedIsStored, ResumesCovered, Covered, HasPoint
  <1> QED
    BY <1>2, <1>3, <1>4, <1>5, <1>6

LEMMA ConnectStep ==
    ASSUME Inv, TypeOK', NEW p \in Procs, Connect(p)
    PROVE  Inv'
  <1> USE DEF Inv, Connect, store, dispatching
  <1>1. \A q \in Procs : Holds(q)' <=> Holds(q)
    BY DEF Holds
  <1>2. Issued' /\ StoredBehind'
    BY DEF Issued, StoredBehind
  <1>3. Coherent'
    BY DEF Coherent, HasPoint, Open, TypeOK
  <1>4. FreshReady'
    BY DEF FreshReady, HasPoint
  <1>5. InFlight' /\ NeverAhead'
    BY <1>1 DEF InFlight, NeverAhead, HasPoint
  <1>6. Publishing' /\ AcknowledgedIsStored' /\ ResumesCovered'
    BY <1>1 DEF Publishing, AcknowledgedIsStored, ResumesCovered, Covered, HasPoint, Target
  <1> QED
    BY <1>2, <1>3, <1>4, <1>5, <1>6

\* A cleared row: its holder has no dispatch and no checkpoint left.
LEMMA ClearStep ==
    ASSUME Inv, TypeOK', NEW p \in Procs, Clear(p) \/ ClearUnheard(p)
    PROVE  Inv'
  <1> USE DEF Inv
  <1>1. /\ row' = NoPoint /\ UNCHANGED <<stored, begun, jumped, issued>>
        /\ \A q \in Procs \ {p} :
             /\ point'[q] = point[q] /\ session'[q] = session[q] /\ frame'[q] = frame[q]
             /\ step'[q] = step[q] /\ conn'[q] = conn[q]
        /\ point'[p] = NoPoint /\ session'[p] = NoSession /\ step'[p] = "idle"
    <2>1. step[p] = "idle"
      BY DEF Clear, ClearUnheard, Coherent, Open, TypeOK
    <2> QED
      BY <2>1 DEF Clear, ClearUnheard, Ended, TypeOK
  <1>2. \A q \in Procs \ {p} : ~Holds(q)'
    BY DEF Clear, ClearUnheard, Ended, Holds
  <1>3. Issued' /\ Coherent'
    BY <1>1 DEF Issued, Coherent, HasPoint, NoPoint, NoSession, TypeOK
  <1>4. FreshReady'
    <2> SUFFICES ASSUME NEW q \in Procs, step'[q] = "accept", frame'[q].kind = "READY"
                 PROVE  /\ ~HasPoint(q)'
                        /\ row'.session # session'[q]
                        /\ \A e \in stored' : e[1] # session'[q]
                        /\ \A r \in Procs \ {q} : session'[r] # session'[q]
      BY DEF FreshReady
    <2>1. q # p /\ session[q] # NoSession
      BY <1>1 DEF Coherent
    <2> QED
      BY <1>1, <2>1 DEF FreshReady, HasPoint, NoPoint
  <1>5. StoredBehind'
    BY <1>1 DEF StoredBehind, Issued, NoPoint
  <1>6. InFlight' /\ NeverAhead'
    BY <1>1, <1>2 DEF InFlight, NeverAhead, HasPoint, NoPoint
  <1>7. Publishing' /\ AcknowledgedIsStored' /\ ResumesCovered'
    BY <1>1, <1>2 DEF Publishing, AcknowledgedIsStored, ResumesCovered, Covered, HasPoint, Target,
                      NoPoint
  <1> QED
    BY <1>3, <1>4, <1>5, <1>6, <1>7

\* A dispatch begins: only a READY brings a session, and it is a new one.
LEMMA TakeStep ==
    ASSUME Numbers \subseteq Nat, Inv, TypeOK', NEW p \in Procs, NEW n \in Numbers,
           TakeReady(p, n) \/ TakeEvent(p, n) \/ TakeResumed(p, n)
    PROVE  Inv'
  <1> USE DEF Inv, TakeReady, TakeEvent, TakeResumed, Begin, store
  <1>1. /\ UNCHANGED <<row, stored, begun, jumped, lease, conn, point>>
        /\ \A q \in Procs \ {p} :
             session'[q] = session[q] /\ frame'[q] = frame[q] /\ step'[q] = step[q]
        /\ \/ session'[p] = session[p] /\ issued' = issued /\ session[p] # NoSession
              /\ frame'[p].kind # "READY"
           \/ session'[p] = issued + 1 /\ issued' = issued + 1 /\ ~HasPoint(p)
              /\ step'[p] = "accept"
        /\ step'[p] \in {"accept", "ack"} /\ conn[p] \in Open
        /\ step'[p] = "ack" => frame'[p].kind = "RESUMED"
    BY DEF TypeOK, Idle
  <1>2. \A q \in Procs : Holds(q)' <=> Holds(q)
    BY <1>1 DEF Holds
  <1>3. Issued'
    BY <1>1 DEF Issued, TypeOK, Point
  <1>4. Coherent'
    <2>1. issued + 1 # NoSession
      BY DEF TypeOK, NoSession
    <2> QED
      BY <1>1, <2>1 DEF Coherent, HasPoint
  <1>5. FreshReady'
    <2> SUFFICES ASSUME NEW q \in Procs, step'[q] = "accept", frame'[q].kind = "READY"
                 PROVE  /\ ~HasPoint(q)'
                        /\ row'.session # session'[q]
                        /\ \A e \in stored' : e[1] # session'[q]
                        /\ \A r \in Procs \ {q} : session'[r] # session'[q]
      BY DEF FreshReady
    <2>1. CASE q = p
      <3>1. /\ row.session <= issued /\ row.session \in Nat /\ issued \in Nat
            /\ \A e \in stored : e[1] <= issued /\ e[1] \in Nat
            /\ \A r \in Procs : session[r] <= issued /\ session[r] \in Nat
        BY DEF Issued, TypeOK, Point
      <3> QED
        BY <1>1, <2>1, <3>1 DEF HasPoint
    <2>2. CASE q # p
      <3>1. session[q] <= issued /\ session[q] \in Nat /\ issued \in Nat
        BY DEF Issued, TypeOK
      <3> QED
        BY <1>1, <2>2, <3>1 DEF FreshReady, HasPoint
    <2> QED
      BY <2>1, <2>2
  <1>6. StoredBehind'
    BY <1>1 DEF StoredBehind
  <1>7. InFlight' /\ NeverAhead'
    BY <1>1, <1>2 DEF InFlight, NeverAhead, HasPoint
  <1>8. Publishing' /\ AcknowledgedIsStored' /\ ResumesCovered'
    BY <1>1, <1>2 DEF Publishing, AcknowledgedIsStored, ResumesCovered, Covered, HasPoint, Target
  <1> QED
    BY <1>3, <1>4, <1>5, <1>6, <1>7, <1>8

\* A number the inbox has already is in the row, or behind it.
LEMMA AcceptDuplicateStep ==
    ASSUME Inv, TypeOK', NEW p \in Procs, AcceptDuplicate(p)
    PROVE  Inv'
  <1> USE DEF Inv, AcceptDuplicate, Accepted
  <1>1. \A q \in Procs : (Holds(q)' <=> Holds(q)) /\ (Holds(q) => q = p)
    BY DEF Holds
  <1>2. Issued' /\ StoredBehind'
    BY DEF Issued, StoredBehind
  <1>3. Coherent'
    BY DEF Coherent, HasPoint, TypeOK
  <1>4. FreshReady'
    BY DEF FreshReady, HasPoint, TypeOK
  <1>5. InFlight'
    <2>1. row.session = session[p] /\ frame[p].seq <= row.seq
      BY DEF FreshReady, StoredBehind, OfSession
    <2> QED
      BY <1>1, <2>1 DEF InFlight
  <1>6. NeverAhead'
    BY <1>1 DEF NeverAhead, HasPoint
  <1>7. Publishing' /\ AcknowledgedIsStored' /\ ResumesCovered'
    BY <1>1 DEF Publishing, AcknowledgedIsStored, ResumesCovered, Covered, HasPoint, Target, TypeOK
  <1> QED
    BY <1>2, <1>3, <1>4, <1>5, <1>6, <1>7

\* The copy in RAM takes what its process has acknowledged.
LEMMA PublishStep ==
    ASSUME Inv, TypeOK', NEW p \in Procs, Publish(p)
    PROVE  Inv'
  <1> USE DEF Inv, Publish, store
  <1>1. /\ UNCHANGED <<row, stored, begun, jumped, lease, session, issued>>
        /\ \A q \in Procs \ {p} :
             /\ point'[q] = point[q] /\ frame'[q] = frame[q] /\ step'[q] = step[q]
             /\ conn'[q] = conn[q]
        /\ point'[p] = [session |-> session[p], seq |-> Target(p)] /\ step'[p] = "idle"
    BY DEF TypeOK
  <1>2. \A q \in Procs : Holds(q)' <=> Holds(q)
    BY DEF Holds
  <1>3. Issued' /\ StoredBehind'
    BY DEF Issued, StoredBehind
  <1>4. Coherent'
    BY <1>1 DEF Coherent, HasPoint
  <1>5. FreshReady'
    BY <1>1 DEF FreshReady, HasPoint
  <1>6. InFlight'
    BY <1>1, <1>2 DEF InFlight
  <1>7. NeverAhead'
    BY <1>1, <1>2 DEF NeverAhead, Publishing, HasPoint
  <1>8. AcknowledgedIsStored' /\ ResumesCovered'
    BY <1>1 DEF AcknowledgedIsStored, ResumesCovered, Publishing, Covered, HasPoint
  <1>9. Publishing'
    BY <1>1, <1>2 DEF Publishing, Covered, HasPoint, Target
  <1> QED
    BY <1>3, <1>4, <1>5, <1>6, <1>7, <1>8, <1>9

\* A new number: the next one of the session, or the first of a new session.
LEMMA AcceptNewStep ==
    ASSUME Inv, TypeOK', NEW p \in Procs, AcceptNew(p)
    PROVE  Inv'
  <1> USE DEF Inv
  <1> DEFINE s == session[p]
             n == frame[p].seq
  <1>1. /\ row' = [session |-> s, seq |-> n] /\ stored' = stored \cup {<<s, n>>}
        /\ UNCHANGED <<jumped, lease, conn, point, session, frame, issued>>
        /\ step' = [step EXCEPT ![p] = "ack"]
        /\ s \in Nat /\ s # NoSession /\ n \in Nat /\ begun \subseteq begun'
    BY DEF AcceptNew, Accepted, Coherent, TypeOK, Frames
  <1>2. \A q \in Procs : (Holds(q)' <=> Holds(q)) /\ (Holds(q) => q = p)
    BY <1>1 DEF AcceptNew, Holds
  <1>3. \/ row.session = s /\ n = row.seq + 1 /\ begun' = begun
        \/ /\ row.session = NoSession /\ begun' = begun \cup {<<s, n>>}
           /\ frame[p].kind = "READY" /\ ~HasPoint(p) /\ \A e \in stored : e[1] # s
    BY <1>1 DEF AcceptNew, OfSession, FreshReady
  <1>4. Issued'
    BY <1>1, <1>3 DEF Issued
  <1>5. Coherent'
    BY <1>1 DEF Coherent, HasPoint, TypeOK, AcceptNew
  <1>6. FreshReady'
    <2> SUFFICES ASSUME NEW q \in Procs, step'[q] = "accept", frame'[q].kind = "READY"
                 PROVE  /\ ~HasPoint(q)'
                        /\ row'.session # session'[q]
                        /\ \A e \in stored' : e[1] # session'[q]
                        /\ \A r \in Procs \ {q} : session'[r] # session'[q]
      BY DEF FreshReady
    <2>1. q # p /\ step[q] = "accept" /\ frame[q].kind = "READY"
      BY <1>1 DEF TypeOK
    <2>2. s # session[q]
      BY <2>1 DEF FreshReady
    <2> QED
      BY <1>1, <2>1, <2>2 DEF FreshReady, HasPoint
  <1>7. StoredBehind'
    BY <1>1, <1>3 DEF StoredBehind, TypeOK, Point
  <1>8. InFlight'
    BY <1>1, <1>2 DEF InFlight, TypeOK
  <1>9. NeverAhead'
    <2>1. HasPoint(p) => point[p].session = s /\ point[p].seq <= n
      BY <1>1, <1>3 DEF NeverAhead, Coherent, AcceptNew, TypeOK, Point
    <2> QED
      BY <1>1, <1>2, <2>1 DEF NeverAhead, HasPoint
  <1>10. Publishing'
    BY <1>1, <1>2 DEF Publishing, Covered, Target, HasPoint, TypeOK
  <1>11. AcknowledgedIsStored'
    BY <1>1 DEF AcknowledgedIsStored, Covered, HasPoint
  <1>12. \E e \in begun' : e[1] = s /\ \A k \in e[2] .. n : <<s, k>> \in stored' \cup jumped'
    <2>1. CASE row.session = s /\ n = row.seq + 1
      <3>1. PICK e \in begun : e[1] = s /\ \A k \in e[2] .. row.seq : <<s, k>> \in stored \cup jumped
        BY <1>1, <2>1 DEF ResumesCovered, Covered
      <3>2. e[2] \in Nat /\ row.seq \in Nat
        BY DEF TypeOK, Point
      <3>3. \A k \in e[2] .. n : k \in e[2] .. row.seq \/ k = n
        BY <2>1, <3>2
      <3>4. e \in begun' /\ \A k \in e[2] .. n : <<s, k>> \in stored' \cup jumped'
        BY <1>1, <3>1, <3>3
      <3> QED
        BY <3>1, <3>4
    <2>2. CASE begun' = begun \cup {<<s, n>>}
      <3>1. \A k \in n .. n : k = n
        BY <1>1
      <3>2. <<s, n>> \in begun' /\ <<s, n>>[1] = s /\ <<s, n>>[2] = n
        BY <2>2
      <3> QED
        BY <1>1, <3>1, <3>2
    <2> QED
      BY <1>3, <2>1, <2>2
  <1>13. ResumesCovered'
    BY <1>1, <1>12 DEF ResumesCovered, Covered
  <1> QED
    BY <1>4, <1>5, <1>6, <1>7, <1>8, <1>9, <1>10, <1>11, <1>13

\* The acknowledgement: only a RESUMED moves the row, over numbers it jumps.
LEMMA AcknowledgeStep ==
    ASSUME Inv, TypeOK', NEW p \in Procs, Acknowledge(p)
    PROVE  Inv'
  <1> USE DEF Inv
  <1> DEFINE s == session[p]
             t == Target(p)
             top == Larger(row.seq, t)
  <1>1. /\ row' = [session |-> s, seq |-> top] /\ row.session = s
        /\ UNCHANGED <<stored, begun, lease, conn, point, session, frame, issued>>
        /\ jumped \subseteq jumped' /\ step' = [step EXCEPT ![p] = "publish"]
        /\ s \in Nat /\ s # NoSession /\ t \in Nat /\ row.seq \in Nat
    BY DEF Acknowledge, Coherent, TypeOK, Point, Frames, Target, Larger
  <1>2. top \in Nat /\ row.seq <= top /\ t <= top /\ (top = row.seq \/ top = t)
    BY <1>1 DEF Larger
  <1> HIDE DEF t, top
  <1>3. \A q \in Procs : (Holds(q)' <=> Holds(q)) /\ (Holds(q) => q = p)
    BY <1>1 DEF Acknowledge, Holds
  <1>4. top = row.seq \/ \A k \in row.seq + 1 .. top : <<s, k>> \in jumped'
    <2>1. CASE frame[p].kind = "RESUMED"
      BY <1>1, <1>2, <2>1 DEF Acknowledge, t
    <2>2. CASE frame[p].kind # "RESUMED"
      <3>1. frame[p].seq <= row.seq
        BY <2>2 DEF InFlight, Acknowledge
      <3>2. HasPoint(p) => point[p].seq <= row.seq
        BY DEF NeverAhead, Acknowledge
      <3>3. t <= row.seq
        BY <3>1, <3>2 DEF t, Target, Larger
      <3> QED
        BY <1>1, <1>2, <3>3
    <2> QED
      BY <2>1, <2>2
  <1>5. Issued'
    BY <1>1 DEF Issued
  <1>6. Coherent'
    BY <1>1 DEF Coherent, HasPoint, TypeOK, Acknowledge
  <1>7. FreshReady'
    BY <1>1 DEF FreshReady, HasPoint, TypeOK
  <1>8. StoredBehind'
    BY <1>1, <1>2 DEF StoredBehind, TypeOK
  <1>9. InFlight'
    BY <1>1, <1>3 DEF InFlight, TypeOK
  <1>10. NeverAhead'
    <2>1. HasPoint(p) => point[p].session = s /\ point[p].seq <= top
      BY <1>1, <1>2 DEF NeverAhead, Acknowledge, TypeOK, Point
    <2> QED
      BY <1>1, <1>3, <2>1 DEF NeverAhead, HasPoint
  <1>11. \E e \in begun' : e[1] = s /\ \A k \in e[2] .. top : <<s, k>> \in stored' \cup jumped'
    <2>1. PICK e \in begun : e[1] = s /\ \A k \in e[2] .. row.seq : <<s, k>> \in stored \cup jumped
      BY <1>1 DEF ResumesCovered, Covered
    <2>2. e[2] \in Nat
      BY DEF TypeOK
    <2>3. \A k \in e[2] .. top : k \in e[2] .. row.seq \/ k \in row.seq + 1 .. top
      BY <1>1, <1>2, <2>2
    <2>4. e \in begun' /\ \A k \in e[2] .. top : <<s, k>> \in stored' \cup jumped'
      BY <1>1, <1>4, <2>1, <2>3
    <2> QED
      BY <2>1, <2>4
  <1>12. \E e \in begun' : e[1] = s /\ \A k \in e[2] .. t : <<s, k>> \in stored' \cup jumped'
    <2>1. PICK e \in begun' : e[1] = s /\ \A k \in e[2] .. top : <<s, k>> \in stored' \cup jumped'
      BY <1>11
    <2>2. e[2] \in Nat
      BY DEF TypeOK
    <2>3. \A k \in e[2] .. t : k \in e[2] .. top
      BY <1>1, <1>2, <2>2
    <2> QED
      BY <2>1, <2>3
  <1>13. ResumesCovered'
    BY <1>1, <1>11 DEF ResumesCovered, Covered
  <1>14. AcknowledgedIsStored'
    BY <1>1 DEF AcknowledgedIsStored, Covered, HasPoint
  <1>15. Publishing'
    <2>1. t = Target(p)' /\ t <= top
      BY <1>1, <1>2 DEF t, Target, HasPoint
    <2> SUFFICES ASSUME NEW q \in Procs, step'[q] = "publish"
                 PROVE  /\ Covered(session[q], Target(q))'
                        /\ Holds(q)' => row'.session = session'[q] /\ Target(q)' <= row'.seq
      BY DEF Publishing
    <2>2. CASE q = p
      BY <1>1, <1>12, <2>1, <2>2 DEF Covered
    <2>3. CASE q # p
      BY <1>1, <1>3, <2>3 DEF Publishing, Covered, Target, HasPoint, TypeOK
    <2> QED
      BY <2>2, <2>3
  <1> QED
    BY <1>5, <1>6, <1>7, <1>8, <1>9, <1>10, <1>13, <1>14, <1>15

-----------------------------------------------------------------------------
\* The invariant holds in every reachable state.
LEMMA InvInit == Init => Inv
  <1> SUFFICES ASSUME Init PROVE Inv
    OBVIOUS
  <1> USE DEF Init, NoPoint, NoFrame, NoSession
  <1>1. TypeOK
    BY DEF TypeOK, Point, Frames, Alive, MaxAuthFailures
  <1>2. Issued /\ Coherent /\ FreshReady /\ StoredBehind
    BY DEF Issued, Coherent, FreshReady, StoredBehind, HasPoint
  <1>3. InFlight /\ Publishing /\ AcknowledgedIsStored /\ ResumesCovered /\ NeverAhead
    BY DEF InFlight, Publishing, AcknowledgedIsStored, ResumesCovered, NeverAhead, HasPoint
  <1> QED
    BY <1>1, <1>2, <1>3 DEF Inv

LEMMA InvStep ==
    ASSUME Numbers \subseteq Nat, Inv, [Next]_vars
    PROVE  Inv'
  <1>t. TypeOK'
    BY TypeStep DEF Inv
  <1>1. CASE LeaseLost
    BY <1>1, <1>t, LeaseLostStep
  <1>2. ASSUME NEW p \in Procs, Act(p)
        PROVE  Inv'
    <2>1. CASE Acquire(p)
      BY <2>1, <1>t, AcquireStep
    <2>2. CASE Stop(p)
      BY <2>2, <1>t, EndStep DEF Stop
    <2>3. CASE Connect(p)
      BY <2>3, <1>t, ConnectStep
    <2>4. CASE Disconnect(p) \/ Reject(p)
      BY <2>4, <1>t, LeaveStep DEF Disconnect, Reject
    <2>5. CASE AuthFails(p)
      BY <2>5, <1>t, LeaveStep, EndStep DEF AuthFails
    <2>6. CASE Clear(p) \/ ClearUnheard(p)
      BY <2>6, <1>t, ClearStep
    <2>7. ASSUME NEW n \in Numbers, Take(p, n)
          PROVE  Inv'
      <3>1. CASE TakeGap(p, n)
        BY <3>1, <1>t, LeaveStep DEF TakeGap
      <3> QED
        BY <2>7, <3>1, <1>t, TakeStep DEF Take
    <2>8. CASE AcceptDuplicate(p)
      BY <2>8, <1>t, AcceptDuplicateStep
    <2>9. CASE AcceptNew(p)
      BY <2>9, <1>t, AcceptNewStep
    <2>10. CASE Acknowledge(p)
      BY <2>10, <1>t, AcknowledgeStep
    <2>11. CASE Publish(p)
      BY <2>11, <1>t, PublishStep
    <2> QED
      BY <1>2, <2>1, <2>2, <2>3, <2>4, <2>5, <2>6, <2>7, <2>8, <2>9, <2>10, <2>11 DEF Act
  <1>3. CASE UNCHANGED vars
    BY <1>3 DEF vars, Inv, TypeOK, Issued, Coherent, FreshReady, StoredBehind, InFlight, Publishing,
       AcknowledgedIsStored, ResumesCovered, NeverAhead, Covered, Holds, HasPoint, Target
  <1> QED
    BY <1>1, <1>2, <1>3 DEF Next

THEOREM Invariance ==
    ASSUME Numbers \subseteq Nat
    PROVE  Spec => []Inv
  <1>1. Init => Inv
    BY InvInit
  <1>2. Inv /\ [Next]_vars => Inv'
    BY InvStep
  <1> QED
    BY <1>1, <1>2, PTL DEF Spec

\* Whatever breaks when, no process tells the platform that a number is done
\* before everything up to it is stored (or was waived by the platform).
THEOREM NothingSkipped ==
    ASSUME Numbers \subseteq Nat
    PROVE  Spec => [](AcknowledgedIsStored /\ ResumesCovered)
  <1>1. Inv => AcknowledgedIsStored /\ ResumesCovered
    BY DEF Inv
  <1> QED
    BY <1>1, Invariance, PTL

\* The copy of the process that holds the account is never ahead of its row.
THEOREM CopyBehindRow ==
    ASSUME Numbers \subseteq Nat
    PROVE  Spec => []NeverAhead
  <1>1. Inv => NeverAhead
    BY DEF Inv
  <1> QED
    BY <1>1, Invariance, PTL

\* The durable number of a session never goes back, not even when a replayed
\* frame, a late RESUMED or a READY meets a row that is ahead of the copy.
THEOREM RowAdvances ==
    ASSUME Numbers \subseteq Nat
    PROVE  Spec => DurableAdvances
  <1> DEFINE Advance == row.session # NoSession =>
                 \/ row'.session = row.session /\ row'.seq >= row.seq
                 \/ row' = NoPoint
  <1>1. ASSUME Inv, [Next]_vars
        PROVE  [Advance]_row
    <2>1. row.seq \in Nat
      BY <1>1 DEF Inv, TypeOK, Point
    <2>2. CASE row' = row
      BY <2>2
    <2>3. ASSUME NEW p \in Procs, Clear(p) \/ ClearUnheard(p)
          PROVE  Advance
      BY <2>3 DEF Clear, ClearUnheard
    <2>4. ASSUME NEW p \in Procs, AcceptNew(p)
          PROVE  Advance
      BY <2>1, <2>4, <1>1 DEF AcceptNew, OfSession
    <2>5. ASSUME NEW p \in Procs, Acknowledge(p)
          PROVE  Advance
      BY <2>1, <2>5, <1>1 DEF Acknowledge, Larger, Target, Inv, TypeOK, Point, Frames
    <2>6. CASE LeaseLost \/ UNCHANGED vars
      BY <2>6, <2>2 DEF LeaseLost, store, vars
    <2>7. ASSUME NEW p \in Procs, Act(p)
          PROVE  row' = row \/ Clear(p) \/ ClearUnheard(p) \/ AcceptNew(p) \/ Acknowledge(p)
      BY <2>7 DEF Act, Acquire, Stop, End, Connect, Disconnect, Reject, AuthFails, Leave, Take,
         TakeReady, TakeEvent, TakeResumed, TakeGap, Begin, AcceptDuplicate, Publish, store
    <2> QED
      BY <1>1, <2>2, <2>3, <2>4, <2>5, <2>6, <2>7 DEF Next
  <1> QED
    BY <1>1, Invariance, PTL DEF Spec, DurableAdvances

-----------------------------------------------------------------------------
\* The files.

\* What the transaction under way has seen or done is still so.
LockedView ==
    /\ \A a \in Artifacts : tx = Tx("stored", a) => Sha[a] \in disk
    /\ \A a \in Artifacts : tx = Tx("cleanup", a) => Owners(Sha[a]) = {}
    /\ \A c \in Contents : tx = Tx("orphan", c) => Owners(c) = {}

DiskInv == doomed = {} /\ LockedView /\ AvailableHasBytes

\* A file without a row has no delivery, and nobody sends it.
NoRowNoDelivery ==
    /\ \A a \in Artifacts : bytes[a] = "none" => state[a] = "none" /\ ~plan[a]
    /\ \A a \in Artifacts : out[a] # "none" => plan[a]
    /\ \A k \in Calls : stage[k] # "idle" => bytes[file[k]] # "none"

\* A request is registered once.
Registering ==
    \A a \in Artifacts : tx \in {Tx("register", a), Tx("stored", a)} => bytes[a] = "none"

\* Bytes are only given up after the deadline, when no call may queue.
DeletedIsDue ==
    \A a \in Artifacts : bytes[a] = "deleted" => due[a] /\ state[a] \notin {"stored", "handed_off"}

\* The lock of a service.
OneInside ==
    \A j, k \in Calls : stage[j] \in Inside /\ stage[k] \in Inside /\ file[j] = file[k]
                        /\ since[j] = since[k] => j = k

\* A call of the current service that is on its way to a plan found none.
NoPlanYet ==
    \A k \in Calls :
        /\ stage[k] # "idle" => since[k] <= epoch
        /\ stage[k] \in {"read", "upload", "queue"} /\ since[k] = epoch => ~plan[file[k]]

RowInv ==
    /\ NoRowNoDelivery /\ Registering /\ DeletedIsDue /\ OneInside /\ NoPlanYet /\ AcceptedIsTrue

-----------------------------------------------------------------------------
\* Every transaction of the store is one of the five kinds.
LEMMA TxTypes ==
    /\ \A a \in Artifacts : /\ Tx("register", a) \in Transactions /\ Tx("stored", a) \in Transactions
                            /\ Tx("cleanup", a) \in Transactions /\ Tx("removed", a) \in Transactions
    /\ \A c \in Contents : Tx("orphan", c) \in Transactions
    /\ NoTx \in Transactions
  BY DEF Transactions, Tx, NoTx

\* Two different transactions never look the same.
LEMMA TxDiffer ==
    /\ \A k, i : Tx(k, i) = NoTx => k = "none"
    /\ \A k, i, l, j : Tx(k, i) = Tx(l, j) => k = l /\ i = j
  <1>1. \A k, i : Tx(k, i).kind = k /\ Tx(k, i).item = i
    BY DEF Tx
  <1>2. NoTx.kind = "none"
    BY DEF NoTx
  <1> QED
    BY <1>1, <1>2

\* Every step keeps the types.
LEMMA FilesTypeStep ==
    ASSUME ConstantsOK, FilesTypeOK, [FilesNext]_filesVars
    PROVE  FilesTypeOK'
  <1> USE TxTypes DEF ConstantsOK, FilesTypeOK, Settled
  <1>1. CASE UNCHANGED filesVars
    BY <1>1 DEF filesVars, accountLease, manifest, delivery, blobStore, call
  <1>2. CASE Account
    <2> USE DEF accountLease, manifest, delivery, blobStore, call
    <2>1. CASE AcquireLease
      BY <2>1 DEF AcquireLease
    <2>2. CASE LoseLease
      BY <2>2 DEF LoseLease
    <2>3. CASE Rollback
      BY <2>3 DEF Rollback
    <2> QED
      BY <1>2, <2>1, <2>2, <2>3 DEF Account
  <1>3. ASSUME NEW a \in Artifacts, OfArtifact(a)
        PROVE  FilesTypeOK'
    <2> USE DEF accountLease, manifest, delivery, blobStore, call
    <2>1. CASE Deadline(a)
      BY <2>1 DEF Deadline
    <2>2. CASE RegisterBegin(a) \/ CleanupBegin(a)
      BY <2>2 DEF RegisterBegin, CleanupBegin, BeginTx
    <2>3. CASE StoreBlob(a)
      BY <2>3 DEF StoreBlob
    <2>4. CASE RegisterCommit(a)
      BY <2>4 DEF RegisterCommit
    <2>5. CASE CleanupShared(a) \/ CleanupCommit(a)
      BY <2>5 DEF CleanupShared, CleanupCommit
    <2>6. CASE CleanupUnlink(a)
      BY <2>6 DEF CleanupUnlink, Unlink
    <2>7. CASE Prepare(a)
      BY <2>7 DEF Prepare
    <2>8. CASE Accept(a)
      BY <2>8 DEF Accept
    <2>9. CASE \E s \in {"failed", "ambiguous"} : Refused(a, s)
      BY <2>9 DEF Refused
    <2> QED
      BY <1>3, <2>1, <2>2, <2>3, <2>4, <2>5, <2>6, <2>7, <2>8, <2>9 DEF OfArtifact
  <1>4. ASSUME NEW batch \in SUBSET Artifacts, CollectExpired(batch)
        PROVE  FilesTypeOK'
    <2> USE <1>4 DEF CollectExpired, accountLease, call, blobStore
    <2>1. bytes' \in [Artifacts -> {"none", "available", "deleted"}]
      OBVIOUS
    <2>2. pending' \in [Artifacts -> BOOLEAN]
      BY Zenon
    <2>3. state' \in [Artifacts -> {"none", "stored", "handed_off"} \cup Settled]
      OBVIOUS
    <2> QED
      BY <2>1, <2>2, <2>3
  <1>5. ASSUME NEW c \in Contents, OfObject(c)
        PROVE  FilesTypeOK'
    BY <1>5 DEF OfObject, GraceOver, OrphanBegin, BeginTx, OrphanUnlink, Cut, LateUnlink, Unlink,
                accountLease, manifest, delivery, blobStore, call
  <1>6. ASSUME NEW k \in Calls, OfCall(k)
        PROVE  FilesTypeOK'
    <2> USE DEF accountLease, manifest, delivery, blobStore, Go, Steps
    <2>1. ASSUME NEW a \in Artifacts, Enter(k, a)
          PROVE  FilesTypeOK'
      BY <2>1 DEF Enter
    <2>2. CASE Lock(k) \/ Load(k) \/ Read(k) \/ Upload(k) \/ Sent(k) \/ Vanish(k)
      BY <2>2 DEF Lock, Load, Read, Upload, Sent, Vanish
    <2>3. CASE Fail(k)
      BY <2>3 DEF Fail, Raise
    <2>4. CASE Queue(k)
      BY <2>4 DEF Queue
    <2>5. CASE Notify(k)
      BY <2>5 DEF Notify
    <2> QED
      BY <1>6, <2>1, <2>2, <2>3, <2>4, <2>5 DEF OfCall
  <1> QED
    BY <1>1, <1>2, <1>3, <1>4, <1>5, <1>6 DEF FilesNext

\* Every state of every execution is of the types FilesTypeOK gives.
THEOREM FilesTypeCorrect ==
    ASSUME ConstantsOK
    PROVE  FilesSpec => []FilesTypeOK
  <1>1. FilesInit => FilesTypeOK
    <2> SUFFICES ASSUME FilesInit PROVE FilesTypeOK
      OBVIOUS
    <2>1. tx \in Transactions
      BY TxTypes DEF FilesInit
    <2> QED
      BY <2>1 DEF FilesInit, FilesTypeOK, Steps
  <1> QED
    BY <1>1, FilesTypeStep, PTL DEF FilesSpec

-----------------------------------------------------------------------------
(* The bytes.                                                              *)

\* A step that touches neither the lock, the rows' bytes nor the disk.
LEMMA DiskUntouched ==
    ASSUME DiskInv, UNCHANGED <<bytes, disk, doomed, tx>>
    PROVE  DiskInv'
  BY DEF DiskInv, LockedView, AvailableHasBytes, Owners

\* Without a transaction only the rows and the disk have to agree.
LEMMA NoTransaction ==
    ASSUME doomed' = {}, tx' = NoTx, AvailableHasBytes'
    PROVE  DiskInv'
  <1>1. \A i : tx' # Tx("stored", i) /\ tx' # Tx("cleanup", i) /\ tx' # Tx("orphan", i)
    BY TxDiffer
  <1> QED
    BY <1>1 DEF DiskInv, LockedView

\* The steps on one artifact keep the bytes of all.
LEMMA ArtifactKeepsDisk ==
    ASSUME ConstantsOK, FilesTypeOK, DiskInv, NEW a \in Artifacts, OfArtifact(a)
    PROVE  DiskInv'
  <1> USE DEF accountLease, manifest, delivery, blobStore, call
  <1>1. CASE Deadline(a) \/ CleanupShared(a) \/ Prepare(a) \/ Accept(a)
             \/ \E s \in {"failed", "ambiguous"} : Refused(a, s)
    <2>1. UNCHANGED <<bytes, disk, doomed, tx>>
      BY <1>1 DEF Deadline, CleanupShared, Prepare, Accept, Refused
    <2> QED
      BY <2>1, DiskUntouched
  <1>2. CASE RegisterBegin(a)
    <2>1. /\ tx' = Tx("register", a)
          /\ UNCHANGED <<bytes, disk, doomed>>
      BY <1>2 DEF RegisterBegin, BeginTx
    <2>2. \A i : tx' # Tx("stored", i) /\ tx' # Tx("cleanup", i) /\ tx' # Tx("orphan", i)
      BY <2>1, TxDiffer
    <2> QED
      BY <2>1, <2>2 DEF DiskInv, LockedView, AvailableHasBytes
  <1>3. CASE StoreBlob(a)
    <2>1. /\ tx' = Tx("stored", a)
          /\ disk' = disk \cup {Sha[a]}
          /\ UNCHANGED <<bytes, doomed>>
      BY <1>3 DEF StoreBlob
    <2>2. /\ \A i : tx' # Tx("cleanup", i) /\ tx' # Tx("orphan", i)
          /\ \A i : tx' = Tx("stored", i) => i = a
      BY <2>1, TxDiffer
    <2> QED
      BY <2>1, <2>2 DEF DiskInv, LockedView, AvailableHasBytes
  <1>4. CASE RegisterCommit(a)
    <2>1. tx = Tx("stored", a) /\ Sha[a] \in disk
      BY <1>4 DEF RegisterCommit, DiskInv, LockedView
    <2>2. /\ tx' = NoTx
          /\ bytes' = [bytes EXCEPT ![a] = "available"]
          /\ UNCHANGED <<disk, doomed>>
      BY <1>4 DEF RegisterCommit
    <2>3. AvailableHasBytes'
      BY <2>1, <2>2 DEF FilesTypeOK, DiskInv, AvailableHasBytes
    <2> QED
      BY <2>2, <2>3, NoTransaction DEF DiskInv
  <1>5. CASE CleanupBegin(a)
    <2>1. /\ tx' = Tx("cleanup", a)
          /\ Owners(Sha[a]) = {}
          /\ UNCHANGED <<bytes, disk, doomed>>
      BY <1>5 DEF CleanupBegin, BeginTx
    <2>2. /\ \A i : tx' # Tx("stored", i) /\ tx' # Tx("orphan", i)
          /\ \A i : tx' = Tx("cleanup", i) => i = a
      BY <2>1, TxDiffer
    <2> QED
      BY <2>1, <2>2 DEF DiskInv, LockedView, AvailableHasBytes, Owners
  <1>6. CASE CleanupUnlink(a)
    <2>1. /\ Owners(Sha[a]) = {}
          /\ tx' = Tx("removed", a)
          /\ disk' = disk \ {Sha[a]}
          /\ UNCHANGED <<bytes, doomed>>
      BY <1>6 DEF CleanupUnlink, Unlink, DiskInv, LockedView
    <2>2. \A i : tx' # Tx("stored", i) /\ tx' # Tx("cleanup", i) /\ tx' # Tx("orphan", i)
      BY <2>1, TxDiffer
    <2> QED
      BY <2>1, <2>2 DEF DiskInv, LockedView, AvailableHasBytes, Owners
  <1>7. CASE CleanupCommit(a)
    BY <1>7, NoTransaction DEF CleanupCommit, DiskInv, AvailableHasBytes
  <1> QED
    BY <1>1, <1>2, <1>3, <1>4, <1>5, <1>6, <1>7 DEF OfArtifact

\* The collectors of orphans keep the bytes of every artifact.
LEMMA ObjectKeepsDisk ==
    ASSUME ConstantsOK, SessionLoss = FALSE, FilesTypeOK, DiskInv, NEW c \in Contents, OfObject(c)
    PROVE  DiskInv'
  <1> USE DEF accountLease, manifest, delivery, blobStore, call
  <1>1. CASE GraceOver(c)
    BY <1>1, DiskUntouched DEF GraceOver
  <1>2. CASE OrphanBegin(c)
    <2>1. /\ tx' = Tx("orphan", c)
          /\ Owners(c) = {}
          /\ UNCHANGED <<bytes, disk, doomed>>
      BY <1>2 DEF OrphanBegin, BeginTx
    <2>2. /\ \A i : tx' # Tx("stored", i) /\ tx' # Tx("cleanup", i)
          /\ \A i : tx' = Tx("orphan", i) => i = c
      BY <2>1, TxDiffer
    <2> QED
      BY <2>1, <2>2 DEF DiskInv, LockedView, AvailableHasBytes, Owners
  <1>3. CASE OrphanUnlink(c)
    <2>1. /\ Owners(c) = {}
          /\ tx' = NoTx
          /\ disk' = disk \ {c}
          /\ UNCHANGED <<bytes, doomed>>
      BY <1>3 DEF OrphanUnlink, Unlink, DiskInv, LockedView
    <2>2. AvailableHasBytes'
      BY <2>1 DEF DiskInv, AvailableHasBytes, Owners
    <2> QED
      BY <2>1, <2>2, NoTransaction DEF DiskInv
  <1>4. CASE Cut(c) \/ LateUnlink(c)
    BY <1>4 DEF Cut, LateUnlink, DiskInv
  <1> QED
    BY <1>1, <1>2, <1>3, <1>4 DEF OfObject

\* Every step keeps them.
LEMMA DiskStep ==
    ASSUME ConstantsOK, SessionLoss = FALSE, FilesTypeOK, DiskInv, [FilesNext]_filesVars
    PROVE  DiskInv'
  <1> USE DEF accountLease, manifest, delivery, blobStore, call
  <1>1. CASE UNCHANGED filesVars
    BY <1>1, DiskUntouched DEF filesVars
  <1>2. CASE Account
    <2>1. CASE AcquireLease \/ LoseLease
      BY <2>1, DiskUntouched DEF AcquireLease, LoseLease
    <2>2. CASE Rollback
      BY <2>2, NoTransaction DEF Rollback, DiskInv, AvailableHasBytes
    <2> QED
      BY <1>2, <2>1, <2>2 DEF Account
  <1>3. ASSUME NEW batch \in SUBSET Artifacts, CollectExpired(batch)
        PROVE  DiskInv'
    <2>1. /\ tx = NoTx /\ tx' = NoTx /\ UNCHANGED <<disk, doomed>>
          /\ bytes' = [a \in Artifacts |-> IF a \in batch THEN "deleted" ELSE bytes[a]]
      BY <1>3 DEF CollectExpired
    <2>2. AvailableHasBytes'
      BY <2>1 DEF DiskInv, AvailableHasBytes
    <2> QED
      BY <2>1, <2>2, NoTransaction DEF DiskInv
  <1>4. ASSUME NEW k \in Calls, OfCall(k)
        PROVE  DiskInv'
    <2>1. UNCHANGED <<bytes, disk, doomed, tx>>
      BY <1>4 DEF OfCall, Enter, Lock, Load, Read, Upload, Queue, Sent, Fail, Notify, Vanish
    <2> QED
      BY <2>1, DiskUntouched
  <1> QED
    BY <1>1, <1>2, <1>3, <1>4, ArtifactKeepsDisk, ObjectKeepsDisk DEF FilesNext

\* The bytes of every artifact that is called available are on disk, through
\* any interleaving of registrations, rollbacks, shared objects, both
\* collectors and moves of the lease, as long as the database session that
\* holds the lock outlives the unlink it allowed.
THEOREM BytesStay ==
    ASSUME ConstantsOK, SessionLoss = FALSE
    PROVE  FilesSpec => []AvailableHasBytes
  <1>1. FilesInit => DiskInv
    <2> SUFFICES ASSUME FilesInit PROVE DiskInv
      OBVIOUS
    <2>1. \A i : tx # Tx("stored", i) /\ tx # Tx("cleanup", i) /\ tx # Tx("orphan", i)
      BY TxDiffer DEF FilesInit
    <2> QED
      BY <2>1 DEF FilesInit, DiskInv, LockedView, AvailableHasBytes
  <1>2. FilesTypeOK /\ DiskInv /\ [FilesNext]_filesVars => DiskInv'
    BY DiskStep
  <1>3. DiskInv => AvailableHasBytes
    BY DEF DiskInv
  <1> QED
    BY <1>1, <1>2, <1>3, FilesTypeCorrect, PTL DEF FilesSpec
-----------------------------------------------------------------------------
(* The rows.                                                               *)

\* A step that touches neither the rows nor the calls.
LEMMA RowsUntouched ==
    ASSUME RowInv, UNCHANGED <<epoch, bytes, due, state, plan, out, stage, file, since, tx>>
    PROVE  RowInv'
  BY DEF RowInv, NoRowNoDelivery, Registering, DeletedIsDue, OneInside, NoPlanYet, AcceptedIsTrue

\* A step of the lock that touches no row.
LEMMA RowsUnderLock ==
    ASSUME RowInv, UNCHANGED <<epoch, bytes, due, state, plan, out, stage, file, since>>,
           Registering'
    PROVE  RowInv'
  BY DEF RowInv, NoRowNoDelivery, DeletedIsDue, OneInside, NoPlanYet, AcceptedIsTrue

\* A transaction that registers nothing.
LEMMA NotRegistering ==
    ASSUME \A i : tx' # Tx("register", i) /\ tx' # Tx("stored", i)
    PROVE  Registering'
  BY DEF Registering

\* The steps of the collectors and of register keep the rows in order.
LEMMA StoreKeepsRows ==
    ASSUME FilesTypeOK, RowInv, NEW a \in Artifacts,
           \/ RegisterBegin(a) \/ StoreBlob(a) \/ RegisterCommit(a)
           \/ CleanupShared(a) \/ CleanupBegin(a) \/ CleanupUnlink(a) \/ CleanupCommit(a)
    PROVE  RowInv'
  <1> USE DEF accountLease, manifest, delivery, blobStore, call
  <1>1. CASE RegisterBegin(a)
    <2>1. /\ tx' = Tx("register", a) /\ bytes[a] = "none"
          /\ UNCHANGED <<epoch, bytes, due, state, plan, out, stage, file, since>>
      BY <1>1 DEF RegisterBegin, BeginTx
    <2>2. \A i : tx' \in {Tx("register", i), Tx("stored", i)} => i = a
      BY <2>1, TxDiffer
    <2>3. Registering'
      BY <2>1, <2>2 DEF Registering
    <2> QED
      BY <2>1, <2>3, RowsUnderLock
  <1>2. CASE StoreBlob(a)
    <2>1. /\ tx = Tx("register", a) /\ tx' = Tx("stored", a)
          /\ UNCHANGED <<epoch, bytes, due, state, plan, out, stage, file, since>>
      BY <1>2 DEF StoreBlob
    <2>2. \A i : tx' \in {Tx("register", i), Tx("stored", i)} => i = a
      BY <2>1, TxDiffer
    <2>3. Registering'
      BY <2>1, <2>2 DEF Registering, RowInv
    <2> QED
      BY <2>1, <2>3, RowsUnderLock
  <1>3. CASE RegisterCommit(a)
    <2>1. /\ tx' = NoTx
          /\ bytes' = [bytes EXCEPT ![a] = "available"]
          /\ state' = [state EXCEPT ![a] = "stored"]
          /\ UNCHANGED <<epoch, due, plan, out, stage, file, since>>
      BY <1>3 DEF RegisterCommit
    <2>2. Registering'
      BY <2>1, NotRegistering, TxDiffer
    <2>3. NoRowNoDelivery' /\ DeletedIsDue' /\ AcceptedIsTrue'
      BY <2>1 DEF FilesTypeOK, RowInv, NoRowNoDelivery, DeletedIsDue, AcceptedIsTrue
    <2>4. OneInside' /\ NoPlanYet'
      BY <2>1 DEF RowInv, OneInside, NoPlanYet
    <2> QED
      BY <2>2, <2>3, <2>4 DEF RowInv
  <1>4. CASE CleanupShared(a)
    BY <1>4, RowsUntouched DEF CleanupShared
  <1>5. CASE CleanupBegin(a) \/ CleanupUnlink(a) \/ CleanupCommit(a)
    <2>1. /\ tx' \in {Tx("cleanup", a), Tx("removed", a), NoTx}
          /\ UNCHANGED <<epoch, bytes, due, state, plan, out, stage, file, since>>
      BY <1>5 DEF CleanupBegin, CleanupUnlink, CleanupCommit, BeginTx
    <2>2. Registering'
      BY <2>1, NotRegistering, TxDiffer
    <2> QED
      BY <2>1, <2>2, RowsUnderLock
  <1> QED
    BY <1>1, <1>2, <1>3, <1>4, <1>5

\* The clock and the sender keep them in order.
LEMMA SenderKeepsRows ==
    ASSUME FilesTypeOK, RowInv, NEW a \in Artifacts,
           \/ Deadline(a) \/ Prepare(a) \/ Accept(a)
           \/ \E s \in {"failed", "ambiguous"} : Refused(a, s)
    PROVE  RowInv'
  <1> USE DEF accountLease, manifest, delivery, blobStore, call
  <1>1. CASE Deadline(a)
    BY <1>1 DEF Deadline, FilesTypeOK, RowInv, NoRowNoDelivery, Registering, DeletedIsDue, OneInside,
                NoPlanYet, AcceptedIsTrue
  <1>2. ASSUME UNCHANGED <<epoch, bytes, due, plan, stage, file, since, tx>>,
               out[a] # "none",
               NEW s, out' = [out EXCEPT ![a] = s],
               \/ UNCHANGED state /\ (s = "committed" \/ out[a] # "committed")
               \/ s = "committed" /\ state' = [state EXCEPT ![a] = "message_accepted"]
        PROVE  RowInv'
    <2>1. NoRowNoDelivery' /\ DeletedIsDue' /\ AcceptedIsTrue'
      BY <1>2 DEF FilesTypeOK, RowInv, NoRowNoDelivery, DeletedIsDue, AcceptedIsTrue
    <2>2. Registering' /\ OneInside' /\ NoPlanYet'
      BY <1>2 DEF RowInv, Registering, OneInside, NoPlanYet
    <2> QED
      BY <2>1, <2>2 DEF RowInv
  <1>3. CASE Prepare(a)
    BY <1>3, <1>2 DEF Prepare
  <1>4. CASE Accept(a)
    BY <1>4, <1>2 DEF Accept
  <1>5. ASSUME NEW s \in {"failed", "ambiguous"}, Refused(a, s)
        PROVE  RowInv'
    BY <1>5, <1>2 DEF Refused
  <1> QED
    BY <1>1, <1>3, <1>4, <1>5

\* A call that only moves on.
LEMMA CallMoves ==
    ASSUME FilesTypeOK, RowInv, NEW k \in Calls, NEW next \in Steps,
           UNCHANGED <<epoch, bytes, due, state, plan, out, tx>>,
           Go(k, next), stage[k] # "idle",
           next \in Inside => stage[k] \in Inside,
           next \in {"read", "upload", "queue"} =>
               stage[k] \in {"read", "upload", "queue"} \/ ~plan[file[k]]
    PROVE  RowInv'
  <1> USE DEF Go
  <1>1. NoRowNoDelivery' /\ DeletedIsDue' /\ AcceptedIsTrue' /\ Registering'
    BY DEF FilesTypeOK, RowInv, NoRowNoDelivery, DeletedIsDue, AcceptedIsTrue, Registering
  <1>2. OneInside'
    BY DEF FilesTypeOK, RowInv, OneInside
  <1>3. NoPlanYet'
    BY DEF FilesTypeOK, RowInv, NoPlanYet
  <1> QED
    BY <1>1, <1>2, <1>3 DEF RowInv

\* A call that queues holds the lock of the current service, so every other
\* call of that service on its way to a plan is about another file.
LEMMA QueueKeepsRows ==
    ASSUME FilesTypeOK, RowInv, NEW k \in Calls, Queue(k)
    PROVE  RowInv' /\ ~plan[file[k]]
  <1> USE DEF accountLease, manifest, blobStore, Queue, Go, Fenced
  <1>1. ~plan[file[k]] /\ out[file[k]] = "none" /\ bytes[file[k]] # "none"
    BY DEF FilesTypeOK, RowInv, NoPlanYet, NoRowNoDelivery
  <1>2. NoRowNoDelivery' /\ AcceptedIsTrue' /\ Registering'
    BY <1>1 DEF FilesTypeOK, RowInv, NoRowNoDelivery, AcceptedIsTrue, Registering
  <1>3. DeletedIsDue'
    BY DEF FilesTypeOK, RowInv, DeletedIsDue
  <1>4. OneInside'
    BY DEF FilesTypeOK, RowInv, OneInside, Inside
  <1>5. NoPlanYet'
    BY DEF FilesTypeOK, RowInv, NoPlanYet, OneInside, Inside
  <1> QED
    BY <1>1, <1>2, <1>3, <1>4, <1>5 DEF RowInv

\* Every step of a call keeps the rows in order.
LEMMA CallKeepsRows ==
    ASSUME FilesTypeOK, RowInv, NEW k \in Calls, OfCall(k)
    PROVE  RowInv'
  <1> USE DEF accountLease, manifest, delivery, blobStore
  <1>1. ASSUME NEW a \in Artifacts, Enter(k, a)
        PROVE  RowInv'
    <2>1. NoRowNoDelivery' /\ DeletedIsDue' /\ AcceptedIsTrue' /\ Registering'
      BY <1>1 DEF Enter, FilesTypeOK, RowInv, NoRowNoDelivery, DeletedIsDue, AcceptedIsTrue, Registering
    <2>2. OneInside'
      BY <1>1 DEF Enter, FilesTypeOK, RowInv, OneInside, Inside
    <2>3. NoPlanYet'
      BY <1>1 DEF Enter, FilesTypeOK, RowInv, NoPlanYet
    <2> QED
      BY <2>1, <2>2, <2>3 DEF RowInv
  <1>2. CASE Lock(k)
    <2>1. NoRowNoDelivery' /\ DeletedIsDue' /\ AcceptedIsTrue' /\ Registering'
      BY <1>2 DEF Lock, Go, FilesTypeOK, RowInv, NoRowNoDelivery, DeletedIsDue, AcceptedIsTrue, Registering
    <2>2. OneInside'
      BY <1>2 DEF Lock, Go, FilesTypeOK, RowInv, OneInside, Inside
    <2>3. NoPlanYet'
      BY <1>2 DEF Lock, Go, FilesTypeOK, RowInv, NoPlanYet
    <2> QED
      BY <2>1, <2>2, <2>3 DEF RowInv
  <1>3. CASE Load(k) \/ Read(k) \/ Upload(k) \/ Sent(k) \/ Vanish(k)
    BY <1>3, CallMoves DEF Load, Read, Upload, Sent, Vanish, Steps, Inside
  <1>4. CASE Fail(k)
    BY <1>4, CallMoves DEF Fail, Raise, Steps, Inside
  <1>5. CASE Queue(k)
    BY <1>5, QueueKeepsRows
  <1>6. CASE Notify(k)
    <2>1. /\ stage[k] = "notify" /\ bytes[file[k]] # "none"
          /\ Go(k, "idle")
          /\ state' = [state EXCEPT ![file[k]] = IF plan[file[k]] THEN @ ELSE "failed"]
          /\ UNCHANGED <<epoch, bytes, due, plan, out, tx>>
      BY <1>6 DEF Notify, RowInv, NoRowNoDelivery
    <2>2. NoRowNoDelivery' /\ DeletedIsDue' /\ AcceptedIsTrue' /\ Registering'
      BY <2>1 DEF Go, FilesTypeOK, RowInv, NoRowNoDelivery, DeletedIsDue, AcceptedIsTrue, Registering
    <2>3. OneInside' /\ NoPlanYet'
      BY <2>1 DEF Go, FilesTypeOK, RowInv, OneInside, NoPlanYet, Inside
    <2> QED
      BY <2>2, <2>3 DEF RowInv
  <1> QED
    BY <1>1, <1>2, <1>3, <1>4, <1>5, <1>6 DEF OfCall

\* Every step does.
LEMMA RowStep ==
    ASSUME FilesTypeOK, RowInv, [FilesNext]_filesVars
    PROVE  RowInv'
  <1> USE DEF accountLease, manifest, delivery, blobStore, call
  <1>1. CASE UNCHANGED filesVars
    BY <1>1, RowsUntouched DEF filesVars
  <1>2. CASE AcquireLease
    <2>1. UNCHANGED <<bytes, due, state, plan, out, stage, file, since, tx>> /\ epoch' = epoch + 1
      BY <1>2 DEF AcquireLease
    <2>2. NoPlanYet'
      BY <2>1 DEF FilesTypeOK, RowInv, NoPlanYet
    <2> QED
      BY <2>1, <2>2 DEF RowInv, NoRowNoDelivery, Registering, DeletedIsDue, OneInside, AcceptedIsTrue
  <1>3. CASE LoseLease
    BY <1>3, RowsUntouched DEF LoseLease
  <1>4. CASE Rollback
    <2>1. /\ tx' = NoTx
          /\ UNCHANGED <<epoch, bytes, due, state, plan, out, stage, file, since>>
      BY <1>4 DEF Rollback
    <2> QED
      BY <2>1, TxDiffer, NotRegistering, RowsUnderLock
  <1>5. ASSUME NEW a \in Artifacts, OfArtifact(a)
        PROVE  RowInv'
    BY <1>5, StoreKeepsRows, SenderKeepsRows DEF OfArtifact
  <1>6. ASSUME NEW batch \in SUBSET Artifacts, CollectExpired(batch)
        PROVE  RowInv'
    <2>1. /\ \A a \in batch : bytes[a] = "available" /\ due[a]
          /\ bytes' = [a \in Artifacts |-> IF a \in batch THEN "deleted" ELSE bytes[a]]
          /\ state' = [a \in Artifacts |-> IF a \in batch /\ state[a] \notin Settled
                                           THEN "expired" ELSE state[a]]
          /\ UNCHANGED <<epoch, due, plan, out, stage, file, since>>
          /\ tx' = NoTx
      BY <1>6 DEF CollectExpired
    <2>2. Registering'
      BY <2>1, TxDiffer, NotRegistering
    <2>3. NoRowNoDelivery' /\ DeletedIsDue' /\ AcceptedIsTrue'
      BY <2>1 DEF FilesTypeOK, RowInv, NoRowNoDelivery, DeletedIsDue, AcceptedIsTrue, Settled
    <2>4. OneInside' /\ NoPlanYet'
      BY <2>1 DEF RowInv, OneInside, NoPlanYet
    <2> QED
      BY <2>2, <2>3, <2>4 DEF RowInv
  <1>7. ASSUME NEW c \in Contents, OfObject(c)
        PROVE  RowInv'
    <2>1. /\ UNCHANGED <<epoch, bytes, due, state, plan, out, stage, file, since>>
          /\ tx' \in {tx, Tx("orphan", c), NoTx}
      BY <1>7 DEF OfObject, GraceOver, OrphanBegin, BeginTx, OrphanUnlink, Cut, LateUnlink
    <2>2. CASE tx' = tx
      BY <2>1, <2>2, RowsUntouched
    <2>3. CASE tx' \in {Tx("orphan", c), NoTx}
      BY <2>1, <2>3, TxDiffer, NotRegistering, RowsUnderLock
    <2> QED
      BY <2>1, <2>2, <2>3
  <1> QED
    BY <1>1, <1>2, <1>3, <1>4, <1>5, <1>6, <1>7, CallKeepsRows DEF FilesNext, Account

\* The rows stay in order.
THEOREM RowsInOrder ==
    ASSUME ConstantsOK
    PROVE  FilesSpec => []RowInv
  <1>1. FilesInit => RowInv
    <2> SUFFICES ASSUME FilesInit PROVE RowInv
      OBVIOUS
    <2>1. Registering
      BY TxDiffer DEF FilesInit, Registering
    <2> QED
      BY <2>1 DEF FilesInit, RowInv, NoRowNoDelivery, DeletedIsDue, OneInside, NoPlanYet,
                  AcceptedIsTrue, Inside
  <1>2. FilesTypeOK /\ RowInv /\ [FilesNext]_filesVars => RowInv'
    BY RowStep
  <1> QED
    BY <1>1, <1>2, FilesTypeCorrect, PTL DEF FilesSpec

\* No file whose bytes were given up is waited for, and none is called
\* accepted without the platform's receipt.
THEOREM RowsTruthful ==
    ASSUME ConstantsOK
    PROVE  FilesSpec => [](NothingWaitsForLostBytes /\ AcceptedIsTrue)
  <1>1. RowInv => NothingWaitsForLostBytes /\ AcceptedIsTrue
    BY DEF RowInv, DeletedIsDue, NothingWaitsForLostBytes
  <1> QED
    BY <1>1, RowsInOrder, PTL

\* Nothing makes an accepted file wait, fail or expire again.
THEOREM AcceptedIsFinal ==
    ASSUME ConstantsOK
    PROVE  FilesSpec => AcceptedStays
  <1> DEFINE Stays == \A a \in Artifacts : state[a] = "message_accepted" => state'[a] = "message_accepted"
  <1>1. ASSUME FilesTypeOK, RowInv, [FilesNext]_filesVars
        PROVE  [Stays]_filesVars
    <2> SUFFICES ASSUME NEW a \in Artifacts, state[a] = "message_accepted", FilesNext
                 PROVE  state'[a] = "message_accepted"
      BY <1>1
    <2> USE DEF accountLease, manifest, delivery, blobStore, call
    <2>1. out[a] = "committed" /\ plan[a] /\ bytes[a] # "none"
      BY <1>1 DEF RowInv, AcceptedIsTrue, NoRowNoDelivery
    <2>2. CASE Account
      BY <2>2 DEF Account, AcquireLease, LoseLease, Rollback
    <2>3. ASSUME NEW b \in Artifacts, OfArtifact(b)
          PROVE  state'[a] = "message_accepted"
      <3>1. CASE RegisterCommit(b)
        <4>1. a # b
          BY <2>1, <3>1, <1>1 DEF RegisterCommit, RowInv, Registering
        <4> QED
          BY <3>1, <4>1, <1>1 DEF RegisterCommit, FilesTypeOK
      <3>2. CASE Accept(b)
        BY <3>2, <1>1 DEF Accept, FilesTypeOK
      <3> QED
        BY <2>3, <3>1, <3>2 DEF OfArtifact, Deadline, RegisterBegin, StoreBlob, CleanupShared,
             CleanupBegin, CleanupUnlink, CleanupCommit, Prepare, Refused
    <2>4. ASSUME NEW batch \in SUBSET Artifacts, CollectExpired(batch)
          PROVE  state'[a] = "message_accepted"
      BY <2>4 DEF CollectExpired, Settled
    <2>5. ASSUME NEW c \in Contents, OfObject(c)
          PROVE  state'[a] = "message_accepted"
      BY <2>5 DEF OfObject, GraceOver, OrphanBegin, OrphanUnlink, Cut, LateUnlink
    <2>6. ASSUME NEW k \in Calls, OfCall(k)
          PROVE  state'[a] = "message_accepted"
      <3>1. CASE Queue(k)
        <4>1. file[k] # a
          BY <3>1, <1>1, <2>1, QueueKeepsRows
        <4> QED
          BY <3>1, <4>1, <1>1 DEF Queue, FilesTypeOK
      <3>2. CASE Notify(k)
        BY <3>2, <2>1, <1>1 DEF Notify, FilesTypeOK
      <3> QED
        BY <2>6, <3>1, <3>2 DEF OfCall, Enter, Lock, Load, Read, Upload, Sent, Fail, Vanish
    <2> QED
      BY <2>2, <2>3, <2>4, <2>5, <2>6 DEF FilesNext
  <1> QED
    BY <1>1, FilesTypeCorrect, RowsInOrder, PTL DEF FilesSpec, AcceptedStays
=============================================================================
