------------------------ MODULE OfficialOutboxProofs ------------------------
(***************************************************************************)
(* Safety of the official outbox for every set of deliveries and           *)
(* processes, every passive limit and every amount of interference.        *)
(*                                                                         *)
(* That the platform takes a delivery once is not a fact about one         *)
(* process: a sender that has lost the lease goes on posting, and hears    *)
(* answers, while its successor works.  IInv therefore says of every row   *)
(* that all its attempts but the last were refused for certain (RowFits),  *)
(* of every lane what it may still do to the last one (LaneFits), that no  *)
(* two lanes have the same delivery under way (Apart), and that nobody has *)
(* an answer for one whose answer is still awaited (Silent).  Numbered     *)
(* adds what the replies to one message have used up.                      *)
(***************************************************************************)
EXTENDS OfficialOutbox, FiniteSetTheorems, TLAPS

Row == [status : Statuses, replyTo : 0..MaxMsgs, plain : BOOLEAN]

Attempt == [mode : {"proactive", "passive"}, msg : Nat, seq : Nat, state : AttemptStates,
            receipt : {"none", "stored", "applied"}, plat : {"none", "yes", "no"}]

Sender == [phase : {"down", "recovering", "up", "stopping"}, queue : Seq(Deliveries),
           futures : SUBSET Deliveries, ram : SUBSET Deliveries,
           unrecorded : SUBSET (Deliveries \X Nat), receipts : SUBSET (Deliveries \X Nat),
           passive : [id : Nat, used : Int, seq : Nat], todo : SUBSET Deliveries, lane : Lane]

Types ==
    /\ row \in [Deliveries -> Row]
    /\ att \in [Deliveries -> Seq(Attempt)]
    /\ holder \in Procs \cup {NoProc}
    /\ route \in [denied : BOOLEAN, authorized : BOOLEAN]
    /\ inbox \in [newest : 0..MaxMsgs, recent : BOOLEAN]
    /\ expired \subseteq Deliveries
    /\ proc \in [Procs -> Sender]
    /\ faults \in 0..MaxFaults

\* What a row is when no request for it is out or has been answered.
Untried == {"absent", "pending", "failed", "cancelled"}

\* Where a lane is before, during and after its request.
Ahead == {"route", "credential", "prepare", "giveup", "lastresort"}
OnWire == {"post", "answer", "unknown", "deny", "refused"}
InHand == {"capture", "finalize"}

RowFits(d) ==
    /\ \A n \in Attempts(d) :
          /\ att[d][n].state = "unaccepted" => att[d][n].plat # "yes"
          /\ att[d][n].receipt # "none" => att[d][n].plat = "yes"
          /\ n # Len(att[d]) \/ row[d].status \in Untried => att[d][n].state = "unaccepted"
    /\ row[d].status = "absent" => att[d] = <<>>
    /\ row[d].status = "committed" => \E n \in Attempts(d) : att[d][n].receipt = "applied"

\* A lane has its delivery under way.
Under(p, d) == proc[p].lane.pc \in OnWire \cup InHand /\ proc[p].lane.d = d

LastOf(d) == att[d][Len(att[d])]

LaneFits(p) ==
    LET lane == proc[p].lane
        d == lane.d
    IN /\ proc[p].phase \in {"down", "recovering"} => lane.pc = "idle"
       /\ lane.pc # "idle" => d \in Deliveries
       /\ lane.pc \in OnWire \cup InHand => att[d] # <<>> /\ LastOf(d).state # "unaccepted"
       /\ lane.pc = "post" => LastOf(d).plat = "none"
       /\ lane.pc \in {"deny", "refused"} => LastOf(d).plat = "no"
       /\ lane.pc \in InHand => LastOf(d).plat = "yes"
       /\ lane.pc \in OnWire => LastOf(d).receipt = "none"
       /\ Current(p) /\ lane.pc \in OnWire => row[d].status = "sending"
       /\ Current(p) /\ lane.pc \in Ahead => row[d].status \in Untried \ {"absent"}

QueueFits(p) ==
    LET q == proc[p].queue IN
    /\ \A i, j \in DOMAIN q : i # j => q[i] # q[j]
    /\ \A i \in DOMAIN q : q[i] \in proc[p].futures
    /\ proc[p].lane.pc # "idle" =>
          proc[p].lane.d \in proc[p].futures /\ \A i \in DOMAIN q : q[i] # proc[p].lane.d
    /\ Current(p) => \A i \in DOMAIN q : row[q[i]].status \in Untried \ {"absent"}

\* The responses that a process knows of.
Heard(p) == proc[p].unrecorded \cup proc[p].receipts

HeardFits(p) == \A x \in Heard(p) : x[2] \in Attempts(x[1]) /\ att[x[1]][x[2]].plat = "yes"

Apart(p, q) == p # q => \A d \in Deliveries : ~ (Under(p, d) /\ Under(q, d))

Silent(p, q) == proc[p].lane.pc \in OnWire => \A x \in Heard(q) : x[1] # proc[p].lane.d

Once ==
    /\ \A d \in Deliveries : RowFits(d)
    /\ \A p \in Procs : LaneFits(p) /\ QueueFits(p) /\ HeardFits(p)
    /\ \A p, q \in Procs : Apart(p, q) /\ Silent(p, q)

\* The replies to one message that may have reached somebody.
Kept(m) == {x \in Traceable : att[x[1]][x[2]].msg = m /\ att[x[1]][x[2]].state # "unaccepted"}

\* A lane that has a slot which no attempt accounts for.
Slot(p) == proc[p].lane.mode = "passive" /\ proc[p].lane.pc \in OnWire \cup {"prepare"}

Uncounted(p) ==
    /\ Slot(p)
    /\ proc[p].lane.pc = "prepare"
          \/ <<proc[p].lane.d, Len(att[proc[p].lane.d])>> \notin Traceable

SlotFits(p) ==
    LET lane == proc[p].lane
        mine == proc[p].passive
    IN /\ mine.used \in 0 .. PassiveLimit
       /\ Slot(p) => mine.used >= 1 /\ lane.msg = mine.id /\ lane.msg \in 1 .. inbox.newest
       /\ Slot(p) /\ lane.pc = "prepare" =>
             /\ lane.seq = mine.seq
             /\ Current(p) /\ lane.d \in Ephemeral => row[lane.d].replyTo <= lane.msg
       /\ Slot(p) /\ lane.pc \in OnWire => LastOf(lane.d).msg = lane.msg

Numbers(p) ==
    LET lane == proc[p].lane
        mine == proc[p].passive
    IN Current(p) =>
       /\ \A x \in Traceable : att[x[1]][x[2]].msg = mine.id =>
             /\ att[x[1]][x[2]].seq <= mine.seq
             /\ Slot(p) /\ lane.pc = "prepare" => att[x[1]][x[2]].seq < mine.seq
       /\ Cardinality(Kept(mine.id)) + (IF Uncounted(p) THEN 1 ELSE 0) <= mine.used

Numbered ==
    /\ \A d \in Deliveries : row[d].replyTo <= inbox.newest
    /\ \A x \in PassiveAttempts :
          /\ att[x[1]][x[2]].msg \in 1 .. inbox.newest
          /\ x[1] \in Ephemeral => row[x[1]].replyTo <= att[x[1]][x[2]].msg
    /\ SeqFresh(Traceable)
    /\ \A m \in Nat : Cardinality(Kept(m)) <= PassiveLimit
    /\ \A p \in Procs : SlotFits(p) /\ Numbers(p)

IInv == Types /\ Once /\ Numbered

-----------------------------------------------------------------------------
(* Types and the shapes of states.                                         *)

LEMMA Basics ==
    /\ Deliveries \subseteq Nat /\ IsFiniteSet(Deliveries)
    /\ NoProc \notin Procs
    /\ PassiveLimit \in Nat /\ MaxMsgs \in Nat /\ MaxFaults \in Nat
  BY OutboxAssumption

LEMMA Senders ==
    ASSUME Types, NEW p \in Procs
    PROVE  /\ proc[p] \in Sender
           /\ proc[p].lane \in Lane
           /\ proc[p].queue \in Seq(Deliveries)
           /\ proc[p].passive \in [id : Nat, used : Int, seq : Nat]
           /\ proc[p].unrecorded \subseteq Deliveries \X Nat
           /\ proc[p].receipts \subseteq Deliveries \X Nat
           /\ Heard(p) \subseteq Deliveries \X Nat
  BY DEF Types, Sender, Heard

LEMMA Sequences ==
    ASSUME Types, NEW d \in Deliveries
    PROVE  /\ att[d] \in Seq(Attempt)
           /\ Len(att[d]) \in Nat /\ DOMAIN att[d] = 1 .. Len(att[d])
           /\ \A n \in DOMAIN att[d] : att[d][n] \in Attempt /\ n \in Nat
           /\ att[d] # <<>> => Len(att[d]) \in DOMAIN att[d]
           /\ Attempts(d) = DOMAIN att[d]
  <1>1. att[d] \in Seq(Attempt) BY DEF Types
  <1> QED BY <1>1 DEF Attempts

\* One attempt is overwritten.
LEMMA Overwritten ==
    ASSUME Types, NEW d \in Deliveries, NEW n \in DOMAIN att[d], NEW a \in Attempt,
           att' = [att EXCEPT ![d][n] = a]
    PROVE  /\ att' \in [Deliveries -> Seq(Attempt)]
           /\ att'[d][n] = a
           /\ \A e \in Deliveries : DOMAIN att'[e] = DOMAIN att[e] /\ Len(att'[e]) = Len(att[e])
           /\ \A e \in Deliveries : e # d => att'[e] = att[e]
           /\ \A k \in DOMAIN att[d] : k # n => att'[d][k] = att[d][k]
  <1>1. att \in [Deliveries -> Seq(Attempt)] BY DEF Types
  <1>2. att[d] \in Seq(Attempt) BY <1>1
  <1>3. att'[d] = [att[d] EXCEPT ![n] = a] BY <1>1
  <1>4. att'[d] \in Seq(Attempt) /\ Len(att'[d]) = Len(att[d]) /\ DOMAIN att'[d] = DOMAIN att[d]
    BY <1>2, <1>3
  <1>5. \A e \in Deliveries : e # d => att'[e] = att[e] BY <1>1
  <1>6. att' \in [Deliveries -> Seq(Attempt)]
    <2>1. \A e \in Deliveries : att'[e] \in Seq(Attempt) BY <1>1, <1>4, <1>5
    <2>2. att' = [e \in Deliveries |-> att'[e]] BY <1>1
    <2> QED BY <2>1, <2>2
  <1>7. att'[d][n] = a /\ \A k \in DOMAIN att[d] : k # n => att'[d][k] = att[d][k]
    BY <1>2, <1>3
  <1> QED BY <1>4, <1>5, <1>6, <1>7

LEMMA ProcEdit ==
    ASSUME Types, NEW p \in Procs, NEW me \in Sender, proc' = [proc EXCEPT ![p] = me]
    PROVE  /\ proc' \in [Procs -> Sender]
           /\ proc'[p] = me
           /\ \A q \in Procs : q # p => proc'[q] = proc[q]
  BY DEF Types

\* A sender that has just been constructed is well formed.
LEMMA FreshTyped ==
    ASSUME NEW phase \in {"down", "recovering"}
    PROVE  Fresh(phase) \in Sender
  <1>1. IdleLane \in Lane BY DEF IdleLane, Lane, Refusals
  <1>2. <<>> \in Seq(Deliveries) OBVIOUS
  <1> QED BY <1>1, <1>2 DEF Fresh, Sender

\* A step of one sender that moves its lane only.
LEMMA LaneEdit ==
    ASSUME Types, NEW p \in Procs, NEW lane \in Lane, proc' = [proc EXCEPT ![p].lane = lane]
    PROVE  /\ proc' \in [Procs -> Sender]
           /\ proc'[p].lane = lane /\ proc'[p].passive = proc[p].passive
           /\ proc'[p].queue = proc[p].queue /\ proc'[p].futures = proc[p].futures
           /\ proc'[p].phase = proc[p].phase
           /\ proc'[p].unrecorded = proc[p].unrecorded /\ proc'[p].receipts = proc[p].receipts
           /\ \A q \in Procs : q # p => proc'[q] = proc[q]
  <1>1. proc[p] \in Sender BY Senders
  <1>2. PICK me : me = [proc[p] EXCEPT !.lane = lane] OBVIOUS
  <1>3. me \in Sender BY <1>1, <1>2 DEF Sender
  <1>4. proc' = [proc EXCEPT ![p] = me] BY <1>2
  <1>5. /\ proc' \in [Procs -> Sender] /\ proc'[p] = me
        /\ \A q \in Procs : q # p => proc'[q] = proc[q]
    BY <1>3, <1>4, ProcEdit
  <1> QED BY <1>1, <1>2, <1>5 DEF Sender

\* What a lane at pc relies on: the phase of its sender, its delivery d, the attempts s
\* and the status of the delivery's row, and whether its sender holds the lease.
Relies(phase, pc, d, ours, s, status) ==
    /\ phase \in {"down", "recovering"} => pc = "idle"
    /\ pc # "idle" => d \in Deliveries
    /\ pc \in OnWire \cup InHand => s # <<>> /\ s[Len(s)].state # "unaccepted"
    /\ pc = "post" => s[Len(s)].plat = "none"
    /\ pc \in {"deny", "refused"} => s[Len(s)].plat = "no"
    /\ pc \in InHand => s[Len(s)].plat = "yes"
    /\ pc \in OnWire => s[Len(s)].receipt = "none"
    /\ ours /\ pc \in OnWire => status = "sending"
    /\ ours /\ pc \in Ahead => status \in Untried \ {"absent"}

LEMMA LaneReads ==
    ASSUME NEW p
    PROVE  /\ LaneFits(p) <=> Relies(proc[p].phase, proc[p].lane.pc, proc[p].lane.d, holder = p,
                                     att[proc[p].lane.d], row[proc[p].lane.d].status)
           /\ LaneFits(p)' <=> Relies(proc'[p].phase, proc'[p].lane.pc, proc'[p].lane.d, holder' = p,
                                      att'[proc'[p].lane.d], row'[proc'[p].lane.d].status)
  BY DEF LaneFits, Relies, LastOf, Current

\* A lane is left as it was while its delivery's row moves.
LEMMA RelyKept ==
    ASSUME NEW phase, NEW pc, NEW d, NEW ours, NEW s, NEW status, NEW s2, NEW status2,
           Relies(phase, pc, d, ours, s, status), pc \in OnWire \cup InHand => s2 = s,
           ours /\ pc \in OnWire => status2 = "sending",
           ours /\ pc \in Ahead => status2 \in Untried \ {"absent"}
    PROVE  Relies(phase, pc, d, ours, s2, status2)
  <1>1. pc \in OnWire => pc \in OnWire \cup InHand OBVIOUS
  <1>2. pc \in InHand => pc \in OnWire \cup InHand OBVIOUS
  <1>3. pc = "post" => pc \in OnWire BY DEF OnWire
  <1>4. pc \in {"deny", "refused"} => pc \in OnWire BY DEF OnWire
  <1> QED BY <1>1, <1>2, <1>3, <1>4 DEF Relies

\* A lane whose request was accepted, and one that has no delivery.
LEMMA RelyInHand ==
    ASSUME NEW phase, NEW pc \in InHand, NEW d \in Deliveries, NEW ours, NEW s, NEW status,
           phase \notin {"down", "recovering"}, s # <<>>, s[Len(s)].state # "unaccepted",
           s[Len(s)].plat = "yes"
    PROVE  Relies(phase, pc, d, ours, s, status)
  <1>1. pc \notin OnWire /\ pc \notin Ahead /\ pc \notin {"post", "deny", "refused"}
    BY DEF InHand, OnWire, Ahead
  <1> QED BY <1>1 DEF Relies

\* A lane that waits for the platform, with nothing known of its request yet.
LEMMA RelyOnWire ==
    ASSUME NEW phase, NEW pc \in {"post", "answer", "unknown"}, NEW d \in Deliveries, NEW ours, NEW s,
           NEW status, phase \notin {"down", "recovering"}, s # <<>>,
           s[Len(s)].state # "unaccepted", s[Len(s)].receipt = "none",
           pc = "post" => s[Len(s)].plat = "none", ours => status = "sending"
    PROVE  Relies(phase, pc, d, ours, s, status)
  <1>1. pc \notin InHand /\ pc \notin Ahead /\ pc \notin {"deny", "refused"}
    BY DEF InHand, Ahead
  <1> QED BY <1>1 DEF Relies

-----------------------------------------------------------------------------
(* Steps that leave the tables alone.                                      *)

\* A sender does nothing new: its lane goes on with what it had under way, or lets it go.
Calm(p) ==
    LET lane == proc[p].lane
        new == proc'[p].lane
    IN /\ new.pc # "idle" /\ holder' = p => holder = p
       /\ proc'[p].phase \in {"down", "recovering"} => new.pc = "idle"
       /\ new.pc # "idle" => new.d \in Deliveries
       /\ new.pc \in OnWire \cup InHand => lane.pc \in OnWire \cup InHand /\ new.d = lane.d
       /\ new.pc \in OnWire => lane.pc \in OnWire
       /\ new.pc = "post" => lane.pc = "post"
       /\ new.pc \in {"deny", "refused"} =>
             lane.pc \in {"deny", "refused"} \/ LastOf(lane.d).plat = "no"
       /\ new.pc \in InHand => lane.pc \in InHand \/ LastOf(lane.d).plat = "yes"
       /\ holder = p /\ new.pc \in Ahead => row[new.d].status \in Untried \ {"absent"}
       /\ QueueFits(p)' /\ HeardFits(p)'
       /\ \A x \in Heard(p)' : x \in Heard(p) \/ (Under(p, x[1]) /\ new.pc \notin OnWire)

LEMMA Bystander ==
    ASSUME Types, Once, NEW p \in Procs, row' = row, att' = att, proc'[p] = proc[p],
           holder' = p => holder = p
    PROVE  Calm(p)
  <1>1. LaneFits(p) /\ QueueFits(p) /\ HeardFits(p) BY DEF Once
  <1>2. HeardFits(p)' /\ Heard(p)' = Heard(p) BY <1>1 DEF HeardFits, Heard, Attempts
  <1>3. QueueFits(p)' BY <1>1 DEF QueueFits, Current
  <1> QED BY <1>1, <1>2, <1>3 DEF Calm, LaneFits, Current

LEMMA FreshCalm ==
    ASSUME NEW p \in Procs, NEW phase, proc'[p] = Fresh(phase)
    PROVE  Calm(p)
  <1>1. /\ proc'[p].lane = IdleLane /\ proc'[p].queue = <<>>
        /\ proc'[p].unrecorded = {} /\ proc'[p].receipts = {}
    BY DEF Fresh
  <1>2. proc'[p].lane.pc = "idle" BY <1>1 DEF IdleLane
  <1>3. Heard(p)' = {} BY <1>1 DEF Heard
  <1>4. QueueFits(p)' BY <1>1, <1>2 DEF QueueFits
  <1> QED BY <1>2, <1>3, <1>4 DEF Calm, HeardFits, OnWire, InHand, Ahead

LEMMA StillOnce ==
    ASSUME Types, Once, row' = row, att' = att, \A p \in Procs : Calm(p)
    PROVE  Once'
  <1>1. \A d \in Deliveries : RowFits(d)' BY DEF Once, RowFits, Attempts
  <1>2. ASSUME NEW p \in Procs PROVE LaneFits(p)'
    <2>1. LaneFits(p) /\ Calm(p) BY DEF Once
    <2>2. \A d : LastOf(d)' = LastOf(d) BY DEF LastOf
    <2> QED BY <2>1, <2>2 DEF LaneFits, Calm, Current, OnWire, InHand, Ahead
  <1>3. \A p \in Procs : QueueFits(p)' /\ HeardFits(p)' BY DEF Calm
  <1>4. ASSUME NEW p \in Procs, NEW q \in Procs PROVE Apart(p, q)'
    <2>1. \A d : (Under(p, d)' => Under(p, d)) /\ (Under(q, d)' => Under(q, d))
      BY DEF Calm, Under
    <2>2. Apart(p, q) BY DEF Once
    <2> QED BY <2>1, <2>2 DEF Apart
  <1>5. ASSUME NEW p \in Procs, NEW q \in Procs PROVE Silent(p, q)'
    <2> SUFFICES ASSUME proc'[p].lane.pc \in OnWire, NEW x \in Heard(q)', x[1] = proc'[p].lane.d
                 PROVE  FALSE
      BY DEF Silent
    <2>1. proc[p].lane.pc \in OnWire /\ proc'[p].lane.d = proc[p].lane.d BY DEF Calm
    <2>2. x \notin Heard(q) BY <2>1 DEF Once, Silent
    <2>3. Under(q, x[1]) /\ proc'[q].lane.pc \notin OnWire BY <2>2 DEF Calm
    <2>4. Under(p, x[1]) /\ p # q BY <2>1, <2>3 DEF Under
    <2>5. x[1] \in Deliveries BY <2>1, <2>4 DEF Once, LaneFits, OnWire
    <2> QED BY <2>3, <2>4, <2>5 DEF Once, Apart
  <1> QED BY <1>1, <1>2, <1>3, <1>4, <1>5 DEF Once

-----------------------------------------------------------------------------
(* Steps that use up no reply.                                             *)

LEMMA RecordedFinite ==
    ASSUME Types
    PROVE  /\ IsFiniteSet(Recorded)
           /\ \A x \in Recorded : x[1] \in Deliveries /\ x[2] \in DOMAIN att[x[1]] /\ x = <<x[1], x[2]>>
           /\ \A d \in Deliveries : \A n \in DOMAIN att[d] : <<d, n>> \in Recorded
           /\ Traceable \subseteq Recorded
           /\ \A m : IsFiniteSet(Kept(m)) /\ Cardinality(Kept(m)) \in Nat
  <1> DEFINE f == [d \in Deliveries |-> {d} \X DOMAIN att[d]]
  <1>1. \A d \in Deliveries : IsFiniteSet(f[d])
    <2> TAKE d \in Deliveries
    <2>1. DOMAIN att[d] = 1 .. Len(att[d]) /\ Len(att[d]) \in Nat BY Sequences
    <2>2. IsFiniteSet(DOMAIN att[d]) BY <2>1, FS_Interval
    <2>3. IsFiniteSet({d}) BY FS_Singleton
    <2> QED BY <2>2, <2>3, FS_Product
  <1>2. IsFiniteSet({f[d] : d \in Deliveries})
    <2> HIDE DEF f
    <2> DEFINE images == {f[d] : d \in Deliveries}
    <2>1. f \in [Deliveries -> images] BY DEF f
    <2>2. \A y \in images : \E d \in Deliveries : f[d] = y OBVIOUS
    <2>3. f \in Surjection(Deliveries, images) BY <2>1, <2>2 DEF Surjection
    <2> QED BY <2>3, Basics, FS_Surjection
  <1>3. IsFiniteSet(UNION {f[d] : d \in Deliveries}) BY <1>1, <1>2, FS_UNION
  <1>4. Recorded = UNION {f[d] : d \in Deliveries} BY DEF Recorded
  <1> HIDE DEF f
  <1>5. IsFiniteSet(Recorded) BY <1>3, <1>4
  <1>6. \A x \in Recorded : x[1] \in Deliveries /\ x[2] \in DOMAIN att[x[1]] /\ x = <<x[1], x[2]>>
    BY DEF Recorded
  <1>7. \A d \in Deliveries : \A n \in DOMAIN att[d] : <<d, n>> \in Recorded BY DEF Recorded
  <1>8. Traceable \subseteq Recorded BY DEF Traceable, PassiveAttempts
  <1>9. ASSUME NEW m PROVE IsFiniteSet(Kept(m)) /\ Cardinality(Kept(m)) \in Nat
    <2>1. Kept(m) \subseteq Recorded BY <1>8 DEF Kept
    <2>2. IsFiniteSet(Kept(m)) BY <1>5, <2>1, FS_Subset
    <2> QED BY <2>2, FS_CardinalityType
  <1> QED BY <1>5, <1>6, <1>7, <1>8, <1>9

\* No attempt begins, changes what it is, or comes back from a refusal; a row keeps
\* the message it replies to from the time it is there.
Settling ==
    /\ \A d \in Deliveries :
          /\ DOMAIN att'[d] = DOMAIN att[d]
          /\ \A n \in DOMAIN att[d] :
                /\ att'[d][n].mode = att[d][n].mode
                /\ att'[d][n].msg = att[d][n].msg
                /\ att'[d][n].seq = att[d][n].seq
                /\ att'[d][n].state # "unaccepted" => att[d][n].state # "unaccepted"
          /\ \/ row'[d].replyTo = row[d].replyTo
             \/ row[d].status = "absent" /\ row'[d].replyTo <= inbox'.newest
    /\ inbox.newest <= inbox'.newest

\* A sender takes no slot and keeps what it had, or ends with as many as were used at
\* least, or it is a new one.
Thrifty(p) ==
    \/ /\ proc'[p].passive = proc[p].passive
       /\ holder' = p => holder = p
       /\ Slot(p)' => /\ Slot(p)
                      /\ proc'[p].lane.d = proc[p].lane.d
                      /\ proc'[p].lane.msg = proc[p].lane.msg
                      /\ proc'[p].lane.seq = proc[p].lane.seq
                      /\ proc'[p].lane.pc = "prepare" <=> proc[p].lane.pc = "prepare"
    \/ /\ \E u \in 0 .. PassiveLimit :
             /\ proc'[p].passive = [proc[p].passive EXCEPT !.used = u]
             /\ \A m : holder = p /\ m = proc[p].passive.id => Cardinality(Kept(m)') <= u
       /\ holder' = p => holder = p
       /\ ~ Slot(p)'
    \/ /\ proc'[p].passive = [id |-> 0, used |-> 0, seq |-> 0]
       /\ ~ Slot(p)'

\* What the history shows of the replies does not change.
LEMMA SameReplies ==
    ASSUME Types, Types', Once, Numbered, Settling
    PROVE  /\ Recorded' = Recorded
           /\ PassiveAttempts' = PassiveAttempts
           /\ Traceable' = Traceable
           /\ \A m : /\ Cardinality(Kept(m)') <= Cardinality(Kept(m))
                     /\ Cardinality(Kept(m)') \in Nat
           /\ \A d \in Deliveries : Len(att'[d]) = Len(att[d])
  <1>1. Recorded' = Recorded
    <2>1. \A d \in Deliveries : DOMAIN att'[d] = DOMAIN att[d] BY DEF Settling
    <2> QED BY <2>1 DEF Recorded
  <1>2. \A x \in Recorded : x[1] \in Deliveries /\ x[2] \in DOMAIN att[x[1]] BY RecordedFinite
  <1>3. \A x \in Recorded : /\ att'[x[1]][x[2]].mode = att[x[1]][x[2]].mode
                            /\ att'[x[1]][x[2]].msg = att[x[1]][x[2]].msg
                            /\ att'[x[1]][x[2]].state # "unaccepted" => att[x[1]][x[2]].state # "unaccepted"
    BY <1>2 DEF Settling
  <1>4. \A x \in Recorded : row'[x[1]].replyTo = row[x[1]].replyTo
    <2> TAKE x \in Recorded
    <2>1. x[1] \in Deliveries /\ att[x[1]] # <<>> BY <1>2
    <2>2. row[x[1]].status # "absent" BY <2>1 DEF Once, RowFits
    <2> QED BY <2>1, <2>2 DEF Settling
  <1>5. PassiveAttempts' = PassiveAttempts BY <1>1, <1>3 DEF PassiveAttempts
  <1>6. Traceable' = Traceable
    <2>1. \A x \in Recorded : (x \in RepliesTo(att[x[1]][x[2]].msg)) <=>
             /\ att[x[1]][x[2]].mode = "passive"
             /\ att[x[1]][x[2]].msg = IF x[1] \in Ephemeral THEN row[x[1]].replyTo ELSE att[x[1]][x[2]].msg
      BY DEF RepliesTo
    <2>2. \A x \in Recorded : (x \in RepliesTo(att[x[1]][x[2]].msg)') <=>
             /\ att'[x[1]][x[2]].mode = "passive"
             /\ att'[x[1]][x[2]].msg = IF x[1] \in Ephemeral THEN row'[x[1]].replyTo ELSE att'[x[1]][x[2]].msg
      BY <1>1 DEF RepliesTo
    <2>3. \A x \in Recorded : (x \in RepliesTo(att[x[1]][x[2]].msg)') <=> (x \in RepliesTo(att[x[1]][x[2]].msg))
      BY <1>3, <1>4, <2>1, <2>2
    <2>4. PassiveAttempts \subseteq Recorded BY DEF PassiveAttempts
    <2> QED BY <1>5, <2>3, <2>4 DEF Traceable
  <1>7. ASSUME NEW m
        PROVE  Cardinality(Kept(m)') <= Cardinality(Kept(m)) /\ Cardinality(Kept(m)') \in Nat
    <2>1. Traceable \subseteq Recorded BY RecordedFinite
    <2>2. Kept(m)' \subseteq Kept(m) BY <1>3, <1>6, <2>1 DEF Kept
    <2>3. IsFiniteSet(Kept(m)) BY RecordedFinite
    <2> QED BY <2>2, <2>3, FS_Subset, FS_CardinalityType
  <1>8. ASSUME NEW d \in Deliveries PROVE Len(att'[d]) = Len(att[d])
    <2>1. DOMAIN att'[d] = DOMAIN att[d] BY DEF Settling
    <2>2. att[d] \in Seq(Attempt) /\ att'[d] \in Seq(Attempt) BY DEF Types
    <2> QED BY <2>1, <2>2
  <1> QED BY <1>1, <1>5, <1>6, <1>7, <1>8

LEMMA NumbersKept ==
    ASSUME Types, Types', Once, Numbered, Settling, \A p \in Procs : Thrifty(p)
    PROVE  Numbered'
  <1>1. /\ Recorded' = Recorded /\ PassiveAttempts' = PassiveAttempts /\ Traceable' = Traceable
        /\ \A m : /\ Cardinality(Kept(m)') <= Cardinality(Kept(m))
                  /\ Cardinality(Kept(m)') \in Nat
        /\ \A d \in Deliveries : Len(att'[d]) = Len(att[d])
    BY SameReplies
  <1>2. inbox.newest \in Nat /\ inbox'.newest \in Nat /\ inbox.newest <= inbox'.newest
    BY Basics DEF Types, Settling
  <1>3. \A d \in Deliveries : row[d].replyTo \in Nat /\ row'[d].replyTo \in Nat
    BY Basics DEF Types, Row
  <1>4. \A x \in Recorded : x[1] \in Deliveries /\ x[2] \in DOMAIN att[x[1]] BY RecordedFinite
  <1>5. PassiveAttempts \subseteq Recorded /\ Traceable \subseteq Recorded
    BY RecordedFinite DEF PassiveAttempts
  <1>6. \A x \in Recorded : /\ att'[x[1]][x[2]].msg = att[x[1]][x[2]].msg
                            /\ att'[x[1]][x[2]].seq = att[x[1]][x[2]].seq
    BY <1>4 DEF Settling
  <1>7. \A d \in Deliveries : row[d].status # "absent" => row'[d].replyTo = row[d].replyTo
    BY DEF Settling
  <1>8. \A d \in Deliveries : att[d] # <<>> => row[d].status # "absent"
    BY DEF Once, RowFits
  <1>9. \A d \in Deliveries : row'[d].replyTo <= inbox'.newest
    BY <1>2, <1>3 DEF Numbered, Settling
  <1>10. ASSUME NEW x \in PassiveAttempts'
         PROVE  /\ att'[x[1]][x[2]].msg \in 1 .. inbox'.newest
                /\ x[1] \in Ephemeral => row'[x[1]].replyTo <= att'[x[1]][x[2]].msg
    <2>1. x \in PassiveAttempts /\ x \in Recorded BY <1>1, <1>5
    <2>2. att[x[1]] # <<>> /\ x[1] \in Deliveries BY <1>4, <2>1
    <2>3. row'[x[1]].replyTo = row[x[1]].replyTo BY <1>7, <1>8, <2>2
    <2> QED BY <1>2, <1>6, <2>1, <2>3 DEF Numbered
  <1>11. SeqFresh(Traceable)'
    <2>1. SeqFresh(Traceable) BY DEF Numbered
    <2> QED BY <1>1, <1>5, <1>6, <2>1 DEF SeqFresh
  <1>12. ASSUME NEW m \in Nat PROVE Cardinality(Kept(m)') <= PassiveLimit
    <2>1. Cardinality(Kept(m)) <= PassiveLimit BY DEF Numbered
    <2>2. Cardinality(Kept(m)) \in Nat /\ Cardinality(Kept(m)') \in Nat BY <1>1, RecordedFinite
    <2> QED BY <1>1, <2>1, <2>2, Basics
  <1>13. ASSUME NEW p \in Procs PROVE SlotFits(p)' /\ Numbers(p)'
    <2>1. CASE /\ proc'[p].passive = proc[p].passive
               /\ holder' = p => holder = p
               /\ Slot(p)' => /\ Slot(p)
                              /\ proc'[p].lane.d = proc[p].lane.d
                              /\ proc'[p].lane.msg = proc[p].lane.msg
                              /\ proc'[p].lane.seq = proc[p].lane.seq
                              /\ proc'[p].lane.pc = "prepare" <=> proc[p].lane.pc = "prepare"
      <3>0. SlotFits(p) /\ Numbers(p) BY DEF Numbered
      <3>1. Slot(p)' => proc[p].lane.d \in Deliveries
        <4>1. proc[p].lane.pc # "idle" => proc[p].lane.d \in Deliveries BY DEF Once, LaneFits
        <4> QED BY <2>1, <4>1 DEF Slot, OnWire
      <3>2. Slot(p)' /\ proc'[p].lane.pc \in OnWire => LastOf(proc[p].lane.d)'.msg = proc[p].lane.msg
        <4> SUFFICES ASSUME Slot(p)', proc'[p].lane.pc \in OnWire
                     PROVE  LastOf(proc[p].lane.d)'.msg = proc[p].lane.msg
          OBVIOUS
        <4>1. proc[p].lane.pc \in OnWire BY <2>1 DEF Slot, OnWire
        <4>2. PICK d \in Deliveries : d = proc[p].lane.d BY <3>1
        <4>3. att[d] # <<>> /\ LastOf(d).msg = proc[p].lane.msg
          BY <2>1, <3>0, <4>1, <4>2 DEF Once, LaneFits, SlotFits
        <4>4. Len(att[d]) \in DOMAIN att[d] /\ Len(att'[d]) = Len(att[d])
          BY <1>1, <4>3, Sequences
        <4>5. att'[d][Len(att'[d])].msg = proc[p].lane.msg BY <4>3, <4>4 DEF LastOf, Settling
        <4> QED BY <2>1, <4>2, <4>5 DEF LastOf
      <3>3. holder = p /\ Slot(p)' /\ proc'[p].lane.pc = "prepare" =>
                row'[proc[p].lane.d].replyTo = row[proc[p].lane.d].replyTo
        <4>1. LaneFits(p) BY DEF Once
        <4> QED BY <1>7, <2>1, <3>1, <4>1 DEF LaneFits, Current, Ahead
      <3>4. SlotFits(p)'
        BY <1>2, <1>3, <2>1, <3>0, <3>1, <3>2, <3>3 DEF SlotFits, Current
      <3>5. Uncounted(p)' => Uncounted(p)
        BY <1>1, <2>1, <3>1 DEF Uncounted
      <3>6. Numbers(p)'
        <4> SUFFICES ASSUME holder' = p PROVE Numbers(p)' BY DEF Numbers, Current
        <4>1. /\ \A x \in Traceable : att[x[1]][x[2]].msg = proc[p].passive.id =>
                   /\ att[x[1]][x[2]].seq <= proc[p].passive.seq
                   /\ Slot(p) /\ proc[p].lane.pc = "prepare" => att[x[1]][x[2]].seq < proc[p].passive.seq
              /\ Cardinality(Kept(proc[p].passive.id)) + (IF Uncounted(p) THEN 1 ELSE 0)
                    <= proc[p].passive.used
          BY <2>1, <3>0 DEF Numbers, Current
        <4>2. \A x \in Traceable' : att'[x[1]][x[2]].msg = proc'[p].passive.id =>
                   /\ att'[x[1]][x[2]].seq <= proc'[p].passive.seq
                   /\ Slot(p)' /\ proc'[p].lane.pc = "prepare" => att'[x[1]][x[2]].seq < proc'[p].passive.seq
          BY <1>1, <1>5, <1>6, <2>1, <4>1
        <4>3. Cardinality(Kept(proc[p].passive.id)') + (IF Uncounted(p)' THEN 1 ELSE 0)
                    <= proc[p].passive.used
          <5>1. PICK m : m = proc[p].passive.id OBVIOUS
          <5>2. /\ Cardinality(Kept(m)) \in Nat /\ Cardinality(Kept(m)') \in Nat
                /\ Cardinality(Kept(m)') <= Cardinality(Kept(m))
                /\ proc[p].passive.used \in Int
            BY <1>1, RecordedFinite, Senders
          <5>3. Cardinality(Kept(m)') + (IF Uncounted(p)' THEN 1 ELSE 0) <= proc[p].passive.used
            BY <3>5, <4>1, <5>1, <5>2
          <5> QED BY <2>1, <5>1, <5>3
        <4> QED BY <2>1, <4>2, <4>3 DEF Numbers
      <3> QED BY <3>4, <3>6
    <2>2. CASE proc'[p].passive = [id |-> 0, used |-> 0, seq |-> 0] /\ ~ Slot(p)'
      <3>1. SlotFits(p)' BY <2>2, Basics DEF SlotFits
      <3>2. \A x \in Traceable' : att'[x[1]][x[2]].msg # 0
        <4> TAKE x \in Traceable'
        <4>1. x \in PassiveAttempts' BY DEF Traceable
        <4> QED BY <1>2, <1>10, <4>1
      <3>3. Kept(0)' = {} BY <3>2 DEF Kept
      <3>4. Cardinality(Kept(0)') = 0 BY <3>3, FS_EmptySet
      <3>5. ~ Uncounted(p)' BY <2>2 DEF Uncounted
      <3> QED BY <2>2, <3>1, <3>2, <3>4, <3>5 DEF Numbers
    <2>3. ASSUME NEW u \in 0 .. PassiveLimit,
                 proc'[p].passive = [proc[p].passive EXCEPT !.used = u],
                 \A m : holder = p /\ m = proc[p].passive.id => Cardinality(Kept(m)') <= u,
                 holder' = p => holder = p, ~ Slot(p)'
          PROVE  SlotFits(p)' /\ Numbers(p)'
      <3>1. proc[p].passive \in [id : Nat, used : Int, seq : Nat] BY Senders
      <3>2. /\ proc'[p].passive.used = u /\ proc'[p].passive.id = proc[p].passive.id
            /\ proc'[p].passive.seq = proc[p].passive.seq
        BY <2>3, <3>1
      <3>3. SlotFits(p)' BY <2>3, <3>2 DEF SlotFits
      <3>4. ~ Uncounted(p)' BY <2>3 DEF Uncounted
      <3>5. Numbers(p) BY DEF Numbered
      <3>6. PICK m : m = proc[p].passive.id OBVIOUS
      <3>7. Cardinality(Kept(m)') \in Nat /\ (holder = p => Cardinality(Kept(m)') <= u)
        BY <1>1, <2>3, <3>6
      <3>8. Numbers(p)'
        <4> SUFFICES ASSUME holder' = p PROVE Numbers(p)' BY DEF Numbers, Current
        <4>1. \A x \in Traceable : att[x[1]][x[2]].msg = proc[p].passive.id =>
                    att[x[1]][x[2]].seq <= proc[p].passive.seq
          BY <2>3, <3>5 DEF Numbers, Current
        <4>2. \A x \in Traceable' : att'[x[1]][x[2]].msg = proc'[p].passive.id =>
                    att'[x[1]][x[2]].seq <= proc'[p].passive.seq
          BY <1>1, <1>5, <1>6, <3>2, <4>1
        <4>3. Cardinality(Kept(m)') + 0 <= u BY <2>3, <3>7
        <4> QED BY <2>3, <3>2, <3>4, <3>6, <4>2, <4>3 DEF Numbers
      <3> QED BY <3>3, <3>8
    <2>4. Thrifty(p) OBVIOUS
    <2> QED BY <2>1, <2>2, <2>3, <2>4 DEF Thrifty
  <1> QED BY <1>9, <1>10, <1>11, <1>12, <1>13 DEF Numbered

-----------------------------------------------------------------------------
(* The steps, one by one.  First those that leave the tables alone.        *)

LEMMA Idlers ==
    ASSUME IInv, NEW p \in Procs, row' = row, att' = att, proc'[p] = proc[p],
           holder' = p => holder = p
    PROVE  Calm(p) /\ Thrifty(p)
  <1>1. Calm(p) BY Bystander DEF IInv
  <1>2. Thrifty(p) BY DEF Thrifty, Slot
  <1> QED BY <1>1, <1>2

\* One sender moves, the others look on, the tables stay.
LEMMA OneSender ==
    ASSUME IInv, NEW p \in Procs, row' = row, att' = att, inbox' = inbox,
           expired' = expired, route' \in [denied : BOOLEAN, authorized : BOOLEAN],
           faults' \in 0 .. MaxFaults, holder' \in {holder, NoProc, p},
           proc' \in [Procs -> Sender], \A q \in Procs : q # p => proc'[q] = proc[q],
           Calm(p), Thrifty(p)
    PROVE  IInv'
  <1>1. Types' BY DEF IInv, Types
  <1>2. ASSUME NEW q \in Procs PROVE Calm(q) /\ Thrifty(q)
    <2>1. CASE q = p BY <2>1
    <2>2. CASE q # p
      <3>1. holder' = q => holder = q BY <2>2, Basics
      <3> QED BY <2>2, <3>1, Idlers
    <2> QED BY <2>1, <2>2
  <1>3. Once' BY <1>2, StillOnce DEF IInv
  <1>4. Settling BY Basics DEF IInv, Types, Settling
  <1>5. Numbered' BY <1>1, <1>2, <1>4, NumbersKept DEF IInv
  <1> QED BY <1>1, <1>3, <1>5 DEF IInv

LEMMA Spending ==
    ASSUME Types, NEW cond, SpendIf(cond)
    PROVE  faults' \in 0 .. MaxFaults
  BY Basics DEF Types, SpendIf

LEMMA Parameters == Types => route \in [denied : BOOLEAN, authorized : BOOLEAN] /\ faults \in 0 .. MaxFaults
  BY DEF Types

\* A sender is constructed or goes away.
LEMMA Restarted ==
    ASSUME IInv, NEW p \in Procs, NEW phase \in {"down", "recovering"}, proc' = [proc EXCEPT ![p] = Fresh(phase)],
           UNCHANGED <<row, att, route, inbox, expired>>, faults' \in 0 .. MaxFaults,
           holder' \in {holder, NoProc, p}
    PROVE  IInv'
  <1>1. Fresh(phase) \in Sender BY FreshTyped
  <1>2. /\ proc' \in [Procs -> Sender] /\ proc'[p] = Fresh(phase)
        /\ \A q \in Procs : q # p => proc'[q] = proc[q]
    BY <1>1, ProcEdit DEF IInv
  <1>3. Calm(p) BY <1>2, FreshCalm
  <1>4. Thrifty(p)
    <2>1. proc'[p].passive = [id |-> 0, used |-> 0, seq |-> 0] /\ proc'[p].lane = IdleLane
      BY <1>2 DEF Fresh
    <2>2. ~ Slot(p)' BY <2>1 DEF Slot, IdleLane
    <2> QED BY <2>1, <2>2 DEF Thrifty
  <1> QED BY <1>2, <1>3, <1>4, OneSender, Parameters DEF IInv

LEMMA LosesLeaseStep ==
    ASSUME IInv, NEW p \in Procs, LosesLease(p)
    PROVE  IInv'
  BY Restarted, Parameters DEF LosesLease, IInv

LEMMA ProcessStep ==
    ASSUME IInv, NEW p \in Procs, Start(p) \/ Crash(p) \/ Stopped(p)
    PROVE  IInv'
  <1>1. CASE Start(p) BY <1>1, Restarted, Parameters DEF Start, IInv
  <1>2. CASE Crash(p)
    <2>1. faults' \in 0 .. MaxFaults BY <1>2, Spending DEF Crash, IInv
    <2> QED BY <1>2, <2>1, Restarted DEF Crash
  <1>3. CASE Stopped(p) BY <1>3, Restarted, Parameters DEF Stopped, IInv
  <1> QED BY <1>1, <1>2, <1>3

\* What the world does to the endpoint, the clock and the lease.
LEMMA WorldStep ==
    ASSUME IInv, UNCHANGED <<row, att, proc>>, holder' \in {holder, NoProc},
           route' \in [denied : BOOLEAN, authorized : BOOLEAN],
           inbox' \in [newest : 0 .. MaxMsgs, recent : BOOLEAN], inbox.newest <= inbox'.newest,
           expired' \subseteq Deliveries, faults' \in 0 .. MaxFaults
    PROVE  IInv'
  <1>1. Types' BY DEF IInv, Types
  <1>2. ASSUME NEW q \in Procs PROVE Calm(q) /\ Thrifty(q) BY Basics, Idlers
  <1>3. Once' BY <1>2, StillOnce DEF IInv
  <1>4. Settling BY DEF Settling
  <1>5. Numbered' BY <1>1, <1>2, <1>4, NumbersKept DEF IInv
  <1> QED BY <1>1, <1>3, <1>5 DEF IInv

LEMMA EnvironmentStep ==
    ASSUME IInv,
           \/ Inbound \/ GoStale \/ RouteChanges
           \/ \E d \in Deliveries : Expire(d)
           \/ \E p \in Procs : LoseLease(p)
           \/ UNCHANGED vars
    PROVE  IInv'
  <1>0. /\ Types /\ inbox \in [newest : 0 .. MaxMsgs, recent : BOOLEAN]
        /\ inbox.newest \in Nat /\ expired \subseteq Deliveries
    BY Basics DEF IInv, Types
  <1>1. CASE Inbound
    <2>1. inbox' \in [newest : 0 .. MaxMsgs, recent : BOOLEAN] /\ inbox.newest <= inbox'.newest
      BY <1>0, <1>1, Basics DEF Inbound
    <2> QED BY <1>0, <1>1, <2>1, WorldStep, Parameters DEF Inbound
  <1>2. CASE GoStale
    <2>0. inbox' = [inbox EXCEPT !.recent = FALSE] BY <1>2 DEF GoStale
    <2>a. inbox' \in [newest : 0 .. MaxMsgs, recent : BOOLEAN] /\ inbox'.newest = inbox.newest
      BY <1>0, <2>0
    <2>1. inbox.newest <= inbox'.newest BY <1>0, <2>a
    <2>2. faults' \in 0 .. MaxFaults BY <1>0, <1>2, Spending DEF GoStale
    <2> QED BY <1>0, <1>2, <2>a, <2>1, <2>2, WorldStep, Parameters DEF GoStale
  <1>3. CASE RouteChanges
    <2>1. faults' \in 0 .. MaxFaults BY <1>0, <1>3, Spending DEF RouteChanges
    <2>2. route' \in [denied : BOOLEAN, authorized : BOOLEAN]
      BY <1>0, <1>3, Parameters DEF RouteChanges
    <2>3. UNCHANGED <<row, att, holder, inbox, expired, proc>> BY <1>3 DEF RouteChanges
    <2> QED BY <1>0, <2>1, <2>2, <2>3, WorldStep
  <1>4. ASSUME NEW d \in Deliveries, Expire(d) PROVE IInv'
    <2>1. faults' \in 0 .. MaxFaults BY <1>0, <1>4, Spending DEF Expire
    <2>2. expired' \subseteq Deliveries BY <1>0, <1>4 DEF Expire
    <2> QED BY <1>0, <1>4, <2>1, <2>2, WorldStep, Parameters DEF Expire
  <1>5. ASSUME NEW p \in Procs, LoseLease(p) PROVE IInv'
    <2>1. faults' \in 0 .. MaxFaults BY <1>0, <1>5, Spending DEF LoseLease
    <2> QED BY <1>0, <1>5, <2>1, WorldStep, Parameters DEF LoseLease
  <1>6. CASE UNCHANGED vars BY <1>0, <1>6, WorldStep, Parameters DEF vars
  <1> QED BY <1>1, <1>2, <1>3, <1>4, <1>5, <1>6

\* A lane that has a delivery in hand goes on with it.
LEMMA LaneStill ==
    ASSUME IInv, NEW p \in Procs, NEW lane \in Lane, proc' = [proc EXCEPT ![p].lane = lane],
           UNCHANGED <<row, att, holder, inbox, expired>>,
           route' \in [denied : BOOLEAN, authorized : BOOLEAN], faults' \in 0 .. MaxFaults,
           proc[p].lane.pc # "idle", lane.d = proc[p].lane.d,
           lane.pc \in OnWire => proc[p].lane.pc \in OnWire,
           lane.pc \in InHand => proc[p].lane.pc \in InHand,
           lane.pc # "post",
           lane.pc \in {"deny", "refused"} =>
              proc[p].lane.pc \in {"deny", "refused"} \/ LastOf(proc[p].lane.d).plat = "no",
           holder = p /\ lane.pc \in Ahead =>
              proc[p].lane.pc \in Ahead \/ row[proc[p].lane.d].status \in Untried \ {"absent"},
           lane.mode = "passive" /\ lane.pc \in OnWire \cup {"prepare"} =>
              /\ Slot(p)
              /\ lane.pc = "prepare" <=> proc[p].lane.pc = "prepare"
              /\ lane.msg = proc[p].lane.msg /\ lane.seq = proc[p].lane.seq
    PROVE  IInv'
  <1>1. /\ proc' \in [Procs -> Sender]
        /\ proc'[p].lane = lane /\ proc'[p].passive = proc[p].passive
        /\ proc'[p].queue = proc[p].queue /\ proc'[p].futures = proc[p].futures
        /\ proc'[p].phase = proc[p].phase
        /\ proc'[p].unrecorded = proc[p].unrecorded /\ proc'[p].receipts = proc[p].receipts
        /\ \A q \in Procs : q # p => proc'[q] = proc[q]
    BY LaneEdit DEF IInv
  <1>2. LaneFits(p) /\ QueueFits(p) /\ HeardFits(p) BY DEF IInv, Once
  <1>3. Heard(p)' = Heard(p) BY <1>1 DEF Heard
  <1>4. HeardFits(p)' BY <1>2, <1>3 DEF HeardFits, Attempts
  <1>5. QueueFits(p)' BY <1>1, <1>2 DEF QueueFits, Current
  <1>6. Calm(p)
    <2>1. /\ proc[p].lane.d \in Deliveries
          /\ proc[p].phase \notin {"down", "recovering"}
          /\ holder = p /\ proc[p].lane.pc \in Ahead => row[proc[p].lane.d].status \in Untried \ {"absent"}
      BY <1>2 DEF LaneFits, Current
    <2> QED BY <1>1, <1>3, <1>4, <1>5, <2>1 DEF Calm
  <1>7. Thrifty(p) BY <1>1 DEF Thrifty, Slot
  <1> QED BY <1>1, <1>6, <1>7, OneSender

LEMMA LaneGoes ==
    ASSUME Types, NEW p \in Procs, NEW pc, GoTo(p, pc),
           pc \in {"route", "credential", "prepare", "post", "answer", "capture", "finalize", "unknown",
                   "deny", "refused", "giveup", "broken", "lastresort"}
    PROVE  \E lane \in Lane :
              /\ lane = [proc[p].lane EXCEPT !.pc = pc]
              /\ lane.pc = pc /\ lane.d = proc[p].lane.d /\ lane.mode = proc[p].lane.mode
              /\ lane.msg = proc[p].lane.msg /\ lane.seq = proc[p].lane.seq
              /\ proc' = [proc EXCEPT ![p].lane = lane]
  <1>1. proc[p].lane \in Lane BY Senders
  <1>2. PICK lane : lane = [proc[p].lane EXCEPT !.pc = pc] OBVIOUS
  <1>3. lane \in Lane BY <1>1, <1>2 DEF Lane
  <1>4. /\ lane.pc = pc /\ lane.d = proc[p].lane.d /\ lane.mode = proc[p].lane.mode
        /\ lane.msg = proc[p].lane.msg /\ lane.seq = proc[p].lane.seq
    BY <1>1, <1>2 DEF Lane
  <1>5. proc' = [proc EXCEPT ![p].lane = lane] BY <1>2 DEF GoTo
  <1> QED BY <1>2, <1>3, <1>4, <1>5

LEMMA ReadRouteStep ==
    ASSUME IInv, NEW p \in Procs, ReadRoute(p)
    PROVE  IInv'
  <1>1. CASE ~ Current(p) BY <1>1, LosesLeaseStep DEF ReadRoute
  <1>2. CASE Current(p)
    <2>1. PICK pc \in {"credential", "giveup"} :
             /\ proc' = [proc EXCEPT ![p].lane.pc = pc,
                                     ![p].lane.mode = IF route.denied THEN "passive" ELSE "proactive"]
             /\ SpendIf(pc = "giveup")
      BY <1>2 DEF ReadRoute
    <2>2. proc[p].lane \in Lane /\ proc[p].lane.pc = "route" BY <1>2, Senders DEF ReadRoute, AtPC, IInv
    <2>3. PICK lane : lane = [proc[p].lane EXCEPT !.pc = pc, !.mode = IF route.denied THEN "passive" ELSE "proactive"]
      OBVIOUS
    <2>4. lane \in Lane /\ lane.pc = pc /\ lane.d = proc[p].lane.d BY <2>2, <2>3 DEF Lane
    <2>5. proc' = [proc EXCEPT ![p].lane = lane] BY <2>1, <2>3
    <2>6. faults' \in 0 .. MaxFaults BY <2>1, Spending DEF IInv
    <2>7. UNCHANGED <<row, att, holder, route, inbox, expired>> BY <1>2 DEF ReadRoute
    <2>8. pc \notin OnWire \cup InHand \cup {"prepare"} /\ proc[p].lane.pc \in Ahead
      BY <2>1, <2>2 DEF OnWire, InHand, Ahead
    <2> QED BY <2>2, <2>4, <2>5, <2>6, <2>7, <2>8, LaneStill, Parameters DEF IInv, OnWire
  <1> QED BY <1>1, <1>2

LEMMA DenyStep ==
    ASSUME IInv, NEW p \in Procs, Deny(p)
    PROVE  IInv'
  <1>1. CASE ~ Current(p) BY <1>1, LosesLeaseStep DEF Deny
  <1>2. CASE Current(p)
    <2>1. PICK lane \in Lane :
              /\ lane.pc = "refused" /\ lane.d = proc[p].lane.d /\ lane.mode = proc[p].lane.mode
              /\ lane.msg = proc[p].lane.msg /\ lane.seq = proc[p].lane.seq
              /\ proc' = [proc EXCEPT ![p].lane = lane]
      BY <1>2, LaneGoes DEF Deny, IInv
    <2>2. proc[p].lane.pc = "deny" BY <1>2 DEF Deny, AtPC
    <2>3. route' \in [denied : BOOLEAN, authorized : BOOLEAN] /\ faults' \in 0 .. MaxFaults
      BY <1>2, Parameters DEF Deny, IInv
    <2>4. UNCHANGED <<row, att, holder, inbox, expired>> BY <1>2 DEF Deny
    <2> QED BY <2>1, <2>2, <2>3, <2>4, LaneStill DEF OnWire, InHand, Ahead, Slot
  <1> QED BY <1>1, <1>2

LEMMA LaneRaisesStep ==
    ASSUME IInv, NEW p \in Procs, LaneRaises(p)
    PROVE  IInv'
  <1>1. PICK lane \in Lane :
            /\ lane.pc = "broken" /\ lane.d = proc[p].lane.d
            /\ proc' = [proc EXCEPT ![p].lane = lane]
    BY LaneGoes DEF LaneRaises, IInv
  <1>2. proc[p].lane.pc # "idle" BY DEF LaneRaises
  <1>3. route' \in [denied : BOOLEAN, authorized : BOOLEAN] /\ faults' \in 0 .. MaxFaults
    BY Parameters, Spending DEF LaneRaises, IInv
  <1>4. UNCHANGED <<row, att, holder, inbox, expired>> BY DEF LaneRaises
  <1> QED BY <1>1, <1>2, <1>3, <1>4, LaneStill DEF OnWire, InHand, Ahead

\* The lane is done with its delivery.
LEMMA LaneEnds ==
    ASSUME IInv, NEW p \in Procs, NEW me \in Sender, proc' = [proc EXCEPT ![p] = me],
           UNCHANGED <<row, att, holder, route, inbox, expired>>, faults' \in 0 .. MaxFaults,
           me.lane = IdleLane, me.passive = proc[p].passive,
           me.unrecorded = proc[p].unrecorded, me.receipts = proc[p].receipts,
           \/ me.queue = <<>>
           \/ /\ me.queue = proc[p].queue /\ proc[p].lane.pc # "idle"
              /\ me.futures = proc[p].futures \ {proc[p].lane.d}
    PROVE  IInv'
  <1>1. /\ proc' \in [Procs -> Sender] /\ proc'[p] = me
        /\ \A q \in Procs : q # p => proc'[q] = proc[q]
    BY ProcEdit DEF IInv
  <1>2. LaneFits(p) /\ QueueFits(p) /\ HeardFits(p) BY DEF IInv, Once
  <1>3. proc'[p].lane.pc = "idle" BY <1>1 DEF IdleLane
  <1>4. Heard(p)' = Heard(p) BY <1>1 DEF Heard
  <1>5. HeardFits(p)' BY <1>2, <1>4 DEF HeardFits, Attempts
  <1>6. QueueFits(p)'
    <2>1. CASE me.queue = <<>> BY <1>1, <1>3, <2>1 DEF QueueFits
    <2>2. CASE me.queue = proc[p].queue /\ me.futures = proc[p].futures \ {proc[p].lane.d}
               /\ proc[p].lane.pc # "idle"
      BY <1>1, <1>2, <1>3, <2>2 DEF QueueFits, Current
    <2> QED BY <2>1, <2>2
  <1>7. Calm(p) BY <1>3, <1>4, <1>5, <1>6 DEF Calm, OnWire, InHand, Ahead
  <1>8. Thrifty(p) BY <1>1, <1>3 DEF Thrifty, Slot, OnWire
  <1> QED BY <1>1, <1>7, <1>8, OneSender, Parameters DEF IInv

LEMMA HandleErrorStep ==
    ASSUME IInv, NEW p \in Procs, HandleError(p)
    PROVE  IInv'
  <1>0. /\ proc[p].lane.pc = "broken" /\ proc[p] \in Sender
        /\ UNCHANGED <<row, att, holder, route, inbox, expired>> /\ faults' \in 0 .. MaxFaults
    BY Parameters, Senders DEF HandleError, AtPC, IInv
  <1>1. CASE row[proc[p].lane.d].status = "pending"
    <2>1. PICK lane \in Lane :
              /\ lane.pc = "lastresort" /\ lane.d = proc[p].lane.d
              /\ proc' = [proc EXCEPT ![p].lane = lane]
      BY <1>1, LaneGoes DEF HandleError, IInv
    <2>2. row[proc[p].lane.d].status \in Untried \ {"absent"} BY <1>1 DEF Untried
    <2> QED BY <1>0, <2>1, <2>2, LaneStill, Parameters DEF IInv, OnWire, InHand, Ahead
  <1>2. CASE row[proc[p].lane.d].status # "pending"
    <2>1. PICK me : me = [proc[p] EXCEPT !.lane = IdleLane, !.futures = @ \ {proc[p].lane.d}] OBVIOUS
    <2>2. proc' = [proc EXCEPT ![p] = me] BY <1>2, <2>1 DEF HandleError, Finished
    <2>3. IdleLane \in Lane BY DEF IdleLane, Lane, Refusals
    <2>4. me \in Sender BY <1>0, <2>1, <2>3 DEF Sender
    <2>5. /\ me.lane = IdleLane /\ me.passive = proc[p].passive
          /\ me.unrecorded = proc[p].unrecorded /\ me.receipts = proc[p].receipts
          /\ me.queue = proc[p].queue /\ me.futures = proc[p].futures \ {proc[p].lane.d}
      BY <1>0, <2>1 DEF Sender
    <2> QED BY <1>0, <2>2, <2>4, <2>5, LaneEnds
  <1> QED BY <1>1, <1>2

LEMMA WorkerDiesStep ==
    ASSUME IInv, NEW p \in Procs, WorkerDies(p)
    PROVE  IInv'
  <1>0. /\ proc[p] \in Sender /\ faults' \in 0 .. MaxFaults
        /\ UNCHANGED <<row, att, holder, route, inbox, expired>>
    BY Spending, Senders DEF WorkerDies, IInv
  <1>1. PICK me : me = [proc[p] EXCEPT !.lane = IdleLane, !.queue = <<>>] OBVIOUS
  <1>2. proc' = [proc EXCEPT ![p] = me] BY <1>1 DEF WorkerDies
  <1>3. IdleLane \in Lane BY DEF IdleLane, Lane, Refusals
  <1>a. <<>> \in Seq(Deliveries) OBVIOUS
  <1>4. me \in Sender BY <1>0, <1>1, <1>3, <1>a DEF Sender
  <1>5. /\ me.lane = IdleLane /\ me.passive = proc[p].passive /\ me.queue = <<>>
        /\ me.unrecorded = proc[p].unrecorded /\ me.receipts = proc[p].receipts
    BY <1>0, <1>1 DEF Sender
  <1> QED BY <1>0, <1>2, <1>4, <1>5, LaneEnds

\* stop() leaves the request that is out to be settled, and the answer in hand to be recorded.
LEMMA HaltedStep ==
    ASSUME IInv, NEW p \in Procs, proc' = [proc EXCEPT ![p] = Halted(@)],
           UNCHANGED <<row, att, holder, route, inbox, expired>>, faults' \in 0 .. MaxFaults
    PROVE  IInv'
  <1>0. proc[p] \in Sender /\ proc[p].lane \in Lane BY Senders DEF IInv
  <1>1. PICK lane : lane = CASE proc[p].lane.pc \in {"post", "answer"} -> [proc[p].lane EXCEPT !.pc = "unknown"]
                             [] proc[p].lane.pc \in {"capture", "finalize", "unknown"} -> proc[p].lane
                             [] OTHER -> IdleLane
    OBVIOUS
  <1>2. PICK me : me = [proc[p] EXCEPT !.phase = "stopping", !.queue = <<>>, !.todo = {}, !.lane = lane]
    OBVIOUS
  <1>3. IdleLane \in Lane /\ IdleLane.pc = "idle" BY DEF IdleLane, Lane, Refusals
  <1>4. \/ lane = IdleLane
        \/ /\ lane.pc = "unknown" /\ proc[p].lane.pc \in {"post", "answer", "unknown"}
           /\ lane.d = proc[p].lane.d /\ lane.mode = proc[p].lane.mode
           /\ lane.msg = proc[p].lane.msg /\ lane.seq = proc[p].lane.seq
        \/ lane = proc[p].lane /\ lane.pc \in InHand
    BY <1>0, <1>1 DEF InHand, Lane
  <1>5. lane \in Lane BY <1>0, <1>1, <1>3 DEF Lane
  <1>6. <<>> \in Seq(Deliveries) OBVIOUS
  <1>7. me \in Sender BY <1>0, <1>2, <1>5, <1>6 DEF Sender
  <1>8. proc' = [proc EXCEPT ![p] = me] BY <1>1, <1>2 DEF Halted
  <1>9. /\ proc' \in [Procs -> Sender] /\ proc'[p] = me
        /\ \A q \in Procs : q # p => proc'[q] = proc[q]
    BY <1>7, <1>8, ProcEdit DEF IInv
  <1>10. /\ me.lane = lane /\ me.queue = <<>> /\ me.phase = "stopping" /\ me.futures = proc[p].futures
         /\ me.passive = proc[p].passive
         /\ me.unrecorded = proc[p].unrecorded /\ me.receipts = proc[p].receipts
    BY <1>0, <1>2 DEF Sender
  <1>11. LaneFits(p) /\ QueueFits(p) /\ HeardFits(p) BY DEF IInv, Once
  <1>12. Heard(p)' = Heard(p) BY <1>9, <1>10 DEF Heard
  <1>13. HeardFits(p)' BY <1>11, <1>12 DEF HeardFits, Attempts
  <1>14. lane.pc # "idle" => lane.d = proc[p].lane.d /\ proc[p].lane.pc # "idle"
    BY <1>3, <1>4
  <1>15. QueueFits(p)' BY <1>9, <1>10, <1>11, <1>14 DEF QueueFits
  <1>16. Calm(p)
    <2>1. CASE lane = IdleLane
      BY <1>3, <1>9, <1>10, <1>12, <1>13, <1>15, <2>1 DEF Calm, OnWire, InHand, Ahead
    <2>2. CASE lane.pc \in {"unknown"} \cup InHand
      <3>1. proc[p].lane.d \in Deliveries
        BY <1>3, <1>4, <1>11, <2>2 DEF LaneFits, InHand
      <3>2. /\ lane.pc \in OnWire => proc[p].lane.pc \in OnWire /\ lane.d = proc[p].lane.d
            /\ lane.pc \in InHand => proc[p].lane.pc \in InHand /\ lane.d = proc[p].lane.d
        BY <1>3, <1>4, <2>2 DEF OnWire, InHand
      <3> QED BY <1>9, <1>10, <1>12, <1>13, <1>14, <1>15, <2>2, <3>1, <3>2
              DEF Calm, InHand, OnWire, Ahead
    <2> QED BY <1>4, <2>1, <2>2
  <1>17. Thrifty(p)
    <2>1. Slot(p)' => lane.pc = "unknown" /\ lane.mode = "passive"
      BY <1>3, <1>4, <1>9, <1>10 DEF Slot, OnWire, InHand
    <2> QED BY <1>3, <1>4, <1>9, <1>10, <2>1 DEF Thrifty, Slot, OnWire, InHand
  <1> QED BY <1>9, <1>16, <1>17, OneSender, Parameters DEF IInv

LEMMA StopStep ==
    ASSUME IInv, NEW p \in Procs, Stop(p) \/ LoopLosesLease(p)
    PROVE  IInv'
  <1>1. CASE Stop(p)
    <2>1. faults' \in 0 .. MaxFaults BY <1>1, Spending DEF Stop, IInv
    <2> QED BY <1>1, <2>1, HaltedStep DEF Stop
  <1>2. CASE LoopLosesLease(p) BY <1>2, HaltedStep, Parameters DEF LoopLosesLease, IInv
  <1> QED BY <1>1, <1>2

LEMMA TakeStep ==
    ASSUME IInv, NEW p \in Procs, Take(p)
    PROVE  IInv'
  <1>0. /\ proc[p] \in Sender /\ proc[p].queue \in Seq(Deliveries)
        /\ proc[p].queue # <<>> /\ proc[p].phase = "up" /\ proc[p].lane.pc = "idle"
        /\ UNCHANGED <<row, att, holder, route, inbox, expired, faults>>
    BY Senders DEF Take, AtPC, IInv
  <1>a. /\ Head(proc[p].queue) \in Deliveries /\ Tail(proc[p].queue) \in Seq(Deliveries)
        /\ Head(proc[p].queue) = proc[p].queue[1]
    BY <1>0
  <1>b. ASSUME NEW i \in DOMAIN Tail(proc[p].queue)
        PROVE  /\ i + 1 \in DOMAIN proc[p].queue /\ i \in Nat /\ i >= 1
               /\ Tail(proc[p].queue)[i] = proc[p].queue[i + 1]
    <2>1. i \in 1 .. Len(Tail(proc[p].queue)) /\ Len(proc[p].queue) \in Nat BY <1>0, <1>a
    <2>2. Len(Tail(proc[p].queue)) = Len(proc[p].queue) - 1 BY <1>0
    <2> QED BY <1>0, <2>1, <2>2
  <1>1. PICK d \in Deliveries, rest \in Seq(Deliveries) :
           /\ d = Head(proc[p].queue) /\ rest = Tail(proc[p].queue) /\ d = proc[p].queue[1]
           /\ \A i \in DOMAIN rest : /\ i + 1 \in DOMAIN proc[p].queue /\ i \in Nat /\ i >= 1
                                     /\ rest[i] = proc[p].queue[i + 1]
    BY <1>a, <1>b
  <1>2. 1 \in DOMAIN proc[p].queue BY <1>0
  <1>3. PICK lane : lane = [IdleLane EXCEPT !.pc = "route", !.d = d] OBVIOUS
  <1>4. lane \in Lane /\ lane.pc = "route" /\ lane.d = d BY <1>3 DEF IdleLane, Lane, Refusals
  <1>5. PICK me : me = [proc[p] EXCEPT !.queue = rest, !.lane = lane] OBVIOUS
  <1>6. me \in Sender BY <1>0, <1>4, <1>5 DEF Sender
  <1>7. proc' = [proc EXCEPT ![p] = me] BY <1>1, <1>3, <1>5 DEF Take
  <1>8. /\ proc' \in [Procs -> Sender] /\ proc'[p] = me
        /\ \A q \in Procs : q # p => proc'[q] = proc[q]
    BY <1>6, <1>7, ProcEdit DEF IInv
  <1>9. /\ me.lane = lane /\ me.queue = rest /\ me.phase = "up" /\ me.futures = proc[p].futures
        /\ me.passive = proc[p].passive
        /\ me.unrecorded = proc[p].unrecorded /\ me.receipts = proc[p].receipts
    BY <1>0, <1>5 DEF Sender
  <1>10. QueueFits(p) /\ HeardFits(p) BY DEF IInv, Once
  <1>11. Heard(p)' = Heard(p) BY <1>8, <1>9 DEF Heard
  <1>12. HeardFits(p)' BY <1>0, <1>10, <1>11 DEF HeardFits, Attempts
  <1>13. QueueFits(p)'
    <2>1. \A i, j \in DOMAIN rest : i # j => rest[i] # rest[j] BY <1>1, <1>10 DEF QueueFits
    <2>2. \A i \in DOMAIN rest : rest[i] \in proc[p].futures /\ rest[i] # d
      BY <1>1, <1>2, <1>10 DEF QueueFits
    <2>3. d \in proc[p].futures BY <1>1, <1>2, <1>10 DEF QueueFits
    <2>4. holder = p => \A i \in DOMAIN rest : row[rest[i]].status \in Untried \ {"absent"}
      BY <1>1, <1>10 DEF QueueFits, Current
    <2> QED BY <1>0, <1>4, <1>8, <1>9, <2>1, <2>2, <2>3, <2>4 DEF QueueFits, Current
  <1>14. holder = p => row[d].status \in Untried \ {"absent"}
    BY <1>1, <1>2, <1>10 DEF QueueFits, Current
  <1>15. Calm(p)
    BY <1>0, <1>4, <1>8, <1>9, <1>11, <1>12, <1>13, <1>14 DEF Calm, OnWire, InHand
  <1>16. Thrifty(p) BY <1>0, <1>4, <1>8, <1>9 DEF Thrifty, Slot, OnWire
  <1> QED BY <1>0, <1>8, <1>15, <1>16, OneSender, Parameters DEF IInv


\* A family of sets that holds the empty set, and a set whenever it holds those with one
\* element less, holds every finite set.
LEMMA SubsetsByOne ==
    ASSUME NEW S, IsFiniteSet(S), NEW P,
           \A T \in SUBSET S : (\A x \in T : T \ {x} \in P) => T \in P
    PROVE  S \in P
  <1> DEFINE Bad == (SUBSET S) \ P
  <1>1. SUFFICES ASSUME Bad # {} PROVE FALSE OBVIOUS
  <1>2. IsWellFoundedOn(StrictSubsetOrdering(S), SUBSET S)
    BY FS_StrictSubsetOrderingWellFounded, FS_FiniteSubsetsOfFinite
  <1>3. PICK T \in Bad : \A U \in Bad : <<U, T>> \notin StrictSubsetOrdering(S)
    <2> HIDE DEF Bad
    <2>1. Bad \subseteq SUBSET S BY DEF Bad
    <2> QED BY <1>1, <1>2, <2>1, WFMin, Zenon
  <1>4. PICK x \in T : T \ {x} \notin P OBVIOUS
  <1>5. T \ {x} \in Bad /\ T \ {x} # T /\ T \ {x} \subseteq T BY <1>4
  <1>6. <<T \ {x}, T>> \in StrictSubsetOrdering(S) BY <1>3, <1>5 DEF StrictSubsetOrdering
  <1> QED BY <1>3, <1>5, <1>6

\* A finite set of numbers that is not empty has a least and a greatest element.
LEMMA Extremes ==
    ASSUME NEW S, IsFiniteSet(S), S \subseteq Nat, S # {}
    PROVE  /\ \E x \in S : \A y \in S : x <= y
           /\ \E x \in S : \A y \in S : y <= x
  <1> DEFINE P == {T \in SUBSET S : T = {} \/ /\ \E x \in T : \A y \in T : x <= y
                                              /\ \E x \in T : \A y \in T : y <= x}
  <1>1. ASSUME NEW T \in SUBSET S, \A x \in T : T \ {x} \in P, T # {}
        PROVE  T \in P
    <2>1. PICK z \in T : TRUE BY <1>1
    <2>2. CASE T \ {z} = {}
      <3>1. T = {z} /\ z \in Nat BY <2>2
      <3> QED BY <3>1
    <2>3. CASE T \ {z} # {}
      <3>1. PICK a \in T \ {z} : \A y \in T \ {z} : a <= y BY <1>1, <2>3
      <3>2. PICK b \in T \ {z} : \A y \in T \ {z} : y <= b BY <1>1, <2>3
      <3>3. \E x \in T : \A y \in T : x <= y
        <4>1. CASE a <= z BY <3>1, <4>1
        <4>2. CASE ~ (a <= z)
          <5>1. \A y \in T : z <= y
            <6> TAKE y \in T
            <6>1. y \in Nat /\ z \in Nat /\ a \in Nat BY <1>1
            <6> QED BY <3>1, <4>2, <6>1
          <5> QED BY <5>1
        <4> QED BY <4>1, <4>2
      <3>4. \E x \in T : \A y \in T : y <= x
        <4>1. CASE z <= b BY <3>2, <4>1
        <4>2. CASE ~ (z <= b)
          <5>1. \A y \in T : y <= z
            <6> TAKE y \in T
            <6>1. y \in Nat /\ z \in Nat /\ b \in Nat BY <1>1
            <6> QED BY <3>2, <4>2, <6>1
          <5> QED BY <5>1
        <4> QED BY <4>1, <4>2
      <3> QED BY <3>3, <3>4
    <2> QED BY <2>2, <2>3
  <1>2. \A T \in SUBSET S : (\A x \in T : T \ {x} \in P) => T \in P
    <2> TAKE T \in SUBSET S
    <2>1. CASE T = {} BY <2>1
    <2>2. CASE T # {} BY <1>1, <2>2
    <2> QED BY <2>1, <2>2
  <1>3. S \in P
    <2> HIDE DEF P
    <2> QED BY <1>2, SubsetsByOne
  <1> QED BY <1>3

LEMMA QueuedStep ==
    ASSUME IInv, NEW p \in Procs, NEW d \in Deliveries, NEW new \in Sender,
           proc' = [proc EXCEPT ![p] = new], proc[p].phase = "up",
           UNCHANGED <<row, att, holder, route, inbox, expired, faults>>,
           new.lane = proc[p].lane, new.phase = "up", new.passive = proc[p].passive,
           new.unrecorded = proc[p].unrecorded, new.receipts = proc[p].receipts,
           \/ new.queue = proc[p].queue /\ new.futures = proc[p].futures
           \/ /\ d \notin proc[p].futures /\ row[d].status = "pending"
              /\ new.queue = Append(proc[p].queue, d) /\ new.futures = proc[p].futures \cup {d}
    PROVE  IInv'
  <1>0. proc[p] \in Sender /\ proc[p].queue \in Seq(Deliveries)
    <2>1. proc[p] \in Sender BY Senders DEF IInv
    <2> QED BY <2>1 DEF Sender
  <1>5. /\ new \in Sender /\ new.lane = proc[p].lane /\ new.phase = "up"
        /\ new.passive = proc[p].passive
        /\ new.unrecorded = proc[p].unrecorded /\ new.receipts = proc[p].receipts
        /\ \/ new.queue = proc[p].queue /\ new.futures = proc[p].futures
           \/ /\ d \notin proc[p].futures /\ row[d].status = "pending"
              /\ new.queue = Append(proc[p].queue, d) /\ new.futures = proc[p].futures \cup {d}
    OBVIOUS
  <1>6. /\ proc' \in [Procs -> Sender] /\ proc'[p] = new
        /\ \A q \in Procs : q # p => proc'[q] = proc[q]
    BY ProcEdit DEF IInv
  <1>7. LaneFits(p) /\ QueueFits(p) /\ HeardFits(p) BY DEF IInv, Once
  <1>8. Heard(p)' = Heard(p) BY <1>5, <1>6 DEF Heard
  <1>9. HeardFits(p)' BY <1>0, <1>7, <1>8 DEF HeardFits, Attempts
  <1>10. QueueFits(p)'
    <2>1. CASE new.queue = proc[p].queue /\ new.futures = proc[p].futures
      BY <1>0, <1>5, <1>6, <1>7, <2>1 DEF QueueFits, Current
    <2>2. CASE /\ d \notin proc[p].futures /\ row[d].status = "pending"
               /\ new.queue = Append(proc[p].queue, d) /\ new.futures = proc[p].futures \cup {d}
      <3>1. \A i \in DOMAIN new.queue :
              \/ i \in DOMAIN proc[p].queue /\ new.queue[i] = proc[p].queue[i]
              \/ i = Len(proc[p].queue) + 1 /\ new.queue[i] = d
        BY <1>0, <2>2
      <3>2. \A i \in DOMAIN new.queue : new.queue[i] \in new.futures
        BY <1>7, <2>2, <3>1 DEF QueueFits
      <3>3. \A i \in DOMAIN proc[p].queue : proc[p].queue[i] # d BY <1>7, <2>2 DEF QueueFits
      <3>4. \A i, j \in DOMAIN new.queue : i # j => new.queue[i] # new.queue[j]
        BY <1>7, <3>1, <3>3 DEF QueueFits
      <3>5. proc[p].lane.pc # "idle" =>
               /\ proc[p].lane.d \in new.futures
               /\ \A i \in DOMAIN new.queue : new.queue[i] # proc[p].lane.d
        BY <1>7, <2>2, <3>1 DEF QueueFits
      <3>6. holder = p => \A i \in DOMAIN new.queue : row[new.queue[i]].status \in Untried \ {"absent"}
        BY <1>7, <2>2, <3>1 DEF QueueFits, Current, Untried
      <3> QED BY <1>0, <1>5, <1>6, <3>2, <3>4, <3>5, <3>6 DEF QueueFits, Current
    <2> QED BY <1>5, <2>1, <2>2
  <1>11. Calm(p)
    BY <1>0, <1>5, <1>6, <1>7, <1>8, <1>9, <1>10 DEF Calm, LaneFits, Current
  <1>12. Thrifty(p) BY <1>0, <1>5, <1>6 DEF Thrifty, Slot
  <1> QED BY <1>0, <1>6, <1>11, <1>12, OneSender, Parameters DEF IInv

LEMMA SendDeliveryStep ==
    ASSUME IInv, NEW p \in Procs, NEW d \in Deliveries, SendDelivery(p, d)
    PROVE  IInv'
  <1>0. /\ proc[p] \in Sender /\ proc[p].queue \in Seq(Deliveries) /\ proc[p].futures \subseteq Deliveries
        /\ proc[p].phase = "up" /\ d \notin proc[p].futures /\ row[d].status = "pending"
        /\ UNCHANGED <<row, att, holder, route, inbox, expired, faults>>
    <2>1. proc[p] \in Sender BY Senders DEF IInv
    <2> QED BY <2>1 DEF SendDelivery, Sender
  <1>1. PICK futures : futures = proc[p].futures \cup {d} OBVIOUS
  <1>2. PICK queue : queue = Append(proc[p].queue, d) OBVIOUS
  <1>3. queue \in Seq(Deliveries) /\ futures \in SUBSET Deliveries BY <1>0, <1>1, <1>2
  <1>4. PICK new : new = [proc[p] EXCEPT !.futures = futures, !.queue = queue] OBVIOUS
  <1>5. proc' = [proc EXCEPT ![p] = new] BY <1>1, <1>2, <1>4 DEF SendDelivery
  <1>6. /\ new \in Sender /\ new.lane = proc[p].lane /\ new.phase = proc[p].phase
        /\ new.passive = proc[p].passive /\ new.unrecorded = proc[p].unrecorded
        /\ new.receipts = proc[p].receipts /\ new.queue = queue /\ new.futures = futures
    BY <1>0, <1>3, <1>4 DEF Sender
  <1> QED BY <1>0, <1>1, <1>2, <1>5, <1>6, QueuedStep

LEMMA SubmitStep ==
    ASSUME IInv, NEW p \in Procs, Submit(p)
    PROVE  IInv'
  <1>0. /\ proc[p] \in Sender /\ proc[p].queue \in Seq(Deliveries)
        /\ proc[p].todo \subseteq Deliveries /\ proc[p].todo # {} /\ proc[p].phase = "up"
        /\ UNCHANGED <<row, att, holder, route, inbox, expired, faults>>
    <2>1. proc[p] \in Sender BY Senders DEF IInv
    <2> QED BY <2>1 DEF Submit, Sender
  <1> DEFINE first == CHOOSE x \in proc[p].todo : \A y \in proc[p].todo : x <= y
             me == [proc[p] EXCEPT !.todo = @ \ {first}]
             new == IF first \in me.futures \/ row[first].status # "pending" THEN me
                    ELSE [me EXCEPT !.futures = @ \cup {first}, !.queue = Append(@, first)]
  <1>1. proc' = [proc EXCEPT ![p] = new] BY DEF Submit
  <1>2. first \in proc[p].todo
    <2>1. IsFiniteSet(proc[p].todo) /\ proc[p].todo \subseteq Nat BY <1>0, Basics, FS_Subset
    <2> QED BY <1>0, <2>1, Extremes
  <1>3. PICK d \in Deliveries : d = first BY <1>0, <1>2
  <1> HIDE DEF first
  <1>4. /\ me \in Sender /\ me.lane = proc[p].lane /\ me.queue = proc[p].queue
        /\ me.phase = "up" /\ me.futures = proc[p].futures /\ me.passive = proc[p].passive
        /\ me.unrecorded = proc[p].unrecorded /\ me.receipts = proc[p].receipts
    BY <1>0 DEF Sender
  <1> HIDE DEF me
  <1>5. /\ new \in Sender /\ new.lane = proc[p].lane /\ new.phase = "up"
        /\ new.passive = proc[p].passive
        /\ new.unrecorded = proc[p].unrecorded /\ new.receipts = proc[p].receipts
        /\ \/ new.queue = proc[p].queue /\ new.futures = proc[p].futures
           \/ /\ d \notin proc[p].futures /\ row[d].status = "pending"
              /\ new.queue = Append(proc[p].queue, d) /\ new.futures = proc[p].futures \cup {d}
    <2>1. CASE d \in me.futures \/ row[d].status # "pending" BY <1>3, <1>4, <2>1
    <2>2. CASE ~ (d \in me.futures \/ row[d].status # "pending")
      <3>1. new = [me EXCEPT !.futures = @ \cup {d}, !.queue = Append(@, d)] BY <1>3, <2>2
      <3>2. PICK futures : futures = me.futures \cup {d} OBVIOUS
      <3>3. PICK queue : queue = Append(me.queue, d) OBVIOUS
      <3>4. queue \in Seq(Deliveries) BY <1>0, <1>4, <3>3
      <3>5. futures \in SUBSET Deliveries BY <1>4, <3>2 DEF Sender
      <3>6. new = [me EXCEPT !.futures = futures, !.queue = queue] BY <3>1, <3>2, <3>3
      <3> HIDE DEF new
      <3>7. /\ new \in Sender /\ new.lane = me.lane /\ new.phase = me.phase
            /\ new.passive = me.passive /\ new.unrecorded = me.unrecorded /\ new.receipts = me.receipts
            /\ new.queue = queue /\ new.futures = futures
        BY <1>4, <3>4, <3>5, <3>6 DEF Sender
      <3>8. d \notin proc[p].futures /\ row[d].status = "pending" BY <1>4, <2>2
      <3> QED BY <1>4, <3>2, <3>3, <3>7, <3>8
    <2> QED BY <2>1, <2>2
  <1> HIDE DEF new
  <1> QED BY <1>0, <1>1, <1>5, QueuedStep

LEMMA AnswerStep ==
    ASSUME IInv, NEW p \in Procs, Answer(p)
    PROVE  IInv'
  <1>0. /\ proc[p] \in Sender /\ proc[p].lane \in Lane /\ proc[p].lane.pc = "answer"
        /\ UNCHANGED <<row, att, holder, route, inbox, expired>>
    BY Senders DEF Answer, AtPC, IInv
  <1>1. LaneFits(p) /\ QueueFits(p) /\ HeardFits(p) BY DEF IInv, Once
  <1>2. PICK d \in Deliveries : d = proc[p].lane.d BY <1>0, <1>1 DEF LaneFits
  <1>3. att[d] # <<>> BY <1>0, <1>1, <1>2 DEF LaneFits, OnWire
  <1>4. Len(att[d]) \in DOMAIN att[d] /\ Len(att[d]) \in Nat BY <1>3, Sequences DEF IInv
  <1>5. CASE /\ LastOf(d).plat = "yes"
             /\ proc' = [proc EXCEPT ![p].lane.pc = "capture", ![p].unrecorded = @ \cup {<<d, Last(d)>>}]
             /\ UNCHANGED faults
    <2>1. PICK lane : lane = [proc[p].lane EXCEPT !.pc = "capture"] OBVIOUS
    <2>2. lane \in Lane /\ lane.pc = "capture" /\ lane.d = d BY <1>0, <1>2, <2>1 DEF Lane
    <2>3. PICK x : x = <<d, Len(att[d])>> OBVIOUS
    <2>4. PICK me : me = [proc[p] EXCEPT !.lane = lane, !.unrecorded = @ \cup {x}] OBVIOUS
    <2>5. proc' = [proc EXCEPT ![p] = me] BY <1>5, <2>1, <2>3, <2>4 DEF Last
    <2>6. x \in Deliveries \X Nat BY <1>4, <2>3
    <2>7. me \in Sender BY <1>0, <2>2, <2>4, <2>6 DEF Sender
    <2>8. /\ me.lane = lane /\ me.queue = proc[p].queue /\ me.phase = proc[p].phase
          /\ me.futures = proc[p].futures /\ me.passive = proc[p].passive
          /\ me.unrecorded = proc[p].unrecorded \cup {x} /\ me.receipts = proc[p].receipts
      BY <1>0, <2>4 DEF Sender
    <2>9. /\ proc' \in [Procs -> Sender] /\ proc'[p] = me
          /\ \A q \in Procs : q # p => proc'[q] = proc[q]
      BY <2>5, <2>7, ProcEdit DEF IInv
    <2>10. Heard(p)' = Heard(p) \cup {x} BY <2>8, <2>9 DEF Heard
    <2>11. HeardFits(p)' BY <1>0, <1>1, <1>4, <1>5, <2>3, <2>10 DEF HeardFits, Attempts, LastOf
    <2>12. QueueFits(p)' BY <1>0, <1>1, <1>2, <2>2, <2>8, <2>9 DEF QueueFits, Current
    <2>13. Under(p, x[1]) BY <1>0, <1>2, <2>3 DEF Under, OnWire
    <2>14. Calm(p)
      BY <1>0, <1>1, <1>2, <1>5, <2>2, <2>8, <2>9, <2>10, <2>11, <2>12, <2>13
         DEF Calm, LaneFits, OnWire, InHand, Ahead
    <2>15. Thrifty(p) BY <1>0, <2>2, <2>8, <2>9 DEF Thrifty, Slot, OnWire
    <2> QED BY <1>0, <1>5, <2>9, <2>14, <2>15, OneSender, Parameters DEF IInv
  <1>6. ASSUME NEW c \in Refusals, LastOf(d).plat = "no", SpendIf(TRUE),
               proc' = [proc EXCEPT ![p].lane.code = c, ![p].lane.pc =
                          IF c = "denied" /\ proc[p].lane.mode = "proactive" THEN "deny" ELSE "refused"]
        PROVE  IInv'
    <2>1. PICK lane : lane = [proc[p].lane EXCEPT !.code = c,
                        !.pc = IF c = "denied" /\ proc[p].lane.mode = "proactive" THEN "deny" ELSE "refused"]
      OBVIOUS
    <2>2. /\ lane \in Lane /\ lane.pc \in {"deny", "refused"} /\ lane.d = proc[p].lane.d
          /\ lane.mode = proc[p].lane.mode /\ lane.msg = proc[p].lane.msg /\ lane.seq = proc[p].lane.seq
      BY <1>0, <2>1 DEF Lane
    <2>3. proc' = [proc EXCEPT ![p].lane = lane] BY <1>6, <2>1
    <2>4. faults' \in 0 .. MaxFaults BY <1>6, Spending DEF IInv
    <2> QED BY <1>0, <1>2, <1>6, <2>2, <2>3, <2>4, LaneStill, Parameters
            DEF IInv, OnWire, InHand, Ahead, Slot
  <1>7. CASE GoTo(p, "unknown") /\ SpendIf(TRUE)
    <2>1. PICK lane \in Lane :
              /\ lane.pc = "unknown" /\ lane.d = proc[p].lane.d /\ lane.mode = proc[p].lane.mode
              /\ lane.msg = proc[p].lane.msg /\ lane.seq = proc[p].lane.seq
              /\ proc' = [proc EXCEPT ![p].lane = lane]
      BY <1>7, LaneGoes DEF IInv
    <2>2. faults' \in 0 .. MaxFaults BY <1>7, Spending DEF IInv
    <2> QED BY <1>0, <2>1, <2>2, LaneStill, Parameters DEF IInv, OnWire, InHand, Ahead, Slot
  <1> QED BY <1>2, <1>5, <1>6, <1>7 DEF Answer, LastOf, Last

-----------------------------------------------------------------------------
(* Steps of one sender that write the tables.                              *)

\* The others keep what they may do as long as nobody touches what they have under way.
LEMMA OthersLook ==
    ASSUME Types, Once, NEW p \in Procs, \A q \in Procs : q # p => proc'[q] = proc[q],
           holder' = holder, holder = p \/ row' = row,
           \A d \in Deliveries : \A n \in DOMAIN att[d] :
              n \in DOMAIN att'[d] /\ (att[d][n].plat = "yes" => att'[d][n].plat = "yes"),
           \A q \in Procs : \A d \in Deliveries : q # p /\ Under(q, d) =>
              /\ Len(att'[d]) = Len(att[d]) /\ att'[d] # <<>>
              /\ att'[d][Len(att[d])].state # "unaccepted"
              /\ att'[d][Len(att[d])].plat = att[d][Len(att[d])].plat
              /\ proc[q].lane.pc \in OnWire =>
                    att'[d][Len(att[d])].receipt = att[d][Len(att[d])].receipt,
           NEW q \in Procs, q # p
    PROVE  LaneFits(q)' /\ QueueFits(q)' /\ HeardFits(q)'
  <1>0. LaneFits(q) /\ QueueFits(q) /\ HeardFits(q) BY DEF Once
  <1>1. proc'[q] = proc[q] OBVIOUS
  <1>2. HeardFits(q)'
    <2>1. Heard(q)' = Heard(q) BY <1>1 DEF Heard
    <2>2. \A x \in Heard(q) : x[1] \in Deliveries BY Senders
    <2> QED BY <1>0, <2>1, <2>2 DEF HeardFits, Attempts
  <1>3. Current(q)' => Current(q) /\ row' = row BY DEF Current
  <1>4. QueueFits(q)' BY <1>0, <1>1, <1>3 DEF QueueFits
  <1>5. LaneFits(q)'
    <2>1. CASE proc[q].lane.pc \in OnWire \cup InHand
      <3>1. PICK d \in Deliveries : d = proc[q].lane.d
        BY <1>0, <2>1 DEF LaneFits, OnWire, InHand
      <3>2. Under(q, d) BY <2>1, <3>1 DEF Under
      <3>3. /\ att'[d] # <<>>
            /\ att'[d][Len(att'[d])].state # "unaccepted"
            /\ att'[d][Len(att'[d])].plat = att[d][Len(att[d])].plat
            /\ proc[q].lane.pc \in OnWire =>
                    att'[d][Len(att'[d])].receipt = att[d][Len(att[d])].receipt
        BY <3>2
      <3> QED BY <1>0, <1>1, <1>3, <3>1, <3>3 DEF LaneFits, LastOf, OnWire, InHand
    <2>2. CASE proc[q].lane.pc \notin OnWire \cup InHand
      BY <1>0, <1>1, <1>3, <2>2 DEF LaneFits, OnWire, InHand
    <2> QED BY <2>1, <2>2
  <1> QED BY <1>2, <1>4, <1>5

\* A sender that neither takes up a delivery nor hears of one stays apart from the others.
LEMMA StillApart ==
    ASSUME Types, Once, NEW p \in Procs, \A q \in Procs : q # p => proc'[q] = proc[q],
           proc'[p].lane.pc \in OnWire \cup InHand =>
              proc[p].lane.pc \in OnWire \cup InHand /\ proc'[p].lane.d = proc[p].lane.d,
           proc'[p].lane.pc \in OnWire => proc[p].lane.pc \in OnWire,
           \A x \in Heard(p)' :
              x \in Heard(p) \/ (Under(p, x[1]) /\ proc'[p].lane.pc \notin OnWire)
    PROVE  \A q, r \in Procs : Apart(q, r)' /\ Silent(q, r)'
  <1> TAKE q, r \in Procs
  <1>1. \A s \in Procs : \A d : Under(s, d)' => Under(s, d) BY DEF Under
  <1>2. Apart(q, r)' BY <1>1 DEF Apart, Once
  <1>3. Silent(q, r)'
    <2> SUFFICES ASSUME proc'[q].lane.pc \in OnWire, NEW x \in Heard(r)', x[1] = proc'[q].lane.d
                 PROVE  FALSE
      BY DEF Silent
    <2>1. proc[q].lane.pc \in OnWire /\ proc'[q].lane.d = proc[q].lane.d
      BY DEF OnWire
    <2>2. x \notin Heard(r) BY <2>1 DEF Silent, Once
    <2>3. r = p
      <3>1. r # p => Heard(r)' = Heard(r) BY DEF Heard
      <3> QED BY <2>2, <3>1
    <2>4. Under(p, x[1]) /\ q # p BY <2>2, <2>3
    <2>5. Under(q, x[1]) BY <2>1 DEF Under
    <2>6. x[1] \in Deliveries BY <2>1 DEF Once, LaneFits, OnWire
    <2> QED BY <2>4, <2>5, <2>6 DEF Once, Apart
  <1> QED BY <1>2, <1>3

\* What IInv' asks of a step of one sender.
LEMMA OneWriter ==
    ASSUME IInv, NEW p \in Procs, Types', Settling, \A q \in Procs : q # p => proc'[q] = proc[q],
           holder' = holder, holder = p \/ row' = row,
           \A d \in Deliveries : RowFits(d)', LaneFits(p)', QueueFits(p)', HeardFits(p)', Thrifty(p),
           \A d \in Deliveries : \A n \in DOMAIN att[d] :
              n \in DOMAIN att'[d] /\ (att[d][n].plat = "yes" => att'[d][n].plat = "yes"),
           \A q \in Procs : \A d \in Deliveries : q # p /\ Under(q, d) =>
              /\ Len(att'[d]) = Len(att[d]) /\ att'[d] # <<>>
              /\ att'[d][Len(att[d])].state # "unaccepted"
              /\ att'[d][Len(att[d])].plat = att[d][Len(att[d])].plat
              /\ proc[q].lane.pc \in OnWire =>
                    att'[d][Len(att[d])].receipt = att[d][Len(att[d])].receipt,
           \A q, r \in Procs : Apart(q, r)' /\ Silent(q, r)'
    PROVE  IInv'
  <1>1. ASSUME NEW q \in Procs PROVE LaneFits(q)' /\ QueueFits(q)' /\ HeardFits(q)' /\ Thrifty(q)
    <2>1. CASE q = p BY <2>1
    <2>2. CASE q # p
      <3>1. LaneFits(q)' /\ QueueFits(q)' /\ HeardFits(q)' BY <2>2, OthersLook DEF IInv
      <3>2. Thrifty(q) BY <2>2 DEF Thrifty, Slot
      <3> QED BY <3>1, <3>2
    <2> QED BY <2>1, <2>2
  <1>2. Once' BY <1>1 DEF Once
  <1>3. Numbered' BY <1>1, NumbersKept DEF IInv
  <1> QED BY <1>2, <1>3 DEF IInv

\* A row for which no request is out changes; the sender drops what it has in hand, or goes on.
LEMMA QuietStep ==
    ASSUME IInv, NEW p \in Procs, NEW me \in Sender, proc' = [proc EXCEPT ![p] = me],
           UNCHANGED <<att, holder, route, inbox, expired>>,
           faults' = faults \/ faults' \in 0 .. MaxFaults,
           holder = p \/ row' = row, row' \in [Deliveries -> Row],
           \A d \in Deliveries :
              \/ row'[d] = row[d]
              \/ /\ row[d].status \in Untried /\ row'[d].status \in Untried \ {"absent"}
                 /\ \/ row'[d].replyTo = row[d].replyTo
                    \/ row[d].status = "absent" /\ row'[d].replyTo <= inbox.newest,
           me.unrecorded = proc[p].unrecorded, me.receipts = proc[p].receipts,
           me.queue = proc[p].queue, me.phase = proc[p].phase,
           \/ me.lane = proc[p].lane /\ me.futures = proc[p].futures
           \/ /\ me.lane = IdleLane /\ proc[p].lane.pc # "idle"
              /\ me.futures = proc[p].futures \ {proc[p].lane.d},
           Thrifty(p)
    PROVE  IInv'
  <1>1. /\ proc' \in [Procs -> Sender] /\ proc'[p] = me
        /\ \A q \in Procs : q # p => proc'[q] = proc[q]
    BY ProcEdit DEF IInv
  <1>2. Types' BY <1>1 DEF IInv, Types
  <1>3. Settling BY Basics DEF IInv, Types, Row, Settling
  <1>4. LaneFits(p) /\ QueueFits(p) /\ HeardFits(p) BY DEF IInv, Once
  <1>5. IdleLane.pc = "idle" BY DEF IdleLane
  <1>6. ASSUME NEW d \in Deliveries PROVE RowFits(d)'
    <2>1. RowFits(d) BY DEF IInv, Once
    <2> QED BY <2>1 DEF RowFits, Attempts, Untried
  <1>7. \A d \in Deliveries : /\ row[d].status \in Untried \ {"absent"} => row'[d].status \in Untried \ {"absent"}
                              /\ row[d].status = "sending" => row'[d].status = "sending"
    BY DEF Untried
  <1>8. Heard(p)' = Heard(p) BY <1>1 DEF Heard
  <1>9. HeardFits(p)' BY <1>4, <1>8 DEF HeardFits, Attempts
  <1>10. \A i \in DOMAIN proc[p].queue : proc[p].queue[i] \in Deliveries
    BY Senders DEF IInv
  <1>11. QueueFits(p)' BY <1>1, <1>4, <1>5, <1>7, <1>10 DEF QueueFits, Current
  <1>12. LaneFits(p)'
    <2>1. CASE me.lane = proc[p].lane
      <3> DEFINE pc == proc[p].lane.pc
                 d == proc[p].lane.d
      <3>1. Relies(proc[p].phase, pc, d, holder = p, att[d], row[d].status) BY <1>4, LaneReads
      <3>2. pc \in OnWire \/ pc \in Ahead => d \in Deliveries BY <3>1 DEF Relies, OnWire, Ahead
      <3>3. /\ holder = p /\ pc \in OnWire => row'[d].status = "sending"
            /\ holder = p /\ pc \in Ahead => row'[d].status \in Untried \ {"absent"}
        BY <1>7, <3>1, <3>2 DEF Relies
      <3>4. proc'[p].phase = proc[p].phase /\ proc'[p].lane = proc[p].lane BY <1>1, <2>1
      <3>5. proc'[p].lane.pc = pc /\ proc'[p].lane.d = d BY <3>4
      <3> HIDE DEF pc, d
      <3>6. Relies(proc[p].phase, pc, d, holder = p, att[d], row'[d].status)
        BY <3>1, <3>3, RelyKept
      <3>7. holder' = holder /\ att' = att OBVIOUS
      <3> QED BY <3>4, <3>5, <3>6, <3>7, LaneReads
    <2>2. CASE me.lane = IdleLane
      BY <1>1, <1>5, <2>2 DEF LaneFits, OnWire, InHand, Ahead
    <2> QED BY <2>1, <2>2
  <1>13. \A q, r \in Procs : Apart(q, r)' /\ Silent(q, r)'
    BY <1>1, <1>5, <1>8, StillApart DEF IInv, OnWire, InHand
  <1>14. \A q \in Procs : \A d \in Deliveries : q # p /\ Under(q, d) =>
            att[d] # <<>> /\ att[d][Len(att[d])].state # "unaccepted"
    BY DEF IInv, Once, LaneFits, LastOf, Under
  <1> QED BY <1>1, <1>2, <1>3, <1>6, <1>9, <1>11, <1>12, <1>13, <1>14, OneWriter

LEMMA EnqueueStep ==
    ASSUME IInv, NEW p \in Procs, NEW d \in Deliveries, Enqueue(p, d)
    PROVE  IInv'
  <1>0. proc[p] \in Sender /\ row \in [Deliveries -> Row] /\ inbox.newest \in 0 .. MaxMsgs
        /\ MaxMsgs \in Nat
    BY Senders, Basics DEF IInv, Types
  <1>1. PICK new : new = [row[d] EXCEPT !.status = "pending", !.replyTo = inbox.newest] OBVIOUS
  <1>2. new \in Row /\ new.status = "pending" /\ new.replyTo = inbox.newest
    BY <1>0, <1>1 DEF Row, Statuses
  <1>3. row' = [row EXCEPT ![d] = new] /\ holder = p /\ row[d].status = "absent"
    BY <1>1 DEF Enqueue, Current
  <1>4. row' \in [Deliveries -> Row] /\ row'[d] = new /\ \A e \in Deliveries : e # d => row'[e] = row[e]
    BY <1>0, <1>2, <1>3
  <1>5. PICK me : me = IF d \in Ephemeral THEN [proc[p] EXCEPT !.ram = @ \cup {d}] ELSE proc[p]
    OBVIOUS
  <1>6. /\ me \in Sender /\ me.unrecorded = proc[p].unrecorded /\ me.receipts = proc[p].receipts
        /\ me.queue = proc[p].queue /\ me.phase = proc[p].phase /\ me.lane = proc[p].lane
        /\ me.futures = proc[p].futures /\ me.passive = proc[p].passive
    BY <1>0, <1>5 DEF Sender
  <1>7. proc' = [proc EXCEPT ![p] = me]
    <2>1. proc \in [Procs -> Sender] BY DEF IInv, Types
    <2> QED BY <1>5, <2>1 DEF Enqueue
  <1>8. proc'[p] = me /\ UNCHANGED <<att, holder, route, inbox, expired, faults>>
    BY <1>6, <1>7, ProcEdit DEF Enqueue, IInv
  <1>9. Thrifty(p) BY <1>6, <1>8 DEF Thrifty, Slot
  <1>10. \A e \in Deliveries :
              \/ row'[e] = row[e]
              \/ /\ row[e].status \in Untried /\ row'[e].status \in Untried \ {"absent"}
                 /\ row[e].status = "absent" /\ row'[e].replyTo <= inbox.newest
    BY <1>0, <1>2, <1>3, <1>4 DEF Untried
  <1> QED BY <1>3, <1>4, <1>6, <1>7, <1>8, <1>9, <1>10, QuietStep

LEMMA StatusEdit ==
    ASSUME Types, NEW d \in Deliveries, NEW s \in Statuses, row' = [row EXCEPT ![d].status = s]
    PROVE  /\ row' \in [Deliveries -> Row]
           /\ row'[d].status = s /\ row'[d].replyTo = row[d].replyTo
           /\ \A e \in Deliveries : e # d => row'[e] = row[e]
  <1>1. row \in [Deliveries -> Row] BY DEF Types
  <1>2. PICK new : new = [row[d] EXCEPT !.status = s] OBVIOUS
  <1>3. new \in Row /\ new.status = s /\ new.replyTo = row[d].replyTo BY <1>1, <1>2 DEF Row
  <1>4. row' = [row EXCEPT ![d] = new] BY <1>2
  <1> QED BY <1>1, <1>3, <1>4

LEMMA CancelEphemeralStep ==
    ASSUME IInv, NEW p \in Procs, NEW d \in Deliveries, CancelEphemeral(p, d)
    PROVE  IInv'
  <1>0. proc[p] \in Sender /\ row \in [Deliveries -> Row] BY Senders DEF IInv, Types
  <1>1. PICK me : me = [proc[p] EXCEPT !.ram = @ \ {d}] OBVIOUS
  <1>2. /\ me \in Sender /\ me.unrecorded = proc[p].unrecorded /\ me.receipts = proc[p].receipts
        /\ me.queue = proc[p].queue /\ me.phase = proc[p].phase /\ me.lane = proc[p].lane
        /\ me.futures = proc[p].futures /\ me.passive = proc[p].passive
    BY <1>0, <1>1 DEF Sender
  <1>3. proc' = [proc EXCEPT ![p] = me] BY <1>1 DEF CancelEphemeral
  <1>4. proc'[p] = me /\ UNCHANGED <<att, holder, route, inbox, expired>>
    BY <1>2, <1>3, ProcEdit DEF CancelEphemeral, IInv
  <1>5. Thrifty(p) BY <1>2, <1>4 DEF Thrifty, Slot
  <1>8. faults' \in 0 .. MaxFaults
    <2>1. SpendIf(row[d].status \in {"pending", "sending"} /\ d \notin expired) BY DEF CancelEphemeral
    <2> QED BY <2>1, Spending DEF IInv
  <1>9. holder = p BY DEF CancelEphemeral, Current
  <1>6. CASE row[d].status = "pending"
    <2>1. row' = [row EXCEPT ![d].status = "cancelled"] BY <1>6 DEF CancelEphemeral
    <2>2. /\ row' \in [Deliveries -> Row]
          /\ row'[d].status = "cancelled" /\ row'[d].replyTo = row[d].replyTo
          /\ \A e \in Deliveries : e # d => row'[e] = row[e]
      BY <2>1, StatusEdit DEF IInv, Statuses
    <2>3. \A e \in Deliveries :
              \/ row'[e] = row[e]
              \/ /\ row[e].status \in Untried /\ row'[e].status \in Untried \ {"absent"}
                 /\ row'[e].replyTo = row[e].replyTo
      BY <1>6, <2>2 DEF Untried
    <2> QED BY <1>2, <1>3, <1>4, <1>5, <1>8, <1>9, <2>2, <2>3, QuietStep
  <1>7. CASE row[d].status # "pending"
    <2>1. row' = row BY <1>7 DEF CancelEphemeral
    <2> QED BY <1>0, <1>2, <1>3, <1>4, <1>5, <1>8, <2>1, QuietStep
  <1> QED BY <1>6, <1>7

LEMMA ListDueStep ==
    ASSUME IInv, NEW p \in Procs, ListDue(p)
    PROVE  IInv'
  <1>1. CASE ~ Current(p) BY <1>1, StopStep DEF ListDue
  <1>2. CASE Current(p)
    <2>0. proc[p] \in Sender /\ row \in [Deliveries -> Row] BY Senders DEF IInv, Types
    <2>1. row' = [e \in Deliveries |-> IF row[e].status = "pending" /\ e \in expired
                                       THEN [row[e] EXCEPT !.status = "failed"] ELSE row[e]]
      BY <1>2 DEF ListDue, ExpiredRows
    <2>2. ASSUME NEW e \in Deliveries
          PROVE  /\ row'[e] \in Row
                 /\ \/ row'[e] = row[e]
                    \/ /\ row[e].status \in Untried /\ row'[e].status \in Untried \ {"absent"}
                       /\ row'[e].replyTo = row[e].replyTo
      <3>1. row[e] \in Row BY <2>0
      <3>2. CASE row[e].status = "pending" /\ e \in expired
        <4>1. row'[e] = [row[e] EXCEPT !.status = "failed"] BY <2>1, <3>2
        <4> QED BY <3>1, <3>2, <4>1 DEF Row, Statuses, Untried
      <3>3. CASE ~ (row[e].status = "pending" /\ e \in expired) BY <2>1, <3>1, <3>3
      <3> QED BY <3>2, <3>3
    <2>3. row' \in [Deliveries -> Row] BY <2>1, <2>2
    <2>4. PICK todo \in SUBSET Deliveries : todo = {e \in Deliveries : ExpiredRows[e].status = "pending"}
      OBVIOUS
    <2>5. PICK me : me = [proc[p] EXCEPT !.todo = todo] OBVIOUS
    <2>6. /\ me \in Sender /\ me.unrecorded = proc[p].unrecorded /\ me.receipts = proc[p].receipts
          /\ me.queue = proc[p].queue /\ me.phase = proc[p].phase /\ me.lane = proc[p].lane
          /\ me.futures = proc[p].futures /\ me.passive = proc[p].passive
      BY <2>0, <2>5 DEF Sender
    <2>7. proc' = [proc EXCEPT ![p] = me] BY <1>2, <2>4, <2>5 DEF ListDue
    <2>8. proc'[p] = me /\ UNCHANGED <<att, holder, route, inbox, expired, faults>>
      BY <1>2, <2>6, <2>7, ProcEdit DEF ListDue, IInv
    <2>9. Thrifty(p) BY <2>6, <2>8 DEF Thrifty, Slot
    <2>10. holder = p BY <1>2 DEF Current
    <2> QED BY <2>2, <2>3, <2>6, <2>7, <2>8, <2>9, <2>10, QuietStep
  <1> QED BY <1>1, <1>2

LEMMA GiveUpStep ==
    ASSUME IInv, NEW p \in Procs, GiveUp(p)
    PROVE  IInv'
  <1>1. CASE ~ Current(p) BY <1>1, LosesLeaseStep DEF GiveUp
  <1>2. CASE Current(p)
    <2>0. /\ proc[p] \in Sender /\ row \in [Deliveries -> Row] /\ LaneFits(p)
          /\ proc[p].lane.pc \in {"giveup", "lastresort"} /\ holder = p
      BY <1>2, Senders DEF IInv, Types, Once, GiveUp, AtPC, Current
    <2>1. PICK d \in Deliveries : d = proc[p].lane.d BY <2>0 DEF LaneFits
    <2>2. row[d].status \in Untried \ {"absent"} BY <1>2, <2>0, <2>1 DEF LaneFits, Ahead
    <2>3. row' = [row EXCEPT ![d].status = "failed"] BY <1>2, <2>1 DEF GiveUp
    <2>4. /\ row' \in [Deliveries -> Row]
          /\ row'[d].status = "failed" /\ row'[d].replyTo = row[d].replyTo
          /\ \A e \in Deliveries : e # d => row'[e] = row[e]
      BY <2>3, StatusEdit DEF IInv, Statuses
    <2>5. \A e \in Deliveries :
              \/ row'[e] = row[e]
              \/ /\ row[e].status \in Untried /\ row'[e].status \in Untried \ {"absent"}
                 /\ row'[e].replyTo = row[e].replyTo
      BY <2>2, <2>4 DEF Untried
    <2>6. PICK me : me = [proc[p] EXCEPT !.lane = IdleLane, !.futures = @ \ {d}] OBVIOUS
    <2>7. IdleLane \in Lane /\ IdleLane.mode = "proactive" BY DEF IdleLane, Lane, Refusals
    <2>8. /\ me \in Sender /\ me.unrecorded = proc[p].unrecorded /\ me.receipts = proc[p].receipts
          /\ me.queue = proc[p].queue /\ me.phase = proc[p].phase /\ me.lane = IdleLane
          /\ me.futures = proc[p].futures \ {d} /\ me.passive = proc[p].passive
      BY <2>0, <2>6, <2>7 DEF Sender
    <2>9. proc' = [proc EXCEPT ![p] = me] BY <1>2, <2>1, <2>6 DEF GiveUp, Finished
    <2>10. proc'[p] = me /\ UNCHANGED <<att, holder, route, inbox, expired, faults>>
      BY <1>2, <2>8, <2>9, ProcEdit DEF GiveUp, IInv
    <2>11. Thrifty(p) BY <2>7, <2>8, <2>10 DEF Thrifty, Slot
    <2> QED BY <2>0, <2>1, <2>4, <2>5, <2>8, <2>9, <2>10, <2>11, QuietStep
  <1> QED BY <1>1, <1>2

\* One attempt that goes on or ends is a settling of what is there.
LEMMA AttemptSettles ==
    ASSUME Types, NEW p \in Procs, NEW me \in Sender, proc' = [proc EXCEPT ![p] = me],
           NEW d \in Deliveries, NEW n, n = Len(att[d]), att[d] # <<>>, NEW a \in Attempt,
           att' = [att EXCEPT ![d][n] = a],
           UNCHANGED <<holder, route, inbox, expired, faults>>,
           row' \in [Deliveries -> Row], row'[d].replyTo = row[d].replyTo,
           \A e \in Deliveries : e # d => row'[e] = row[e],
           a.mode = att[d][n].mode, a.msg = att[d][n].msg, a.seq = att[d][n].seq,
           a.state # "unaccepted" => att[d][n].state # "unaccepted"
    PROVE  Types' /\ Settling
  <1>1. proc' \in [Procs -> Sender] BY ProcEdit
  <1>2. n \in DOMAIN att[d] /\ att[d][n] \in Attempt BY Sequences
  <1>3. /\ att' \in [Deliveries -> Seq(Attempt)]
        /\ att'[d][n] = a
        /\ \A e \in Deliveries : DOMAIN att'[e] = DOMAIN att[e]
        /\ \A e \in Deliveries : e # d => att'[e] = att[e]
        /\ \A k \in DOMAIN att[d] : k # n => att'[d][k] = att[d][k]
    BY <1>2, Overwritten
  <1>4. Types' BY <1>1, <1>3 DEF Types
  <1>5. Settling
    <2>1. inbox.newest <= inbox'.newest BY Basics DEF Types
    <2>2. \A e \in Deliveries : row'[e].replyTo = row[e].replyTo OBVIOUS
    <2>3. \A e \in Deliveries : \A k \in DOMAIN att[e] :
             \/ att'[e][k] = att[e][k]
             \/ e = d /\ k = n
      BY <1>3
    <2>4. \A e \in Deliveries : \A k \in DOMAIN att[e] :
                /\ att'[e][k].mode = att[e][k].mode
                /\ att'[e][k].msg = att[e][k].msg
                /\ att'[e][k].seq = att[e][k].seq
                /\ att'[e][k].state # "unaccepted" => att[e][k].state # "unaccepted"
      BY <1>3, <2>3
    <2> QED BY <1>3, <2>1, <2>2, <2>4 DEF Settling
  <1> QED BY <1>4, <1>5

\* The last attempt of one delivery changes, and with it, perhaps, its row; the sender goes on
\* with the delivery or is done with it.
AttemptEdit(p, me, d, n, a) ==
    /\ proc' = [proc EXCEPT ![p] = me]
    /\ n = Len(att[d]) /\ att[d] # <<>>
    /\ att' = [att EXCEPT ![d][n] = a]
    /\ UNCHANGED <<holder, route, inbox, expired, faults>>
    /\ holder = p \/ row' = row
    /\ row' \in [Deliveries -> Row] /\ row'[d].replyTo = row[d].replyTo
    /\ \A e \in Deliveries : e # d => row'[e] = row[e]
    /\ a.mode = att[d][n].mode /\ a.msg = att[d][n].msg /\ a.seq = att[d][n].seq
    /\ a.state # "unaccepted" => att[d][n].state # "unaccepted"
    /\ att[d][n].plat = "yes" => a.plat = "yes"
    /\ a.state = "unaccepted" => a.plat # "yes"
    /\ a.receipt # "none" => a.plat = "yes"
    /\ row'[d].status \in Untried => a.state = "unaccepted"
    /\ row'[d].status # "absent"
    /\ row'[d].status = "committed" => a.receipt = "applied"
    /\ \A q \in Procs : q # p /\ Under(q, d) =>
          /\ a.state # "unaccepted" /\ a.plat = att[d][n].plat
          /\ proc[q].lane.pc \in OnWire => a.receipt = att[d][n].receipt
    /\ me.queue = proc[p].queue
    /\ \A i \in DOMAIN proc[p].queue : row'[proc[p].queue[i]] = row[proc[p].queue[i]]
    /\ \/ me.futures = proc[p].futures /\ me.lane.d = proc[p].lane.d /\ proc[p].lane.pc # "idle"
       \/ me.futures = proc[p].futures /\ me.lane = proc[p].lane
       \/ /\ me.futures = proc[p].futures \ {proc[p].lane.d} /\ me.lane = IdleLane
          /\ proc[p].lane.pc # "idle"
    /\ me.lane.pc \in OnWire \cup InHand =>
          proc[p].lane.pc \in OnWire \cup InHand /\ me.lane.d = proc[p].lane.d
    /\ me.lane.pc \in OnWire => proc[p].lane.pc \in OnWire
    /\ \A x \in me.unrecorded \cup me.receipts :
          x \in Heard(p) \/ (x = <<d, n>> /\ a.plat = "yes" /\ Under(p, d) /\ me.lane.pc \notin OnWire)

LEMMA AttemptStep ==
    ASSUME IInv, NEW p \in Procs, NEW me \in Sender, NEW d \in Deliveries, NEW n, NEW a \in Attempt,
           AttemptEdit(p, me, d, n, a), LaneFits(p)', Thrifty(p)
    PROVE  IInv'
  <1> USE DEF AttemptEdit
  <1>0. Types /\ Once BY DEF IInv
  <1>1. /\ proc' \in [Procs -> Sender] /\ proc'[p] = me
        /\ \A q \in Procs : q # p => proc'[q] = proc[q]
    BY <1>0, ProcEdit
  <1>2. n \in DOMAIN att[d] /\ att[d][n] \in Attempt BY <1>0, Sequences
  <1>3. /\ att' \in [Deliveries -> Seq(Attempt)]
        /\ att'[d][n] = a
        /\ \A e \in Deliveries : DOMAIN att'[e] = DOMAIN att[e] /\ Len(att'[e]) = Len(att[e])
        /\ \A e \in Deliveries : e # d => att'[e] = att[e]
        /\ \A k \in DOMAIN att[d] : k # n => att'[d][k] = att[d][k]
    BY <1>0, <1>2, Overwritten
  <1>4. Types' /\ Settling BY <1>0, AttemptSettles
  <1>6. ASSUME NEW e \in Deliveries PROVE RowFits(e)'
    <2>1. RowFits(e) BY <1>0 DEF Once
    <2>2. CASE e # d BY <1>3, <2>1, <2>2 DEF RowFits, Attempts
    <2>3. CASE e = d
      <3>1. \A k \in DOMAIN att[d] : k # n => att[d][k].state = "unaccepted"
        BY <2>1, <2>3 DEF RowFits, Attempts
      <3>2. \A k \in DOMAIN att[d] :
              /\ att'[d][k].state = "unaccepted" => att'[d][k].plat # "yes"
              /\ att'[d][k].receipt # "none" => att'[d][k].plat = "yes"
              /\ k # Len(att[d]) \/ row'[d].status \in Untried => att'[d][k].state = "unaccepted"
        <4> TAKE k \in DOMAIN att[d]
        <4>1. CASE k = n BY <1>3, <4>1
        <4>2. CASE k # n BY <1>3, <2>1, <2>3, <3>1, <4>2 DEF RowFits, Attempts
        <4> QED BY <4>1, <4>2
      <3>3. row'[d].status = "committed" => att'[d][n].receipt = "applied" BY <1>3
      <3>4. DOMAIN att'[d] = DOMAIN att[d] /\ Len(att'[d]) = Len(att[d]) BY <1>3
      <3> QED BY <1>2, <2>3, <3>2, <3>3, <3>4 DEF RowFits, Attempts
    <2> QED BY <2>2, <2>3
  <1>7. LaneFits(p) /\ QueueFits(p) /\ HeardFits(p) BY <1>0 DEF Once
  <1>8. \A x \in Heard(p)' :
           x \in Heard(p) \/ (x = <<d, n>> /\ a.plat = "yes" /\ Under(p, d) /\ me.lane.pc \notin OnWire)
    BY <1>1 DEF Heard
  <1>9. \A e \in Deliveries : \A k \in DOMAIN att[e] :
              k \in DOMAIN att'[e] /\ (att[e][k].plat = "yes" => att'[e][k].plat = "yes")
    BY <1>3
  <1>10. HeardFits(p)'
    <2>1. \A x \in Heard(p) : x[1] \in Deliveries BY <1>0, Senders
    <2>2. n \in DOMAIN att'[d] /\ att'[d][n] = a BY <1>2, <1>3
    <2> QED BY <1>7, <1>8, <1>9, <2>1, <2>2 DEF HeardFits, Attempts
  <1>11. QueueFits(p)'
    <2>1. IdleLane.pc = "idle" BY DEF IdleLane
    <2> QED BY <1>1, <1>7, <2>1 DEF QueueFits, Current
  <1>12. \A q, r \in Procs : Apart(q, r)' /\ Silent(q, r)'
    <2>1. /\ proc'[p].lane.pc \in OnWire \cup InHand =>
                proc[p].lane.pc \in OnWire \cup InHand /\ proc'[p].lane.d = proc[p].lane.d
          /\ proc'[p].lane.pc \in OnWire => proc[p].lane.pc \in OnWire
          /\ \A x \in Heard(p)' :
                x \in Heard(p) \/ (Under(p, x[1]) /\ proc'[p].lane.pc \notin OnWire)
      BY <1>1, <1>8
    <2> QED BY <1>0, <1>1, <2>1, StillApart
  <1>13. \A q \in Procs : \A e \in Deliveries : q # p /\ Under(q, e) =>
              /\ Len(att'[e]) = Len(att[e]) /\ att'[e] # <<>>
              /\ att'[e][Len(att[e])].state # "unaccepted"
              /\ att'[e][Len(att[e])].plat = att[e][Len(att[e])].plat
              /\ proc[q].lane.pc \in OnWire =>
                    att'[e][Len(att[e])].receipt = att[e][Len(att[e])].receipt
    <2> TAKE q \in Procs
    <2> TAKE e \in Deliveries
    <2> HAVE q # p /\ Under(q, e)
    <2>1. att[e] # <<>> /\ att[e][Len(att[e])].state # "unaccepted"
      BY <1>0 DEF Once, LaneFits, LastOf, Under
    <2>2. CASE e = d
      <3>1. att'[d] # <<>> BY <1>2, <1>3
      <3> QED BY <1>3, <2>2, <3>1
    <2>3. CASE e # d BY <1>3, <2>1, <2>3
    <2> QED BY <2>2, <2>3
  <1> QED BY <1>1, <1>4, <1>6, <1>9, <1>10, <1>11, <1>12, <1>13, OneWriter

\* What a lane with a request or an answer knows of its delivery.
LEMMA LaneKnows ==
    ASSUME IInv, NEW p \in Procs, proc[p].lane.pc \in OnWire \cup InHand
    PROVE  \E d \in Deliveries :
              /\ d = proc[p].lane.d /\ att[d] # <<>>
              /\ Len(att[d]) \in DOMAIN att[d] /\ att[d][Len(att[d])] \in Attempt
              /\ att[d][Len(att[d])].state # "unaccepted" /\ row[d].status \notin Untried
              /\ proc[p].lane.pc = "post" => att[d][Len(att[d])].plat = "none"
              /\ proc[p].lane.pc \in {"deny", "refused"} => att[d][Len(att[d])].plat = "no"
              /\ proc[p].lane.pc \in InHand => att[d][Len(att[d])].plat = "yes"
              /\ proc[p].lane.pc \in OnWire => att[d][Len(att[d])].receipt = "none"
              /\ proc[p].lane.pc \in OnWire /\ holder = p => row[d].status = "sending"
              /\ \A q \in Procs : q # p => ~ Under(q, d)
              /\ \A i \in DOMAIN proc[p].queue : proc[p].queue[i] # d /\ proc[p].queue[i] \in Deliveries
  <1>1. LaneFits(p) /\ QueueFits(p) /\ Types BY DEF IInv, Once
  <1>2. proc[p].lane.pc # "idle" BY DEF OnWire, InHand
  <1>3. PICK d \in Deliveries : d = proc[p].lane.d BY <1>1, <1>2 DEF LaneFits
  <1>4. att[d] # <<>> /\ LastOf(d).state # "unaccepted" BY <1>1, <1>3 DEF LaneFits
  <1>5. Len(att[d]) \in DOMAIN att[d] /\ att[d][Len(att[d])] \in Attempt BY <1>1, <1>4, Sequences
  <1>6. row[d].status \notin Untried BY <1>4, <1>5 DEF IInv, Once, RowFits, Attempts, LastOf
  <1>7. \A q \in Procs : q # p => ~ Under(q, d)
    BY <1>3 DEF IInv, Once, Apart, Under
  <1>8. \A i \in DOMAIN proc[p].queue : proc[p].queue[i] # d /\ proc[p].queue[i] \in Deliveries
    <2>1. proc[p].queue \in Seq(Deliveries) BY <1>1, Senders
    <2> QED BY <1>1, <1>2, <1>3, <2>1 DEF QueueFits
  <1> QED BY <1>1, <1>3, <1>4, <1>5, <1>6, <1>7, <1>8 DEF LaneFits, LastOf, Current

LEMMA PostStep ==
    ASSUME IInv, NEW p \in Procs, Post(p)
    PROVE  IInv'
  <1>0. /\ proc[p].lane.pc = "post" /\ proc[p] \in Sender /\ row \in [Deliveries -> Row] /\ Types
        /\ UNCHANGED <<row, holder, route, inbox, expired, faults>>
    BY Senders DEF Post, AtPC, IInv, Types
  <1>1. PICK d \in Deliveries :
              /\ d = proc[p].lane.d /\ att[d] # <<>>
              /\ Len(att[d]) \in DOMAIN att[d] /\ att[d][Len(att[d])] \in Attempt
              /\ att[d][Len(att[d])].state # "unaccepted" /\ row[d].status \notin Untried
              /\ att[d][Len(att[d])].plat = "none" /\ att[d][Len(att[d])].receipt = "none"
              /\ holder = p => row[d].status = "sending"
              /\ \A q \in Procs : q # p => ~ Under(q, d)
    BY <1>0, LaneKnows DEF OnWire
  <1>2. PICK n : n = Len(att[d]) OBVIOUS
  <1>3. PICK seen \in {"yes", "no"} : att' = [att EXCEPT ![d][n].plat = seen]
    BY <1>1, <1>2 DEF Post, Last
  <1>4. PICK a : a = [att[d][n] EXCEPT !.plat = seen] OBVIOUS
  <1>5. /\ a \in Attempt /\ a.mode = att[d][n].mode /\ a.msg = att[d][n].msg /\ a.seq = att[d][n].seq
        /\ a.state = att[d][n].state /\ a.receipt = "none" /\ a.plat = seen
    BY <1>1, <1>2, <1>4 DEF Attempt
  <1>6. att' = [att EXCEPT ![d][n] = a] BY <1>3, <1>4
  <1>7. PICK lane \in Lane :
              /\ lane.pc = "answer" /\ lane.d = proc[p].lane.d /\ lane.mode = proc[p].lane.mode
              /\ lane.msg = proc[p].lane.msg /\ lane.seq = proc[p].lane.seq
              /\ proc' = [proc EXCEPT ![p].lane = lane]
    BY <1>0, LaneGoes DEF Post
  <1>8. PICK me : me = [proc[p] EXCEPT !.lane = lane] OBVIOUS
  <1>9. /\ me \in Sender /\ me.lane = lane /\ me.queue = proc[p].queue /\ me.futures = proc[p].futures
        /\ me.unrecorded = proc[p].unrecorded /\ me.receipts = proc[p].receipts
        /\ me.passive = proc[p].passive /\ me.phase = proc[p].phase
    BY <1>0, <1>8 DEF Sender
  <1>10. proc' = [proc EXCEPT ![p] = me] BY <1>7, <1>8
  <1>11. proc'[p] = me BY <1>0, <1>9, <1>10, ProcEdit
  <1>12. Thrifty(p) BY <1>0, <1>7, <1>9, <1>11 DEF Thrifty, Slot, OnWire
  <1>13. row[d].status # "committed"
    <2>1. \A k \in DOMAIN att[d] : k # n => att[d][k].receipt = "none"
      BY <1>2 DEF IInv, Once, RowFits, Attempts
    <2>2. \A k \in DOMAIN att[d] : att[d][k].receipt = "none" BY <1>1, <1>2, <2>1
    <2> QED BY <2>2 DEF IInv, Once, RowFits, Attempts
  <1>14. LaneFits(p)'
    <2>0. Types /\ n \in DOMAIN att[d] /\ a \in Attempt BY <1>0, <1>1, <1>2, <1>5
    <2>1. att'[d][n] = a /\ Len(att'[d]) = Len(att[d]) BY <1>6, <2>0, Overwritten
    <2>2. att'[d] # <<>> /\ att'[d][Len(att'[d])] = a BY <1>1, <1>2, <2>1
    <2>3. proc[p].phase \notin {"down", "recovering"} BY <1>0 DEF IInv, Once, LaneFits
    <2>4. proc'[p].phase = proc[p].phase /\ proc'[p].lane = lane BY <1>9, <1>11
    <2>5. proc'[p].lane.pc = "answer" /\ proc'[p].lane.d = d BY <1>1, <1>7, <2>4
    <2>6. a.state # "unaccepted" /\ a.receipt = "none" BY <1>1, <1>2, <1>5
    <2>7. holder' = p => row'[d].status = "sending" BY <1>0, <1>1
    <2>8. Relies(proc'[p].phase, "answer", d, holder' = p, att'[d], row'[d].status)
      BY <2>2, <2>3, <2>4, <2>6, <2>7, RelyOnWire
    <2> QED BY <2>5, <2>8, LaneReads
  <1>15. \A i \in DOMAIN proc[p].queue : row'[proc[p].queue[i]] = row[proc[p].queue[i]] BY <1>0
  <1>16. /\ me.lane.d = proc[p].lane.d /\ proc[p].lane.pc \in OnWire /\ proc[p].lane.pc # "idle"
         /\ me.unrecorded \cup me.receipts \subseteq Heard(p)
    BY <1>0, <1>7, <1>9 DEF OnWire, Heard
  <1>17. row'[d].status # "absent" /\ row'[d].status \notin Untried BY <1>0, <1>1 DEF Untried
  <1>18. AttemptEdit(p, me, d, n, a)
    BY <1>0, <1>1, <1>2, <1>5, <1>6, <1>9, <1>10, <1>13, <1>15, <1>16, <1>17 DEF AttemptEdit, Types
  <1> QED BY <1>1, <1>5, <1>9, <1>12, <1>14, <1>18, AttemptStep

\* A sender that is done with its delivery is still one.
LEMMA FinishedSender ==
    ASSUME NEW me \in Sender, NEW d
    PROVE  /\ Finished(me, d) \in Sender /\ Finished(me, d).lane = IdleLane
           /\ Finished(me, d).futures = me.futures \ {d} /\ Finished(me, d).queue = me.queue
           /\ Finished(me, d).phase = me.phase /\ Finished(me, d).passive = me.passive
           /\ Finished(me, d).unrecorded = me.unrecorded /\ Finished(me, d).receipts = me.receipts
  <1>1. IdleLane \in Lane BY DEF IdleLane, Lane, Refusals
  <1> QED BY <1>1 DEF Finished, Sender

LEMMA IdleFits ==
    ASSUME NEW p \in Procs, proc'[p].lane = IdleLane
    PROVE  LaneFits(p)' /\ ~ Slot(p)'
  BY DEF LaneFits, IdleLane, OnWire, InHand, Ahead, Slot

LEMMA SettleUnknownStep ==
    ASSUME IInv, NEW p \in Procs, SettleUnknown(p)
    PROVE  IInv'
  <1>1. CASE ~ Current(p) BY <1>1, LosesLeaseStep DEF SettleUnknown
  <1>2. CASE Current(p)
    <2>0. /\ proc[p].lane.pc = "unknown" /\ proc[p] \in Sender /\ Types /\ holder = p
          /\ UNCHANGED <<holder, route, inbox, expired, faults>>
      BY <1>2, Senders DEF SettleUnknown, AtPC, IInv, Current
    <2>1. PICK d \in Deliveries :
              /\ d = proc[p].lane.d /\ att[d] # <<>>
              /\ att[d][Len(att[d])] \in Attempt
              /\ att[d][Len(att[d])].state # "unaccepted"
              /\ att[d][Len(att[d])].receipt = "none"
              /\ \A q \in Procs : q # p => ~ Under(q, d)
              /\ \A i \in DOMAIN proc[p].queue : proc[p].queue[i] # d /\ proc[p].queue[i] \in Deliveries
      BY <2>0, LaneKnows DEF OnWire
    <2>2. PICK n : n = Len(att[d]) OBVIOUS
    <2>3. PICK a : a = [att[d][n] EXCEPT !.state = "ambiguous"] OBVIOUS
    <2>4. /\ a \in Attempt /\ a.mode = att[d][n].mode /\ a.msg = att[d][n].msg /\ a.seq = att[d][n].seq
          /\ a.state = "ambiguous" /\ a.receipt = "none" /\ a.plat = att[d][n].plat
      BY <2>1, <2>2, <2>3 DEF Attempt, AttemptStates
    <2>5. att' = [att EXCEPT ![d][n] = a] BY <1>2, <2>1, <2>2, <2>3 DEF SettleUnknown, Last
    <2>6. row' = [row EXCEPT ![d].status = "ambiguous"] BY <1>2, <2>1 DEF SettleUnknown
    <2>7. /\ row' \in [Deliveries -> Row]
          /\ row'[d].status = "ambiguous" /\ row'[d].replyTo = row[d].replyTo
          /\ \A e \in Deliveries : e # d => row'[e] = row[e]
      BY <2>0, <2>6, StatusEdit DEF Statuses
    <2>8. PICK me : me = Finished(proc[p], d) OBVIOUS
    <2>9. /\ me \in Sender /\ me.lane = IdleLane /\ me.queue = proc[p].queue
          /\ me.futures = proc[p].futures \ {d} /\ me.passive = proc[p].passive
          /\ me.unrecorded = proc[p].unrecorded /\ me.receipts = proc[p].receipts
      BY <2>0, <2>8, FinishedSender
    <2>10. proc' = [proc EXCEPT ![p] = me] BY <1>2, <2>1, <2>8 DEF SettleUnknown
    <2>11. proc'[p] = me BY <2>0, <2>9, <2>10, ProcEdit
    <2>12. LaneFits(p)' /\ ~ Slot(p)' BY <2>9, <2>11, IdleFits
    <2>13. Thrifty(p) BY <2>0, <2>9, <2>11, <2>12 DEF Thrifty
    <2>14. \A i \in DOMAIN proc[p].queue : row'[proc[p].queue[i]] = row[proc[p].queue[i]]
      BY <2>1, <2>7
    <2>15. /\ me.lane.pc \notin OnWire \cup InHand /\ proc[p].lane.pc # "idle"
           /\ me.unrecorded \cup me.receipts \subseteq Heard(p)
           /\ row'[d].status \notin Untried /\ row'[d].status \notin {"absent", "committed"}
      BY <2>0, <2>7, <2>9 DEF IdleLane, OnWire, InHand, Heard, Untried
    <2>16. /\ a.state # "unaccepted" => att[d][n].state # "unaccepted"
           /\ att[d][n].plat = "yes" => a.plat = "yes"
           /\ a.state = "unaccepted" => a.plat # "yes"
           /\ a.receipt # "none" => a.plat = "yes"
           /\ row'[d].status \in Untried => a.state = "unaccepted"
           /\ row'[d].status # "absent"
           /\ row'[d].status = "committed" => a.receipt = "applied"
           /\ me.futures = proc[p].futures \ {proc[p].lane.d}
      BY <2>1, <2>2, <2>4, <2>9, <2>15
    <2>17. \A q \in Procs : q # p => ~ Under(q, d) BY <2>1
    <2>18. att[d] # <<>> BY <2>1
    <2>19. AttemptEdit(p, me, d, n, a)
      BY <2>0, <2>2, <2>4, <2>5, <2>7, <2>9, <2>10, <2>14, <2>15, <2>16, <2>17, <2>18 DEF AttemptEdit
    <2> QED BY <2>4, <2>9, <2>12, <2>13, <2>19, AttemptStep
  <1> QED BY <1>1, <1>2

\* The slot of a reply that was refused can be given back: one reply less counts, or it never did.
LEMMA SlotReturned ==
    ASSUME IInv, Types', Settling, NEW p \in Procs, holder = p, proc[p].lane.pc \in OnWire,
           proc[p].lane.mode = "passive", NEW d \in Deliveries, d = proc[p].lane.d,
           att'[d][Len(att[d])].state = "unaccepted"
    PROVE  /\ proc[p].passive.used \in 1 .. PassiveLimit
           /\ \A m : m = proc[p].passive.id => /\ Cardinality(Kept(m)') <= proc[p].passive.used - 1
                                               /\ Cardinality(Kept(m)') <= PassiveLimit
  <1>0. Types /\ Once /\ Numbered BY DEF IInv
  <1>1. Slot(p) BY DEF Slot
  <1>2. SlotFits(p) /\ Numbers(p) BY DEF IInv, Numbered
  <1>3. proc[p].passive.used \in 1 .. PassiveLimit BY <1>1, <1>2, Basics DEF SlotFits
  <1>4. PICK m : m = proc[p].passive.id OBVIOUS
  <1>5. PICK x : x = <<d, Len(att[d])>> OBVIOUS
  <1>6. Cardinality(Kept(m)) \in Nat /\ IsFiniteSet(Kept(m)) BY <1>0, RecordedFinite
  <1>7. Cardinality(Kept(m)) + (IF Uncounted(p) THEN 1 ELSE 0) <= proc[p].passive.used
    BY <1>2, <1>4 DEF Numbers, Current
  <1>8. /\ Cardinality(Kept(m)') <= Cardinality(Kept(m)) /\ Cardinality(Kept(m)') \in Nat
        /\ Traceable' = Traceable
    BY <1>0, SameReplies
  <1>9. Cardinality(Kept(m)') <= proc[p].passive.used - 1
    <2>1. CASE x \notin Traceable
      <3>1. Uncounted(p) BY <1>1, <1>5, <2>1 DEF Uncounted
      <3> QED BY <1>3, <1>6, <1>7, <1>8, <3>1
    <2>2. CASE x \in Traceable
      <3>1. LastOf(d).msg = m /\ LastOf(d).state # "unaccepted"
        BY <1>0, <1>1, <1>2, <1>4 DEF SlotFits, Once, LaneFits
      <3>2. x \in Kept(m) BY <1>5, <2>2, <3>1 DEF Kept, LastOf
      <3>3. Kept(m)' \subseteq Kept(m) \ {x}
        <4>1. x \notin Kept(m)' BY <1>5 DEF Kept
        <4>2. Traceable \subseteq Recorded /\ \A y \in Recorded : y[1] \in Deliveries /\ y[2] \in DOMAIN att[y[1]]
          BY <1>0, RecordedFinite
        <4>3. ASSUME NEW y \in Kept(m)' PROVE y \in Kept(m)
          <5>1. /\ y \in Traceable /\ att'[y[1]][y[2]].msg = m
                /\ att'[y[1]][y[2]].state # "unaccepted"
            BY <1>8, <4>3 DEF Kept
          <5>2. y[1] \in Deliveries /\ y[2] \in DOMAIN att[y[1]] BY <4>2, <5>1
          <5>3. /\ att'[y[1]][y[2]].msg = att[y[1]][y[2]].msg
                /\ att'[y[1]][y[2]].state # "unaccepted" => att[y[1]][y[2]].state # "unaccepted"
            BY <5>2 DEF Settling
          <5> QED BY <5>1, <5>3 DEF Kept
        <4> QED BY <4>1, <4>3
      <3>4. IsFiniteSet(Kept(m) \ {x}) /\ Cardinality(Kept(m) \ {x}) = Cardinality(Kept(m)) - 1
        BY <1>6, <3>2, FS_RemoveElement
      <3>5. Cardinality(Kept(m)') <= Cardinality(Kept(m)) - 1 BY <3>3, <3>4, FS_Subset
      <3> QED BY <1>3, <1>6, <1>7, <1>8, <3>5
    <2> QED BY <2>1, <2>2
  <1>10. Cardinality(Kept(m)') <= PassiveLimit BY <1>3, <1>8, <1>9, Basics
  <1> QED BY <1>3, <1>4, <1>9, <1>10

LEMMA RefusedStep ==
    ASSUME IInv, NEW p \in Procs, Refused(p)
    PROVE  IInv'
  <1>1. CASE ~ Current(p) BY <1>1, LosesLeaseStep DEF Refused
  <1>2. CASE Current(p)
    <2>0. /\ proc[p].lane.pc = "refused" /\ proc[p] \in Sender /\ Types /\ holder = p
          /\ proc[p].lane \in Lane /\ row \in [Deliveries -> Row]
          /\ UNCHANGED <<holder, route, inbox, expired, faults>>
      BY <1>2, Senders DEF Refused, AtPC, IInv, Current, Types
    <2>1. PICK d \in Deliveries :
              /\ d = proc[p].lane.d /\ att[d] # <<>>
              /\ Len(att[d]) \in DOMAIN att[d] /\ att[d][Len(att[d])] \in Attempt
              /\ att[d][Len(att[d])].state # "unaccepted"
              /\ att[d][Len(att[d])].receipt = "none" /\ att[d][Len(att[d])].plat = "no"
              /\ \A q \in Procs : q # p => ~ Under(q, d)
              /\ \A i \in DOMAIN proc[p].queue : proc[p].queue[i] # d /\ proc[p].queue[i] \in Deliveries
      BY <2>0, LaneKnows DEF OnWire
    <2>2. PICK n : n = Len(att[d]) OBVIOUS
    <2>3. PICK a : a = [att[d][n] EXCEPT !.state = "unaccepted"] OBVIOUS
    <2>4. /\ a \in Attempt /\ a.mode = att[d][n].mode /\ a.msg = att[d][n].msg /\ a.seq = att[d][n].seq
          /\ a.state = "unaccepted" /\ a.receipt = "none" /\ a.plat = "no"
      BY <2>1, <2>2, <2>3 DEF Attempt, AttemptStates
    <2>5. att' = [att EXCEPT ![d][n] = a] BY <1>2, <2>1, <2>2, <2>3 DEF Refused, Last
    <2>6. PICK again \in BOOLEAN : again = Retries(proc[p].lane, d) BY DEF Retries
    <2>7. PICK new : new = [row[d] EXCEPT !.status = IF again THEN "pending" ELSE "failed",
                                          !.plain = @ \/ (again /\ proc[p].lane.code = "format")]
      OBVIOUS
    <2>8. new \in Row /\ new.status \in {"pending", "failed"} /\ new.replyTo = row[d].replyTo
      BY <2>0, <2>7 DEF Row, Statuses
    <2>9. row' = [row EXCEPT ![d] = new] BY <1>2, <2>1, <2>6, <2>7 DEF Refused
    <2>10. /\ row' \in [Deliveries -> Row] /\ row'[d] = new
           /\ \A e \in Deliveries : e # d => row'[e] = row[e]
      BY <2>0, <2>8, <2>9
    <2>11. PICK u : u = IF proc[p].lane.mode # "passive" THEN proc[p].passive.used
                        ELSE IF proc[p].lane.code = "exhausted" THEN PassiveLimit
                        ELSE proc[p].passive.used - 1
      OBVIOUS
    <2>12. PICK passive : passive = [proc[p].passive EXCEPT !.used = u] OBVIOUS
    <2>13. u \in Int /\ passive \in [id : Nat, used : Int, seq : Nat]
      <3>1. proc[p].passive \in [id : Nat, used : Int, seq : Nat] BY <2>0, Senders
      <3> QED BY <2>11, <2>12, <3>1, Basics
    <2>14. PICK back : back = [proc[p] EXCEPT !.passive = passive] OBVIOUS
    <2>15. /\ back \in Sender /\ back.passive = passive /\ back.queue = proc[p].queue
           /\ back.futures = proc[p].futures /\ back.phase = proc[p].phase
           /\ back.unrecorded = proc[p].unrecorded /\ back.receipts = proc[p].receipts
      BY <2>0, <2>13, <2>14 DEF Sender
    <2>16. back = IF proc[p].lane.code = "exhausted" /\ proc[p].lane.mode = "passive"
                  THEN [proc[p] EXCEPT !.passive.used = PassiveLimit] ELSE Refund(proc[p])
      <3>1. CASE proc[p].lane.mode = "passive" BY <2>11, <2>12, <2>14, <3>1 DEF Refund
      <3>2. CASE proc[p].lane.mode # "passive"
        <4>1. proc[p].passive \in [id : Nat, used : Int, seq : Nat] BY <2>0, Senders
        <4>2. passive = proc[p].passive BY <2>11, <2>12, <3>2, <4>1
        <4>3. back = proc[p] BY <2>0, <2>14, <4>2 DEF Sender
        <4> QED BY <3>2, <4>3 DEF Refund
      <3> QED BY <3>1, <3>2
    <2>17. PICK lane : lane = [IdleLane EXCEPT !.pc = "route", !.d = d,
                                    !.auth = proc[p].lane.auth \/ proc[p].lane.code = "auth",
                                    !.plain = proc[p].lane.plain \/ proc[p].lane.code = "format"]
      OBVIOUS
    <2>18. lane \in Lane /\ lane.pc = "route" /\ lane.d = d /\ lane.mode = "proactive"
      BY <2>0, <2>17 DEF IdleLane, Lane, Refusals
    <2>19. PICK me : me = IF again THEN [back EXCEPT !.lane = lane] ELSE Finished(back, d) OBVIOUS
    <2>20. /\ me \in Sender /\ me.queue = proc[p].queue /\ me.passive = passive
           /\ me.phase = proc[p].phase
           /\ me.unrecorded = proc[p].unrecorded /\ me.receipts = proc[p].receipts
           /\ \/ again /\ me.lane = lane /\ me.futures = proc[p].futures
              \/ me.lane = IdleLane /\ me.futures = proc[p].futures \ {d}
      <3>1. CASE again BY <2>15, <2>18, <2>19, <3>1 DEF Sender
      <3>2. CASE ~ again BY <2>15, <2>19, <3>2, FinishedSender
      <3> QED BY <3>1, <3>2
    <2>21. proc' = [proc EXCEPT ![p] = me]
      BY <1>2, <2>1, <2>6, <2>16, <2>17, <2>19 DEF Refused
    <2>22. proc'[p] = me BY <2>0, <2>20, <2>21, ProcEdit
    <2>23. Types' /\ Settling
      BY <2>0, <2>1, <2>2, <2>4, <2>5, <2>8, <2>10, <2>20, <2>21, AttemptSettles
    <2>24. ~ Slot(p)' BY <2>18, <2>20, <2>22 DEF Slot, IdleLane
    <2>25. Thrifty(p)
      <3>1. CASE proc[p].lane.mode # "passive"
        <4>1. proc[p].passive \in [id : Nat, used : Int, seq : Nat] BY <2>0, Senders
        <4>2. passive = proc[p].passive BY <2>11, <2>12, <3>1, <4>1
        <4> QED BY <2>0, <2>20, <2>22, <2>24, <4>2 DEF Thrifty
      <3>2. CASE proc[p].lane.mode = "passive"
        <4>1. att'[d][n] = a BY <2>0, <2>1, <2>2, <2>4, <2>5, Overwritten
        <4>2. /\ proc[p].passive.used \in 1 .. PassiveLimit
              /\ \A m : m = proc[p].passive.id => /\ Cardinality(Kept(m)') <= proc[p].passive.used - 1
                                                  /\ Cardinality(Kept(m)') <= PassiveLimit
          BY <2>0, <2>1, <2>2, <2>4, <2>23, <3>2, <4>1, SlotReturned DEF OnWire
        <4>3. u \in 0 .. PassiveLimit /\ \A m : m = proc[p].passive.id => Cardinality(Kept(m)') <= u
          BY <2>11, <3>2, <4>2, Basics
        <4> QED BY <2>0, <2>12, <2>20, <2>22, <2>24, <4>3 DEF Thrifty
      <3> QED BY <3>1, <3>2
    <2>26. LaneFits(p)'
      <3>1. CASE me.lane = IdleLane BY <2>22, <3>1, IdleFits
      <3>2. CASE again /\ me.lane = lane
        <4>1. row'[d].status \in Untried \ {"absent"} BY <2>8, <2>10 DEF Untried
        <4>2. proc[p].phase \notin {"down", "recovering"} BY <2>0 DEF IInv, Once, LaneFits
        <4> QED BY <2>18, <2>20, <2>22, <3>2, <4>1, <4>2 DEF LaneFits, OnWire, InHand, Ahead
      <3> QED BY <2>20, <3>1, <3>2
    <2>27. \A i \in DOMAIN proc[p].queue : row'[proc[p].queue[i]] = row[proc[p].queue[i]]
      BY <2>1, <2>10
    <2>28. /\ me.lane.pc \notin OnWire \cup InHand /\ proc[p].lane.pc # "idle"
           /\ me.unrecorded \cup me.receipts \subseteq Heard(p)
           /\ row'[d].status \notin {"absent", "committed"}
      BY <2>0, <2>8, <2>10, <2>18, <2>20 DEF IdleLane, OnWire, InHand, Heard
    <2>29. AttemptEdit(p, me, d, n, a)
      BY <2>0, <2>1, <2>2, <2>4, <2>5, <2>8, <2>10, <2>18, <2>20, <2>21, <2>27, <2>28 DEF AttemptEdit
    <2> QED BY <2>4, <2>20, <2>25, <2>26, <2>29, AttemptStep
  <1> QED BY <1>1, <1>2

-----------------------------------------------------------------------------
(* Steps that record an answer.                                            *)

\* What there is to know of a delivery that the platform has accepted.
LEMMA AcceptedKnown ==
    ASSUME IInv, NEW d \in Deliveries, NEW n \in DOMAIN att[d], att[d][n].plat = "yes"
    PROVE  /\ n = Len(att[d]) /\ att[d] # <<>> /\ att[d][n] \in Attempt
           /\ att[d][n].state # "unaccepted" /\ row[d].status \notin Untried
           /\ row[d].status = "committed" => att[d][n].receipt = "applied"
  <1>1. RowFits(d) /\ Types BY DEF IInv, Once
  <1>2. att[d][n].state # "unaccepted" BY <1>1 DEF RowFits, Attempts
  <1>3. n = Len(att[d]) /\ row[d].status \notin Untried BY <1>1, <1>2 DEF RowFits, Attempts
  <1>4. att[d] # <<>> /\ att[d][n] \in Attempt BY <1>1, Sequences
  <1>5. row[d].status = "committed" => att[d][n].receipt = "applied"
    <2>1. \A k \in DOMAIN att[d] : k # n => att[d][k].receipt = "none"
      BY <1>1, <1>3 DEF RowFits, Attempts
    <2> QED BY <1>1, <2>1 DEF RowFits, Attempts
  <1> QED BY <1>2, <1>3, <1>4, <1>5

\* A process that knows of an answer knows the only accepted attempt, and nobody waits for one.
LEMMA HeardKnows ==
    ASSUME IInv, NEW p \in Procs, NEW x \in Heard(p)
    PROVE  \E d \in Deliveries : \E n \in DOMAIN att[d] :
              /\ x = <<d, n>> /\ att[d][n].plat = "yes"
              /\ \A q \in Procs : Under(q, d) => proc[q].lane.pc \notin OnWire
  <1>1. x \in Deliveries \X Nat BY Senders DEF IInv
  <1>2. PICK d \in Deliveries, n \in Nat : x = <<d, n>> BY <1>1
  <1>3. n \in DOMAIN att[d] /\ att[d][n].plat = "yes"
    BY <1>2 DEF IInv, Once, HeardFits, Attempts
  <1>4. \A q \in Procs : Under(q, d) => proc[q].lane.pc \notin OnWire
    BY <1>2 DEF IInv, Once, Silent, Under
  <1> QED BY <1>2, <1>3, <1>4

\* An answer is recorded: nothing but the receipt of the accepted attempt and the row changes.
AnswerEdit(p, me, d, n, a) ==
    /\ proc' = [proc EXCEPT ![p] = me]
    /\ att' = [att EXCEPT ![d][n] = a]
    /\ UNCHANGED <<holder, route, inbox, expired, faults>>
    /\ a.mode = att[d][n].mode /\ a.msg = att[d][n].msg /\ a.seq = att[d][n].seq
    /\ a.plat = "yes" /\ a.state # "unaccepted"
    /\ att[d][n].receipt = "applied" => a.receipt = "applied"
    /\ holder = p \/ row' = row
    /\ row' \in [Deliveries -> Row] /\ row'[d].replyTo = row[d].replyTo
    /\ \A e \in Deliveries : e # d => row'[e] = row[e]
    /\ row'[d].status = row[d].status \/ (row'[d].status = "committed" /\ a.receipt = "applied")
    /\ me.queue = proc[p].queue /\ me.phase = proc[p].phase /\ me.passive = proc[p].passive
    /\ \/ me.lane = proc[p].lane /\ me.futures = proc[p].futures
       \/ /\ me.lane = IdleLane /\ me.futures = proc[p].futures \ {d}
          /\ proc[p].lane.d = d /\ proc[p].lane.pc \in InHand
       \/ /\ me.lane.pc = "finalize" /\ me.lane.d = d /\ me.futures = proc[p].futures
          /\ proc[p].lane.d = d /\ proc[p].lane.pc = "capture"
    /\ \A x \in me.unrecorded \cup me.receipts :
          x \in Heard(p) \/ (x = <<d, n>> /\ Under(p, d) /\ me.lane.pc \in InHand)

LEMMA AnswerRecorded ==
    ASSUME IInv, NEW p \in Procs, NEW me \in Sender, NEW d \in Deliveries, NEW n \in DOMAIN att[d],
           NEW a \in Attempt, att[d][n].plat = "yes",
           \A q \in Procs : Under(q, d) => proc[q].lane.pc \notin OnWire,
           AnswerEdit(p, me, d, n, a)
    PROVE  IInv'
  <1> USE DEF AnswerEdit
  <1>0. Types /\ proc[p] \in Sender /\ proc[p].lane \in Lane BY Senders DEF IInv
  <1>1. /\ n = Len(att[d]) /\ att[d] # <<>> /\ att[d][n] \in Attempt
        /\ att[d][n].state # "unaccepted" /\ row[d].status \notin Untried
        /\ row[d].status = "committed" => att[d][n].receipt = "applied"
    BY AcceptedKnown
  <1>2. /\ row'[d].status \notin Untried
        /\ row'[d].status = "committed" => a.receipt = "applied"
    BY <1>1 DEF Untried
  <1>3. /\ proc'[p] = me /\ \A q \in Procs : q # p => proc'[q] = proc[q]
    BY <1>0, ProcEdit
  <1>4. LaneFits(p) /\ QueueFits(p) BY DEF IInv, Once
  <1>5. /\ att'[d][n] = a /\ DOMAIN att'[d] = DOMAIN att[d] /\ Len(att'[d]) = Len(att[d])
        /\ \A e \in Deliveries : e # d => att'[e] = att[e]
    BY <1>0, Overwritten
  <1>a. /\ holder' = holder /\ me.phase = proc[p].phase /\ a.plat = "yes" /\ a.state # "unaccepted"
        /\ \A e \in Deliveries : e # d => row'[e] = row[e]
    OBVIOUS
  <1>b. \/ me.lane = proc[p].lane
        \/ me.lane = IdleLane
        \/ me.lane.pc = "finalize" /\ me.lane.d = d /\ proc[p].lane.pc = "capture"
    OBVIOUS
  <1>6. LaneFits(p)'
    <2> HIDE DEF AnswerEdit
    <2>1. CASE me.lane = proc[p].lane
      <3>1. ASSUME proc[p].lane.pc \in OnWire \cup InHand
            PROVE  /\ proc[p].lane.d = d => proc[p].lane.pc \in InHand /\ LastOf(d)' = a /\ att'[d] # <<>>
                   /\ proc[p].lane.d # d => att'[proc[p].lane.d] = att[proc[p].lane.d]
                                            /\ row'[proc[p].lane.d] = row[proc[p].lane.d]
        <4>1. proc[p].lane.d \in Deliveries BY <1>4, <3>1 DEF LaneFits, OnWire, InHand
        <4>2. proc[p].lane.d = d => proc[p].lane.pc \in InHand BY <3>1 DEF Under
        <4> QED BY <1>1, <1>5, <1>a, <4>1, <4>2 DEF LastOf
      <3>2. ASSUME holder = p, proc[p].lane.pc \in Ahead
            PROVE  row'[proc[p].lane.d] = row[proc[p].lane.d]
        <4>1. proc[p].lane.d \in Deliveries /\ row[proc[p].lane.d].status \in Untried
          BY <1>4, <3>2 DEF LaneFits, Ahead, Current
        <4>2. proc[p].lane.d # d BY <1>1, <4>1
        <4> QED BY <1>a, <4>1, <4>2
      <3>3. PICK e : e = proc[p].lane.d OBVIOUS
      <3>4. CASE proc[p].lane.pc \in OnWire \cup InHand /\ e = d
        <4>1. proc[p].lane.pc \in InHand /\ proc[p].lane.d = d BY <3>1, <3>3, <3>4
        <4>2. att'[d] # <<>> /\ att'[d][Len(att'[d])] = a BY <1>1, <1>5
        <4>3. proc[p].phase \notin {"down", "recovering"} BY <1>4, <4>1 DEF LaneFits, InHand
        <4>4. proc'[p].lane.d = d /\ proc'[p].lane.pc \in InHand BY <1>3, <2>1, <4>1
        <4>5. proc'[p].phase = proc[p].phase BY <1>3, <1>a
        <4>6. att'[d][Len(att'[d])].state # "unaccepted" /\ att'[d][Len(att'[d])].plat = "yes"
          BY <1>a, <4>2
        <4>7. PICK pc \in InHand : pc = proc'[p].lane.pc BY <4>4
        <4>8. Relies(proc'[p].phase, pc, d, holder' = p, att'[d], row'[d].status)
          BY <4>2, <4>3, <4>5, <4>6, RelyInHand
        <4> QED BY <4>4, <4>7, <4>8, LaneReads
      <3>5. CASE ~ (proc[p].lane.pc \in OnWire \cup InHand /\ e = d)
        <4>0. PICK pc : pc = proc[p].lane.pc OBVIOUS
        <4>a. PICK ours \in BOOLEAN : ours = (holder = p) OBVIOUS
        <4>1. Relies(proc[p].phase, pc, e, ours, att[e], row[e].status)
          BY <1>4, <3>3, <4>0, <4>a, LaneReads
        <4>2. pc \in OnWire \cup InHand => att'[e] = att[e] /\ row'[e] = row[e]
          BY <3>1, <3>3, <3>5, <4>0
        <4>3. ours /\ pc \in Ahead => row'[e] = row[e] BY <3>2, <3>3, <4>0, <4>a
        <4>4. /\ ours /\ pc \in OnWire => row'[e].status = "sending"
              /\ ours /\ pc \in Ahead => row'[e].status \in Untried \ {"absent"}
          BY <4>1, <4>2, <4>3 DEF Relies
        <4>5. proc'[p].phase = proc[p].phase /\ proc'[p].lane = proc[p].lane /\ ours = (holder' = p)
          BY <1>3, <1>a, <2>1, <4>a
        <4>6. proc'[p].lane.pc = pc /\ proc'[p].lane.d = e BY <3>3, <4>0, <4>5
        <4>7. Relies(proc[p].phase, pc, e, ours, att'[e], row'[e].status)
          BY <4>1, <4>2, <4>4, RelyKept
        <4> QED BY <4>5, <4>6, <4>7, LaneReads
      <3> QED BY <3>3, <3>4, <3>5
    <2>2. CASE me.lane = IdleLane BY <1>3, <2>2, IdleFits
    <2>3. CASE me.lane.pc = "finalize" /\ me.lane.d = d /\ proc[p].lane.pc = "capture"
      <3>2. proc[p].phase \notin {"down", "recovering"} BY <1>4, <2>3 DEF LaneFits
      <3>3. att'[d] # <<>> /\ att'[d][Len(att'[d])] = a BY <1>1, <1>5
      <3>4. PICK pc \in InHand : pc = proc'[p].lane.pc BY <1>3, <2>3 DEF InHand
      <3>5. proc'[p].lane.d = d /\ proc'[p].phase = proc[p].phase BY <1>3, <1>a, <2>3
      <3>6. Relies(proc'[p].phase, pc, d, holder' = p, att'[d], row'[d].status)
        BY <1>a, <3>2, <3>3, <3>5, RelyInHand
      <3> QED BY <3>4, <3>5, <3>6, LaneReads
    <2> QED BY <1>b, <2>1, <2>2, <2>3
  <1>7. /\ me.lane.pc \in OnWire \cup InHand =>
              proc[p].lane.pc \in OnWire \cup InHand /\ me.lane.d = proc[p].lane.d
        /\ me.lane.pc \in OnWire => proc[p].lane.pc \in OnWire
        /\ proc[p].lane.pc \in InHand => proc[p].lane.pc # "idle"
    BY <1>0 DEF Lane, IdleLane, OnWire, InHand
  <1>8. Thrifty(p) BY <1>0, <1>3 DEF Thrifty, Slot, IdleLane, Lane, OnWire
  <1>9. \A i \in DOMAIN proc[p].queue : row'[proc[p].queue[i]] = row[proc[p].queue[i]]
    <2> TAKE i \in DOMAIN proc[p].queue
    <2>1. proc[p].queue[i] \in Deliveries BY <1>0, Senders
    <2>2. holder = p => row[proc[p].queue[i]].status \in Untried
      BY <1>4 DEF QueueFits, Current
    <2>3. holder = p => proc[p].queue[i] # d BY <1>1, <2>2
    <2> QED BY <1>2, <2>1, <2>3
  <1>10. \A q \in Procs : q # p /\ Under(q, d) =>
              /\ a.state # "unaccepted" /\ a.plat = att[d][n].plat
              /\ proc[q].lane.pc \in OnWire => a.receipt = att[d][n].receipt
    OBVIOUS
  <1>11. \/ me.futures = proc[p].futures /\ me.lane.d = proc[p].lane.d /\ proc[p].lane.pc # "idle"
         \/ me.futures = proc[p].futures /\ me.lane = proc[p].lane
         \/ /\ me.futures = proc[p].futures \ {proc[p].lane.d} /\ me.lane = IdleLane
            /\ proc[p].lane.pc # "idle"
    BY <1>0, <1>7 DEF Lane, InHand
  <1>12. \A x \in me.unrecorded \cup me.receipts :
              x \in Heard(p) \/ (x = <<d, n>> /\ a.plat = "yes" /\ Under(p, d) /\ me.lane.pc \notin OnWire)
    BY DEF OnWire, InHand
  <1>13. row'[d].status # "absent" BY <1>2 DEF Untried
  <1>14. /\ a.state # "unaccepted" => att[d][n].state # "unaccepted"
         /\ att[d][n].plat = "yes" => a.plat = "yes"
         /\ a.state = "unaccepted" => a.plat # "yes"
         /\ a.receipt # "none" => a.plat = "yes"
         /\ row'[d].status \in Untried => a.state = "unaccepted"
    BY <1>1, <1>2
  <1>15. /\ n = Len(att[d]) /\ att[d] # <<>>
         /\ row'[d].status = "committed" => a.receipt = "applied"
    BY <1>1, <1>2
  <1>16. AttemptEdit(p, me, d, n, a)
    BY <1>7, <1>9, <1>10, <1>11, <1>12, <1>13, <1>14, <1>15 DEF AttemptEdit
  <1> QED BY <1>6, <1>8, <1>16, AttemptStep

\* What capture_receipt and finalize_receipt make of an accepted attempt.
LEMMA Captured ==
    ASSUME IInv, NEW d \in Deliveries, NEW n \in DOMAIN att[d], att[d][n].plat = "yes",
           att' = [att EXCEPT ![d][n].receipt = IF @ = "none" THEN "stored" ELSE @]
    PROVE  \E a \in Attempt :
              /\ att' = [att EXCEPT ![d][n] = a]
              /\ a.mode = att[d][n].mode /\ a.msg = att[d][n].msg /\ a.seq = att[d][n].seq
              /\ a.plat = "yes" /\ a.state # "unaccepted"
              /\ att[d][n].receipt = "applied" => a.receipt = "applied"
  <1>1. att[d][n] \in Attempt /\ att[d][n].state # "unaccepted" BY AcceptedKnown
  <1>2. PICK a : a = [att[d][n] EXCEPT !.receipt = IF @ = "none" THEN "stored" ELSE @] OBVIOUS
  <1>3. att' = [att EXCEPT ![d][n] = a] BY <1>2
  <1>4. PICK s : s = IF att[d][n].receipt = "none" THEN "stored" ELSE att[d][n].receipt OBVIOUS
  <1>5. s \in {"none", "stored", "applied"} /\ (att[d][n].receipt = "applied" => s = "applied")
    BY <1>1, <1>4 DEF Attempt
  <1>6. a = [att[d][n] EXCEPT !.receipt = s] BY <1>2, <1>4
  <1>7. /\ a \in Attempt /\ a.mode = att[d][n].mode /\ a.msg = att[d][n].msg /\ a.seq = att[d][n].seq
        /\ a.plat = "yes" /\ a.state # "unaccepted" /\ a.receipt = s
    BY <1>1, <1>5, <1>6 DEF Attempt
  <1> QED BY <1>3, <1>5, <1>7

LEMMA Applied ==
    ASSUME IInv, NEW d \in Deliveries, NEW n \in DOMAIN att[d], att[d][n].plat = "yes", Apply(<<d, n>>)
    PROVE  \E a \in Attempt :
              /\ att' = [att EXCEPT ![d][n] = a]
              /\ a.mode = att[d][n].mode /\ a.msg = att[d][n].msg /\ a.seq = att[d][n].seq
              /\ a.plat = "yes" /\ a.state # "unaccepted" /\ a.receipt = "applied"
              /\ row' \in [Deliveries -> Row] /\ row'[d].replyTo = row[d].replyTo
              /\ \A e \in Deliveries : e # d => row'[e] = row[e]
              /\ row'[d].status \in {row[d].status, "committed"}
  <1>0. /\ att \in [Deliveries -> Seq(Attempt)] /\ row \in [Deliveries -> Row] /\ Types
        /\ att[d][n] \in Attempt /\ att[d][n].state # "unaccepted"
    BY AcceptedKnown DEF IInv, Types
  <1>1. CASE att[d][n].receipt = "applied"
    <2>1. UNCHANGED <<row, att>> BY <1>1 DEF Apply
    <2>2. [att EXCEPT ![d][n] = att[d][n]] = att
      <3>1. att[d] \in Seq(Attempt) /\ n \in 1 .. Len(att[d]) BY <1>0
      <3>2. [att[d] EXCEPT ![n] = att[d][n]] = att[d] BY <3>1
      <3> QED BY <1>0, <3>2
    <2> QED BY <1>0, <1>1, <2>1, <2>2
  <1>2. CASE att[d][n].receipt # "applied"
    <2>1. PICK a : a = [att[d][n] EXCEPT !.receipt = "applied", !.state = "committed"] OBVIOUS
    <2>2. a \in Attempt /\ a.mode = att[d][n].mode /\ a.msg = att[d][n].msg /\ a.seq = att[d][n].seq
          /\ a.plat = "yes" /\ a.state # "unaccepted" /\ a.receipt = "applied"
      BY <1>0, <2>1 DEF Attempt, AttemptStates
    <2>3. att' = [att EXCEPT ![d][n] = a]
      <3>1. PICK seq \in Seq(Attempt) : seq = att[d] BY <1>0
      <3>2. PICK k : k = n OBVIOUS
      <3>3. k \in DOMAIN seq /\ DOMAIN seq = 1 .. Len(seq) /\ a = [seq[k] EXCEPT !.receipt = "applied", !.state = "committed"]
        BY <2>1, <3>1, <3>2
      <3>4. att' = [att EXCEPT ![d] = [[seq EXCEPT ![k].receipt = "applied"] EXCEPT ![k].state = "committed"]]
        BY <1>0, <1>2, <3>1, <3>2 DEF Apply
      <3>5. [[seq EXCEPT ![k].receipt = "applied"] EXCEPT ![k].state = "committed"] = [seq EXCEPT ![k] = a]
        BY <3>3
      <3> QED BY <3>1, <3>2, <3>4, <3>5
    <2>4. row' = [row EXCEPT ![d].status = "committed"] BY <1>2 DEF Apply
    <2>5. /\ row' \in [Deliveries -> Row] /\ row'[d].replyTo = row[d].replyTo
          /\ \A e \in Deliveries : e # d => row'[e] = row[e]
          /\ row'[d].status = "committed"
      BY <1>0, <2>4, StatusEdit DEF Statuses
    <2> QED BY <2>2, <2>3, <2>5
  <1> QED BY <1>1, <1>2

LEMMA CaptureStep ==
    ASSUME IInv, NEW p \in Procs, Capture(p)
    PROVE  IInv'
  <1>0. /\ proc[p].lane.pc = "capture" /\ proc[p] \in Sender /\ proc[p].lane \in Lane /\ Types
        /\ UNCHANGED <<row, holder, route, inbox, expired, faults>>
        /\ row \in [Deliveries -> Row]
    BY Senders DEF Capture, AtPC, IInv, Types
  <1>1. PICK d \in Deliveries :
              /\ d = proc[p].lane.d /\ Len(att[d]) \in DOMAIN att[d]
              /\ att[d][Len(att[d])].plat = "yes"
              /\ \A q \in Procs : q # p => ~ Under(q, d)
    BY <1>0, LaneKnows DEF InHand
  <1>2. PICK n \in DOMAIN att[d] : n = Len(att[d]) BY <1>1
  <1>3. \A q \in Procs : Under(q, d) => proc[q].lane.pc \notin OnWire
    BY <1>0, <1>1 DEF OnWire
  <1>4. att' = [att EXCEPT ![d][n].receipt = IF @ = "none" THEN "stored" ELSE @]
    BY <1>1, <1>2 DEF Capture, Last
  <1>5. PICK a \in Attempt :
              /\ att' = [att EXCEPT ![d][n] = a]
              /\ a.mode = att[d][n].mode /\ a.msg = att[d][n].msg /\ a.seq = att[d][n].seq
              /\ a.plat = "yes" /\ a.state # "unaccepted"
              /\ att[d][n].receipt = "applied" => a.receipt = "applied"
    BY <1>1, <1>2, <1>4, Captured
  <1>6. PICK lane : lane = [proc[p].lane EXCEPT !.pc = "finalize"] OBVIOUS
  <1>7. lane \in Lane /\ lane.pc = "finalize" /\ lane.d = d BY <1>0, <1>1, <1>6 DEF Lane
  <1>8. PICK me : me = [proc[p] EXCEPT !.unrecorded = @ \ {<<d, n>>}, !.receipts = @ \cup {<<d, n>>},
                                       !.lane = lane]
    OBVIOUS
  <1>9. /\ me \in Sender /\ me.lane = lane /\ me.queue = proc[p].queue /\ me.futures = proc[p].futures
        /\ me.phase = proc[p].phase /\ me.passive = proc[p].passive
        /\ me.unrecorded \subseteq proc[p].unrecorded /\ me.receipts = proc[p].receipts \cup {<<d, n>>}
    <2>1. <<d, n>> \in Deliveries \X Nat BY <1>0, <1>1, <1>2, Sequences
    <2> QED BY <1>0, <1>7, <1>8, <2>1 DEF Sender
  <1>10. proc' = [proc EXCEPT ![p] = me]
    <2>1. proc' = [proc EXCEPT ![p].unrecorded = @ \ {<<d, n>>}, ![p].receipts = @ \cup {<<d, n>>},
                               ![p].lane.pc = "finalize"]
      BY <1>1, <1>2 DEF Capture, Last
    <2> QED BY <1>6, <1>8, <2>1
  <1>11. \A x \in me.unrecorded \cup me.receipts :
              x \in Heard(p) \/ (x = <<d, n>> /\ Under(p, d) /\ me.lane.pc \in InHand)
    BY <1>0, <1>1, <1>7, <1>9 DEF Heard, Under, InHand
  <1>12. AnswerEdit(p, me, d, n, a)
    BY <1>0, <1>1, <1>5, <1>7, <1>9, <1>10, <1>11 DEF AnswerEdit
  <1> QED BY <1>1, <1>2, <1>3, <1>9, <1>12, AnswerRecorded

LEMMA LoopCaptureStep ==
    ASSUME IInv, NEW p \in Procs, LoopCapture(p)
    PROVE  IInv'
  <1>0. /\ proc[p] \in Sender /\ Types /\ row \in [Deliveries -> Row]
        /\ UNCHANGED <<row, holder, route, inbox, expired, faults>>
    BY Senders DEF LoopCapture, IInv, Types
  <1>1. PICK x \in proc[p].unrecorded :
        /\ att' = [att EXCEPT ![x[1]][x[2]].receipt = IF @ = "none" THEN "stored" ELSE @]
        /\ proc' = [proc EXCEPT ![p].unrecorded = @ \ {x}, ![p].receipts = @ \cup {x}]
    BY DEF LoopCapture
  <1>2. x \in Heard(p) BY DEF Heard
  <1>3. PICK d \in Deliveries, n \in Nat :
              /\ n \in DOMAIN att[d] /\ x = <<d, n>> /\ att[d][n].plat = "yes"
              /\ \A q \in Procs : Under(q, d) => proc[q].lane.pc \notin OnWire
    BY <1>0, <1>2, HeardKnows, Sequences
  <1>4. att' = [att EXCEPT ![d][n].receipt = IF @ = "none" THEN "stored" ELSE @]
    BY <1>1, <1>3
  <1>5. PICK a \in Attempt :
              /\ att' = [att EXCEPT ![d][n] = a]
              /\ a.mode = att[d][n].mode /\ a.msg = att[d][n].msg /\ a.seq = att[d][n].seq
              /\ a.plat = "yes" /\ a.state # "unaccepted"
              /\ att[d][n].receipt = "applied" => a.receipt = "applied"
    BY <1>3, <1>4, Captured
  <1>6. PICK me : me = [proc[p] EXCEPT !.unrecorded = @ \ {x}, !.receipts = @ \cup {x}]
    OBVIOUS
  <1>7. /\ me \in Sender /\ me.lane = proc[p].lane /\ me.queue = proc[p].queue
        /\ me.futures = proc[p].futures /\ me.phase = proc[p].phase /\ me.passive = proc[p].passive
        /\ me.unrecorded \subseteq proc[p].unrecorded /\ me.receipts = proc[p].receipts \cup {x}
    <2>1. x \in Deliveries \X Nat BY <1>3
    <2> QED BY <1>0, <1>6, <2>1 DEF Sender
  <1>8. proc' = [proc EXCEPT ![p] = me] BY <1>1, <1>6
  <1>9. \A y \in me.unrecorded \cup me.receipts : y \in Heard(p) BY <1>2, <1>7 DEF Heard
  <1>10. AnswerEdit(p, me, d, n, a)
    BY <1>0, <1>3, <1>5, <1>7, <1>8, <1>9 DEF AnswerEdit
  <1> QED BY <1>3, <1>7, <1>10, AnswerRecorded

LEMMA FinalizeStep ==
    ASSUME IInv, NEW p \in Procs, Finalize(p)
    PROVE  IInv'
  <1>1. CASE ~ Current(p) BY <1>1, LosesLeaseStep DEF Finalize
  <1>2. CASE Current(p)
    <2>0. /\ proc[p].lane.pc = "finalize" /\ proc[p] \in Sender /\ Types /\ holder = p
          /\ UNCHANGED <<holder, route, inbox, expired, faults>>
      BY <1>2, Senders DEF Finalize, AtPC, IInv, Current
    <2>1. PICK d \in Deliveries :
              /\ d = proc[p].lane.d /\ Len(att[d]) \in DOMAIN att[d]
              /\ att[d][Len(att[d])].plat = "yes"
              /\ \A q \in Procs : q # p => ~ Under(q, d)
      BY <2>0, LaneKnows DEF InHand
    <2>2. PICK n \in DOMAIN att[d] : n = Len(att[d]) BY <2>1
    <2>3. \A q \in Procs : Under(q, d) => proc[q].lane.pc \notin OnWire
      BY <2>0, <2>1 DEF OnWire
    <2>4. Apply(<<d, n>>) BY <1>2, <2>1, <2>2 DEF Finalize, Last
    <2>5. PICK a \in Attempt :
              /\ att' = [att EXCEPT ![d][n] = a]
              /\ a.mode = att[d][n].mode /\ a.msg = att[d][n].msg /\ a.seq = att[d][n].seq
              /\ a.plat = "yes" /\ a.state # "unaccepted" /\ a.receipt = "applied"
              /\ row' \in [Deliveries -> Row] /\ row'[d].replyTo = row[d].replyTo
              /\ \A e \in Deliveries : e # d => row'[e] = row[e]
              /\ row'[d].status \in {row[d].status, "committed"}
      BY <2>1, <2>2, <2>4, Applied
    <2>6. PICK back : back = [proc[p] EXCEPT !.receipts = @ \ {<<d, n>>}] OBVIOUS
    <2>7. /\ back \in Sender /\ back.lane = proc[p].lane /\ back.queue = proc[p].queue
          /\ back.futures = proc[p].futures /\ back.phase = proc[p].phase
          /\ back.passive = proc[p].passive /\ back.unrecorded = proc[p].unrecorded
          /\ back.receipts \subseteq proc[p].receipts
      BY <2>0, <2>6 DEF Sender
    <2>8. PICK me : me = Finished(back, d) OBVIOUS
    <2>9. /\ me \in Sender /\ me.lane = IdleLane /\ me.queue = proc[p].queue
          /\ me.futures = proc[p].futures \ {d} /\ me.passive = proc[p].passive
          /\ me.phase = proc[p].phase /\ me.unrecorded = proc[p].unrecorded
          /\ me.receipts \subseteq proc[p].receipts
      BY <2>7, <2>8, FinishedSender
    <2>10. proc' = [proc EXCEPT ![p] = me]
      BY <1>2, <2>1, <2>2, <2>6, <2>8 DEF Finalize, Last
    <2>11. AnswerEdit(p, me, d, n, a)
      BY <2>0, <2>1, <2>5, <2>9, <2>10 DEF AnswerEdit, Heard, InHand
    <2> QED BY <2>1, <2>2, <2>3, <2>9, <2>11, AnswerRecorded
  <1> QED BY <1>1, <1>2

LEMMA LoopFinalizeStep ==
    ASSUME IInv, NEW p \in Procs, LoopFinalize(p)
    PROVE  IInv'
  <1>0. proc[p] \in Sender /\ Types /\ proc[p].phase = "up" BY Senders DEF IInv, LoopFinalize
  <1>1. PICK x \in proc[p].receipts :
        IF ~Current(p) THEN LoopLosesLease(p)
        ELSE /\ Apply(x)
             /\ proc' = [proc EXCEPT ![p].receipts = @ \ {x}]
             /\ UNCHANGED <<holder, route, inbox, expired, faults>>
    BY DEF LoopFinalize
  <1>2. CASE ~ Current(p) BY <1>0, <1>1, <1>2, StopStep
  <1>3. CASE Current(p)
    <2>1. /\ Apply(x) /\ proc' = [proc EXCEPT ![p].receipts = @ \ {x}] /\ holder = p
          /\ UNCHANGED <<holder, route, inbox, expired, faults>>
      BY <1>1, <1>3 DEF Current
    <2>2. x \in Heard(p) BY DEF Heard
    <2>3. PICK d \in Deliveries, n \in Nat :
              /\ n \in DOMAIN att[d] /\ x = <<d, n>> /\ att[d][n].plat = "yes"
              /\ \A q \in Procs : Under(q, d) => proc[q].lane.pc \notin OnWire
      BY <1>0, <2>2, HeardKnows, Sequences
    <2>4. Apply(<<d, n>>) BY <2>1, <2>3
    <2>5. PICK a \in Attempt :
              /\ att' = [att EXCEPT ![d][n] = a]
              /\ a.mode = att[d][n].mode /\ a.msg = att[d][n].msg /\ a.seq = att[d][n].seq
              /\ a.plat = "yes" /\ a.state # "unaccepted" /\ a.receipt = "applied"
              /\ row' \in [Deliveries -> Row] /\ row'[d].replyTo = row[d].replyTo
              /\ \A e \in Deliveries : e # d => row'[e] = row[e]
              /\ row'[d].status \in {row[d].status, "committed"}
      BY <2>3, <2>4, Applied
    <2>6. PICK me : me = [proc[p] EXCEPT !.receipts = @ \ {x}] OBVIOUS
    <2>7. /\ me \in Sender /\ me.lane = proc[p].lane /\ me.queue = proc[p].queue
          /\ me.futures = proc[p].futures /\ me.phase = proc[p].phase
          /\ me.passive = proc[p].passive /\ me.unrecorded = proc[p].unrecorded
          /\ me.receipts \subseteq proc[p].receipts
      BY <1>0, <2>6 DEF Sender
    <2>8. proc' = [proc EXCEPT ![p] = me] BY <2>1, <2>6
    <2>9. AnswerEdit(p, me, d, n, a)
      BY <2>1, <2>5, <2>7, <2>8 DEF AnswerEdit, Heard
    <2> QED BY <2>3, <2>7, <2>9, AnswerRecorded
  <1> QED BY <1>2, <1>3

-----------------------------------------------------------------------------
(* Recovery.                                                               *)

\* What recover makes of the attempts and the rows.
LEMMA RecoveredTables ==
    ASSUME IInv,
           att' = [d \in Deliveries |-> [n \in DOMAIN att[d] |->
                       IF att[d][n].state = "dispatched"
                       THEN [att[d][n] EXCEPT !.state = "ambiguous"] ELSE att[d][n]]],
           row' = [d \in Deliveries |->
                       IF row[d].status = "sending"
                       THEN [row[d] EXCEPT !.status = "ambiguous"] ELSE row[d]]
    PROVE  /\ att' \in [Deliveries -> Seq(Attempt)] /\ row' \in [Deliveries -> Row]
           /\ \A d \in Deliveries : DOMAIN att'[d] = DOMAIN att[d] /\ Len(att'[d]) = Len(att[d])
           /\ \A d \in Deliveries : \A n \in DOMAIN att[d] :
                 /\ att'[d][n].mode = att[d][n].mode /\ att'[d][n].msg = att[d][n].msg
                 /\ att'[d][n].seq = att[d][n].seq /\ att'[d][n].plat = att[d][n].plat
                 /\ att'[d][n].receipt = att[d][n].receipt
                 /\ att'[d][n].state = "unaccepted" <=> att[d][n].state = "unaccepted"
           /\ \A d \in Deliveries :
                 /\ row'[d].replyTo = row[d].replyTo
                 /\ row'[d].status = row[d].status
                       \/ (row[d].status = "sending" /\ row'[d].status = "ambiguous")
  <1>0. Types /\ row \in [Deliveries -> Row] BY DEF IInv, Types
  <1>1. ASSUME NEW d \in Deliveries
        PROVE  /\ att'[d] \in Seq(Attempt) /\ DOMAIN att'[d] = DOMAIN att[d]
               /\ Len(att'[d]) = Len(att[d])
               /\ \A n \in DOMAIN att[d] :
                     /\ att'[d][n].mode = att[d][n].mode /\ att'[d][n].msg = att[d][n].msg
                     /\ att'[d][n].seq = att[d][n].seq /\ att'[d][n].plat = att[d][n].plat
                     /\ att'[d][n].receipt = att[d][n].receipt
                     /\ att'[d][n].state = "unaccepted" <=> att[d][n].state = "unaccepted"
    <2>1. att[d] \in Seq(Attempt) /\ Len(att[d]) \in Nat /\ DOMAIN att[d] = 1 .. Len(att[d])
          /\ \A n \in DOMAIN att[d] : att[d][n] \in Attempt
      BY <1>0, Sequences
    <2>2. att'[d] = [n \in DOMAIN att[d] |->
                       IF att[d][n].state = "dispatched"
                       THEN [att[d][n] EXCEPT !.state = "ambiguous"] ELSE att[d][n]]
      OBVIOUS
    <2>3. \A n \in DOMAIN att[d] :
             /\ att'[d][n] \in Attempt
             /\ att'[d][n].mode = att[d][n].mode /\ att'[d][n].msg = att[d][n].msg
             /\ att'[d][n].seq = att[d][n].seq /\ att'[d][n].plat = att[d][n].plat
             /\ att'[d][n].receipt = att[d][n].receipt
             /\ att'[d][n].state = "unaccepted" <=> att[d][n].state = "unaccepted"
      <3> TAKE n \in DOMAIN att[d]
      <3>1. PICK a \in Attempt : a = att[d][n] BY <2>1
      <3>2. PICK b : b = [a EXCEPT !.state = "ambiguous"] OBVIOUS
      <3>3. /\ b \in Attempt /\ b.mode = a.mode /\ b.msg = a.msg /\ b.seq = a.seq /\ b.plat = a.plat
            /\ b.receipt = a.receipt /\ b.state = "ambiguous"
        BY <3>2 DEF Attempt, AttemptStates
      <3>4. att'[d][n] = IF a.state = "dispatched" THEN b ELSE a BY <2>2, <3>1, <3>2
      <3> QED BY <3>1, <3>3, <3>4
    <2>4. DOMAIN att'[d] = 1 .. Len(att[d]) BY <2>1, <2>2
    <2>5. att'[d] = [n \in 1 .. Len(att[d]) |-> att'[d][n]] BY <2>1, <2>2
    <2>6. att'[d] \in Seq(Attempt) /\ Len(att'[d]) = Len(att[d])
      <3>1. PICK k \in Nat : k = Len(att[d]) BY <2>1
      <3>2. PICK s : s = att'[d] OBVIOUS
      <3>3. s = [n \in 1 .. k |-> s[n]] BY <2>5, <3>1, <3>2
      <3>4. \A n \in 1 .. k : s[n] \in Attempt BY <2>1, <2>3, <3>1, <3>2
      <3>5. s \in [1 .. k -> Attempt] BY <3>3, <3>4
      <3>6. s \in Seq(Attempt) BY <3>5
      <3>7. Len(s) = k BY <3>5, <3>6
      <3> QED BY <3>1, <3>2, <3>6, <3>7
    <2> QED BY <2>1, <2>3, <2>4, <2>6
  <1>2. att' \in [Deliveries -> Seq(Attempt)] BY <1>1
  <1>3. ASSUME NEW d \in Deliveries
        PROVE  /\ row'[d] \in Row /\ row'[d].replyTo = row[d].replyTo
               /\ row'[d].status = row[d].status
                       \/ (row[d].status = "sending" /\ row'[d].status = "ambiguous")
    <2>1. PICK old \in Row : old = row[d] BY <1>0
    <2>2. PICK new : new = [old EXCEPT !.status = "ambiguous"] OBVIOUS
    <2>3. new \in Row /\ new.replyTo = old.replyTo /\ new.status = "ambiguous"
      BY <2>2 DEF Row, Statuses
    <2>4. row'[d] = IF old.status = "sending" THEN new ELSE old BY <2>1, <2>2
    <2> QED BY <2>1, <2>3, <2>4
  <1>4. row' \in [Deliveries -> Row] BY <1>3
  <1> QED BY <1>1, <1>2, <1>3, <1>4

LEMMA RecoverStep ==
    ASSUME IInv, NEW p \in Procs, Recover(p)
    PROVE  IInv'
  <1>1. CASE ~ Current(p) BY <1>1, LosesLeaseStep DEF Recover
  <1>2. CASE Current(p)
    <2>0. /\ Types /\ Once /\ proc[p] \in Sender /\ holder = p /\ proc[p].phase = "recovering"
          /\ UNCHANGED <<holder, route, inbox, expired, faults>>
      BY <1>2, Senders DEF Recover, IInv, Current
    <2>1. /\ att' \in [Deliveries -> Seq(Attempt)] /\ row' \in [Deliveries -> Row]
          /\ \A d \in Deliveries : DOMAIN att'[d] = DOMAIN att[d] /\ Len(att'[d]) = Len(att[d])
          /\ \A d \in Deliveries : \A n \in DOMAIN att[d] :
                 /\ att'[d][n].mode = att[d][n].mode /\ att'[d][n].msg = att[d][n].msg
                 /\ att'[d][n].seq = att[d][n].seq /\ att'[d][n].plat = att[d][n].plat
                 /\ att'[d][n].receipt = att[d][n].receipt
                 /\ att'[d][n].state = "unaccepted" <=> att[d][n].state = "unaccepted"
          /\ \A d \in Deliveries :
                 /\ row'[d].replyTo = row[d].replyTo
                 /\ row'[d].status = row[d].status
                       \/ (row[d].status = "sending" /\ row'[d].status = "ambiguous")
      BY <1>2, RecoveredTables DEF Recover
    <2>2. PICK stored : stored = {x \in Recorded : att[x[1]][x[2]].receipt = "stored"} OBVIOUS
    <2>3. \A x \in stored : /\ x[1] \in Deliveries /\ x[2] \in DOMAIN att[x[1]]
                            /\ x = <<x[1], x[2]>> /\ x \in Deliveries \X Nat
                            /\ att[x[1]][x[2]].receipt # "none"
      <3> TAKE x \in stored
      <3>1. x[1] \in Deliveries /\ x[2] \in DOMAIN att[x[1]] /\ x = <<x[1], x[2]>>
        BY <2>0, <2>2, RecordedFinite
      <3>2. x[2] \in Nat BY <2>0, <3>1, Sequences
      <3>3. <<x[1], x[2]>> \in Deliveries \X Nat BY <3>1, <3>2
      <3> QED BY <2>2, <3>1, <3>3
    <2>4. PICK me : me = [proc[p] EXCEPT !.phase = "up", !.receipts = stored] OBVIOUS
    <2>5. /\ me \in Sender /\ me.lane = proc[p].lane /\ me.queue = proc[p].queue
          /\ me.futures = proc[p].futures /\ me.passive = proc[p].passive
          /\ me.unrecorded = proc[p].unrecorded /\ me.receipts = stored /\ me.phase = "up"
      <3>1. stored \subseteq Deliveries \X Nat BY <2>3
      <3> QED BY <2>0, <2>4, <3>1 DEF Sender
    <2>6. proc' = [proc EXCEPT ![p] = me] BY <1>2, <2>2, <2>4 DEF Recover
    <2>7. /\ proc' \in [Procs -> Sender] /\ proc'[p] = me
          /\ \A q \in Procs : q # p => proc'[q] = proc[q]
      BY <2>0, <2>5, <2>6, ProcEdit
    <2>8. Types' BY <2>0, <2>1, <2>7 DEF Types
    <2>9. Settling
      <3>1. inbox.newest <= inbox'.newest BY <2>0, Basics DEF Types
      <3> QED BY <2>1, <3>1 DEF Settling
    <2>10. ASSUME NEW d \in Deliveries PROVE RowFits(d)'
      <3>1. RowFits(d) BY <2>0 DEF Once
      <3>2. row'[d].status \in Untried <=> row[d].status \in Untried BY <2>1 DEF Untried
      <3>3. row'[d].status = "absent" => att'[d] = <<>>
        <4> SUFFICES ASSUME row'[d].status = "absent" PROVE att'[d] = <<>> OBVIOUS
        <4>1. row[d].status = "absent" BY <2>1
        <4>2. Len(att[d]) = 0 BY <3>1, <4>1 DEF RowFits
        <4>3. att'[d] \in Seq(Attempt) /\ Len(att'[d]) = 0 BY <2>1, <4>2
        <4> QED BY <4>3
      <3>4. row'[d].status = "committed" => \E n \in DOMAIN att'[d] : att'[d][n].receipt = "applied"
        BY <2>1, <3>1 DEF RowFits, Attempts
      <3>5. \A n \in DOMAIN att[d] :
              /\ att'[d][n].state = "unaccepted" => att'[d][n].plat # "yes"
              /\ att'[d][n].receipt # "none" => att'[d][n].plat = "yes"
              /\ n # Len(att[d]) \/ row'[d].status \in Untried => att'[d][n].state = "unaccepted"
        BY <2>1, <3>1, <3>2 DEF RowFits, Attempts
      <3> QED BY <2>1, <3>3, <3>4, <3>5 DEF RowFits, Attempts
    <2>11. proc[p].lane.pc = "idle" /\ QueueFits(p) /\ HeardFits(p) /\ LaneFits(p)
      BY <2>0 DEF Once, LaneFits
    <2>12. LaneFits(p)' BY <2>5, <2>7, <2>11 DEF LaneFits, OnWire, InHand, Ahead
    <2>13. QueueFits(p)'
      <3>1. \A i \in DOMAIN proc[p].queue : row'[proc[p].queue[i]].status \in Untried \ {"absent"}
        <4> TAKE i \in DOMAIN proc[p].queue
        <4>1. proc[p].queue[i] \in Deliveries BY <2>0, Senders
        <4>2. row[proc[p].queue[i]].status \in Untried \ {"absent"}
          BY <2>0, <2>11 DEF QueueFits, Current
        <4> QED BY <2>1, <4>1, <4>2 DEF Untried
      <3> QED BY <2>5, <2>7, <2>11, <3>1 DEF QueueFits
    <2>14. \A d \in Deliveries : \A n \in DOMAIN att[d] :
              n \in DOMAIN att'[d] /\ (att[d][n].plat = "yes" => att'[d][n].plat = "yes")
      BY <2>1
    <2>15. HeardFits(p)'
      <3> SUFFICES ASSUME NEW x \in Heard(p)'
                   PROVE  x[2] \in DOMAIN att'[x[1]] /\ att'[x[1]][x[2]].plat = "yes"
        BY DEF HeardFits, Attempts
      <3>1. x \in Heard(p) \/ x \in stored BY <2>5, <2>7 DEF Heard
      <3>2. x[1] \in Deliveries BY <2>0, <2>3, <3>1, Senders
      <3>3. x[2] \in DOMAIN att[x[1]] /\ att[x[1]][x[2]].plat = "yes"
        <4>1. CASE x \in Heard(p) BY <2>11, <4>1 DEF HeardFits, Attempts
        <4>2. CASE x \in stored BY <2>0, <2>3, <4>2 DEF Once, RowFits, Attempts
        <4> QED BY <3>1, <4>1, <4>2
      <3> QED BY <2>14, <3>2, <3>3
    <2>16. Thrifty(p) BY <2>0, <2>5, <2>7 DEF Thrifty, Slot
    <2>17. \A q \in Procs : \A d \in Deliveries : q # p /\ Under(q, d) =>
              /\ Len(att'[d]) = Len(att[d]) /\ att'[d] # <<>>
              /\ att'[d][Len(att[d])].state # "unaccepted"
              /\ att'[d][Len(att[d])].plat = att[d][Len(att[d])].plat
              /\ proc[q].lane.pc \in OnWire =>
                    att'[d][Len(att[d])].receipt = att[d][Len(att[d])].receipt
      <3> TAKE q \in Procs
      <3> TAKE d \in Deliveries
      <3> HAVE q # p /\ Under(q, d)
      <3>1. att[d] # <<>> /\ LastOf(d).state # "unaccepted"
        BY <2>0 DEF Once, LaneFits, Under
      <3>2. Len(att[d]) \in DOMAIN att[d] BY <2>0, <3>1, Sequences
      <3>3. att'[d] # <<>> BY <2>1, <3>2
      <3> QED BY <2>1, <3>1, <3>2, <3>3 DEF LastOf
    <2>18. \A q, r \in Procs : Apart(q, r)' /\ Silent(q, r)'
      <3> TAKE q, r \in Procs
      <3>1. \A s \in Procs : proc'[s].lane = proc[s].lane BY <2>5, <2>7
      <3>2. Apart(q, r)' BY <2>0, <3>1 DEF Apart, Under, Once
      <3>3. Silent(q, r)'
        <4> SUFFICES ASSUME proc'[q].lane.pc \in OnWire, NEW x \in Heard(r)', x[1] = proc'[q].lane.d
                     PROVE  FALSE
          BY DEF Silent
        <4>1. proc[q].lane.pc \in OnWire /\ x[1] = proc[q].lane.d BY <3>1
        <4>2. x \notin Heard(r) BY <2>0, <4>1 DEF Once, Silent
        <4>3. r = p
          <5>1. r # p => Heard(r)' = Heard(r) BY <2>7 DEF Heard
          <5> QED BY <4>2, <5>1
        <4>4. x \in stored BY <2>5, <2>7, <4>2, <4>3 DEF Heard
        <4>5. PICK d \in Deliveries, n \in DOMAIN att[x[1]] : x = <<d, n>>
          BY <2>3, <4>4
        <4>6. att[d][n].receipt # "none" /\ n \in DOMAIN att[d] BY <2>3, <4>4, <4>5
        <4>7. n = Len(att[d]) BY <2>0, <4>6 DEF Once, RowFits, Attempts
        <4>8. att[d][Len(att[d])].receipt = "none"
          BY <2>0, <4>1, <4>5 DEF Once, LaneFits, LastOf
        <4> QED BY <4>6, <4>7, <4>8
      <3> QED BY <3>2, <3>3
    <2> QED BY <2>0, <2>7, <2>8, <2>9, <2>10, <2>12, <2>13, <2>14, <2>15, <2>16, <2>17, <2>18, OneWriter
  <1> QED BY <1>1, <1>2

-----------------------------------------------------------------------------
(* A new attempt.                                                          *)

\* prepare finds its delivery expired, withdrawn or settled, and gives its slot back.
LEMMA PrepareFails ==
    ASSUME IInv, NEW p \in Procs, holder = p, proc[p].lane.pc = "prepare",
           NEW d \in Deliveries, d = proc[p].lane.d,
           row' = IF row[d].status = "pending" THEN [row EXCEPT ![d].status = "failed"] ELSE row,
           proc' = [proc EXCEPT ![p] = Finished(Refund(proc[p]), d)],
           UNCHANGED <<att, holder, route, inbox, expired, faults>>
    PROVE  IInv'
  <1>0. /\ Types /\ Once /\ Numbered /\ proc[p] \in Sender /\ row \in [Deliveries -> Row]
        /\ proc[p].passive \in [id : Nat, used : Int, seq : Nat]
    BY Senders DEF IInv, Types
  <1>1. /\ row' \in [Deliveries -> Row]
        /\ \A e \in Deliveries :
              /\ row'[e].replyTo = row[e].replyTo
              /\ \/ row'[e] = row[e]
                 \/ row[e].status \in Untried /\ row'[e].status \in Untried \ {"absent"}
    <2>1. CASE row[d].status = "pending"
      <3>1. row' = [row EXCEPT ![d].status = "failed"] BY <2>1
      <3>2. /\ row' \in [Deliveries -> Row]
            /\ row'[d].status = "failed" /\ row'[d].replyTo = row[d].replyTo
            /\ \A e \in Deliveries : e # d => row'[e] = row[e]
        BY <1>0, <3>1, StatusEdit DEF Statuses
      <3> QED BY <2>1, <3>2 DEF Untried
    <2>2. CASE row[d].status # "pending" BY <1>0, <2>2
    <2> QED BY <2>1, <2>2
  <1>2. PICK u : u = IF proc[p].lane.mode = "passive" THEN proc[p].passive.used - 1
                     ELSE proc[p].passive.used
    OBVIOUS
  <1>3. PICK passive : passive = [proc[p].passive EXCEPT !.used = u] OBVIOUS
  <1>4. u \in Int /\ passive \in [id : Nat, used : Int, seq : Nat] BY <1>0, <1>2, <1>3
  <1>5. PICK back : back = [proc[p] EXCEPT !.passive = passive] OBVIOUS
  <1>6. /\ back \in Sender /\ back.passive = passive /\ back.queue = proc[p].queue
        /\ back.futures = proc[p].futures /\ back.phase = proc[p].phase
        /\ back.unrecorded = proc[p].unrecorded /\ back.receipts = proc[p].receipts
    BY <1>0, <1>4, <1>5 DEF Sender
  <1>7. back = Refund(proc[p])
    <2>1. CASE proc[p].lane.mode = "passive" BY <1>2, <1>3, <1>5, <2>1 DEF Refund
    <2>2. CASE proc[p].lane.mode # "passive"
      <3>1. passive = proc[p].passive BY <1>0, <1>2, <1>3, <2>2
      <3>2. back = proc[p] BY <1>0, <1>5, <3>1 DEF Sender
      <3> QED BY <2>2, <3>2 DEF Refund
    <2> QED BY <2>1, <2>2
  <1>8. PICK me : me = Finished(back, d) OBVIOUS
  <1>9. /\ me \in Sender /\ me.lane = IdleLane /\ me.queue = proc[p].queue
        /\ me.futures = proc[p].futures \ {d} /\ me.passive = passive /\ me.phase = proc[p].phase
        /\ me.unrecorded = proc[p].unrecorded /\ me.receipts = proc[p].receipts
    BY <1>6, <1>8, FinishedSender
  <1>10. proc' = [proc EXCEPT ![p] = me] BY <1>7, <1>8
  <1>11. proc' \in [Procs -> Sender] /\ proc'[p] = me BY <1>0, <1>9, <1>10, ProcEdit
  <1>12. ~ Slot(p)' BY <1>9, <1>11 DEF Slot, IdleLane
  <1>13. Thrifty(p)
    <2>1. CASE proc[p].lane.mode # "passive"
      <3>1. passive = proc[p].passive BY <1>0, <1>2, <1>3, <2>1
      <3> QED BY <1>9, <1>11, <1>12, <3>1 DEF Thrifty
    <2>2. CASE proc[p].lane.mode = "passive"
      <3>1. Types' BY <1>0, <1>1, <1>11 DEF Types
      <3>2. Settling
        <4>1. inbox.newest <= inbox'.newest BY <1>0, Basics DEF Types
        <4> QED BY <1>1, <4>1 DEF Settling
      <3>3. PICK m : m = proc[p].passive.id OBVIOUS
      <3>4. Cardinality(Kept(m)') <= Cardinality(Kept(m)) /\ Cardinality(Kept(m)') \in Nat
        BY <1>0, <3>1, <3>2, SameReplies
      <3>5. Slot(p) /\ Uncounted(p) BY <2>2 DEF Slot, Uncounted
      <3>6. proc[p].passive.used \in 1 .. PassiveLimit
        BY <1>0, <3>5, Basics DEF Numbered, SlotFits
      <3>7. Cardinality(Kept(m)) + 1 <= proc[p].passive.used
        BY <1>0, <3>3, <3>5 DEF Numbered, Numbers, Current
      <3>8. Cardinality(Kept(m)) \in Nat BY <1>0, RecordedFinite
      <3>9. u \in 0 .. PassiveLimit /\ Cardinality(Kept(m)') <= u
        BY <1>2, <2>2, <3>4, <3>6, <3>7, <3>8, Basics
      <3>10. \A k : holder = p /\ k = proc[p].passive.id => Cardinality(Kept(k)') <= u
        BY <3>3, <3>9
      <3>11. proc'[p].passive = [proc[p].passive EXCEPT !.used = u] BY <1>3, <1>9, <1>11
      <3>12. \E v \in 0 .. PassiveLimit :
                /\ proc'[p].passive = [proc[p].passive EXCEPT !.used = v]
                /\ \A k : holder = p /\ k = proc[p].passive.id => Cardinality(Kept(k)') <= v
        BY <3>9, <3>10, <3>11
      <3>13. holder' = p => holder = p OBVIOUS
      <3> QED BY ONLY <1>12, <3>12, <3>13, Zenon DEF Thrifty
    <2> QED BY <2>1, <2>2
  <1>14. \A e \in Deliveries :
              \/ row'[e] = row[e]
              \/ /\ row[e].status \in Untried /\ row'[e].status \in Untried \ {"absent"}
                 /\ \/ row'[e].replyTo = row[e].replyTo
                    \/ row[e].status = "absent" /\ row'[e].replyTo <= inbox.newest
    BY <1>1
  <1>15. row' \in [Deliveries -> Row] /\ (holder = p \/ row' = row) BY <1>1
  <1>16. \/ me.lane = proc[p].lane /\ me.futures = proc[p].futures
         \/ /\ me.lane = IdleLane /\ proc[p].lane.pc # "idle"
            /\ me.futures = proc[p].futures \ {proc[p].lane.d}
    BY <1>9
  <1>17. /\ me \in Sender /\ me.unrecorded = proc[p].unrecorded /\ me.receipts = proc[p].receipts
         /\ me.queue = proc[p].queue /\ me.phase = proc[p].phase
    BY <1>9
  <1> QED BY <1>10, <1>13, <1>14, <1>15, <1>16, <1>17, QuietStep

\* prepare writes the attempt and takes the row.
Sends(p, d, new) ==
    /\ holder = p /\ proc[p].lane.pc = "prepare" /\ d = proc[p].lane.d
    /\ row[d].status = "pending"
    /\ new.mode = proc[p].lane.mode /\ new.msg = proc[p].lane.msg /\ new.seq = proc[p].lane.seq
    /\ new.state = "dispatched" /\ new.receipt = "none" /\ new.plat = "none"
    /\ att' = [att EXCEPT ![d] = Append(@, new)]
    /\ row' = [row EXCEPT ![d].status = "sending"]
    /\ GoTo(p, "post")
    /\ UNCHANGED <<holder, route, inbox, expired, faults>>

LEMMA SentTables ==
    ASSUME IInv, NEW p \in Procs, NEW d \in Deliveries, NEW new \in Attempt, Sends(p, d, new)
    PROVE  \E k \in Nat :
              /\ k = Len(att[d]) + 1 /\ k \notin DOMAIN att[d]
              /\ att' \in [Deliveries -> Seq(Attempt)]
              /\ Len(att'[d]) = k /\ DOMAIN att'[d] = DOMAIN att[d] \cup {k}
              /\ att'[d] # <<>> /\ att'[d][k] = new
              /\ \A n \in DOMAIN att[d] : att'[d][n] = att[d][n]
              /\ \A e \in Deliveries : e # d => att'[e] = att[e]
  <1>1. att \in [Deliveries -> Seq(Attempt)] BY DEF IInv, Types
  <1>2. PICK s \in Seq(Attempt) : s = att[d] BY <1>1
  <1>3. PICK t : t = Append(s, new) OBVIOUS
  <1>4. PICK k \in Nat : k = Len(s) + 1 BY <1>2
  <1>5. /\ t \in Seq(Attempt) /\ Len(t) = k /\ t # <<>> /\ t[k] = new
        /\ \A n \in 1 .. Len(s) : t[n] = s[n]
    BY <1>2, <1>3, <1>4
  <1>6. DOMAIN s = 1 .. Len(s) /\ DOMAIN t = 1 .. k BY <1>5
  <1>7. DOMAIN t = DOMAIN s \cup {k} /\ k \notin DOMAIN s BY <1>4, <1>6
  <1>8. att' = [att EXCEPT ![d] = t] BY <1>2, <1>3 DEF Sends
  <1>9. att'[d] = t /\ \A e \in Deliveries : e # d => att'[e] = att[e] BY <1>1, <1>8
  <1>10. att' \in [Deliveries -> Seq(Attempt)] BY <1>1, <1>5, <1>8
  <1> QED BY <1>2, <1>4, <1>5, <1>6, <1>7, <1>9, <1>10

LEMMA SentSender ==
    ASSUME IInv, NEW p \in Procs, NEW d \in Deliveries, NEW new \in Attempt, Sends(p, d, new)
    PROVE  /\ row' \in [Deliveries -> Row]
           /\ row'[d].status = "sending" /\ row'[d].replyTo = row[d].replyTo
           /\ \A e \in Deliveries : e # d => row'[e] = row[e]
           /\ proc' \in [Procs -> Sender]
           /\ proc'[p].lane.pc = "post" /\ proc'[p].lane.d = d
           /\ proc'[p].lane.mode = proc[p].lane.mode /\ proc'[p].lane.msg = proc[p].lane.msg
           /\ proc'[p].passive = proc[p].passive
           /\ proc'[p].queue = proc[p].queue /\ proc'[p].futures = proc[p].futures
           /\ proc'[p].phase = proc[p].phase
           /\ proc'[p].unrecorded = proc[p].unrecorded /\ proc'[p].receipts = proc[p].receipts
           /\ \A q \in Procs : q # p => proc'[q] = proc[q]
  <1>1. /\ row' \in [Deliveries -> Row]
        /\ row'[d].status = "sending" /\ row'[d].replyTo = row[d].replyTo
        /\ \A e \in Deliveries : e # d => row'[e] = row[e]
    <2>1. row' = [row EXCEPT ![d].status = "sending"] BY DEF Sends
    <2> QED BY <2>1, StatusEdit DEF IInv, Statuses
  <1>2. Types /\ GoTo(p, "post") BY DEF IInv, Sends
  <1>3. PICK lane \in Lane :
              /\ lane.pc = "post" /\ lane.d = proc[p].lane.d /\ lane.mode = proc[p].lane.mode
              /\ lane.msg = proc[p].lane.msg /\ lane.seq = proc[p].lane.seq
              /\ proc' = [proc EXCEPT ![p].lane = lane]
    BY <1>2, LaneGoes
  <1>4. /\ proc' \in [Procs -> Sender]
        /\ proc'[p].lane = lane /\ proc'[p].passive = proc[p].passive
        /\ proc'[p].queue = proc[p].queue /\ proc'[p].futures = proc[p].futures
        /\ proc'[p].phase = proc[p].phase
        /\ proc'[p].unrecorded = proc[p].unrecorded /\ proc'[p].receipts = proc[p].receipts
        /\ \A q \in Procs : q # p => proc'[q] = proc[q]
    BY <1>2, <1>3, LaneEdit
  <1>5. proc[p].lane.d = d BY DEF Sends
  <1> QED BY <1>1, <1>3, <1>4, <1>5

LEMMA SentOnce ==
    ASSUME IInv, NEW p \in Procs, NEW d \in Deliveries, NEW new \in Attempt, Sends(p, d, new)
    PROVE  Types' /\ Once'
  <1>0. /\ Types /\ Once /\ UNCHANGED <<holder, route, inbox, expired, faults>>
        /\ holder = p /\ proc[p].lane.pc = "prepare" /\ d = proc[p].lane.d
        /\ row[d].status = "pending"
        /\ new.state = "dispatched" /\ new.receipt = "none" /\ new.plat = "none"
    BY DEF IInv, Sends
  <1>1. PICK k \in Nat :
              /\ k = Len(att[d]) + 1 /\ k \notin DOMAIN att[d]
              /\ att' \in [Deliveries -> Seq(Attempt)]
              /\ Len(att'[d]) = k /\ DOMAIN att'[d] = DOMAIN att[d] \cup {k}
              /\ att'[d] # <<>> /\ att'[d][k] = new
              /\ \A n \in DOMAIN att[d] : att'[d][n] = att[d][n]
              /\ \A e \in Deliveries : e # d => att'[e] = att[e]
    BY SentTables
  <1>2. /\ row' \in [Deliveries -> Row]
        /\ row'[d].status = "sending"
        /\ \A e \in Deliveries : e # d => row'[e] = row[e]
        /\ proc' \in [Procs -> Sender]
        /\ proc'[p].lane.pc = "post" /\ proc'[p].lane.d = d
        /\ proc'[p].queue = proc[p].queue /\ proc'[p].futures = proc[p].futures
        /\ proc'[p].phase = proc[p].phase
        /\ proc'[p].unrecorded = proc[p].unrecorded /\ proc'[p].receipts = proc[p].receipts
        /\ \A q \in Procs : q # p => proc'[q] = proc[q]
    BY SentSender
  <1>3. Types' BY <1>0, <1>1, <1>2 DEF Types
  <1>4. \A n \in DOMAIN att[d] : att[d][n].state = "unaccepted" /\ att[d][n].plat # "yes"
                                 /\ att[d][n].receipt = "none"
    BY <1>0 DEF Once, RowFits, Attempts, Untried
  <1>5. ASSUME NEW e \in Deliveries PROVE RowFits(e)'
    <2>1. RowFits(e) BY <1>0 DEF Once
    <2>2. CASE e # d BY <1>1, <1>2, <2>1, <2>2 DEF RowFits, Attempts
    <2>3. CASE e = d
      <3>1. \A n \in DOMAIN att'[d] :
              /\ att'[d][n].state = "unaccepted" => att'[d][n].plat # "yes"
              /\ att'[d][n].receipt # "none" => att'[d][n].plat = "yes"
              /\ n # k => att'[d][n].state = "unaccepted"
        <4> TAKE n \in DOMAIN att'[d]
        <4>1. CASE n = k BY <1>0, <1>1, <4>1
        <4>2. CASE n # k
          <5>1. n \in DOMAIN att[d] /\ att'[d][n] = att[d][n] BY <1>1, <4>2
          <5> QED BY <1>4, <5>1
        <4> QED BY <4>1, <4>2
      <3>2. Attempts(d)' = DOMAIN att'[d] BY <1>1 DEF Attempts
      <3>3. row'[d].status \notin Untried /\ row'[d].status \notin {"absent", "committed"}
        BY <1>2 DEF Untried
      <3>4. \A n \in DOMAIN att'[d] : (n # Len(att'[d]) \/ row'[d].status \in Untried)
                                        => att'[d][n].state = "unaccepted"
        BY <1>1, <3>1, <3>3
      <3>5. RowFits(d)' BY <3>1, <3>2, <3>3, <3>4 DEF RowFits
      <3> QED BY <2>3, <3>5
    <2> QED BY <2>2, <2>3
  <1>6. \A q \in Procs : ~ Under(q, d)
    <2> TAKE q \in Procs
    <2> SUFFICES ASSUME Under(q, d) PROVE FALSE OBVIOUS
    <2>1. att[d] # <<>> /\ LastOf(d).state # "unaccepted"
      BY <1>0 DEF Once, LaneFits, Under
    <2>2. Len(att[d]) \in DOMAIN att[d] BY <1>0, <2>1, Sequences
    <2> QED BY <1>4, <2>1, <2>2 DEF LastOf
  <1>7. \A q \in Procs : \A x \in Heard(q) : x[1] \in Deliveries \ {d}
    <2> TAKE q \in Procs
    <2> TAKE x \in Heard(q)
    <2>1. x[1] \in Deliveries BY <1>0, Senders
    <2>2. x[2] \in DOMAIN att[x[1]] /\ att[x[1]][x[2]].plat = "yes"
      BY <1>0 DEF Once, HeardFits, Attempts
    <2> QED BY <1>4, <2>1, <2>2
  <1>8. \A q \in Procs : Heard(q)' = Heard(q) BY <1>2 DEF Heard
  <1>9. ASSUME NEW q \in Procs PROVE HeardFits(q)'
    <2>1. HeardFits(q) BY <1>0 DEF Once
    <2> QED BY <1>1, <1>7, <1>8, <2>1 DEF HeardFits, Attempts
  <1>10. LaneFits(p) /\ QueueFits(p) BY <1>0 DEF Once
  <1>11. LaneFits(p)'
    <2>1. att'[d] # <<>> /\ att'[d][Len(att'[d])] = new BY <1>1
    <2>2. proc'[p].phase \notin {"down", "recovering"} BY <1>0, <1>2, <1>10 DEF LaneFits
    <2>3. new.state # "unaccepted" /\ new.receipt = "none" /\ new.plat = "none" BY <1>0
    <2>4. Relies(proc'[p].phase, "post", d, holder' = p, att'[d], row'[d].status)
      BY <1>2, <2>1, <2>2, <2>3, RelyOnWire
    <2> QED BY <1>2, <2>4, LaneReads
  <1>12. QueueFits(p)'
    <2>1. \A i \in DOMAIN proc[p].queue : row'[proc[p].queue[i]] = row[proc[p].queue[i]]
      <3> TAKE i \in DOMAIN proc[p].queue
      <3>1. proc[p].queue[i] \in Deliveries BY <1>0, Senders
      <3>2. proc[p].queue[i] # d BY <1>0, <1>10 DEF QueueFits
      <3> QED BY <1>2, <3>1, <3>2
    <2> QED BY <1>0, <1>2, <1>10, <2>1 DEF QueueFits, Current
  <1>13. ASSUME NEW q \in Procs, q # p PROVE LaneFits(q)' /\ QueueFits(q)'
    <2>1. LaneFits(q) /\ QueueFits(q) /\ proc'[q] = proc[q] /\ ~ Current(q)'
      BY <1>0, <1>2, <1>13 DEF Once, Current
    <2>2. QueueFits(q)' BY <2>1 DEF QueueFits
    <2>3. proc[q].lane.pc \in OnWire \cup InHand => att'[proc[q].lane.d] = att[proc[q].lane.d]
      <3>1. proc[q].lane.pc # "idle" => proc[q].lane.d \in Deliveries BY <2>1 DEF LaneFits
      <3> QED BY <1>1, <1>6, <3>1 DEF Under, OnWire, InHand
    <2>4. LaneFits(q)' BY <2>1, <2>3 DEF LaneFits, LastOf, OnWire, InHand, Ahead
    <2> QED BY <2>2, <2>4
  <1>14. \A q \in Procs : \A e \in Deliveries : Under(q, e)' => Under(q, e) \/ (q = p /\ e = d)
    BY <1>2 DEF Under
  <1>15. ASSUME NEW q \in Procs, NEW r \in Procs PROVE Apart(q, r)' /\ Silent(q, r)'
    <2>1. Apart(q, r)'
      <3>1. Apart(q, r) BY <1>0 DEF Once
      <3> QED BY <1>6, <1>14, <3>1 DEF Apart
    <2>2. Silent(q, r)'
      <3>1. CASE q = p BY <1>2, <1>7, <1>8, <3>1 DEF Silent
      <3>2. CASE q # p BY <1>0, <1>2, <1>8, <3>2 DEF Silent, Once
      <3> QED BY <3>1, <3>2
    <2> QED BY <2>1, <2>2
  <1>16. \A q \in Procs : LaneFits(q)' /\ QueueFits(q)' /\ HeardFits(q)' BY <1>9, <1>11, <1>12, <1>13
  <1> QED BY <1>3, <1>5, <1>15, <1>16 DEF Once

\* The new attempt is the only thing that the history of replies gains.
LEMMA SentReplies ==
    ASSUME IInv, NEW p \in Procs, NEW d \in Deliveries, NEW new \in Attempt, Sends(p, d, new)
    PROVE  \E y :
              /\ y = <<d, Len(att'[d])>> /\ y \notin Recorded
              /\ att'[y[1]][y[2]] = new /\ y[1] = d
              /\ Recorded' = Recorded \cup {y}
              /\ \A x \in Recorded : att'[x[1]][x[2]] = att[x[1]][x[2]]
              /\ PassiveAttempts' \subseteq PassiveAttempts \cup {y}
              /\ Traceable' \subseteq Traceable \cup {y}
              /\ y \in PassiveAttempts' => new.mode = "passive"
              /\ Traceable' \subseteq PassiveAttempts'
  <1>0. Types BY DEF IInv
  <1>1. PICK k \in Nat :
              /\ k = Len(att[d]) + 1 /\ k \notin DOMAIN att[d]
              /\ att' \in [Deliveries -> Seq(Attempt)]
              /\ Len(att'[d]) = k /\ DOMAIN att'[d] = DOMAIN att[d] \cup {k}
              /\ att'[d] # <<>> /\ att'[d][k] = new
              /\ \A n \in DOMAIN att[d] : att'[d][n] = att[d][n]
              /\ \A e \in Deliveries : e # d => att'[e] = att[e]
    BY SentTables
  <1>2. \A e \in Deliveries : row'[e].replyTo = row[e].replyTo BY SentSender
  <1>3. PICK y : y = <<d, k>> OBVIOUS
  <1>4. y[1] = d /\ y[2] = k BY <1>3
  <1>5. \A x \in Recorded : x[1] \in Deliveries /\ x[2] \in DOMAIN att[x[1]] /\ x = <<x[1], x[2]>>
    BY <1>0, RecordedFinite
  <1>6. y \notin Recorded BY <1>1, <1>4, <1>5
  <1>7. Recorded' = Recorded \cup {y}
    <2>1. \A x : x \in Recorded <=> \E e \in Deliveries : \E n \in DOMAIN att[e] : x = <<e, n>>
      BY DEF Recorded
    <2>2. \A x : x \in Recorded' <=> \E e \in Deliveries : \E n \in DOMAIN att'[e] : x = <<e, n>>
      BY DEF Recorded
    <2>3. ASSUME NEW x, x \in Recorded PROVE x \in Recorded'
      <3>1. PICK e \in Deliveries : \E n \in DOMAIN att[e] : x = <<e, n>> BY <2>1, <2>3
      <3>2. DOMAIN att[e] \subseteq DOMAIN att'[e] BY <1>1
      <3> QED BY <2>2, <3>1, <3>2
    <2>4. y \in Recorded' BY <1>1, <1>3, <2>2
    <2>5. ASSUME NEW x, x \in Recorded' PROVE x \in Recorded \/ x = y
      <3>1. PICK e \in Deliveries : \E n \in DOMAIN att'[e] : x = <<e, n>> BY <2>2, <2>5
      <3>2. PICK n \in DOMAIN att'[e] : x = <<e, n>> BY <3>1
      <3>3. CASE e = d /\ n = k BY <1>3, <3>2, <3>3
      <3>4. CASE ~ (e = d /\ n = k)
        <4>1. n \in DOMAIN att[e] BY <1>1, <3>2, <3>4
        <4> QED BY <2>1, <3>2, <4>1
      <3> QED BY <3>3, <3>4
    <2> QED BY <2>3, <2>4, <2>5
  <1>8. \A x \in Recorded : att'[x[1]][x[2]] = att[x[1]][x[2]] BY <1>1, <1>5
  <1>9. PassiveAttempts' \subseteq PassiveAttempts \cup {y} BY <1>7, <1>8 DEF PassiveAttempts
  <1>10. \A x \in Recorded : x \in Traceable' => x \in Traceable
    <2> SUFFICES ASSUME NEW x \in Recorded, x \in Traceable' PROVE x \in Traceable OBVIOUS
    <2>1. PICK m : m = att[x[1]][x[2]].msg OBVIOUS
    <2>2. m = att'[x[1]][x[2]].msg BY <1>8, <2>1
    <2>3. x \in PassiveAttempts' BY DEF Traceable
    <2>4. x \in PassiveAttempts BY <1>8, <2>3 DEF PassiveAttempts
    <2>5. m = IF x[1] \in Ephemeral THEN row'[x[1]].replyTo ELSE att'[x[1]][x[2]].msg
      BY <2>2 DEF Traceable, RepliesTo
    <2>6. m = IF x[1] \in Ephemeral THEN row[x[1]].replyTo ELSE att[x[1]][x[2]].msg
      BY <1>2, <1>5, <1>8, <2>5
    <2>7. att[x[1]][x[2]].mode = "passive" BY <2>4 DEF PassiveAttempts
    <2> QED BY <2>1, <2>4, <2>6, <2>7 DEF Traceable, RepliesTo
  <1>11. Traceable' \subseteq PassiveAttempts' BY DEF Traceable
  <1>12. PassiveAttempts' \subseteq Recorded' BY DEF PassiveAttempts
  <1>13. Traceable' \subseteq Traceable \cup {y} BY <1>7, <1>10, <1>11, <1>12
  <1>14. att'[y[1]][y[2]] = new BY <1>1, <1>4
  <1>15. y \in PassiveAttempts' => new.mode = "passive"
    <2>1. y \in PassiveAttempts' => att'[y[1]][y[2]].mode = "passive" BY DEF PassiveAttempts
    <2> QED BY <1>14, <2>1
  <1> QED BY <1>1, <1>3, <1>4, <1>6, <1>7, <1>8, <1>9, <1>11, <1>13, <1>14, <1>15

LEMMA SentNumbered ==
    ASSUME IInv, NEW p \in Procs, NEW d \in Deliveries, NEW new \in Attempt, Sends(p, d, new)
    PROVE  Numbered'
  <1>0. /\ Types /\ Once /\ Numbered /\ UNCHANGED <<holder, inbox>>
        /\ holder = p /\ proc[p].lane.pc = "prepare" /\ d = proc[p].lane.d
        /\ new.mode = proc[p].lane.mode /\ new.msg = proc[p].lane.msg /\ new.seq = proc[p].lane.seq
    BY DEF IInv, Sends
  <1>1. PICK y :
              /\ y = <<d, Len(att'[d])>> /\ y \notin Recorded
              /\ att'[y[1]][y[2]] = new /\ y[1] = d
              /\ Recorded' = Recorded \cup {y}
              /\ \A x \in Recorded : att'[x[1]][x[2]] = att[x[1]][x[2]]
              /\ PassiveAttempts' \subseteq PassiveAttempts \cup {y}
              /\ Traceable' \subseteq Traceable \cup {y}
              /\ y \in PassiveAttempts' => new.mode = "passive"
              /\ Traceable' \subseteq PassiveAttempts'
    BY SentReplies
  <1>2. /\ row'[d].replyTo = row[d].replyTo
        /\ \A e \in Deliveries : e # d => row'[e] = row[e]
        /\ proc'[p].lane.pc = "post" /\ proc'[p].lane.d = d
        /\ proc'[p].lane.mode = proc[p].lane.mode /\ proc'[p].lane.msg = proc[p].lane.msg
        /\ proc'[p].passive = proc[p].passive
        /\ \A q \in Procs : q # p => proc'[q] = proc[q]
    BY SentSender
  <1>3. \A e \in Deliveries : row'[e].replyTo = row[e].replyTo BY <1>2
  <1>4. SlotFits(p) /\ Numbers(p) BY <1>0 DEF Numbered
  <1>5. PassiveAttempts \subseteq Recorded /\ Traceable \subseteq Recorded
        /\ \A x \in Recorded : x[1] \in Deliveries
    BY <1>0, RecordedFinite DEF PassiveAttempts
  <1>6. new.mode = "passive" =>
           /\ Slot(p) /\ Uncounted(p) /\ new.msg = proc[p].passive.id /\ new.seq = proc[p].passive.seq
           /\ new.msg \in 1 .. inbox.newest
           /\ d \in Ephemeral => row[d].replyTo <= new.msg
    BY <1>0, <1>4 DEF Slot, Uncounted, SlotFits, Current
  <1>7. \A e \in Deliveries : row'[e].replyTo <= inbox'.newest BY <1>0, <1>3 DEF Numbered
  <1>8. ASSUME NEW x \in PassiveAttempts'
        PROVE  /\ att'[x[1]][x[2]].msg \in 1 .. inbox'.newest
               /\ x[1] \in Ephemeral => row'[x[1]].replyTo <= att'[x[1]][x[2]].msg
    <2>1. CASE x = y BY <1>0, <1>1, <1>2, <1>6, <2>1
    <2>2. CASE x # y
      <3>1. x \in PassiveAttempts /\ x \in Recorded BY <1>1, <1>5, <2>2
      <3> QED BY <1>0, <1>1, <1>3, <1>5, <3>1 DEF Numbered
    <2> QED BY <2>1, <2>2
  <1>9. \A x \in Traceable' : x # y => x \in Traceable /\ att'[x[1]][x[2]] = att[x[1]][x[2]]
    BY <1>1, <1>5
  <1>10. y \in Traceable' => new.mode = "passive" BY <1>1
  <1>11. \A x \in Traceable : att[x[1]][x[2]].msg = proc[p].passive.id =>
             /\ att[x[1]][x[2]].seq <= proc[p].passive.seq
             /\ new.mode = "passive" => att[x[1]][x[2]].seq < proc[p].passive.seq
    BY <1>0, <1>4, <1>6 DEF Numbers, Current
  <1>12. \A x \in Recorded : att[x[1]][x[2]].seq \in Nat
    <2> TAKE x \in Recorded
    <2>1. x[1] \in Deliveries /\ x[2] \in DOMAIN att[x[1]] BY <1>0, RecordedFinite
    <2>2. att[x[1]][x[2]] \in Attempt BY <1>0, <2>1, Sequences
    <2> QED BY <2>2 DEF Attempt
  <1>13. proc[p].passive.seq \in Nat /\ proc[p].passive.used \in Int /\ PassiveLimit \in Nat
    BY <1>0, Senders, Basics
  <1>14. SeqFresh(Traceable)'
    <2> SUFFICES ASSUME NEW x \in Traceable', NEW z \in Traceable', x # z,
                        att'[x[1]][x[2]].msg = att'[z[1]][z[2]].msg
                 PROVE  att'[x[1]][x[2]].seq # att'[z[1]][z[2]].seq
      BY DEF SeqFresh
    <2>1. CASE x # y /\ z # y BY <1>0, <1>9, <2>1 DEF Numbered, SeqFresh
    <2>2. CASE x = y /\ z # y
      <3>1. z \in Traceable /\ att'[z[1]][z[2]] = att[z[1]][z[2]] BY <1>9, <2>2
      <3>2. att[z[1]][z[2]].msg = proc[p].passive.id BY <1>1, <1>6, <1>10, <2>2, <3>1
      <3>3. att[z[1]][z[2]].seq < proc[p].passive.seq BY <1>10, <1>11, <2>2, <3>1, <3>2
      <3>4. att[z[1]][z[2]].seq \in Nat BY <1>5, <1>12, <3>1
      <3> QED BY <1>1, <1>6, <1>10, <1>13, <2>2, <3>1, <3>3, <3>4
    <2>3. CASE x # y /\ z = y
      <3>1. x \in Traceable /\ att'[x[1]][x[2]] = att[x[1]][x[2]] BY <1>9, <2>3
      <3>2. att[x[1]][x[2]].msg = proc[p].passive.id BY <1>1, <1>6, <1>10, <2>3, <3>1
      <3>3. att[x[1]][x[2]].seq < proc[p].passive.seq BY <1>10, <1>11, <2>3, <3>1, <3>2
      <3>4. att[x[1]][x[2]].seq \in Nat BY <1>5, <1>12, <3>1
      <3> QED BY <1>1, <1>6, <1>10, <1>13, <2>3, <3>1, <3>3, <3>4
    <2> QED BY <2>1, <2>2, <2>3
  <1>15. \A m : IsFiniteSet(Kept(m)) /\ Cardinality(Kept(m)) \in Nat BY <1>0, RecordedFinite
  <1>16. ASSUME NEW m, y \notin Traceable' \/ m # new.msg
         PROVE  Cardinality(Kept(m)') <= Cardinality(Kept(m)) /\ Cardinality(Kept(m)') \in Nat
    <2>1. Kept(m)' \subseteq Kept(m) BY <1>1, <1>9, <1>16 DEF Kept
    <2> QED BY <1>15, <2>1, FS_Subset, FS_CardinalityType
  <1>17. ASSUME NEW m
         PROVE  Cardinality(Kept(m)') <= Cardinality(Kept(m)) + 1 /\ Cardinality(Kept(m)') \in Nat
    <2>1. Kept(m)' \subseteq Kept(m) \cup {y} BY <1>9 DEF Kept
    <2>2. y \notin Kept(m) BY <1>1, <1>5 DEF Kept
    <2>3. IsFiniteSet(Kept(m) \cup {y}) /\ Cardinality(Kept(m) \cup {y}) = Cardinality(Kept(m)) + 1
      BY <1>15, <2>2, FS_AddElement
    <2> QED BY <2>1, <2>3, FS_Subset, FS_CardinalityType
  <1>18. PICK id : id = proc[p].passive.id OBVIOUS
  <1>19. /\ proc[p].passive.used \in 0 .. PassiveLimit
         /\ Cardinality(Kept(id)) <= proc[p].passive.used
         /\ new.mode = "passive" => Cardinality(Kept(id)) + 1 <= proc[p].passive.used
    <2>1. Cardinality(Kept(id)) + (IF Uncounted(p) THEN 1 ELSE 0) <= proc[p].passive.used
      BY <1>0, <1>4, <1>18 DEF Numbers, Current
    <2>2. proc[p].passive.used \in 0 .. PassiveLimit BY <1>4 DEF SlotFits
    <2>3. Cardinality(Kept(id)) \in Nat BY <1>15
    <2> QED BY <1>6, <1>13, <2>1, <2>2, <2>3
  <1>20. ASSUME NEW m \in Nat PROVE Cardinality(Kept(m)') <= PassiveLimit
    <2>1. Cardinality(Kept(m)) <= PassiveLimit BY <1>0 DEF Numbered
    <2>2. CASE y \notin Traceable' \/ m # new.msg BY <1>13, <1>15, <1>16, <2>1, <2>2
    <2>3. CASE y \in Traceable' /\ m = new.msg
      <3>1. m = id /\ new.mode = "passive" BY <1>6, <1>10, <1>18, <2>3
      <3> QED BY <1>13, <1>15, <1>17, <1>19, <3>1
    <2> QED BY <2>2, <2>3
  <1>21. Slot(p)' <=> new.mode = "passive" BY <1>0, <1>2 DEF Slot, OnWire
  <1>22. SlotFits(p)'
    <2>1. Slot(p)' => /\ proc'[p].passive.used >= 1 /\ proc'[p].lane.msg = proc'[p].passive.id
                      /\ proc'[p].lane.msg \in 1 .. inbox'.newest
      BY <1>0, <1>2, <1>4, <1>6, <1>21 DEF SlotFits
    <2>2. proc'[p].passive.used \in 0 .. PassiveLimit BY <1>2, <1>19
    <2>3. att'[d][Len(att'[d])].msg = proc'[p].lane.msg BY <1>0, <1>1, <1>2
    <2> QED BY <1>2, <2>1, <2>2, <2>3 DEF SlotFits, LastOf
  <1>23. Numbers(p)'
    <2>1. \A x \in Traceable' : att'[x[1]][x[2]].msg = id => att'[x[1]][x[2]].seq <= proc[p].passive.seq
      <3> TAKE x \in Traceable'
      <3>1. CASE x = y BY <1>1, <1>6, <1>10, <1>13, <3>1
      <3>2. CASE x # y BY <1>9, <1>11, <1>18, <3>2
      <3> QED BY <3>1, <3>2
    <2>2. Cardinality(Kept(id)') + (IF Uncounted(p)' THEN 1 ELSE 0) <= proc[p].passive.used
      <3>1. CASE new.mode # "passive"
        <4>1. ~ Uncounted(p)' /\ y \notin Traceable' BY <1>10, <1>21, <3>1 DEF Uncounted
        <4> QED BY <1>13, <1>15, <1>16, <1>19, <4>1
      <3>2. CASE new.mode = "passive" /\ y \in Traceable'
        <4>1. ~ Uncounted(p)' BY <1>1, <1>2, <3>2 DEF Uncounted
        <4> QED BY <1>13, <1>15, <1>17, <1>19, <3>2, <4>1
      <3>3. CASE new.mode = "passive" /\ y \notin Traceable'
        BY <1>13, <1>15, <1>16, <1>19, <3>3
      <3> QED BY <3>1, <3>2, <3>3
    <2> QED BY <1>2, <1>18, <2>1, <2>2 DEF Numbers
  <1>24. ASSUME NEW q \in Procs, q # p PROVE SlotFits(q)' /\ Numbers(q)'
    <2>1. proc'[q] = proc[q] /\ ~ Current(q)' BY <1>0, <1>2, <1>24 DEF Current
    <2>2. SlotFits(q) BY <1>0 DEF Numbered
    <2>3. proc[q].lane.pc \in OnWire => LastOf(proc[q].lane.d)'.msg = LastOf(proc[q].lane.d).msg
      <3> SUFFICES ASSUME proc[q].lane.pc \in OnWire
                   PROVE  LastOf(proc[q].lane.d)'.msg = LastOf(proc[q].lane.d).msg
        OBVIOUS
      <3>1. PICK e \in Deliveries : /\ e = proc[q].lane.d /\ row[e].status \notin Untried
        BY LaneKnows
      <3>2. e # d BY <3>1 DEF Sends, Untried
      <3>3. att'[e] = att[e] BY <3>2, SentTables
      <3> QED BY <2>1, <3>1, <3>3 DEF LastOf
    <2>4. SlotFits(q)' BY <1>0, <2>1, <2>2, <2>3 DEF SlotFits, Slot
    <2> QED BY <2>1, <2>4 DEF Numbers
  <1>25. \A q \in Procs : SlotFits(q)' /\ Numbers(q)' BY <1>22, <1>23, <1>24
  <1> QED BY <1>7, <1>8, <1>14, <1>20, <1>25 DEF Numbered

LEMMA PrepareStep ==
    ASSUME IInv, NEW p \in Procs, Prepare(p)
    PROVE  IInv'
  <1>1. CASE ~ Current(p) BY <1>1, LosesLeaseStep DEF Prepare
  <1>2. CASE Current(p)
    <2>0. /\ proc[p] \in Sender /\ proc[p].lane \in Lane /\ LaneFits(p) /\ holder = p
          /\ proc[p].lane.pc = "prepare" /\ UNCHANGED <<holder, route, inbox, expired, faults>>
      BY <1>2, Senders DEF IInv, Once, Prepare, AtPC, Current
    <2>1. PICK d \in Deliveries : d = proc[p].lane.d BY <2>0 DEF LaneFits
    <2>2. CASE row[d].status = "pending" /\ Sendable(p, d)
      <3>1. PICK new : new = NewAttempt(proc[p].lane) OBVIOUS
      <3>2. /\ new \in Attempt
            /\ new.mode = proc[p].lane.mode /\ new.msg = proc[p].lane.msg /\ new.seq = proc[p].lane.seq
            /\ new.state = "dispatched" /\ new.receipt = "none" /\ new.plat = "none"
        BY <2>0, <3>1 DEF NewAttempt, Attempt, AttemptStates, Lane
      <3>3. /\ att' = [att EXCEPT ![d] = Append(@, new)]
            /\ row' = [row EXCEPT ![d].status = "sending"]
            /\ GoTo(p, "post")
        BY <1>2, <2>1, <2>2, <3>1 DEF Prepare
      <3>4. Sends(p, d, new) BY <2>0, <2>1, <2>2, <3>2, <3>3 DEF Sends
      <3> QED BY <3>2, <3>4, SentOnce, SentNumbered DEF IInv
    <2>3. CASE ~ (row[d].status = "pending" /\ Sendable(p, d))
      <3>1. /\ row' = IF row[d].status = "pending" THEN [row EXCEPT ![d].status = "failed"] ELSE row
            /\ proc' = [proc EXCEPT ![p] = Finished(Refund(proc[p]), d)]
            /\ UNCHANGED att
        BY <1>2, <2>1, <2>3 DEF Prepare
      <3> QED BY <2>0, <2>1, <3>1, PrepareFails
    <2> QED BY <2>2, <2>3
  <1> QED BY <1>1, <1>2

-----------------------------------------------------------------------------
(* The number of a reply.                                                  *)

LEMMA Greatest ==
    ASSUME NEW S, IsFiniteSet(S), S \subseteq Nat
    PROVE  MaxOf(S) \in Nat /\ \A s \in S : s <= MaxOf(S)
  <1>1. CASE S = {} BY <1>1 DEF MaxOf
  <1>2. CASE S # {}
    <2>1. \E x \in S : \A y \in S : y <= x BY <1>2, Extremes
    <2>2. MaxOf(S) = CHOOSE x \in S : \A y \in S : y <= x BY <1>2 DEF MaxOf
    <2>3. MaxOf(S) \in S /\ \A y \in S : y <= MaxOf(S) BY <2>1, <2>2
    <2> QED BY <2>3
  <1> QED BY <1>1, <1>2

\* The history that a sender reads for the newest message is the true one.
LEMMA Seeded ==
    ASSUME IInv, inbox.newest # 0, NEW now, now = SeedPassive(inbox.newest)
    PROVE  /\ now \in [id : Nat, used : Nat, seq : Nat] /\ now.id = inbox.newest
           /\ now.used = Cardinality(Kept(inbox.newest))
           /\ \A x \in Traceable : att[x[1]][x[2]].msg = inbox.newest => att[x[1]][x[2]].seq <= now.seq
  <1>0. Types /\ Numbered /\ inbox.newest \in Nat BY Basics DEF IInv, Types
  <1>1. PICK m \in Nat : m = inbox.newest BY <1>0
  <1>2. /\ IsFiniteSet(Recorded) /\ Traceable \subseteq Recorded
        /\ \A x \in Recorded : x[1] \in Deliveries /\ x[2] \in DOMAIN att[x[1]]
        /\ Cardinality(Kept(m)) \in Nat
    BY <1>0, RecordedFinite
  <1>3. RepliesTo(m) = {x \in Traceable : att[x[1]][x[2]].msg = m}
    <2>1. ASSUME NEW x \in RepliesTo(m) PROVE x \in Traceable /\ att[x[1]][x[2]].msg = m
      <3>1. /\ x \in Recorded /\ att[x[1]][x[2]].mode = "passive"
            /\ m = IF x[1] \in Ephemeral THEN row[x[1]].replyTo ELSE att[x[1]][x[2]].msg
        BY DEF RepliesTo
      <3>2. x \in PassiveAttempts BY <3>1 DEF PassiveAttempts
      <3>3. att[x[1]][x[2]].msg \in 1 .. m
            /\ (x[1] \in Ephemeral => row[x[1]].replyTo <= att[x[1]][x[2]].msg)
        BY <1>0, <1>1, <3>2 DEF Numbered
      <3>4. att[x[1]][x[2]].msg = m BY <1>1, <3>1, <3>3
      <3> QED BY <3>2, <3>4 DEF Traceable
    <2>2. ASSUME NEW x \in Traceable, att[x[1]][x[2]].msg = m PROVE x \in RepliesTo(m)
      BY <2>2 DEF Traceable
    <2> QED BY <2>1, <2>2
  <1>4. {x \in RepliesTo(m) : att[x[1]][x[2]].state # "unaccepted"} = Kept(m)
    BY <1>3 DEF Kept
  <1> DEFINE seqs == {att[x[1]][x[2]].seq : x \in RepliesTo(m)}
             f == [x \in RepliesTo(m) |-> att[x[1]][x[2]].seq]
  <1>5. IsFiniteSet(RepliesTo(m)) /\ RepliesTo(m) \subseteq Recorded
    <2>1. RepliesTo(m) \subseteq Recorded BY DEF RepliesTo
    <2> QED BY <1>2, <2>1, FS_Subset
  <1>6. \A x \in Recorded : att[x[1]][x[2]].seq \in Nat
    <2> TAKE x \in Recorded
    <2>1. att[x[1]][x[2]] \in Attempt BY <1>0, <1>2, Sequences
    <2> QED BY <2>1 DEF Attempt
  <1>7. IsFiniteSet(seqs)
    <2>1. f \in [RepliesTo(m) -> seqs] OBVIOUS
    <2>2. \A y \in seqs : \E x \in RepliesTo(m) : f[x] = y OBVIOUS
    <2> HIDE DEF f, seqs
    <2>3. f \in Surjection(RepliesTo(m), seqs) BY <2>1, <2>2 DEF Surjection
    <2> QED BY <1>5, <2>3, FS_Surjection
  <1>8. seqs \subseteq Nat BY <1>5, <1>6
  <1>9. \A x \in RepliesTo(m) : att[x[1]][x[2]].seq \in seqs OBVIOUS
  <1>10. now = [id |-> m, used |-> Cardinality(Kept(m)), seq |-> MaxOf(seqs)]
    BY <1>1, <1>4 DEF SeedPassive
  <1> HIDE DEF seqs, f
  <1>11. MaxOf(seqs) \in Nat /\ \A s \in seqs : s <= MaxOf(seqs) BY <1>7, <1>8, Greatest
  <1> QED BY <1>1, <1>2, <1>3, <1>9, <1>10, <1>11

\* One sender moves, and what it has of the replies is right.
LEMMA Counts ==
    ASSUME IInv, NEW p \in Procs, NEW me \in Sender, proc' = [proc EXCEPT ![p] = me],
           UNCHANGED <<row, att, holder, route, inbox, expired, faults>>,
           Calm(p), SlotFits(p)', Numbers(p)'
    PROVE  IInv'
  <1>0. Types /\ Once /\ Numbered BY DEF IInv
  <1>1. /\ proc' \in [Procs -> Sender] /\ \A q \in Procs : q # p => proc'[q] = proc[q]
    BY <1>0, ProcEdit
  <1>2. Types' BY <1>0, <1>1 DEF Types
  <1>3. \A q \in Procs : Calm(q) BY <1>0, <1>1, Bystander
  <1>4. Once' BY <1>0, <1>3, StillOnce
  <1>5. Settling
    <2>1. inbox.newest <= inbox'.newest BY <1>0, Basics DEF Types
    <2> QED BY <2>1 DEF Settling
  <1>6. PassiveAttempts' = PassiveAttempts /\ Traceable' = Traceable
    BY <1>0, <1>2, <1>5, SameReplies
  <1>7. \A m : Kept(m)' = Kept(m) BY <1>6 DEF Kept
  <1>8. ASSUME NEW q \in Procs, q # p PROVE SlotFits(q)' /\ Numbers(q)'
    <2>1. SlotFits(q) /\ Numbers(q) /\ proc'[q] = proc[q] BY <1>0, <1>1, <1>8 DEF Numbered
    <2>2. SlotFits(q)' BY <2>1 DEF SlotFits, Slot, Current, LastOf
    <2>3. Uncounted(q)' <=> Uncounted(q) BY <1>6, <2>1 DEF Uncounted, Slot
    <2>4. PICK m : m = proc[q].passive.id OBVIOUS
    <2>5. Cardinality(Kept(m)') = Cardinality(Kept(m)) BY <1>7
    <2>6. Numbers(q)' BY <1>6, <2>1, <2>3, <2>4, <2>5 DEF Numbers, Slot, Current
    <2> QED BY <2>2, <2>6
  <1>9. \A q \in Procs : SlotFits(q)' /\ Numbers(q)' BY <1>8
  <1>10. SeqFresh(Traceable)' BY <1>0, <1>6 DEF Numbered, SeqFresh
  <1>11. \A m \in Nat : Cardinality(Kept(m)') <= PassiveLimit BY <1>0, <1>7 DEF Numbered
  <1>12. Numbered' BY <1>0, <1>6, <1>9, <1>10, <1>11 DEF Numbered
  <1> QED BY <1>2, <1>4, <1>12 DEF IInv

\* _credential finds out what was used of the newest message.
LEMMA Known ==
    ASSUME IInv, NEW p \in Procs, proc[p].lane.pc = "credential", inbox.newest # 0, NEW now,
           now = IF proc[p].passive.id = inbox.newest THEN proc[p].passive ELSE SeedPassive(inbox.newest)
    PROVE  /\ now \in [id : Nat, used : Nat, seq : Nat] /\ now.id = inbox.newest
           /\ now.used <= PassiveLimit
           /\ holder = p =>
                 /\ Cardinality(Kept(inbox.newest)) <= now.used
                 /\ \A x \in Traceable : att[x[1]][x[2]].msg = inbox.newest => att[x[1]][x[2]].seq <= now.seq
  <1>0. Types /\ Numbered /\ inbox.newest \in Nat /\ PassiveLimit \in Nat BY Basics DEF IInv, Types
  <1>1. CASE proc[p].passive.id = inbox.newest
    <2>1. SlotFits(p) /\ Numbers(p) /\ now = proc[p].passive BY <1>0, <1>1 DEF Numbered
    <2>2. now \in [id : Nat, used : Int, seq : Nat] BY <1>0, <2>1, Senders
    <2>3. now.used \in 0 .. PassiveLimit BY <2>1 DEF SlotFits
    <2>4. ~ Uncounted(p) BY DEF Uncounted, Slot, OnWire
    <2>5. Cardinality(Kept(inbox.newest)) \in Nat BY <1>0, RecordedFinite
    <2>6. holder = p =>
             /\ Cardinality(Kept(inbox.newest)) + 0 <= now.used
             /\ \A x \in Traceable : att[x[1]][x[2]].msg = inbox.newest => att[x[1]][x[2]].seq <= now.seq
      BY <1>1, <2>1, <2>4 DEF Numbers, Current
    <2> QED BY <1>0, <1>1, <2>1, <2>2, <2>3, <2>5, <2>6
  <1>2. CASE proc[p].passive.id # inbox.newest
    <2>1. now = SeedPassive(inbox.newest) BY <1>2
    <2>2. PICK m \in Nat : m = inbox.newest BY <1>0
    <2>3. Cardinality(Kept(m)) <= PassiveLimit /\ Cardinality(Kept(m)) \in Nat
      BY <1>0, RecordedFinite DEF Numbered
    <2>4. /\ now \in [id : Nat, used : Nat, seq : Nat] /\ now.id = inbox.newest
          /\ now.used = Cardinality(Kept(inbox.newest))
          /\ \A x \in Traceable : att[x[1]][x[2]].msg = inbox.newest => att[x[1]][x[2]].seq <= now.seq
      BY <2>1, Seeded
    <2> QED BY <2>2, <2>3, <2>4
  <1> QED BY <1>1, <1>2

\* The lane goes on with its delivery and the sender knows better what was used.
LEMMA Prepared ==
    ASSUME IInv, NEW p \in Procs, proc[p].lane.pc = "credential",
           NEW lane \in Lane, lane.pc \in {"giveup", "prepare"}, lane.d = proc[p].lane.d,
           NEW passive \in [id : Nat, used : Int, seq : Nat],
           proc' = [proc EXCEPT ![p] = [proc[p] EXCEPT !.passive = passive, !.lane = lane]],
           UNCHANGED <<row, att, holder, route, inbox, expired, faults>>
    PROVE  \E me \in Sender :
              /\ proc' = [proc EXCEPT ![p] = me] /\ proc'[p] = me
              /\ me.passive = passive /\ me.lane = lane /\ Calm(p)
  <1>0. Types /\ Once /\ proc[p] \in Sender BY Senders DEF IInv
  <1>1. PICK me : me = [proc[p] EXCEPT !.passive = passive, !.lane = lane] OBVIOUS
  <1>2. /\ me \in Sender /\ me.lane = lane /\ me.passive = passive /\ me.queue = proc[p].queue
        /\ me.futures = proc[p].futures /\ me.phase = proc[p].phase
        /\ me.unrecorded = proc[p].unrecorded /\ me.receipts = proc[p].receipts
    BY <1>0, <1>1 DEF Sender
  <1>3. proc' = [proc EXCEPT ![p] = me] BY <1>1
  <1>4. proc'[p] = me BY <1>0, <1>2, <1>3, ProcEdit
  <1>5. LaneFits(p) /\ QueueFits(p) /\ HeardFits(p) BY <1>0 DEF Once
  <1>6. Heard(p)' = Heard(p) BY <1>2, <1>4 DEF Heard
  <1>7. HeardFits(p)' BY <1>5, <1>6 DEF HeardFits, Attempts
  <1>8. QueueFits(p)' BY <1>2, <1>4, <1>5 DEF QueueFits, Current
  <1>9. Calm(p)
    <2>1. /\ proc[p].lane.d \in Deliveries /\ proc[p].phase \notin {"down", "recovering"}
          /\ holder = p => row[proc[p].lane.d].status \in Untried \ {"absent"}
      BY <1>5 DEF LaneFits, Current, Ahead
    <2> QED BY <1>2, <1>4, <1>6, <1>7, <1>8, <2>1 DEF Calm, OnWire, InHand, Ahead
  <1> QED BY <1>2, <1>3, <1>4, <1>9

LEMMA CredentialStep ==
    ASSUME IInv, NEW p \in Procs, Credential(p)
    PROVE  IInv'
  <1>0. /\ Types /\ Once /\ Numbered /\ proc[p] \in Sender /\ proc[p].lane \in Lane
        /\ proc[p].lane.pc = "credential" /\ inbox.newest \in Nat
        /\ PassiveLimit \in Nat
        /\ UNCHANGED <<row, att, holder, route, inbox, expired, faults>>
    BY Senders, Basics DEF IInv, Credential, AtPC, Types
  <1>1. PICK now : now = IF proc[p].passive.id = inbox.newest THEN proc[p].passive
                         ELSE SeedPassive(inbox.newest)
    OBVIOUS
  <1>2. proc' = [proc EXCEPT ![p] =
            IF proc[p].lane.mode = "proactive" THEN [proc[p] EXCEPT !.lane.pc = "prepare"]
            ELSE IF inbox.newest = 0 \/ ~inbox.recent THEN [proc[p] EXCEPT !.lane.pc = "giveup"]
            ELSE IF now.used >= PassiveLimit THEN [proc[p] EXCEPT !.lane.pc = "giveup", !.passive = now]
            ELSE [proc[p] EXCEPT !.passive = [now EXCEPT !.used = @ + 1, !.seq = @ + 1],
                            !.lane.pc = "prepare", !.lane.msg = inbox.newest, !.lane.seq = now.seq + 1]]
    BY <1>1 DEF Credential
  <1>3. \A m : Cardinality(Kept(m)) \in Nat BY <1>0, RecordedFinite
  <1>4. CASE proc[p].lane.mode = "proactive" \/ inbox.newest = 0 \/ ~inbox.recent
    <2>1. PICK pc \in {"prepare", "giveup"} :
             /\ GoTo(p, pc)
             /\ pc = "prepare" => proc[p].lane.mode = "proactive"
      BY <1>2, <1>4 DEF GoTo
    <2>2. PICK lane \in Lane :
              /\ lane.pc = pc /\ lane.d = proc[p].lane.d /\ lane.mode = proc[p].lane.mode
              /\ proc' = [proc EXCEPT ![p].lane = lane]
      BY <1>0, <2>1, LaneGoes
    <2>3. /\ lane.pc \notin OnWire \cup InHand /\ proc[p].lane.pc \in Ahead
          /\ ~ (lane.mode = "passive" /\ lane.pc \in OnWire \cup {"prepare"})
      BY <1>0, <2>1, <2>2 DEF OnWire, InHand, Ahead
    <2> QED BY <1>0, <2>2, <2>3, LaneStill, Parameters DEF OnWire
  <1>5. CASE proc[p].lane.mode # "proactive" /\ inbox.newest # 0 /\ inbox.recent
    <2>1. /\ now \in [id : Nat, used : Nat, seq : Nat] /\ now.id = inbox.newest
          /\ now.used <= PassiveLimit
          /\ holder = p =>
                 /\ Cardinality(Kept(inbox.newest)) <= now.used
                 /\ \A x \in Traceable : att[x[1]][x[2]].msg = inbox.newest => att[x[1]][x[2]].seq <= now.seq
      BY <1>0, <1>1, <1>5, Known
    <2>2. Traceable' = Traceable
      <3>1. PassiveAttempts' = PassiveAttempts BY <1>0 DEF PassiveAttempts, Recorded
      <3> QED BY <1>0, <3>1 DEF Traceable, RepliesTo, Recorded
    <2>3. \A m : Kept(m)' = Kept(m) BY <1>0, <2>2 DEF Kept
    <2>4. PICK m \in Nat : m = inbox.newest BY <1>0
    <2>5. \A x \in Traceable : att[x[1]][x[2]].seq \in Nat
      <3> TAKE x \in Traceable
      <3>1. x[1] \in Deliveries /\ x[2] \in DOMAIN att[x[1]] BY <1>0, RecordedFinite
      <3>2. att[x[1]][x[2]] \in Attempt BY <1>0, <3>1, Sequences
      <3> QED BY <3>2 DEF Attempt
    <2>6. CASE now.used >= PassiveLimit
      <3>1. PICK lane : lane = [proc[p].lane EXCEPT !.pc = "giveup"] OBVIOUS
      <3>2. lane \in Lane /\ lane.pc = "giveup" /\ lane.d = proc[p].lane.d BY <1>0, <3>1 DEF Lane
      <3>3. now \in [id : Nat, used : Int, seq : Nat] BY <2>1
      <3>4. proc' = [proc EXCEPT ![p] = [proc[p] EXCEPT !.passive = now, !.lane = lane]]
        BY <1>2, <1>5, <2>6, <3>1
      <3>5. PICK me \in Sender :
              /\ proc' = [proc EXCEPT ![p] = me] /\ proc'[p] = me
              /\ me.passive = now /\ me.lane = lane /\ Calm(p)
        BY <1>0, <3>2, <3>3, <3>4, Prepared
      <3>6. ~ Slot(p)' /\ ~ Uncounted(p)' BY <3>2, <3>5 DEF Slot, Uncounted, OnWire
      <3>7. SlotFits(p)'
        <4>1. now.used \in 0 .. PassiveLimit BY <1>0, <2>1
        <4> QED BY <3>5, <3>6, <4>1 DEF SlotFits
      <3>8. Numbers(p)'
        <4>1. holder = p => Cardinality(Kept(m)') + 0 <= now.used BY <1>3, <2>1, <2>3, <2>4
        <4> QED BY <1>0, <2>1, <2>2, <2>4, <3>5, <3>6, <4>1 DEF Numbers, Current
      <3> QED BY <1>0, <3>5, <3>7, <3>8, Counts
    <2>7. CASE ~ (now.used >= PassiveLimit)
      <3>1. PICK lane : lane = [proc[p].lane EXCEPT !.pc = "prepare", !.msg = inbox.newest,
                                                    !.seq = now.seq + 1]
        OBVIOUS
      <3>2. /\ lane \in Lane /\ lane.pc = "prepare" /\ lane.d = proc[p].lane.d
            /\ lane.msg = inbox.newest /\ lane.seq = now.seq + 1
        <4>1. now.seq + 1 \in Nat BY <2>1
        <4> QED BY <1>0, <3>1, <4>1 DEF Lane
      <3>3. PICK passive : passive = [now EXCEPT !.used = @ + 1, !.seq = @ + 1] OBVIOUS
      <3>4. /\ passive \in [id : Nat, used : Int, seq : Nat] /\ passive.id = inbox.newest
            /\ passive.used = now.used + 1 /\ passive.seq = now.seq + 1
        <4>1. PICK u \in Nat : u = now.used + 1 BY <2>1
        <4>2. PICK s \in Nat : s = now.seq + 1 BY <2>1
        <4>3. passive = [now EXCEPT !.used = u, !.seq = s] BY <3>3, <4>1, <4>2
        <4>4. now \in [id : Nat, used : Nat, seq : Nat] /\ now.id = inbox.newest BY <2>1
        <4>5. /\ passive \in [id : Nat, used : Nat, seq : Nat] /\ passive.id = now.id
              /\ passive.used = u /\ passive.seq = s
          BY <4>1, <4>2, <4>3, <4>4
        <4>6. passive \in [id : Nat, used : Int, seq : Nat] BY <4>5
        <4> QED BY <4>1, <4>2, <4>4, <4>5, <4>6
      <3>5. proc' = [proc EXCEPT ![p] = [proc[p] EXCEPT !.passive = passive, !.lane = lane]]
        BY <1>2, <1>5, <2>7, <3>1, <3>3
      <3>6. PICK me \in Sender :
              /\ proc' = [proc EXCEPT ![p] = me] /\ proc'[p] = me
              /\ me.passive = passive /\ me.lane = lane /\ Calm(p)
        BY <1>0, <3>2, <3>4, <3>5, Prepared
      <3>7. SlotFits(p)'
        <4>1. passive.used \in 1 .. PassiveLimit
          <5>1. now.used \in Nat BY <2>1
          <5> QED BY <1>0, <2>7, <3>4, <5>1
        <4>2. inbox.newest \in 1 .. inbox.newest BY <1>0, <1>5
        <4>3. \A d \in Deliveries : row[d].replyTo <= inbox.newest BY <1>0 DEF Numbered
        <4>4. proc[p].lane.d \in Deliveries BY <1>0 DEF Once, LaneFits
        <4>5. lane.pc \notin OnWire BY <3>2 DEF OnWire
        <4> QED BY <1>0, <3>2, <3>4, <3>6, <4>1, <4>2, <4>3, <4>4, <4>5 DEF SlotFits
      <3>8. Numbers(p)'
        <4>1. holder = p => Cardinality(Kept(m)') + 1 <= passive.used
          <5>1. now.used \in Nat BY <2>1
          <5> QED BY <1>3, <2>1, <2>3, <2>4, <3>4, <5>1
        <4>2. holder = p => Cardinality(Kept(m)') + (IF Uncounted(p)' THEN 1 ELSE 0) <= passive.used
          <5>1. Cardinality(Kept(m)') \in Nat /\ passive.used \in Int BY <1>3, <2>3, <3>4
          <5> QED BY <4>1, <5>1
        <4>3. holder = p => \A x \in Traceable :
                 att[x[1]][x[2]].msg = inbox.newest =>
                    att[x[1]][x[2]].seq <= passive.seq /\ att[x[1]][x[2]].seq < passive.seq
          BY <2>1, <2>5, <3>4
        <4> QED BY <1>0, <2>2, <2>4, <3>4, <3>6, <4>2, <4>3 DEF Numbers, Current
      <3> QED BY <1>0, <3>6, <3>7, <3>8, Counts
    <2> QED BY <2>6, <2>7
  <1> QED BY <1>4, <1>5

-----------------------------------------------------------------------------
(* The invariant.                                                          *)

LEMMA InitOK == Init => IInv
  <1> SUFFICES ASSUME Init PROVE IInv OBVIOUS
  <1>0. /\ \A d \in Deliveries : att[d] = <<>> /\ row[d] = [status |-> "absent", replyTo |-> 0, plain |-> FALSE]
        /\ \A p \in Procs : proc[p] = Fresh("down")
        /\ holder = NoProc /\ inbox = [newest |-> 0, recent |-> FALSE]
    BY DEF Init
  <1>1. Types
    <2>1. row \in [Deliveries -> Row]
      <3>1. [status |-> "absent", replyTo |-> 0, plain |-> FALSE] \in Row BY Basics DEF Row, Statuses
      <3> QED BY <3>1 DEF Init
    <2>2. att \in [Deliveries -> Seq(Attempt)]
      <3>1. <<>> \in Seq(Attempt) OBVIOUS
      <3> QED BY <3>1 DEF Init
    <2>3. proc \in [Procs -> Sender]
      <3>1. Fresh("down") \in Sender BY FreshTyped
      <3> QED BY <3>1 DEF Init
    <2>4. inbox \in [newest : 0 .. MaxMsgs, recent : BOOLEAN] BY <1>0, Basics
    <2>5. expired \subseteq Deliveries /\ faults \in 0 .. MaxFaults
          /\ route \in [denied : BOOLEAN, authorized : BOOLEAN]
      <3>1. faults = 0 /\ expired = {} /\ route \in [denied : BOOLEAN, authorized : {TRUE}] BY DEF Init
      <3>2. route \in [denied : BOOLEAN, authorized : BOOLEAN] BY <3>1
      <3> QED BY <3>1, <3>2, Basics
    <2> QED BY <1>0, <2>1, <2>2, <2>3, <2>4, <2>5 DEF Types
  <1>2. \A p \in Procs : /\ proc[p].phase = "down" /\ proc[p].queue = <<>> /\ proc[p].lane = IdleLane
                         /\ proc[p].passive = [id |-> 0, used |-> 0, seq |-> 0]
                         /\ Heard(p) = {} /\ proc[p].lane.pc = "idle" /\ ~ Current(p)
    <2> TAKE p \in Procs
    <2>1. proc[p] = Fresh("down") BY <1>0
    <2>2. /\ proc[p].phase = "down" /\ proc[p].queue = <<>> /\ proc[p].lane = IdleLane
          /\ proc[p].passive = [id |-> 0, used |-> 0, seq |-> 0]
          /\ proc[p].unrecorded = {} /\ proc[p].receipts = {}
      BY <2>1 DEF Fresh
    <2>3. Heard(p) = {} BY <2>2 DEF Heard
    <2>4. proc[p].lane.pc = "idle" BY <2>2 DEF IdleLane
    <2>5. ~ Current(p) BY <1>0, Basics DEF Current
    <2> QED BY <2>2, <2>3, <2>4, <2>5
  <1>3. Once
    <2>1. \A d \in Deliveries : RowFits(d) BY <1>0 DEF RowFits, Attempts
    <2>2. \A p \in Procs : LaneFits(p) BY <1>2 DEF LaneFits, OnWire, InHand, Ahead
    <2>3. \A p \in Procs : QueueFits(p) /\ HeardFits(p) BY <1>2 DEF QueueFits, HeardFits
    <2>4. \A p, q \in Procs : Apart(p, q) /\ Silent(p, q)
      BY <1>2 DEF Apart, Silent, Under, OnWire, InHand
    <2> QED BY <2>1, <2>2, <2>3, <2>4 DEF Once
  <1>4. Numbered
    <2>1. Recorded = {}
      <3>1. \A d \in Deliveries : DOMAIN att[d] = {} BY <1>0
      <3> QED BY <3>1 DEF Recorded
    <2>2. PassiveAttempts = {} BY <2>1 DEF PassiveAttempts
    <2>3. Traceable = {} BY <2>2 DEF Traceable
    <2>4. \A m : Kept(m) = {} BY <2>3 DEF Kept
    <2>5. \A m : Cardinality(Kept(m)) = 0 BY <2>4, FS_EmptySet
    <2>6. \A p \in Procs : SlotFits(p) /\ Numbers(p)
      <3> TAKE p \in Procs
      <3>1. ~ Slot(p) BY <1>2 DEF Slot, OnWire
      <3>2. SlotFits(p) BY <1>2, <3>1, Basics DEF SlotFits
      <3> QED BY <1>2, <3>2 DEF Numbers
    <2>7. \A d \in Deliveries : row[d].replyTo <= inbox.newest BY <1>0
    <2> QED BY <2>2, <2>3, <2>5, <2>6, <2>7, Basics DEF Numbered, SeqFresh
  <1> QED BY <1>1, <1>3, <1>4 DEF IInv

LEMMA LaneStepOK ==
    ASSUME IInv, NEW p \in Procs, LaneStep(p)
    PROVE  IInv'
  BY TakeStep, ReadRouteStep, CredentialStep, PrepareStep, PostStep, AnswerStep, CaptureStep,
     FinalizeStep, SettleUnknownStep, DenyStep, RefusedStep, GiveUpStep, HandleErrorStep
     DEF LaneStep

LEMMA LoopStepOK ==
    ASSUME IInv, NEW p \in Procs, LoopStep(p)
    PROVE  IInv'
  BY LoopCaptureStep, LoopFinalizeStep, ListDueStep, SubmitStep DEF LoopStep

LEMMA StepOK == IInv /\ [Next]_vars => IInv'
  <1> SUFFICES ASSUME IInv, [Next]_vars PROVE IInv' OBVIOUS
  <1>1. ASSUME NEW p \in Procs, Start(p) \/ Recover(p) \/ Stopped(p) \/ LaneStep(p) \/ LoopStep(p)
        PROVE  IInv'
    BY <1>1, ProcessStep, RecoverStep, LaneStepOK, LoopStepOK
  <1>2. CASE \/ Inbound \/ GoStale \/ RouteChanges
             \/ \E d \in Deliveries : Expire(d)
    BY <1>2, EnvironmentStep
  <1>3. ASSUME NEW p \in Procs, Crash(p) \/ LoseLease(p) \/ LaneRaises(p) \/ WorkerDies(p) \/ Stop(p)
        PROVE  IInv'
    BY <1>3, ProcessStep, EnvironmentStep, LaneRaisesStep, WorkerDiesStep, StopStep
  <1>4. ASSUME NEW p \in Procs, NEW d \in Deliveries,
               Enqueue(p, d) \/ SendDelivery(p, d) \/ CancelEphemeral(p, d)
        PROVE  IInv'
    BY <1>4, EnqueueStep, SendDeliveryStep, CancelEphemeralStep
  <1>5. CASE UNCHANGED vars BY <1>5, EnvironmentStep
  <1> QED BY <1>1, <1>2, <1>3, <1>4, <1>5 DEF Next, Environment

\* Every reachable state satisfies the inductive invariant: Init establishes it and each
\* step of a sender, of its run loop, of the callers and of the world keeps it.
THEOREM Invariance == Spec => []IInv
  BY InitOK, StepOK, PTL DEF Spec

\* Tables and RAM stay within their types (the columns of delivery_attempts and
\* deliveries), and a sender never takes more passive slots than one message allows.
THEOREM TypeCorrect == Spec => []TypeOK
  <1>1. IInv => TypeOK
    <2> SUFFICES ASSUME IInv PROVE TypeOK OBVIOUS
    <2>0. Types BY DEF IInv
    <2>1. \A d \in Deliveries : \A n \in Attempts(d) : att[d][n] \in Attempt
      BY <2>0, Sequences DEF Attempts
    <2>2. \A p \in Procs : proc[p].lane \in Lane /\ proc[p].passive.used \in 0 .. PassiveLimit
      BY <2>0, Senders DEF IInv, Numbered, SlotFits
    <2> QED BY <2>0, <2>1, <2>2 DEF TypeOK, Types, Row, Attempt
  <1> QED BY <1>1, Invariance, PTL

\* Nobody sees the same delivery twice: whatever leases change hands, senders die, answers
\* get lost and calls of the database fail, the platform accepts at most one POST of each.
THEOREM NothingSentTwice == Spec => []AtMostOnce
  <1>1. IInv => AtMostOnce
    <2> SUFFICES ASSUME IInv, NEW d \in Deliveries
                 PROVE  Cardinality({n \in Attempts(d) : att[d][n].plat = "yes"}) <= 1
      BY DEF AtMostOnce
    <2>1. PICK S : S = {n \in Attempts(d) : att[d][n].plat = "yes"} OBVIOUS
    <2>2. PICK k : k = Len(att[d]) OBVIOUS
    <2>3. S \subseteq {k} BY <2>1, <2>2 DEF IInv, Once, RowFits, Attempts
    <2>4. IsFiniteSet({k}) /\ Cardinality({k}) = 1 BY FS_Singleton
    <2>5. Cardinality(S) <= 1 BY <2>3, <2>4, FS_Subset
    <2> QED BY <2>1, <2>5
  <1> QED BY <1>1, Invariance, PTL

\* What the outbox calls failed or cancelled was never accepted, and what it calls
\* committed was, with its receipt applied.
THEOREM OutcomesTruthful == Spec => []TruthfulOutcome
  <1>1. IInv => TruthfulOutcome
    BY DEF IInv, Once, RowFits, Attempts, Untried, TruthfulOutcome
  <1> QED BY <1>1, Invariance, PTL

\* Of the replies that passive_history attributes to the right message, no two carry the
\* same number, and restarts do not refill what one message allows.
THEOREM RepliesCounted == Spec => []TraceableRepliesCounted
  <1>1. IInv => TraceableRepliesCounted
    <2> SUFFICES ASSUME IInv PROVE TraceableRepliesCounted OBVIOUS
    <2>1. SeqFresh(Traceable) /\ \A m \in Nat : Cardinality(Kept(m)) <= PassiveLimit
      BY DEF IInv, Numbered
    <2>2. \A m \in 1 .. MaxMsgs : m \in Nat BY Basics
    <2> QED BY <2>1, <2>2 DEF TraceableRepliesCounted, Kept
  <1> QED BY <1>1, Invariance, PTL

-----------------------------------------------------------------------------
(* What the outbox promises.                                               *)

Accepted(d) == {n \in Attempts(d) : att[d][n].plat = "yes"}

\* How the status of a delivery can change in one step, and what that step knows about it.
Moves(d) ==
    LET old == row[d].status
        new == row'[d].status
    IN \/ new = old
       \/ old = "absent" /\ new = "pending"
       \/ old = "pending" /\ new \in {"sending", "failed", "cancelled"}
       \/ old = "cancelled" /\ new = "failed"
       \/ old = "sending" /\ new = "ambiguous"
       \/ old = "sending" /\ new \in {"pending", "failed"} /\ Accepted(d) = {}
       \/ old \in {"sending", "ambiguous"} /\ new = "committed" /\ Accepted(d) # {}

LEMMA ReachedOnce ==
    ASSUME IInv, NEW d \in Deliveries
    PROVE  /\ Accepted(d) \subseteq {Len(att[d])}
           /\ reached[d] = Cardinality(Accepted(d))
           /\ reached[d] = IF Accepted(d) = {} THEN 0 ELSE 1
  <1>1. PICK k : k = Len(att[d]) OBVIOUS
  <1>2. Accepted(d) \subseteq {k} BY <1>1 DEF IInv, Once, RowFits, Accepted
  <1>3. reached[d] = Cardinality(Accepted(d)) BY DEF reached, Accepted
  <1>4. Cardinality({}) = 0 /\ Cardinality({k}) = 1 BY FS_EmptySet, FS_Singleton
  <1>5. Accepted(d) = {} \/ Accepted(d) = {k} BY <1>2
  <1> QED BY <1>1, <1>2, <1>3, <1>4, <1>5

\* Every step but a POST leaves what the platform has accepted as it is.
LEMMA SameAccepted ==
    ASSUME \A d \in Deliveries : DOMAIN att'[d] = DOMAIN att[d],
           \A d \in Deliveries : \A n \in DOMAIN att[d] : att'[d][n].plat = att[d][n].plat
    PROVE  \A d \in Deliveries : Accepted(d)' = Accepted(d)
  BY DEF Accepted, Attempts

LEMMA AttemptKept ==
    ASSUME IInv, NEW d \in Deliveries, NEW n \in DOMAIN att[d], NEW a \in Attempt,
           att' = [att EXCEPT ![d][n] = a], a.plat = att[d][n].plat
    PROVE  \A e \in Deliveries : Accepted(e)' = Accepted(e)
  <1>1. /\ \A e \in Deliveries : DOMAIN att'[e] = DOMAIN att[e]
        /\ att'[d][n] = a
        /\ \A e \in Deliveries : e # d => att'[e] = att[e]
        /\ \A k \in DOMAIN att[d] : k # n => att'[d][k] = att[d][k]
    BY Overwritten DEF IInv
  <1>2. \A e \in Deliveries : \A k \in DOMAIN att[e] : att'[e][k].plat = att[e][k].plat BY <1>1
  <1> QED BY <1>1, <1>2, SameAccepted

\* Steps that change at most one status, and no attempt.
Quiet == \A e \in Deliveries : Moves(e) /\ Accepted(e)' = Accepted(e)

LEMMA TablesStay ==
    ASSUME UNCHANGED <<row, att>>
    PROVE  Quiet
  BY DEF Quiet, Moves, Accepted, Attempts

LEMMA StatusMoves ==
    ASSUME IInv, NEW d \in Deliveries, NEW s \in Statuses, row' = [row EXCEPT ![d].status = s],
           \A e \in Deliveries : Accepted(e)' = Accepted(e),
           \/ row[d].status = "pending" /\ s \in {"failed", "cancelled"}
           \/ row[d].status = "pending" /\ s = "sending"
           \/ row[d].status \in {"failed", "cancelled"} /\ s = "failed"
           \/ row[d].status = "sending" /\ s = "ambiguous"
           \/ row[d].status \in {"sending", "ambiguous", "committed"} /\ s = "committed" /\ Accepted(d) # {}
    PROVE  Quiet
  <1>1. row'[d].status = s /\ \A e \in Deliveries : e # d => row'[e] = row[e]
    BY StatusEdit DEF IInv
  <1>2. Moves(d) BY <1>1 DEF Moves
  <1>3. \A e \in Deliveries : e # d => Moves(e) BY <1>1 DEF Moves
  <1> QED BY <1>2, <1>3 DEF Quiet

LEMMA ApplyMoves ==
    ASSUME IInv, NEW d \in Deliveries, NEW n \in DOMAIN att[d], att[d][n].plat = "yes", Apply(<<d, n>>)
    PROVE  Quiet
  <1>1. CASE att[d][n].receipt = "applied" BY <1>1, TablesStay DEF Apply
  <1>2. CASE att[d][n].receipt # "applied"
    <2>1. row' = [row EXCEPT ![d].status = "committed"] BY <1>2 DEF Apply
    <2>2. row[d].status \in {"sending", "ambiguous", "committed"}
      <3>1. row[d].status \notin Untried BY AcceptedKnown
      <3>2. row[d].status \in Statuses BY DEF IInv, Types, Row
      <3> QED BY <3>1, <3>2 DEF Untried, Statuses
    <2>3. PICK a \in Attempt : att' = [att EXCEPT ![d][n] = a] /\ a.plat = "yes" BY Applied
    <2>4. \A e \in Deliveries : Accepted(e)' = Accepted(e) BY <2>3, AttemptKept
    <2>5. Accepted(d) # {} BY DEF Accepted, Attempts
    <2> QED BY <2>1, <2>2, <2>4, <2>5, StatusMoves DEF Statuses
  <1> QED BY <1>1, <1>2

LEMMA PrepareMoves ==
    ASSUME IInv, NEW p \in Procs, Current(p), Prepare(p)
    PROVE  Quiet
  <1>0. LaneFits(p) /\ proc[p].lane.pc = "prepare" /\ proc[p].lane \in Lane
    BY Senders DEF IInv, Once, Prepare, AtPC
  <1>1. PICK d \in Deliveries : d = proc[p].lane.d BY <1>0 DEF LaneFits
  <1>2. CASE row[d].status = "pending" /\ Sendable(p, d)
    <2>1. PICK new : new = NewAttempt(proc[p].lane) OBVIOUS
    <2>2. /\ new \in Attempt
          /\ new.mode = proc[p].lane.mode /\ new.msg = proc[p].lane.msg /\ new.seq = proc[p].lane.seq
          /\ new.state = "dispatched" /\ new.receipt = "none" /\ new.plat = "none"
      BY <1>0, <2>1 DEF NewAttempt, Attempt, AttemptStates, Lane
    <2>3. /\ att' = [att EXCEPT ![d] = Append(@, new)]
          /\ row' = [row EXCEPT ![d].status = "sending"]
          /\ GoTo(p, "post")
          /\ UNCHANGED <<holder, route, inbox, expired, faults>>
      BY <1>1, <1>2, <2>1 DEF Prepare
    <2>4. Sends(p, d, new) BY <1>0, <1>1, <1>2, <2>2, <2>3 DEF Sends, Current
    <2>5. PICK k \in Nat :
              /\ k \notin DOMAIN att[d]
              /\ DOMAIN att'[d] = DOMAIN att[d] \cup {k} /\ att'[d][k] = new
              /\ \A n \in DOMAIN att[d] : att'[d][n] = att[d][n]
              /\ \A e \in Deliveries : e # d => att'[e] = att[e]
      BY <2>2, <2>4, SentTables
    <2>6. Accepted(d)' = Accepted(d) BY <2>2, <2>5 DEF Accepted, Attempts
    <2>7. \A e \in Deliveries : e # d => Accepted(e)' = Accepted(e) BY <2>5 DEF Accepted, Attempts
    <2> QED BY <1>2, <2>3, <2>6, <2>7, StatusMoves DEF Statuses
  <1>3. CASE ~ (row[d].status = "pending" /\ Sendable(p, d))
    <2>1. /\ row' = IF row[d].status = "pending" THEN [row EXCEPT ![d].status = "failed"] ELSE row
          /\ UNCHANGED att
      BY <1>1, <1>3 DEF Prepare
    <2>2. CASE row[d].status = "pending"
      <3>1. \A e \in Deliveries : Accepted(e)' = Accepted(e) BY <2>1 DEF Accepted, Attempts
      <3> QED BY <2>1, <2>2, <3>1, StatusMoves DEF Statuses
    <2>3. CASE row[d].status # "pending" BY <2>1, <2>3, TablesStay
    <2> QED BY <2>2, <2>3
  <1> QED BY <1>2, <1>3

LEMMA RefusedMoves ==
    ASSUME IInv, NEW p \in Procs, Current(p), Refused(p)
    PROVE  Quiet
  <1>0. proc[p].lane.pc = "refused" BY DEF Refused, AtPC
  <1>1. PICK d \in Deliveries :
            /\ d = proc[p].lane.d /\ Len(att[d]) \in DOMAIN att[d]
            /\ att[d][Len(att[d])] \in Attempt /\ att[d][Len(att[d])].plat = "no"
            /\ row[d].status = "sending"
    BY <1>0, LaneKnows DEF OnWire, Current
  <1>2. PICK n : n = Len(att[d]) OBVIOUS
  <1>3. PICK a : a = [att[d][n] EXCEPT !.state = "unaccepted"] OBVIOUS
  <1>4. a \in Attempt /\ a.plat = att[d][n].plat
    <2>1. "unaccepted" \in AttemptStates BY DEF AttemptStates
    <2>2. PICK b \in Attempt : b = att[d][n] BY <1>1, <1>2
    <2>3. a = [b EXCEPT !.state = "unaccepted"] BY <1>3, <2>2
    <2>4. a \in Attempt /\ a.plat = b.plat BY <2>1, <2>3 DEF Attempt
    <2> QED BY <2>2, <2>4
  <1>5. att' = [att EXCEPT ![d][n].state = "unaccepted"] BY <1>1, <1>2 DEF Refused, Last
  <1>6. att' = [att EXCEPT ![d][n] = a] BY <1>3, <1>5
  <1>7. \A e \in Deliveries : Accepted(e)' = Accepted(e) BY <1>1, <1>2, <1>4, <1>6, AttemptKept
  <1>8. Accepted(d) = {} BY <1>1, ReachedOnce DEF Accepted
  <1>9. PICK s \in {"pending", "failed"} :
            row'[d].status = s /\ \A e \in Deliveries : e # d => row'[e] = row[e]
    <2>1. row \in [Deliveries -> Row] /\ row[d] \in Row BY DEF IInv, Types
    <2>2. PICK again \in BOOLEAN : again = Retries(proc[p].lane, d) BY DEF Retries
    <2>3. PICK s \in {"pending", "failed"} : s = IF again THEN "pending" ELSE "failed" OBVIOUS
    <2>4. PICK new : new = [row[d] EXCEPT !.status = s,
                                         !.plain = @ \/ (again /\ proc[p].lane.code = "format")]
      OBVIOUS
    <2>5. row' = [row EXCEPT ![d] = new] BY <1>1, <2>2, <2>3, <2>4 DEF Refused
    <2>6. new.status = s BY <2>1, <2>4 DEF Row
    <2>7. row'[d].status = s /\ \A e \in Deliveries : e # d => row'[e] = row[e] BY <2>1, <2>5, <2>6
    <2> QED BY <2>7
  <1>10. Moves(d) BY <1>1, <1>8, <1>9 DEF Moves
  <1>11. \A e \in Deliveries : e # d => Moves(e) BY <1>9 DEF Moves
  <1> QED BY <1>7, <1>10, <1>11 DEF Quiet

LEMMA UnknownMoves ==
    ASSUME IInv, NEW p \in Procs, Current(p), SettleUnknown(p)
    PROVE  Quiet
  <1>0. proc[p].lane.pc = "unknown" BY DEF SettleUnknown, AtPC
  <1>1. PICK d \in Deliveries :
            /\ d = proc[p].lane.d /\ Len(att[d]) \in DOMAIN att[d]
            /\ att[d][Len(att[d])] \in Attempt /\ row[d].status = "sending"
    BY <1>0, LaneKnows DEF OnWire, Current
  <1>2. PICK n : n = Len(att[d]) OBVIOUS
  <1>3. PICK a : a = [att[d][n] EXCEPT !.state = "ambiguous"] OBVIOUS
  <1>4. a \in Attempt /\ a.plat = att[d][n].plat
    <2>1. "ambiguous" \in AttemptStates BY DEF AttemptStates
    <2>2. PICK b \in Attempt : b = att[d][n] BY <1>1, <1>2
    <2>3. a = [b EXCEPT !.state = "ambiguous"] BY <1>3, <2>2
    <2>4. a \in Attempt /\ a.plat = b.plat BY <2>1, <2>3 DEF Attempt
    <2> QED BY <2>2, <2>4
  <1>5. att' = [att EXCEPT ![d][n].state = "ambiguous"] BY <1>1, <1>2 DEF SettleUnknown, Last
  <1>6. att' = [att EXCEPT ![d][n] = a] BY <1>3, <1>5
  <1>7. \A e \in Deliveries : Accepted(e)' = Accepted(e) BY <1>1, <1>2, <1>4, <1>6, AttemptKept
  <1>8. row' = [row EXCEPT ![d].status = "ambiguous"] BY <1>1 DEF SettleUnknown
  <1> QED BY <1>1, <1>7, <1>8, StatusMoves DEF Statuses

LEMMA CaptureMoves ==
    ASSUME IInv, NEW p \in Procs, Capture(p)
    PROVE  Quiet
  <1>0. proc[p].lane.pc = "capture" /\ row' = row BY DEF Capture, AtPC
  <1>1. PICK d \in Deliveries : /\ d = proc[p].lane.d /\ Len(att[d]) \in DOMAIN att[d]
                                /\ att[d][Len(att[d])].plat = "yes"
    BY <1>0, LaneKnows DEF InHand
  <1>2. PICK n \in DOMAIN att[d] : n = Len(att[d]) BY <1>1
  <1>3. att' = [att EXCEPT ![d][n].receipt = IF @ = "none" THEN "stored" ELSE @]
    <2>1. PICK x : x = <<proc[p].lane.d, Last(proc[p].lane.d)>> OBVIOUS
    <2>2. att' = [att EXCEPT ![proc[p].lane.d][x[2]].receipt = IF @ = "none" THEN "stored" ELSE @]
      BY <2>1 DEF Capture
    <2>3. x[2] = n BY <1>1, <1>2, <2>1 DEF Last
    <2> QED BY <1>1, <2>2, <2>3
  <1>4. PICK a \in Attempt :
            /\ att' = [att EXCEPT ![d][n] = a]
            /\ a.mode = att[d][n].mode /\ a.msg = att[d][n].msg /\ a.seq = att[d][n].seq
            /\ a.plat = "yes" /\ a.state # "unaccepted"
            /\ att[d][n].receipt = "applied" => a.receipt = "applied"
    BY <1>1, <1>2, <1>3, Captured
  <1>5. \A e \in Deliveries : Accepted(e)' = Accepted(e) BY <1>1, <1>2, <1>4, AttemptKept
  <1> QED BY <1>0, <1>5 DEF Quiet, Moves

LEMMA LaneMoves ==
    ASSUME IInv, NEW p \in Procs, LaneStep(p), ~ Post(p)
    PROVE  Quiet
  <1>0. LaneFits(p) BY DEF IInv, Once
  <1>1. ASSUME ~ Current(p), ReadRoute(p) \/ Prepare(p) \/ SettleUnknown(p) \/ Deny(p) \/ Refused(p)
                             \/ Finalize(p) \/ GiveUp(p)
        PROVE  UNCHANGED <<row, att>>
    BY <1>1 DEF ReadRoute, Prepare, SettleUnknown, Deny, Refused, Finalize, GiveUp, LosesLease
  <1>2. ASSUME Take(p) \/ Credential(p) \/ Answer(p) \/ HandleError(p)
        PROVE  UNCHANGED <<row, att>>
    BY <1>2 DEF Take, Credential, Answer, HandleError
  <1>3. ASSUME Current(p), ReadRoute(p) \/ Deny(p) PROVE UNCHANGED <<row, att>>
    BY <1>3 DEF ReadRoute, Deny
  <1>4. ASSUME Current(p), Finalize(p) PROVE Quiet
    <2>1. proc[p].lane.pc = "finalize" BY <1>4 DEF Finalize, AtPC
    <2>2. PICK d \in Deliveries : /\ d = proc[p].lane.d /\ Len(att[d]) \in DOMAIN att[d]
                                  /\ att[d][Len(att[d])].plat = "yes"
      BY <2>1, LaneKnows DEF InHand
    <2>3. Apply(<<d, Len(att[d])>>) BY <1>4, <2>2 DEF Finalize, Last
    <2> QED BY <2>2, <2>3, ApplyMoves
  <1>5. ASSUME Current(p), GiveUp(p) PROVE Quiet
    <2>1. proc[p].lane.pc \in {"giveup", "lastresort"} BY <1>5 DEF GiveUp, AtPC
    <2>2. PICK d \in Deliveries : d = proc[p].lane.d BY <1>0, <2>1 DEF LaneFits
    <2>3. row[d].status \in {"pending", "failed", "cancelled"}
      BY <1>0, <1>5, <2>1, <2>2 DEF LaneFits, Ahead, Untried
    <2>4. row' = [row EXCEPT ![d].status = "failed"] /\ att' = att BY <1>5, <2>2 DEF GiveUp
    <2>5. \A e \in Deliveries : Accepted(e)' = Accepted(e) BY <2>4 DEF Accepted, Attempts
    <2> QED BY <2>3, <2>4, <2>5, StatusMoves DEF Statuses
  <1> QED BY <1>1, <1>2, <1>3, <1>4, <1>5, TablesStay, PrepareMoves, RefusedMoves, UnknownMoves,
             CaptureMoves DEF LaneStep

LEMMA LoopMoves ==
    ASSUME IInv, NEW p \in Procs, LoopStep(p)
    PROVE  Quiet
  <1>0. \A d \in Deliveries : \A n \in DOMAIN att[d] : n \in Nat BY Sequences DEF IInv
  <1>1. CASE Submit(p) BY <1>1, TablesStay DEF Submit
  <1>2. CASE LoopCapture(p)
    <2>1. PICK x \in proc[p].unrecorded :
              att' = [att EXCEPT ![x[1]][x[2]].receipt = IF @ = "none" THEN "stored" ELSE @]
      BY <1>2 DEF LoopCapture
    <2>2. x \in Heard(p) BY DEF Heard
    <2>3. PICK d \in Deliveries, n \in Nat : n \in DOMAIN att[d] /\ x = <<d, n>> /\ att[d][n].plat = "yes"
      BY <1>0, <2>2, HeardKnows
    <2>4. att' = [att EXCEPT ![d][n].receipt = IF @ = "none" THEN "stored" ELSE @] BY <2>1, <2>3
    <2>5. PICK a \in Attempt : att' = [att EXCEPT ![d][n] = a] /\ a.plat = "yes"
      BY <2>3, <2>4, Captured
    <2>6. \A e \in Deliveries : Accepted(e)' = Accepted(e) BY <2>3, <2>5, AttemptKept
    <2> QED BY <1>2, <2>6 DEF LoopCapture, Quiet, Moves
  <1>3. CASE LoopFinalize(p)
    <2>1. PICK x \in proc[p].receipts : IF ~Current(p) THEN LoopLosesLease(p) ELSE Apply(x)
      BY <1>3 DEF LoopFinalize
    <2>2. CASE ~ Current(p) BY <2>1, <2>2, TablesStay DEF LoopLosesLease
    <2>3. CASE Current(p)
      <3>1. x \in Heard(p) BY DEF Heard
      <3>2. PICK d \in Deliveries, n \in Nat : n \in DOMAIN att[d] /\ x = <<d, n>> /\ att[d][n].plat = "yes"
        BY <1>0, <3>1, HeardKnows
      <3>3. Apply(<<d, n>>) BY <2>1, <2>3, <3>2
      <3> QED BY <3>2, <3>3, ApplyMoves
    <2> QED BY <2>2, <2>3
  <1>4. CASE ListDue(p)
    <2>1. CASE ~ Current(p) BY <1>4, <2>1, TablesStay DEF ListDue, LoopLosesLease
    <2>2. CASE Current(p)
      <3>1. row' = ExpiredRows /\ att' = att BY <1>4, <2>2 DEF ListDue
      <3>2. row \in [Deliveries -> Row] BY DEF IInv, Types
      <3> QED BY <3>1, <3>2 DEF ExpiredRows, Quiet, Moves, Row, Accepted, Attempts
    <2> QED BY <2>1, <2>2
  <1> QED BY <1>1, <1>2, <1>3, <1>4 DEF LoopStep

LEMMA NextMoves ==
    ASSUME IInv, [Next]_vars, \A p \in Procs : ~ Post(p)
    PROVE  Quiet
  <1>1. ASSUME NEW p \in Procs, Start(p) \/ Stopped(p) \/ Crash(p) \/ LoseLease(p) \/ LaneRaises(p)
                                \/ WorkerDies(p) \/ Stop(p)
        PROVE  UNCHANGED <<row, att>>
    BY <1>1 DEF Start, Stopped, Crash, LoseLease, LaneRaises, WorkerDies, Stop
  <1>2. ASSUME NEW p \in Procs, Recover(p) PROVE Quiet
    <2>1. CASE ~ Current(p) BY <1>2, <2>1, TablesStay DEF Recover, LosesLease
    <2>2. CASE Current(p)
      <3>1. /\ \A d \in Deliveries : DOMAIN att'[d] = DOMAIN att[d]
            /\ \A d \in Deliveries : \A n \in DOMAIN att[d] : att'[d][n].plat = att[d][n].plat
            /\ \A d \in Deliveries : \/ row'[d].status = row[d].status
                                     \/ row[d].status = "sending" /\ row'[d].status = "ambiguous"
        BY <1>2, <2>2, RecoveredTables DEF Recover
      <3> QED BY <3>1, SameAccepted DEF Quiet, Moves
    <2> QED BY <2>1, <2>2
  <1>3. ASSUME NEW p \in Procs, NEW d \in Deliveries,
               Enqueue(p, d) \/ SendDelivery(p, d) \/ CancelEphemeral(p, d)
        PROVE  Quiet
    <2>0. row \in [Deliveries -> Row] BY DEF IInv, Types
    <2>1. att' = att BY <1>3 DEF Enqueue, SendDelivery, CancelEphemeral
    <2>2. \A e \in Deliveries : Accepted(e)' = Accepted(e) BY <2>1 DEF Accepted, Attempts
    <2>3. ASSUME NEW e \in Deliveries PROVE Moves(e)
      <3>1. CASE Enqueue(p, d) BY <2>0, <3>1 DEF Enqueue, Moves
      <3>2. CASE CancelEphemeral(p, d) BY <2>0, <3>2 DEF CancelEphemeral, Moves, Row
      <3>3. CASE SendDelivery(p, d) BY <3>3 DEF SendDelivery, Moves
      <3> QED BY <1>3, <3>1, <3>2, <3>3
    <2> QED BY <2>2, <2>3 DEF Quiet
  <1>4. ASSUME \/ Inbound \/ GoStale \/ RouteChanges \/ UNCHANGED vars
               \/ \E d \in Deliveries : Expire(d)
        PROVE  UNCHANGED <<row, att>>
    BY <1>4 DEF Inbound, GoStale, RouteChanges, Expire, vars
  <1> QED BY <1>1, <1>2, <1>3, <1>4, LaneMoves, LoopMoves, TablesStay DEF Next, Environment

\* The POST of a lane is of a delivery that nobody has got, and that is called sending, or
\* ambiguous if the sender has lost the lease and its successor has recovered.
LEMMA PostMoves ==
    ASSUME IInv, NEW p \in Procs, Post(p)
    PROVE  /\ row' = row
           /\ \A e \in Deliveries :
                 \/ Accepted(e)' = Accepted(e)
                 \/ /\ row[e].status \in {"sending", "ambiguous"} /\ Accepted(e) = {}
                    /\ \E k : Accepted(e)' = {k}
  <1>0. proc[p].lane.pc = "post" /\ row' = row BY DEF Post, AtPC
  <1>1. PICK d \in Deliveries :
            /\ d = proc[p].lane.d /\ Len(att[d]) \in DOMAIN att[d]
            /\ att[d][Len(att[d])] \in Attempt /\ row[d].status \notin Untried
            /\ att[d][Len(att[d])].plat = "none"
    BY <1>0, LaneKnows DEF OnWire
  <1>2. PICK n : n = Len(att[d]) OBVIOUS
  <1>3. PICK seen \in {"yes", "no"} : att' = [att EXCEPT ![d][n].plat = seen]
    BY <1>1, <1>2 DEF Post, Last
  <1>4. PICK a : a = [att[d][n] EXCEPT !.plat = seen] OBVIOUS
  <1>5. a \in Attempt BY <1>1, <1>2, <1>4 DEF Attempt
  <1>6. att' = [att EXCEPT ![d][n] = a] BY <1>3, <1>4
  <1>7. /\ \A e \in Deliveries : DOMAIN att'[e] = DOMAIN att[e]
        /\ \A e \in Deliveries : e # d => att'[e] = att[e]
        /\ \A k \in DOMAIN att[d] : k # n => att'[d][k] = att[d][k]
    BY <1>1, <1>2, <1>5, <1>6, Overwritten DEF IInv
  <1>8. Accepted(d) = {} BY <1>1, ReachedOnce DEF Accepted
  <1>9. row[d].status \in {"sending", "ambiguous"}
    <2>1. row[d].status # "committed"
      <3>1. ~ \E k \in Attempts(d) : att[d][k].receipt = "applied"
        BY <1>8 DEF IInv, Once, RowFits, Accepted
      <3> QED BY <3>1 DEF IInv, Once, RowFits
    <2>2. row[d].status \in Statuses BY DEF IInv, Types, Row
    <2> QED BY <1>1, <2>1, <2>2 DEF Statuses, Untried
  <1>10. Accepted(d)' \subseteq {n} BY <1>7, <1>8 DEF Accepted, Attempts
  <1>11. \A e \in Deliveries : e # d => Accepted(e)' = Accepted(e) BY <1>7 DEF Accepted, Attempts
  <1>12. Accepted(d)' = Accepted(d) \/ Accepted(d)' = {n} BY <1>8, <1>10
  <1> QED BY <1>0, <1>8, <1>9, <1>11, <1>12

\* A step of the code is a move, or none, of the promise for every delivery.
LEMMA KeepsPromise ==
    ASSUME IInv, [Next]_vars, NEW d \in Deliveries
    PROVE  Promise!Move(d) \/ Promise!Stays(d)
  <1>0. /\ says[d] = row[d].status /\ says'[d] = row'[d].status
        /\ reached[d] = IF Accepted(d) = {} THEN 0 ELSE 1
        /\ reached'[d] = Cardinality(Accepted(d)')
        /\ reached[d] = Cardinality(Accepted(d))
    BY ReachedOnce DEF says, reached, Accepted
  <1>1. CASE \E p \in Procs : Post(p)
    <2>1. /\ says'[d] = says[d]
          /\ \/ Accepted(d)' = Accepted(d)
             \/ /\ says[d] \in {"sending", "ambiguous"} /\ Accepted(d) = {}
                /\ \E k : Accepted(d)' = {k}
      BY <1>0, <1>1, PostMoves
    <2>2. CASE Accepted(d)' = Accepted(d)
      <3>1. reached'[d] = reached[d] BY <1>0, <2>2
      <3> QED BY <2>1, <3>1 DEF Promise!Stays
    <2>3. CASE Accepted(d)' # Accepted(d)
      <3>1. reached'[d] = 1 /\ reached[d] = 0 BY <1>0, <2>1, <2>3, FS_Singleton
      <3> QED BY <2>1, <2>3, <3>1 DEF Promise!Move, Promise!Reach
    <2> QED BY <2>2, <2>3
  <1>2. CASE \A p \in Procs : ~ Post(p)
    <2>1. Moves(d) /\ Accepted(d)' = Accepted(d) BY <1>2, NextMoves DEF Quiet
    <2>2. reached'[d] = reached[d] BY <1>0, <2>1
    <2> QED BY <1>0, <2>1, <2>2
            DEF Moves, Promise!Move, Promise!Stays, Promise!Calls, Promise!Enqueue, Promise!Send,
                Promise!Refuse, Promise!Lose, Promise!Confirm, Promise!GiveUp
  <1> QED BY <1>1, <1>2

\* What the senders, their attempts and receipts do is what an outbox promises: accepted once
\* at most, tried again or given up only when the platform has not accepted it, committed only
\* when it has, and unknown for good unless that is found out.
THEOREM Refinement == Spec => ImplementsOutbox
  <1>1. Init => Promise!Init
    <2> SUFFICES ASSUME Init PROVE Promise!Init OBVIOUS
    <2>1. IInv BY InitOK
    <2>2. \A d \in Deliveries : row[d].status = "absent" /\ att[d] = <<>> BY DEF Init
    <2>3. \A d \in Deliveries : Accepted(d) = {} BY <2>2 DEF Accepted, Attempts
    <2>4. \A d \in Deliveries : Cardinality({n \in Attempts(d) : att[d][n].plat = "yes"}) = 0
      BY <2>3, FS_EmptySet DEF Accepted
    <2> QED BY <2>2, <2>4 DEF Promise!Init, says, reached
  <1>2. IInv /\ [Next]_vars => [Promise!Next]_(Promise!vars)
    <2> SUFFICES ASSUME IInv, [Next]_vars PROVE Promise!Next BY DEF Promise!vars
    <2>1. says' = [d \in Deliveries |-> says'[d]] /\ reached' = [d \in Deliveries |-> reached'[d]]
      BY DEF says, reached
    <2> QED BY <2>1, KeepsPromise DEF Promise!Next
  <1> QED BY <1>1, <1>2, Invariance, PTL DEF Spec, ImplementsOutbox, Promise!Spec

\* A settled delivery is never sent or queued again, a committed one stays so, and an unknown
\* outcome may only become known: no step of any process, current or not, says otherwise.
COROLLARY SettledForGood == Spec => SettledStaysSettled
  <1>1. ASSUME IInv, [Next]_vars, NEW d \in Deliveries
        PROVE  /\ row[d].status \in {"committed", "failed", "cancelled", "ambiguous"}
                     => row'[d].status \notin {"pending", "sending"}
               /\ row[d].status = "committed" => row'[d].status = "committed"
               /\ row[d].status = "ambiguous" => row'[d].status \in {"ambiguous", "committed"}
    <2>1. says[d] = row[d].status /\ says'[d] = row'[d].status BY DEF says
    <2> QED BY <1>1, <2>1, KeepsPromise
            DEF Promise!Move, Promise!Stays, Promise!Calls, Promise!Enqueue, Promise!Send,
                Promise!Reach, Promise!Refuse, Promise!Lose, Promise!Confirm, Promise!GiveUp
  <1>2. IInv /\ [Next]_vars =>
          [\A d \in Deliveries :
              /\ row[d].status \in {"committed", "failed", "cancelled", "ambiguous"}
                    => row'[d].status \notin {"pending", "sending"}
              /\ row[d].status = "committed" => row'[d].status = "committed"
              /\ row[d].status = "ambiguous" => row'[d].status \in {"ambiguous", "committed"}]_vars
    BY <1>1
  <1> QED BY <1>2, Invariance, PTL DEF Spec, SettledStaysSettled
=============================================================================
