--------------------------- MODULE OfficialFiles ---------------------------
(***************************************************************************)
(* The files the bot sends on the official QQ platform: their bytes on     *)
(* disk (blob_store.py), the artifact and delivery rows that own them      *)
(* (qq_official/file_artifacts.py), and the calls that read, upload and    *)
(* queue them (file_dispatcher.py).                                        *)
(*                                                                         *)
(* Two artifacts of the same bytes share one object on disk, which is not  *)
(* covered by any transaction: it is written before the row that needs it  *)
(* is committed, and unlinked after the row that no longer needs it was.   *)
(* An advisory lock of the database keeps writers and collectors apart; tx *)
(* is the transaction that holds it.                                       *)
(*                                                                         *)
(* A file may be sent by the turn that made it and by its durable job at   *)
(* the same time.  An asyncio lock of the running service keeps the two    *)
(* apart, the epoch of the account lease keeps them from the calls of a    *)
(* service that lost it.  The delivery itself is OfficialOutbox's: here it *)
(* is the status of its row.                                               *)
(***************************************************************************)
EXTENDS Integers

CONSTANTS
    Artifacts,      \* request keys: one row each
    Contents,       \* digests
    Sha,            \* the digest of each request's bytes
    Calls,          \* calls of send_artifact in progress
    Jobs,           \* those of them that the durable worker makes
    SessionLoss,    \* may the lock's database session end before an unlink?
    MaxEpochs       \* bound on the times the lease is acquired

\* What the constants have to be.
ConstantsOK ==
    /\ Sha \in [Artifacts -> Contents]
    /\ Jobs \subseteq Calls
    /\ SessionLoss \in BOOLEAN
    /\ MaxEpochs \in Nat \ {0}

VARIABLES
    live,       \* somebody holds the account's lease
    epoch,      \* its fencing_epoch
    bytes,      \* bytes_state of each artifact, "none" without a row
    pending,    \* cleanup_pending
    due,        \* retain_until, which is the pending deadline, has passed
    state,      \* state of the file's delivery row
    plan,       \* active_plan_id is set
    out,        \* status of that plan's delivery
    disk,       \* objects on disk
    fresh,      \* those less than 24 hours old
    doomed,     \* objects a collector without its lock is about to unlink
    tx,         \* the transaction that holds BLOB_LOCK
    stage,      \* how far a call is
    file,       \* the artifact it sends
    since       \* the epoch of the service that runs it

accountLease == <<live, epoch>>
manifest == <<bytes, pending, due>>
delivery == <<state, plan, out>>
blobStore == <<disk, fresh, doomed, tx>>
call == <<stage, file, since>>
filesVars == <<accountLease, manifest, delivery, blobStore, call>>

NoTx == [kind |-> "none"]
Tx(kind, item) == [kind |-> kind, item |-> item]

Steps == {"idle", "waiting", "load", "read", "upload", "queue", "send", "notify"}
Inside == {"load", "read", "upload", "queue", "send"}
Settled == {"message_accepted", "failed", "expired"}

FilesInit ==
    /\ live = FALSE /\ epoch = 0
    /\ bytes = [a \in Artifacts |-> "none"]
    /\ pending = [a \in Artifacts |-> FALSE]
    /\ due = [a \in Artifacts |-> FALSE]
    /\ state = [a \in Artifacts |-> "none"]
    /\ plan = [a \in Artifacts |-> FALSE]
    /\ out = [a \in Artifacts |-> "none"]
    /\ disk = {} /\ fresh = {} /\ doomed = {}
    /\ tx = NoTx
    /\ stage = [k \in Calls |-> "idle"]
    /\ file \in [Calls -> Artifacts]
    /\ since = [k \in Calls |-> 0]

-----------------------------------------------------------------------------
(* The account lease and the clock.                                        *)

\* A transaction that asserted the epoch keeps the account's row locked, so
\* the lease changes hands between transactions only.
AcquireLease ==
    /\ ~live /\ tx = NoTx
    /\ epoch < MaxEpochs
    /\ live' = TRUE
    /\ epoch' = epoch + 1
    /\ UNCHANGED <<manifest, delivery, blobStore, call>>

LoseLease ==
    /\ live /\ epoch < MaxEpochs
    /\ live' = FALSE
    /\ UNCHANGED <<epoch, manifest, delivery, blobStore, call>>

Deadline(a) ==
    /\ ~due[a]
    /\ due' = [due EXCEPT ![a] = TRUE]
    /\ UNCHANGED <<accountLease, bytes, pending, delivery, blobStore, call>>

GraceOver(c) ==
    /\ c \in fresh
    /\ fresh' = fresh \ {c}
    /\ UNCHANGED <<accountLease, manifest, delivery, disk, doomed, tx, call>>

-----------------------------------------------------------------------------
(* BLOB_LOCK, and what is done under it.                                   *)

Owners(c) == {a \in Artifacts : Sha[a] = c /\ bytes[a] = "available"}

\* Takes the lock, asserts the epoch, and begins.
BeginTx(kind, item) == tx = NoTx /\ live /\ tx' = Tx(kind, item)

\* A transaction that fails or loses its session gives the lock back.
Rollback ==
    /\ tx # NoTx
    /\ tx' = NoTx
    /\ UNCHANGED <<accountLease, manifest, delivery, disk, fresh, doomed, call>>

\* register: a request that has its row already is answered from it
RegisterBegin(a) ==
    /\ bytes[a] = "none" /\ ~due[a]
    /\ BeginTx("register", a)
    /\ UNCHANGED <<accountLease, manifest, delivery, disk, fresh, doomed, call>>

\* _store_blob: an object that is there is used as it is, with its age
StoreBlob(a) ==
    /\ tx = Tx("register", a)
    /\ tx' = Tx("stored", a)
    /\ disk' = disk \cup {Sha[a]}
    /\ fresh' = IF Sha[a] \in disk THEN fresh ELSE fresh \cup {Sha[a]}
    /\ UNCHANGED <<accountLease, manifest, delivery, doomed, call>>

\* The source is read again before the row, its job and its delivery.
RegisterCommit(a) ==
    /\ tx = Tx("stored", a)
    /\ live /\ ~due[a]
    /\ tx' = NoTx
    /\ bytes' = [bytes EXCEPT ![a] = "available"]
    /\ state' = [state EXCEPT ![a] = "stored"]
    /\ UNCHANGED <<accountLease, pending, due, plan, out, disk, fresh, doomed, call>>

\* collect_expired: a bounded batch of tombstones, in one transaction
CollectExpired(batch) ==
    /\ tx = NoTx /\ live
    /\ batch # {}
    /\ \A a \in batch : bytes[a] = "available" /\ due[a]
    /\ bytes' = [a \in Artifacts |-> IF a \in batch THEN "deleted" ELSE bytes[a]]
    /\ pending' = [a \in Artifacts |-> a \in batch \/ pending[a]]
    /\ state' = [a \in Artifacts |-> IF a \in batch /\ state[a] \notin Settled
                                     THEN "expired" ELSE state[a]]
    /\ UNCHANGED <<accountLease, due, plan, out, blobStore, call>>

\* retry_cleanup, for one tombstone: bytes that another row needs stay
CleanupShared(a) ==
    /\ tx = NoTx /\ live
    /\ bytes[a] = "deleted" /\ pending[a]
    /\ Owners(Sha[a]) # {}
    /\ pending' = [pending EXCEPT ![a] = FALSE]
    /\ UNCHANGED <<accountLease, bytes, due, delivery, blobStore, call>>

CleanupBegin(a) ==
    /\ bytes[a] = "deleted" /\ pending[a]
    /\ Owners(Sha[a]) = {}
    /\ BeginTx("cleanup", a)
    /\ UNCHANGED <<accountLease, manifest, delivery, disk, fresh, doomed, call>>

Unlink(c) == disk' = disk \ {c} /\ fresh' = fresh \ {c}

CleanupUnlink(a) ==
    /\ tx = Tx("cleanup", a)
    /\ tx' = Tx("removed", a)
    /\ Unlink(Sha[a])
    /\ UNCHANGED <<accountLease, manifest, delivery, doomed, call>>

CleanupCommit(a) ==
    /\ tx = Tx("removed", a)
    /\ tx' = NoTx
    /\ pending' = [pending EXCEPT ![a] = FALSE]
    /\ UNCHANGED <<accountLease, bytes, due, delivery, disk, fresh, doomed, call>>

\* collect_orphans, for one old object of its page
OrphanBegin(c) ==
    /\ c \in disk \ fresh
    /\ Owners(c) = {}
    /\ BeginTx("orphan", c)
    /\ UNCHANGED <<accountLease, manifest, delivery, disk, fresh, doomed, call>>

OrphanUnlink(c) ==
    /\ tx = Tx("orphan", c)
    /\ tx' = NoTx
    /\ Unlink(c)
    /\ UNCHANGED <<accountLease, manifest, delivery, doomed, call>>

\* The session of a collector ends after its last query and before its
\* unlink: the lock is free, the unlink still comes.
Cut(c) ==
    /\ SessionLoss
    /\ \/ tx = Tx("orphan", c)
       \/ \E a \in Artifacts : Sha[a] = c /\ tx = Tx("cleanup", a)
    /\ tx' = NoTx
    /\ doomed' = doomed \cup {c}
    /\ UNCHANGED <<accountLease, manifest, delivery, disk, fresh, call>>

LateUnlink(c) ==
    /\ c \in doomed
    /\ Unlink(c)
    /\ doomed' = doomed \ {c}
    /\ UNCHANGED <<accountLease, manifest, delivery, tx, call>>

-----------------------------------------------------------------------------
(* send_artifact, and the job's handler around it.                         *)

\* _account: the service of this call is the one that holds the lease.
Fenced(k) == live /\ since[k] = epoch

Go(k, next) == stage' = [stage EXCEPT ![k] = next] /\ UNCHANGED <<file, since>>

\* A FileUploadError or any other one: the turn gets it, the job reports it
\* (LeaseLost passes both: without the lease no notice can be queued either).
Raise(k) == Go(k, IF k \in Jobs THEN "notify" ELSE "idle")

\* The turn that registered the file, or a delivery of its durable job.
Enter(k, a) ==
    /\ stage[k] = "idle"
    /\ live /\ bytes[a] # "none"
    /\ stage' = [stage EXCEPT ![k] = "waiting"]
    /\ file' = [file EXCEPT ![k] = a]
    /\ since' = [since EXCEPT ![k] = epoch]
    /\ UNCHANGED <<accountLease, manifest, delivery, blobStore>>

\* One asyncio.Lock per artifact and service.
Lock(k) ==
    /\ stage[k] = "waiting"
    /\ \A j \in Calls : stage[j] \in Inside => <<file[j], since[j]>> # <<file[k], since[k]>>
    /\ Go(k, "load")
    /\ UNCHANGED <<accountLease, manifest, delivery, blobStore>>

Load(k) ==
    /\ stage[k] = "load"
    /\ Fenced(k)
    /\ Go(k, IF plan[file[k]] THEN "send" ELSE "read")
    /\ UNCHANGED <<accountLease, manifest, delivery, blobStore>>

\* read_verified, under BLOB_LOCK
Read(k) ==
    /\ stage[k] = "read"
    /\ Fenced(k) /\ tx = NoTx
    /\ bytes[file[k]] = "available" /\ ~due[file[k]] /\ Sha[file[k]] \in disk
    /\ Go(k, "upload")
    /\ UNCHANGED <<accountLease, manifest, delivery, blobStore>>

Upload(k) ==
    /\ stage[k] = "upload"
    /\ Go(k, "queue")
    /\ UNCHANGED <<accountLease, manifest, delivery, blobStore>>

\* _queue: a plan that exists is found by its logical key
Queue(k) ==
    /\ stage[k] = "queue"
    /\ Fenced(k)
    /\ ~due[file[k]]
    /\ state' = [state EXCEPT ![file[k]] = "handed_off"]
    /\ plan' = [plan EXCEPT ![file[k]] = TRUE]
    /\ out' = [out EXCEPT ![file[k]] = IF plan[file[k]] THEN @ ELSE "pending"]
    /\ Go(k, "send")
    /\ UNCHANGED <<accountLease, manifest, blobStore>>

\* send_delivery returned
Sent(k) ==
    /\ stage[k] = "send"
    /\ out[file[k]] = "committed"
    /\ Go(k, "idle")
    /\ UNCHANGED <<accountLease, manifest, delivery, blobStore>>

\* Any step may raise: a lost lease, no permission, bytes that are gone, an
\* upload that fails, a plan that is refused, a message that did not arrive.
Fail(k) ==
    /\ stage[k] \in Inside
    /\ stage[k] = "send" => ~Fenced(k) \/ out[file[k]] \in {"failed", "ambiguous"}
    /\ Raise(k)
    /\ UNCHANGED <<accountLease, manifest, delivery, blobStore>>

\* _notify: the lock is free again, and only a file without a plan failed
Notify(k) ==
    /\ stage[k] = "notify"
    /\ Fenced(k)
    /\ state' = [state EXCEPT ![file[k]] = IF plan[file[k]] THEN @ ELSE "failed"]
    /\ Go(k, "idle")
    /\ UNCHANGED <<accountLease, manifest, plan, out, blobStore>>

\* The process of the call dies, or its notice cannot be queued either.
Vanish(k) ==
    /\ stage[k] # "idle"
    /\ Go(k, "idle")
    /\ UNCHANGED <<accountLease, manifest, delivery, blobStore>>

-----------------------------------------------------------------------------
(* The sender: OfficialOutbox in short, with what it asks of a file.       *)

\* prepare: assert_file_current by the plan
Prepare(a) ==
    /\ live
    /\ out[a] = "pending"
    /\ state[a] \in {"handed_off", "message_accepted"}
    /\ bytes[a] = "available" /\ ~due[a]
    /\ out' = [out EXCEPT ![a] = "sending"]
    /\ UNCHANGED <<accountLease, manifest, state, plan, blobStore, call>>

\* finalize_receipt, in this epoch or a later one
Accept(a) ==
    /\ live
    /\ out[a] \in {"sending", "ambiguous"}
    /\ out' = [out EXCEPT ![a] = "committed"]
    /\ state' = [state EXCEPT ![a] = "message_accepted"]
    /\ UNCHANGED <<accountLease, manifest, plan, blobStore, call>>

\* Refused by the platform, expired or unauthorised; or nobody knows.
Refused(a, status) ==
    /\ live
    /\ \/ out[a] \in {"pending", "sending"} /\ status = "failed"
       \/ out[a] = "sending" /\ status = "ambiguous"
    /\ out' = [out EXCEPT ![a] = status]
    /\ UNCHANGED <<accountLease, manifest, state, plan, blobStore, call>>

-----------------------------------------------------------------------------
Account == AcquireLease \/ LoseLease \/ Rollback

OfArtifact(a) ==
    \/ Deadline(a)
    \/ RegisterBegin(a) \/ StoreBlob(a) \/ RegisterCommit(a)
    \/ CleanupShared(a) \/ CleanupBegin(a) \/ CleanupUnlink(a) \/ CleanupCommit(a)
    \/ Prepare(a) \/ Accept(a) \/ \E s \in {"failed", "ambiguous"} : Refused(a, s)

OfObject(c) == GraceOver(c) \/ OrphanBegin(c) \/ OrphanUnlink(c) \/ Cut(c) \/ LateUnlink(c)

OfCall(k) ==
    \/ \E a \in Artifacts : Enter(k, a)
    \/ Lock(k) \/ Load(k) \/ Read(k) \/ Upload(k) \/ Queue(k) \/ Sent(k)
    \/ Fail(k) \/ Notify(k) \/ Vanish(k)

FilesNext ==
    \/ Account
    \/ \E a \in Artifacts : OfArtifact(a)
    \/ \E batch \in SUBSET Artifacts : CollectExpired(batch)
    \/ \E c \in Contents : OfObject(c)
    \/ \E k \in Calls : OfCall(k)

FilesSpec == FilesInit /\ [][FilesNext]_filesVars

\* maintain runs every 30 seconds under the lease, which somebody acquires
\* again; a transaction ends, one that fails is tried again.
Fairness ==
    /\ WF_filesVars(AcquireLease) /\ WF_filesVars(Rollback)
    /\ \A c \in Contents : /\ WF_filesVars(GraceOver(c))
                           /\ SF_filesVars(OrphanBegin(c)) /\ SF_filesVars(OrphanUnlink(c))

FairSpec == FilesSpec /\ Fairness

-----------------------------------------------------------------------------
Transactions ==
    {NoTx} \cup [kind : {"register", "stored", "cleanup", "removed"}, item : Artifacts]
           \cup [kind : {"orphan"}, item : Contents]

FilesTypeOK ==
    /\ live \in BOOLEAN /\ epoch \in Nat
    /\ bytes \in [Artifacts -> {"none", "available", "deleted"}]
    /\ pending \in [Artifacts -> BOOLEAN]
    /\ due \in [Artifacts -> BOOLEAN]
    /\ state \in [Artifacts -> {"none", "stored", "handed_off"} \cup Settled]
    /\ plan \in [Artifacts -> BOOLEAN]
    /\ out \in [Artifacts -> {"none", "pending", "sending", "committed", "failed", "ambiguous"}]
    /\ disk \subseteq Contents /\ fresh \subseteq disk /\ doomed \subseteq Contents
    /\ tx \in Transactions
    /\ stage \in [Calls -> Steps]
    /\ file \in [Calls -> Artifacts]
    /\ since \in [Calls -> Nat]

\* The bytes of every artifact that is called available are on disk: no
\* rollback, no other artifact of the same bytes and no collector takes them.
AvailableHasBytes == \A a \in Artifacts : bytes[a] = "available" => Sha[a] \in disk

\* A file whose bytes were given up is waited for no longer: its delivery was
\* sent, failed or expired, and no call queues it again.
NothingWaitsForLostBytes ==
    \A a \in Artifacts : bytes[a] = "deleted" => state[a] \notin {"stored", "handed_off"}

\* The file's row says accepted only of a message the platform accepted.
AcceptedIsTrue == \A a \in Artifacts : state[a] = "message_accepted" => out[a] = "committed"

\* Nothing makes an accepted file wait, fail or expire again: not a second
\* call, not the job after a restart, not the collector.
AcceptedStays ==
    [][\A a \in Artifacts : state[a] = "message_accepted" => state'[a] = "message_accepted"]_filesVars

\* An object that no artifact needs is removed in the end, unless one comes
\* to need it.
LeftoversGo ==
    \A c \in Contents : c \in disk /\ Owners(c) = {} ~> c \notin disk \/ Owners(c) # {}
=============================================================================
