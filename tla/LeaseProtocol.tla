---------------------------- MODULE LeaseProtocol ----------------------------
(***************************************************************************)
(* One campaign version of the DynamoDB table, shared by the SQS consumers *)
(* that execute its job (services/worker) and by the API calls that cancel *)
(* or retry it (services/api).  The version item carries its own lease     *)
(* (lease_owner, lease_job_id, lease_expires_at) and the optimistic        *)
(* lock_version; META carries the API's lock_version and event_sequence.   *)
(*                                                                         *)
(* A step of the module is one request to DynamoDB or SQS together with    *)
(* the local computation up to the next request.  What the pipeline        *)
(* computes is abstracted to the statuses it saves; step records other     *)
(* than PACKAGE are not modelled here.                                     *)
(***************************************************************************)
EXTENDS Naturals, FiniteSets

CONSTANTS
    Worker,               \* consumer processes; a restarted process has a new id
    Client,               \* API requests that may be in flight together
    Message,              \* SQS messages that may ever be sent: 1..n
    MaxAttempts,          \* RetryMetadata.max_attempts
    MaxDeliveryAttempts,  \* Settings.max_delivery_attempts
    MaxReceiveCount,      \* redrive policy: receives before the DLQ
    MaxLock,              \* bound of the model: no heartbeat beyond this lock_version
    MaxReceptions,        \* bound of the model: deliveries of all messages together
    Requests,             \* the API's operations considered
    None,                 \* no lease owner
    Gone,                 \* a lease owner whose process has died
    LostReplies           \* TRUE: a committed write may be reported as an error

ASSUME ConstantsAssumption ==
    /\ Message \subseteq Nat \ {0}
    /\ 1 \in Message
    /\ {MaxAttempts, MaxDeliveryAttempts, MaxReceiveCount, MaxLock, MaxReceptions} \subseteq Nat
    /\ Requests \subseteq {"cancel", "retry"}
    /\ None \notin Worker
    /\ Gone \notin Worker
    /\ None # Gone
    /\ LostReplies \in BOOLEAN

VARIABLES
    version,    \* the fields save_version writes as one body
    lock,       \* VERSION.lock_version
    lease,      \* the lease fields of the VERSION item
    meta,       \* META.lock_version and META.event_sequence
    done,       \* completion markers: <<operation, job>>
    events,     \* deterministic ids of the events in the log, and "CANCELLED"
    packaged,   \* the PACKAGE step record is SUCCEEDED
    messages,   \* the queue: what was sent, and how often it was received
    worker,     \* per consumer: what it is doing and what it has in memory
    client,     \* per API request: what it read and what it does next
    creating    \* the POST that created the campaign has yet to set QUEUED

vars == <<version, lock, lease, meta, done, events, packaged, messages,
          worker, client, creating>>

-----------------------------------------------------------------------------
Status == {"CREATED", "QUEUED", "READY_FOR_REVIEW", "FINAL", "FAILED", "CANCELLED"}
Operation == {"START", "RESUME"}

\* job 0 is START:1, job k is RETRY:1:k.  resume is "no" when the version is
\* not retryable or has no resume_step, else the operation retry() would send.
Version == [status : Status, job : Nat, attempt : Nat,
            resume : Operation \cup {"no"}]

Unset == [status |-> "CREATED", job |-> 0, attempt |-> 0, resume |-> "no"]
NoLease == [owner |-> None, job |-> 0, live |-> FALSE]
Unsent == [state |-> "unsent", job |-> 0, op |-> "START", received |-> 0]
Idle == [pc |-> "idle", msg |-> 1, exhausted |-> FALSE, current |-> Unset,
         starting |-> "CREATED", held |-> 0, beat |-> "off"]
Resting == [pc |-> "idle", op |-> "cancel", seen |-> Unset, lock |-> 0,
            metaLock |-> 0, metaSeq |-> 0]

Job(w) == messages[worker[w].msg].job
Key(w) == <<messages[worker[w].msg].op, Job(w)>>
At(w, label) == worker[w].pc = label

Goto(w, label) == worker' = [worker EXCEPT ![w].pc = label]
Abandon(w) == worker' = [worker EXCEPT ![w] = Idle]

Init ==
    /\ version = Unset
    /\ lock = 0
    /\ lease = NoLease
    /\ meta = [lock |-> 0, seq |-> 1]
    /\ done = {}
    /\ events = {}
    /\ packaged = FALSE
    /\ messages = [m \in Message |-> IF m = 1 THEN [Unsent EXCEPT !.state = "queued"] ELSE Unsent]
    /\ worker = [w \in Worker |-> Idle]
    /\ client = [c \in Client |-> Resting]
    /\ creating = TRUE

-----------------------------------------------------------------------------
(* The consumer: from a delivery to the lease.                             *)

\* Which message, for which time.
Receptions == UNION {{n} \X (1..messages[n].received) : n \in Message}

\* Any message still on the queue may be delivered, also to two consumers:
\* the queue is standard, and a visibility timeout may lapse at any time.
Receive(w, m) ==
    /\ At(w, "idle")
    /\ messages[m].state = "queued"
    /\ messages[m].received < MaxReceiveCount
    /\ Cardinality(Receptions) < MaxReceptions
    /\ messages' = [messages EXCEPT ![m].received = @ + 1]
    /\ worker' = [worker EXCEPT ![w] =
          [Idle EXCEPT !.pc = "received", !.msg = m,
             !.exhausted = messages[m].received + 1 > MaxDeliveryAttempts]]
    /\ UNCHANGED <<version, lock, lease, meta, done, events, packaged, client, creating>>

LoadVersion(w) ==
    /\ At(w, "received")
    /\ IF version.status = "CANCELLED" /\ ~worker[w].exhausted
         THEN Goto(w, "deleting")
         ELSE worker' = [worker EXCEPT ![w].pc = "loaded", ![w].current = version,
                                       ![w].starting = version.status]
    /\ UNCHANGED <<version, lock, lease, meta, done, events, packaged, messages, client, creating>>

Acquirable(w) ==
    /\ version.job = Job(w)
    /\ ~lease.live \/ lease.owner = w

AcquireLease(w) ==
    /\ At(w, "loaded")
    /\ IF Acquirable(w)
         THEN /\ lease' = [owner |-> w, job |-> Job(w), live |-> TRUE]
              /\ lock' = lock + 1
              /\ Goto(w, "acquired")
         ELSE /\ Abandon(w)
              /\ UNCHANGED <<lease, lock>>
    /\ UNCHANGED <<version, meta, done, events, packaged, messages, client, creating>>

\* acquire_lease learns its lock_version from a second request, so it adopts
\* whatever the item holds by then.
ReadLockVersion(w) ==
    /\ At(w, "acquired")
    /\ worker' = [worker EXCEPT ![w].held = lock,
                                ![w].pc = IF worker[w].exhausted THEN "exhausting" ELSE "leased"]
    /\ UNCHANGED <<version, lock, lease, meta, done, events, packaged, messages, client, creating>>

RevalidateMutant(w) ==
    /\ At(w, "leased")
    /\ Goto(w, "revalidated")
    /\ UNCHANGED <<version, lock, lease, meta, done, events, packaged, messages, client, creating>>

Revalidate(w) ==
    /\ At(w, "leased")
    /\ Goto(w, IF version.status = "CANCELLED" THEN "releasing" ELSE "revalidated")
    /\ UNCHANGED <<version, lock, lease, meta, done, events, packaged, messages, client, creating>>

CheckCompletedMutant(w) ==
    /\ At(w, "revalidated")
    /\ worker' = [worker EXCEPT ![w].beat = "on",
                     ![w].pc = IF Key(w)[1] = "START" THEN "starting" ELSE "packaging"]
    /\ UNCHANGED <<version, lock, lease, meta, done, events, packaged, messages, client, creating>>

CheckCompleted(w) ==
    /\ At(w, "revalidated")
    /\ IF Key(w) \in done
         THEN Goto(w, "releasing")
         ELSE worker' = [worker EXCEPT ![w].beat = "on",
                           ![w].pc = IF Key(w)[1] = "START" THEN "starting" ELSE "packaging"]
    /\ UNCHANGED <<version, lock, lease, meta, done, events, packaged, messages, client, creating>>

-----------------------------------------------------------------------------
(* The lease in use.  LeaseContext.lock keeps a worker's own writes from   *)
(* overtaking a heartbeat whose reply it has not applied yet.              *)

Running == {"starting", "graph", "packaging", "package", "rendering", "broken",
            "built", "skipped", "raised", "finished"}

\* Inside the PACKAGE node: a failure is attributed to that step.
InPackage == {"package", "rendering", "broken"}

MutexFreeMutant(w) == TRUE
MutexFree(w) == worker[w].beat # "sent"
Owns(w) == lease.owner = w /\ lock = worker[w].held
OwnsJob(w) == Owns(w) /\ lease.job = Job(w)

Heartbeat(w) ==
    /\ worker[w].pc \in Running
    /\ worker[w].beat = "on"
    /\ lock < MaxLock
    /\ IF OwnsJob(w) /\ lease.live
         THEN /\ lock' = lock + 1
              /\ \/ worker' = [worker EXCEPT ![w].beat = "sent"]
                 \/ LostReplies /\ UNCHANGED worker
         ELSE /\ worker' = [worker EXCEPT ![w].beat = "lost"]
              /\ UNCHANGED lock
    /\ UNCHANGED <<version, lease, meta, done, events, packaged, messages, client, creating>>

\* A reply that arrives after the lease has expired never gives the lock back.
HeartbeatReplyMutant(w) ==
    /\ worker[w].beat = "sent"
    /\ lease.live
    /\ worker' = [worker EXCEPT ![w].beat = "on", ![w].held = @ + 1]
    /\ UNCHANGED <<version, lock, lease, meta, done, events, packaged, messages, client, creating>>

HeartbeatReply(w) ==
    /\ worker[w].beat = "sent"
    /\ worker' = [worker EXCEPT ![w].beat = "on", ![w].held = @ + 1]
    /\ UNCHANGED <<version, lock, lease, meta, done, events, packaged, messages, client, creating>>

\* Two heartbeats in a row that reach neither SQS nor DynamoDB.
HeartbeatUnavailable(w) ==
    /\ worker[w].pc \in Running
    /\ worker[w].beat = "on"
    /\ lock < MaxLock
    /\ worker' = [worker EXCEPT ![w].beat = "lost"]
    /\ UNCHANGED <<version, lock, lease, meta, done, events, packaged, messages, client, creating>>

\* No writer but acquire_lease and heartbeat looks at lease_expires_at.
LeaseExpires ==
    /\ lease.live
    /\ lease' = [lease EXCEPT !.live = FALSE]
    /\ UNCHANGED <<version, lock, meta, done, events, packaged, messages, worker, client, creating>>

\* No event id is looked up before the write.
ReplayedMutant(evs) == FALSE

\* save_version(v, lease, evs): an event id already in the log makes the whole
\* call a replay that checks the lease and writes nothing.
Replayed(evs) == evs # {} /\ evs \subseteq events

Save(w, v, evs) ==
    /\ MutexFree(w)
    /\ Owns(w)
    /\ version' = IF Replayed(evs) THEN version ELSE v
    /\ events' = events \cup evs
    /\ meta' = [meta EXCEPT !.seq = IF evs \subseteq events THEN @ ELSE @ + 1]
    /\ UNCHANGED <<lock, lease, done, messages, client, creating>>

MilestoneEvent(w, status) == IF worker[w].starting = status THEN {} ELSE {<<status, 0>>}

-----------------------------------------------------------------------------
(* GraphJobProcessor.process.                                              *)

\* Chunks that carry the version on unchanged in status: the first chunk of
\* either stream, every step before the review package, and a PACKAGE step
\* that was already done.
SaveChunk(w) ==
    /\ worker[w].pc \in {"starting", "graph", "packaging", "skipped"}
    /\ Save(w, worker[w].current, {})
    /\ Goto(w, IF At(w, "packaging") THEN "package"
               ELSE IF At(w, "skipped") THEN "finished" ELSE "graph")
    /\ UNCHANGED packaged

SaveReview(w) ==
    LET reviewed == [worker[w].current EXCEPT !.status = "READY_FOR_REVIEW"] IN
    /\ At(w, "graph")
    /\ Save(w, reviewed, MilestoneEvent(w, "READY_FOR_REVIEW"))
    /\ worker' = [worker EXCEPT ![w].pc = "packaging", ![w].current = reviewed,
                                ![w].starting = "READY_FOR_REVIEW"]
    /\ UNCHANGED packaged

\* The PACKAGE step record is read and saved before, and without, the lease's
\* condition.  The RUNNING record is left out: it matters as little as no record.
StartPackage(w) ==
    /\ At(w, "package")
    /\ Goto(w, IF packaged THEN "skipped" ELSE "rendering")
    /\ UNCHANGED <<version, lock, lease, meta, done, events, packaged, messages, client, creating>>

FinishPackage(w) ==
    /\ At(w, "rendering")
    /\ packaged' = TRUE
    /\ Goto(w, "built")
    /\ UNCHANGED <<version, lock, lease, meta, done, events, messages, client, creating>>

\* The FAILED record overwrites whatever record there is by now, unless the
\* event of the same failure is already in the log.
FailPackage(w) ==
    /\ At(w, "rendering")
    /\ packaged' \in {packaged, FALSE}
    /\ Goto(w, "broken")
    /\ UNCHANGED <<version, lock, lease, meta, done, events, messages, client, creating>>

\* A save that committed may still raise.
AfterFinal == IF LostReplies THEN {"finished", "raised"} ELSE {"finished"}

SaveFinal(w) ==
    LET final == [worker[w].current EXCEPT !.status = "FINAL"] IN
    /\ At(w, "built")
    /\ Save(w, final, MilestoneEvent(w, "FINAL"))
    /\ \E label \in AfterFinal :
         worker' = [worker EXCEPT ![w].current = final, ![w].pc = label]
    /\ UNCHANGED packaged

FailedMutant(v, resume) == [v EXCEPT !.status = "FAILED", !.resume = resume]
Failed(v, resume) == [v EXCEPT !.status = "FAILED", !.attempt = @ + 1, !.resume = resume]

\* handle_failure: retryable while the next attempt is below the maximum.  The
\* step is the PACKAGE node's own, or else the last one with a terminal record;
\* no such record, or an error that is not retryable, also gives "no".
ResumeMutant(w) == "PACKAGE"
ResumeAt(w) == IF worker[w].pc \in InPackage THEN "RESUME" ELSE "START"

ResumeChoices(w) ==
    {"no"} \cup (IF worker[w].current.attempt + 1 < MaxAttempts THEN {ResumeAt(w)} ELSE {})

\* Any exception of the streams: _fail saves handle_failure's version.
RecordFailure(w) ==
    /\ worker[w].pc \in Running \ {"rendering", "finished"}
    /\ \E resume \in ResumeChoices(w) :
         LET failed == Failed(worker[w].current, resume) IN
         /\ Save(w, failed, {<<"FAILED", failed.attempt>>})
         /\ worker' = [worker EXCEPT ![w].pc = "finished", ![w].current = failed]
    /\ UNCHANGED packaged

\* A save that fails on the lease raises LeaseLost into _fail, whose own save
\* fails the same way: UNCERTAIN, the message stays on the queue.
LoseLease(w) ==
    /\ worker[w].pc \in Running \ {"package", "rendering", "finished"}
    /\ MutexFree(w)
    /\ ~Owns(w)
    /\ Abandon(w)
    /\ UNCHANGED <<version, lock, lease, meta, done, events, packaged, messages, client, creating>>

\* process() has returned: stop the heartbeat, then trust `lost`.
StopHeartbeat(w) ==
    /\ At(w, "finished")
    /\ MutexFree(w)
    /\ IF worker[w].beat = "lost"
         THEN Abandon(w)
         ELSE worker' = [worker EXCEPT ![w].pc = "completing", ![w].beat = "off"]
    /\ UNCHANGED <<version, lock, lease, meta, done, events, packaged, messages, client, creating>>

Complete(w) ==
    /\ At(w, "completing")
    /\ IF OwnsJob(w) /\ Key(w) \notin done
         THEN /\ done' = done \cup {Key(w)}
              /\ lease' = NoLease
              /\ lock' = lock + 1
              /\ Goto(w, "deleting")
         ELSE /\ Abandon(w)
              /\ UNCHANGED <<done, lease, lock>>
    /\ UNCHANGED <<version, meta, events, packaged, messages, client, creating>>

ReleaseMutant(w) ==
    /\ At(w, "releasing")
    /\ lease' = IF OwnsJob(w) THEN NoLease ELSE lease
    /\ lock' = IF OwnsJob(w) THEN lock + 1 ELSE lock
    /\ Goto(w, "deleting")
    /\ UNCHANGED <<version, meta, done, events, packaged, messages, client, creating>>

Release(w) ==
    /\ At(w, "releasing")
    /\ IF OwnsJob(w)
         THEN /\ lease' = NoLease
              /\ lock' = lock + 1
              /\ IF worker[w].exhausted THEN Abandon(w) ELSE Goto(w, "deleting")
         ELSE /\ Abandon(w)
              /\ UNCHANGED <<lease, lock>>
    /\ UNCHANGED <<version, meta, done, events, packaged, messages, client, creating>>

Delete(w) ==
    /\ At(w, "deleting")
    /\ messages' = [messages EXCEPT ![worker[w].msg].state =
                      IF @ = "queued" THEN "deleted" ELSE @]
    /\ Abandon(w)
    /\ UNCHANGED <<version, lock, lease, meta, done, events, packaged, client, creating>>

\* _mark_exhausted_campaign_failed after its lease: fail_delivery_exhausted on
\* the version read before the lease.  The save may not be attempted, be refused
\* or be unavailable; the release follows in every case.
FailExhausted(w) ==
    LET failed == Failed(worker[w].current, "no") IN
    /\ At(w, "exhausting")
    /\ Goto(w, "releasing")
    /\ \/ /\ worker[w].current.status \notin {"FAILED", "CANCELLED", "FINAL"}
          /\ Save(w, failed, {<<"FAILED", failed.attempt>>})
       \/ UNCHANGED <<version, events, meta, lock, lease, done, messages, client, creating>>
    /\ UNCHANGED packaged

\* The redrive policy takes the message at its next receive.
DeadLetter(m) ==
    /\ messages[m].state = "queued"
    /\ messages[m].received = MaxReceiveCount
    /\ messages' = [messages EXCEPT ![m].state = "dead"]
    /\ UNCHANGED <<version, lock, lease, meta, done, events, packaged, worker, client, creating>>

\* UNCERTAIN, at any request: DynamoDB or SQS unavailable.  The lease is left.
Uncertain(w) ==
    /\ ~At(w, "idle")
    /\ Abandon(w)
    /\ UNCHANGED <<version, lock, lease, meta, done, events, packaged, messages, client, creating>>

\* The process dies; its successor has another worker id.
Crash(w) ==
    /\ ~At(w, "idle") \/ lease.owner = w
    /\ Abandon(w)
    /\ lease' = IF lease.owner = w THEN [lease EXCEPT !.owner = Gone] ELSE lease
    /\ UNCHANGED <<version, lock, meta, done, events, packaged, messages, client, creating>>

-----------------------------------------------------------------------------
(* The API.  get() reads META, then VERSION; the write is conditional on   *)
(* both items being as read, so reading both at the later point loses no   *)
(* successful call.  The write gives both items the VERSION's next         *)
(* lock_version, whatever META's was.                                      *)

Cancellable == {"CREATED", "QUEUED", "READY_FOR_REVIEW"}

CancelAllowed(v) == v.status \in Cancellable
RetryAllowed(v) == v.status = "FAILED" /\ v.resume # "no"
RetryReplay(v) == v.status = "QUEUED" /\ v.attempt > 0 /\ v.job = v.attempt /\ v.resume # "no"

Read(c, op) ==
    /\ client[c].pc = "idle"
    /\ \/ op = "cancel" /\ CancelAllowed(version)
       \/ op = "retry" /\ (RetryAllowed(version) \/ RetryReplay(version))
    /\ client' = [client EXCEPT ![c] =
          [pc |-> IF op = "retry" /\ RetryReplay(version) THEN "submit" ELSE "commit",
           op |-> op, seen |-> version, lock |-> lock,
           metaLock |-> meta.lock, metaSeq |-> meta.seq]]
    /\ UNCHANGED <<version, lock, lease, meta, done, events, packaged, messages, worker, creating>>

AsRead(c) ==
    /\ meta.lock = client[c].metaLock
    /\ meta.seq = client[c].metaSeq
    /\ lock = client[c].lock

CommitCancel(c) ==
    /\ client[c].pc = "commit" /\ client[c].op = "cancel"
    /\ AsRead(c)
    /\ version' = [version EXCEPT !.status = "CANCELLED"]
    /\ lock' = lock + 1
    /\ meta' = [lock |-> lock + 1, seq |-> meta.seq + 2]
    /\ events' = events \cup {<<"CANCELLED", 0>>}
    /\ client' = [client EXCEPT ![c] = Resting]
    /\ UNCHANGED <<lease, done, packaged, messages, worker, creating>>

CommitRetryMutant(c) ==
    /\ client[c].pc = "commit" /\ client[c].op = "retry"
    /\ AsRead(c)
    /\ version' = [version EXCEPT !.status = "QUEUED", !.job = client[c].seen.attempt]
    /\ meta' = [lock |-> lock + 1, seq |-> meta.seq + 1]
    /\ client' = [client EXCEPT ![c].pc = "submit"]
    /\ UNCHANGED <<lock, lease, done, events, packaged, messages, worker, creating>>

CommitRetry(c) ==
    /\ client[c].pc = "commit" /\ client[c].op = "retry"
    /\ AsRead(c)
    /\ version' = [version EXCEPT !.status = "QUEUED", !.job = client[c].seen.attempt]
    /\ lock' = lock + 1
    /\ meta' = [lock |-> lock + 1, seq |-> meta.seq + 1]
    /\ client' = [client EXCEPT ![c].pc = "submit"]
    /\ UNCHANGED <<lease, done, events, packaged, messages, worker, creating>>

SubmitRetry(c, m) ==
    /\ client[c].pc = "submit"
    /\ messages[m].state = "unsent"
    /\ \A n \in Message : n < m => messages[n].state # "unsent"
    /\ messages' = [messages EXCEPT ![m] =
          [state |-> "queued", job |-> client[c].seen.attempt,
           op |-> client[c].seen.resume, received |-> 0]]
    /\ client' = [client EXCEPT ![c] = Resting]
    /\ UNCHANGED <<version, lock, lease, meta, done, events, packaged, worker, creating>>

\* A conflict, a failed submission or the death of the API process.
GiveUp(c) ==
    /\ client[c].pc # "idle"
    /\ client' = [client EXCEPT ![c] = Resting]
    /\ UNCHANGED <<version, lock, lease, meta, done, events, packaged, messages, worker, creating>>

\* The end of create(): START is on the queue, now CREATED becomes QUEUED.
MarkQueued ==
    /\ creating
    /\ creating' = FALSE
    /\ IF meta.lock = 0 /\ lock = 0
         THEN /\ version' = [version EXCEPT !.status = "QUEUED"]
              /\ lock' = 1
              /\ meta' = [meta EXCEPT !.lock = 1]
         ELSE UNCHANGED <<version, lock, meta>>
    /\ UNCHANGED <<lease, done, events, packaged, messages, worker, client>>

-----------------------------------------------------------------------------
WorkerStep(w) ==
    \/ \E m \in Message : Receive(w, m)
    \/ LoadVersion(w) \/ AcquireLease(w) \/ ReadLockVersion(w)
    \/ Revalidate(w) \/ CheckCompleted(w)
    \/ Heartbeat(w) \/ HeartbeatReply(w) \/ HeartbeatUnavailable(w)
    \/ SaveChunk(w) \/ SaveReview(w) \/ SaveFinal(w)
    \/ StartPackage(w) \/ FinishPackage(w) \/ FailPackage(w)
    \/ RecordFailure(w) \/ LoseLease(w)
    \/ StopHeartbeat(w) \/ Complete(w) \/ Release(w) \/ Delete(w)
    \/ FailExhausted(w) \/ Uncertain(w) \/ Crash(w)

ClientStep(c) ==
    \/ \E op \in Requests : Read(c, op)
    \/ CommitCancel(c) \/ CommitRetry(c)
    \/ \E m \in Message : SubmitRetry(c, m)
    \/ GiveUp(c)

Next ==
    \/ \E w \in Worker : WorkerStep(w)
    \/ \E c \in Client : ClientStep(c)
    \/ \E m \in Message : DeadLetter(m)
    \/ LeaseExpires
    \/ MarkQueued

Spec == Init /\ [][Next]_vars

\* What a consumer does when it is left alone: every request gets an answer and
\* the coroutine goes on.  Neither crashes, nor failures, nor heartbeats are owed.
Progress(w) ==
    \/ LoadVersion(w) \/ AcquireLease(w) \/ ReadLockVersion(w)
    \/ Revalidate(w) \/ CheckCompleted(w)
    \/ SaveChunk(w) \/ SaveReview(w) \/ SaveFinal(w)
    \/ StartPackage(w) \/ FinishPackage(w) \/ FailPackage(w)
    \/ RecordFailure(w) \/ LoseLease(w)
    \/ StopHeartbeat(w) \/ Complete(w) \/ Release(w) \/ Delete(w)
    \/ FailExhausted(w)

\* asyncio.Lock wakes its waiters in order: heartbeats may delay a save, never
\* for ever.
Fairness == \A w \in Worker : SF_vars(Progress(w)) /\ WF_vars(HeartbeatReply(w))

FairSpec == Spec /\ Fairness

-----------------------------------------------------------------------------
InFlight == {"received", "loaded", "acquired", "leased", "revalidated", "exhausting",
             "completing", "releasing", "deleting"} \cup Running

Delivery == [state : {"unsent", "queued", "deleted", "dead"}, job : Nat,
             op : Operation, received : Nat]

Consumer == [pc : InFlight \cup {"idle"}, msg : Message, exhausted : BOOLEAN,
             current : Version, starting : Status, held : Nat,
             beat : {"off", "on", "sent", "lost"}]

Request == [pc : {"idle", "commit", "submit"}, op : {"cancel", "retry"}, seen : Version,
            lock : Nat, metaLock : Nat, metaSeq : Nat]

\* Every variable has its type.  What could break it: a message sent for a version
\* whose resume_step names no operation (campaign_service.py:301).
TypeOK ==
    /\ version \in Version
    /\ lock \in Nat
    /\ lease \in [owner : Worker \cup {None, Gone}, job : Nat, live : BOOLEAN]
    /\ meta \in [lock : Nat, seq : Nat]
    /\ done \subseteq Operation \X Nat
    /\ events \subseteq Status \X Nat
    /\ packaged \in BOOLEAN
    /\ messages \in [Message -> Delivery]
    /\ worker \in [Worker -> Consumer]
    /\ client \in [Client -> Request]
    /\ creating \in BOOLEAN

-----------------------------------------------------------------------------
\* The pcs between acquire_lease's reply and the end of the lease.
Leased == {"leased", "revalidated", "exhausting", "completing", "releasing"} \cup Running

Processing(w) == worker[w].pc \in Running \cup {"completing"}

\* What w will hold once the reply to its heartbeat has been applied.
HeldSoon(w) == IF worker[w].beat = "sent" THEN worker[w].held + 1 ELSE worker[w].held

\* w's next conditional write would be accepted.
MayWrite(w) == lease.owner = w /\ worker[w].pc \in Leased /\ lock = HeldSoon(w)

\* Once complete() has recorded a job, no worker that still executes a delivery
\* of it can change the version: neither the slow worker that lost its lease nor
\* the one that took over (sqs_consumer.py:161, dynamodb_workflow_repository.py:156).
CompletedJobIsQuiet ==
    \A w \in Worker : Processing(w) /\ MayWrite(w) => Key(w) \notin done

\* A message leaves the queue only after its job was recorded as completed or
\* its version was cancelled (sqs_consumer.py:199, 143, 157, 163).
AckIsDurable ==
    \A m \in Message : messages[m].state = "deleted" =>
        \/ <<messages[m].op, messages[m].job>> \in done
        \/ <<"CANCELLED", 0>> \in events

\* The self-race LeaseContext.lock is there to prevent (workflow_repository.py:19):
\* as long as a worker that executes a job stays the lease owner, only a write of
\* the API can make its lock_version stale, never its own heartbeats.
NoSelfFencing ==
    [][\A w \in Worker :
         Processing(w) /\ MayWrite(w) /\ (Processing(w) /\ lease.owner = w /\ ~MayWrite(w))'
             => meta'.lock # meta.lock]_vars

\* A late result of the pipeline never replaces CANCELLED (campaign-lifecycle.md:21).
\* The one writer this leaves out is the exhaustion path, which does not look at
\* the status again after it took the lease: see CancelledImmutable.
CancelledStays ==
    [][version.status = "CANCELLED" /\ version'.status # "CANCELLED" =>
         \E w \in Worker : At(w, "exhausting")]_vars

Sent(m) == messages[m].state # "unsent"

\* A retry's job is named by the attempt it follows, and by nothing else
\* (campaign_service.py:331): whichever workers recorded their failures under that
\* attempt, and from however old a copy, all that is submitted under the name is one
\* operation, the one the version asks for.  Else the completion marker, which is of
\* the operation and the job, would let both run (campaign_service.py:380).
OneRetryPerFailure ==
    /\ \A m, n \in Message : Sent(m) /\ Sent(n) /\ messages[m].job = messages[n].job
                               => messages[m].op = messages[n].op
    /\ \A m \in Message : Sent(m) /\ messages[m].job > 0 /\ messages[m].job = version.attempt
                            => messages[m].op = version.resume
    /\ \A c \in Client : client[c].pc = "submit" /\ client[c].seen.attempt = version.attempt
                           => client[c].seen.resume = version.resume

\* A consumer gets back to receive() from every delivery: it never waits for ever
\* on its own heartbeat, on the lease of another or on a write that keeps being
\* refused (sqs_consumer.py:177-197).
DeliveryEnds == \A w \in Worker : ~At(w, "idle") ~> At(w, "idle")

\* Detailed to abstract: the lease, the lock_version and what each worker holds
\* implement a version with one writer, whom every API write dismisses.
Writer == IF lease.owner \in Worker /\ MayWrite(lease.owner) THEN lease.owner ELSE None

Fenced == INSTANCE FencedVersion WITH revision <- meta.lock, writer <- Writer
FencedSpec == Fenced!Spec

-----------------------------------------------------------------------------
(* What the documents say and the code does not do.                        *)

\* data-model.md:86: a CANCELLED version is immutable.  fail_delivery_exhausted decides on
\* the version that was read before the lease.
CancelledImmutable == [][version.status = "CANCELLED" => version' = version]_vars
==============================================================================
