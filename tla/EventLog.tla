------------------------------- MODULE EventLog -------------------------------
(***************************************************************************)
(* The event log of one campaign: EVENT items numbered by META's           *)
(* event_sequence, appended by workers and by the API without a lock.      *)
(*                                                                         *)
(* A worker appends one event together with the state it describes, either *)
(* a STEP record (save_step, no condition on the lease) or the VERSION     *)
(* body (save_version, conditional on the lease), in a loop of requests:   *)
(* is the event id in the log, what is the sequence, one transaction.      *)
(* The lease is abstracted to its owner and the VERSION's lock_version;    *)
(* the events of one STEP item stand for those of all.                     *)
(***************************************************************************)
EXTENDS Naturals, Sequences

CONSTANTS
    Worker,      \* processes that may execute a delivery of the job
    Client,      \* API requests in flight
    StepEvent,   \* deterministic ids of the events of one STEP item
    Milestone,   \* deterministic ids of the events saved with the version
    ApiEvent,    \* ids the API draws at random, one per event
    Created,     \* the event of the campaign's creation
    None,        \* no owner, no STEP item
    Retries,     \* _MAX_EVENT_SEQUENCE_RETRIES
    MaxSeq,      \* bound of the model: no longer log
    MaxLock      \* bound of the model: no acquisition or heartbeat beyond it

Id == StepEvent \cup Milestone \cup ApiEvent \cup {Created}

ASSUME EventLogAssumption ==
    /\ StepEvent \cap Milestone = {}
    /\ (StepEvent \cup Milestone) \cap (ApiEvent \cup {Created}) = {}
    /\ Created \notin ApiEvent
    /\ None \notin Worker \cup StepEvent
    /\ Retries \in Nat \ {0}
    /\ {MaxSeq, MaxLock} \subseteq Nat

VARIABLES
    log,       \* EVENT items: their sequence and their event_id
    seq,       \* META.event_sequence
    metaLock,  \* META.lock_version
    owner,     \* VERSION.lease_owner
    lock,      \* VERSION.lock_version
    record,    \* the event that the STEP item was written with
    worker,    \* per worker: the call it is in and the lock_version it holds
    client     \* per API request: what it read

vars == <<log, seq, metaLock, owner, lock, record, worker, client>>

-----------------------------------------------------------------------------
Ids == {r.id : r \in log}

\* first is a history: the sequence at the call's first _read_event_sequence.
Idle == [pc |-> "idle", id |-> Created, left |-> Retries, seen |-> 0, first |-> 0, held |-> 0]
Resting == [pc |-> "idle", metaLock |-> 0, seq |-> 0, lock |-> 0]

At(w, label) == worker[w].pc = label
Goto(w, label) == worker' = [worker EXCEPT ![w].pc = label]
Finish(w) == worker' = [worker EXCEPT ![w] = [Idle EXCEPT !.held = worker[w].held]]

Init ==
    /\ log = {[seq |-> 1, id |-> Created]}
    /\ seq = 1
    /\ metaLock = 0
    /\ owner = None
    /\ lock = 0
    /\ record = None
    /\ worker = [w \in Worker |-> Idle]
    /\ client = [c \in Client |-> Resting]

-----------------------------------------------------------------------------
(* The lease, seen from the log.                                           *)

\* The lease is free or has expired, or is the worker's own.
Acquire(w) ==
    /\ At(w, "idle")
    /\ lock < MaxLock
    /\ owner' = w
    /\ lock' = lock + 1
    /\ worker' = [worker EXCEPT ![w] = [Idle EXCEPT !.pc = "acquired"]]
    /\ UNCHANGED <<log, seq, metaLock, record, client>>

ReadLockVersion(w) ==
    /\ At(w, "acquired")
    /\ worker' = [worker EXCEPT ![w].pc = "idle", ![w].held = lock]
    /\ UNCHANGED <<log, seq, metaLock, owner, lock, record, client>>

Owns(w) == owner = w /\ lock = worker[w].held

\* LeaseContext.lock: never during the worker's own save_version.  The reply
\* may be lost, and then the worker's lock_version is stale.
Heartbeat(w) ==
    /\ Owns(w)
    /\ lock < MaxLock
    /\ worker[w].id \in Milestone => At(w, "idle")
    /\ lock' = lock + 1
    /\ worker' \in {[worker EXCEPT ![w].held = @ + 1], worker}
    /\ UNCHANGED <<log, seq, metaLock, owner, record, client>>

\* complete or release.
Release(w) ==
    /\ At(w, "idle")
    /\ Owns(w)
    /\ lock < MaxLock
    /\ owner' = None
    /\ lock' = lock + 1
    /\ UNCHANGED <<log, seq, metaLock, record, worker, client>>

-----------------------------------------------------------------------------
(* _write_state_with_events.                                               *)

\* save_step or save_version with the event e.  A worker that lost its lease
\* does not know and goes on.
Begin(w, e) ==
    /\ At(w, "idle")
    /\ worker[w].held # 0
    /\ worker' = [worker EXCEPT ![w] = [Idle EXCEPT !.pc = "check", !.id = e, !.held = worker[w].held]]
    /\ UNCHANGED <<log, seq, metaLock, owner, lock, record, client>>

\* The replay rewrites the STEP item it is asked to save.
CheckEventMutant(w) ==
    /\ At(w, "check")
    /\ IF worker[w].id \notin Ids THEN Goto(w, "read")
       ELSE IF worker[w].id \in Milestone THEN Goto(w, "validate") ELSE Finish(w)
    /\ record' = IF worker[w].id \in Ids \cap StepEvent THEN worker[w].id ELSE record
    /\ UNCHANGED <<log, seq, metaLock, owner, lock, client>>

\* _event_exists.  For save_step a replay is over here; save_version still
\* checks its lease.
CheckEvent(w) ==
    /\ At(w, "check")
    /\ IF worker[w].id \notin Ids THEN Goto(w, "read")
       ELSE IF worker[w].id \in Milestone THEN Goto(w, "validate") ELSE Finish(w)
    /\ UNCHANGED <<log, seq, metaLock, owner, lock, record, client>>

\* _validate_replay_state: whether the lease holds or not, nothing is written.
ValidateReplay(w) ==
    /\ At(w, "validate")
    /\ Finish(w)
    /\ UNCHANGED <<log, seq, metaLock, owner, lock, record, client>>

FirstRead(w) == IF worker[w].first = 0 THEN seq ELSE worker[w].first

\* The sequence is read once, not in every round of the loop.
ReadSequenceMutant(w) ==
    /\ At(w, "read")
    /\ worker' = [worker EXCEPT ![w].pc = "commit", ![w].seen = FirstRead(w), ![w].first = FirstRead(w)]
    /\ UNCHANGED <<log, seq, metaLock, owner, lock, record, client>>

ReadSequence(w) ==
    /\ At(w, "read")
    /\ worker' = [worker EXCEPT ![w].pc = "commit", ![w].seen = seq, ![w].first = FirstRead(w)]
    /\ UNCHANGED <<log, seq, metaLock, owner, lock, record, client>>

\* A transaction without the condition on the lease, or on the sequence.
LeaseRefusesMutant(w) == FALSE
SequenceRefusesMutant(w) == FALSE

\* The reasons for which the transaction is cancelled, in the order they are
\* looked at: the lease, META's sequence, an item at the event's own key.
LeaseRefuses(w) == worker[w].id \in Milestone /\ ~Owns(w)
SequenceRefuses(w) == seq # worker[w].seen
Item(w) == [seq |-> worker[w].seen + 1, id |-> worker[w].id]

Append1(w) ==
    /\ At(w, "commit")
    /\ ~LeaseRefuses(w) /\ ~SequenceRefuses(w) /\ Item(w) \notin log
    /\ worker[w].seen < MaxSeq
    /\ log' = log \cup {Item(w)}
    /\ seq' = worker[w].seen + 1
    /\ record' = IF worker[w].id \in StepEvent THEN worker[w].id ELSE record
    /\ Finish(w)
    /\ UNCHANGED <<metaLock, owner, lock, client>>

\* LeaseLost, or the event's key is taken: a matching event counts as done.
Refused(w) ==
    /\ At(w, "commit")
    /\ LeaseRefuses(w) \/ (~SequenceRefuses(w) /\ Item(w) \in log)
    /\ Finish(w)
    /\ UNCHANGED <<log, seq, metaLock, owner, lock, record, client>>

\* The budget is compared before it is spent.
ContendedMutant(w) ==
    /\ At(w, "commit")
    /\ ~LeaseRefuses(w) /\ SequenceRefuses(w)
    /\ worker' = [worker EXCEPT ![w].left = @ - 1,
                     ![w].pc = IF worker[w].left = 0 THEN "idle" ELSE "check"]
    /\ UNCHANGED <<log, seq, metaLock, owner, lock, record, client>>

\* Someone else advanced the sequence: again from the replay check, until the
\* budget is spent.
Contended(w) ==
    /\ At(w, "commit")
    /\ ~LeaseRefuses(w) /\ SequenceRefuses(w)
    /\ worker' = [worker EXCEPT ![w].left = @ - 1,
                     ![w].pc = IF worker[w].left = 1 THEN "idle" ELSE "check"]
    /\ UNCHANGED <<log, seq, metaLock, owner, lock, record, client>>

\* A request fails, or its reply is lost.
Unavailable(w) ==
    /\ ~At(w, "idle")
    /\ Finish(w)
    /\ UNCHANGED <<log, seq, metaLock, owner, lock, record, client>>

-----------------------------------------------------------------------------
(* The API appends its events in the transaction of cancel or retry.       *)

Read(c) ==
    /\ client[c].pc = "idle"
    /\ client' = [client EXCEPT ![c] = [pc |-> "commit", metaLock |-> metaLock, seq |-> seq, lock |-> lock]]
    /\ UNCHANGED <<log, seq, metaLock, owner, lock, record, worker>>

Unchanged(c) == metaLock = client[c].metaLock /\ seq = client[c].seq /\ lock = client[c].lock

Items(n, ids) == {[seq |-> n + i, id |-> ids[i]] : i \in DOMAIN ids}

\* One event (retry) or two (cancel: CANCEL_REQUESTED and CANCELLED).
Fresh == {ids \in {<<a>> : a \in ApiEvent} \cup {<<a, b>> : a, b \in ApiEvent} :
            /\ \A i \in DOMAIN ids : ids[i] \notin Ids
            /\ \A i, j \in DOMAIN ids : ids[i] = ids[j] => i = j}

Commit(c) ==
    /\ client[c].pc = "commit"
    /\ Unchanged(c)
    /\ lock < MaxLock
    /\ \E ids \in Fresh :
         /\ seq + Len(ids) <= MaxSeq
         /\ log' = log \cup Items(seq, ids)
         /\ seq' = seq + Len(ids)
    /\ lock' = lock + 1
    /\ metaLock' = lock + 1
    /\ client' = [client EXCEPT ![c] = Resting]
    /\ UNCHANGED <<owner, record, worker>>

\* A conflict, a failure or the death of the API process.
GiveUp(c) ==
    /\ client[c].pc = "commit"
    /\ client' = [client EXCEPT ![c] = Resting]
    /\ UNCHANGED <<log, seq, metaLock, owner, lock, record, worker>>

-----------------------------------------------------------------------------
WorkerStep(w) ==
    \/ Acquire(w) \/ ReadLockVersion(w) \/ Heartbeat(w) \/ Release(w)
    \/ \E e \in StepEvent \cup Milestone : Begin(w, e)
    \/ CheckEvent(w) \/ ValidateReplay(w) \/ ReadSequence(w)
    \/ Append1(w) \/ Refused(w) \/ Contended(w) \/ Unavailable(w)

ClientStep(c) == Read(c) \/ Commit(c) \/ GiveUp(c)

Next ==
    \/ \E w \in Worker : WorkerStep(w)
    \/ \E c \in Client : ClientStep(c)

Spec == Init /\ [][Next]_vars

-----------------------------------------------------------------------------
Entry == [seq : Nat, id : Id]
Caller == [pc : {"idle", "acquired", "check", "validate", "read", "commit"},
           id : Id, left : Nat, seen : Nat, first : Nat, held : Nat]
Request == [pc : {"idle", "commit"}, metaLock : Nat, seq : Nat, lock : Nat]

\* Every variable has its type; what could break it is a retry budget that runs
\* below zero (dynamodb_workflow_repository.py:419).
TypeOK ==
    /\ log \subseteq Entry
    /\ {seq, metaLock, lock} \subseteq Nat
    /\ owner \in Worker \cup {None}
    /\ record \in StepEvent \cup {None}
    /\ worker \in [Worker -> Caller]
    /\ client \in [Client -> Request]

\* The log has one event for every sequence up to META's, and none above it,
\* although its writers share no lock (campaign-lifecycle.md:136).  It is why no
\* event's key is ever taken, and why a cursor can be a sequence.
LogIsDense ==
    /\ \A r \in log : r.seq \in 1 .. seq
    /\ \A n \in 1 .. seq : \E r \in log : r.seq = n
    /\ \A r, s \in log : r.seq = s.seq => r = s

\* The events that save_version carries (REVIEW_READY, FINALIZED, FAILED) are in
\* the log at most once, whatever redeliveries and takeovers there are
\* (job_processor.py:231).
MilestonesOnce ==
    \A r, s \in log : r.id \in Milestone /\ r.id = s.id => r = s

\* The STEP item always says what the last event about it says: no replay, race
\* or retry leaves the item and the log apart (dynamodb_workflow_repository.py:408).
RecordIsLastEvent ==
    \A r \in log : r.id \in StepEvent =>
        \E s \in log : s.id = record /\ s.seq >= r.seq

\* A call that spends its retry budget was overtaken by as many other writers: a
\* conflict on the sequence always means that another's append went through
\* (dynamodb_workflow_repository.py:410).
ContentionIsProgress ==
    \A w \in Worker : worker[w].first # 0 =>
        seq >= worker[w].first + (Retries - worker[w].left)
==============================================================================
