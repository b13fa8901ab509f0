--------------------------- MODULE CampaignVersions ---------------------------
(***************************************************************************)
(* The versions of one campaign: POST .../revisions freezes the current    *)
(* version and makes the next one, POST .../retry and .../cancel write the *)
(* current one, and consumers execute the messages these requests send.    *)
(* META carries the number of the current version, its own lock_version    *)
(* and the event_sequence; each VERSION item has a lock_version too.       *)
(*                                                                         *)
(* LeaseProtocol has the consumer in full, for one version; here it is     *)
(* what it does to the items of several: a lease, a lock_version adopted   *)
(* after it, saves on condition of both, a completion marker.              *)
(***************************************************************************)
EXTENDS Naturals

CONSTANTS
    Worker,      \* processes that may execute a delivery
    Client,      \* API requests in flight
    Feedback,    \* bodies of revision requests
    None,        \* no lease owner, no feedback
    MaxVersion,  \* bound of the model: no revision beyond this version
    MaxAttempt,  \* bound of the model: no failure beyond this attempt
    MaxLock      \* bound of the model: no lease beyond this lock_version

ASSUME VersionsAssumption ==
    /\ None \notin Worker \cup Feedback
    /\ MaxVersion \in Nat \ {0}
    /\ {MaxAttempt, MaxLock} \subseteq Nat

VARIABLES
    meta,      \* META: current version, lock_version, event_sequence
    versions,  \* the VERSION items
    lease,     \* per version: lease_owner
    sent,      \* messages on the queue; any may be delivered again
    done,      \* messages with a completion marker
    events,    \* deterministic ids of the workers' events in the log
    worker,    \* per consumer: its delivery, the version it read, what it holds
    client,    \* per request: what it read and what it does next
    commits    \* a history: the number of the API's writes

vars == <<meta, versions, lease, sent, done, events, worker, client, commits>>

-----------------------------------------------------------------------------
Number == 1 .. MaxVersion

Status == {"QUEUED", "READY_FOR_REVIEW", "FINAL", "FAILED", "CANCELLED", "REVISION_REQUESTED"}

\* job 0 is the version's own (START:1 or REGENERATE:n), job k is RETRY:n:k.
\* revision is what its parent was revised with.
Body == [status : Status, job : Nat, attempt : Nat, revision : Feedback \cup {None}]
Item == [body : Body, lock : Nat]

Queued(f) == [body |-> [status |-> "QUEUED", job |-> 0, attempt |-> 0, revision |-> f], lock |-> 0]

\* The retry of a failed packaging sends RESUME: that is in LeaseProtocol.
Message == [version : Number, op : {"START", "REGENERATE"}, job : Nat]

Idle == [pc |-> "idle", msg |-> [version |-> 1, op |-> "START", job |-> 0],
         body |-> Queued(None).body, held |-> 0]
Resting == [pc |-> "idle", op |-> "cancel", target |-> 1, feedback |-> None,
            meta |-> [current |-> 1, lock |-> 0, seq |-> 0], seen |-> Queued(None), commits |-> 0]

Current == versions[meta.current]

\* create() has sent START and marked version 1 QUEUED.
Init ==
    /\ meta = [current |-> 1, lock |-> 1, seq |-> 1]
    /\ versions = [n \in Number |-> [Queued(None) EXCEPT !.lock = IF n = 1 THEN 1 ELSE 0]]
    /\ lease = [n \in Number |-> None]
    /\ sent = {[version |-> 1, op |-> "START", job |-> 0]}
    /\ done = {}
    /\ events = {}
    /\ worker = [w \in Worker |-> Idle]
    /\ client = [c \in Client |-> Resting]
    /\ commits = 0

-----------------------------------------------------------------------------
(* Consumers.                                                              *)

At(w, label) == worker[w].pc = label
Target(w) == worker[w].msg.version

Load(w, m) ==
    /\ At(w, "idle")
    /\ versions[m.version].body.status # "CANCELLED"
    /\ worker' = [worker EXCEPT ![w] =
          [pc |-> "loaded", msg |-> m, body |-> versions[m.version].body, held |-> 0]]
    /\ UNCHANGED <<meta, versions, lease, sent, done, events, client, commits>>

\* Only for the current version and its current job.  The lease may be taken from
\* its owner at any time: it may have expired.
AcquireLease(w) ==
    LET n == Target(w) IN
    /\ At(w, "loaded")
    /\ meta.current = n
    /\ versions[n].body.job = worker[w].msg.job
    /\ versions[n].lock < MaxLock
    /\ lease' = [lease EXCEPT ![n] = w]
    /\ versions' = [versions EXCEPT ![n].lock = @ + 1]
    /\ worker' = [worker EXCEPT ![w].pc = "acquired"]
    /\ UNCHANGED <<meta, sent, done, events, client, commits>>

\* acquire_lease's second request; then the status and the completion marker.
Adopt(w) ==
    /\ At(w, "acquired")
    /\ worker' = [worker EXCEPT ![w] =
          IF versions[Target(w)].body.status = "CANCELLED" \/ @.msg \in done THEN Idle
          ELSE [@ EXCEPT !.pc = "running", !.held = versions[Target(w)].lock]]
    /\ UNCHANGED <<meta, versions, lease, sent, done, events, client, commits>>

Owns(w) == lease[Target(w)] = w /\ versions[Target(w)].lock = worker[w].held

\* What a run saves one after the other: the body it has, that body READY_FOR_REVIEW,
\* then FINAL; or FAILED.
Results(body) ==
    {body, [body EXCEPT !.status = IF @ = "READY_FOR_REVIEW" THEN "FINAL" ELSE "READY_FOR_REVIEW"]}
      \cup (IF body.attempt < MaxAttempt
              THEN {[body EXCEPT !.status = "FAILED", !.attempt = @ + 1]} ELSE {})

Milestone(w, body) ==
    IF body = worker[w].body THEN {}
    ELSE {<<Target(w), body.status, IF body.status = "FAILED" THEN body.attempt ELSE 0>>}

\* FINAL and FAILED end the run.
Saved(w, body) ==
    [worker[w] EXCEPT !.body = body, !.pc =
        IF body # worker[w].body /\ body.status # "READY_FOR_REVIEW" THEN "saved" ELSE "running"]

\* An event that is in the log already makes the save a replay without a write.
Save(w) ==
    /\ At(w, "running")
    /\ Owns(w)
    /\ \E body \in Results(worker[w].body) :
         LET new == Milestone(w, body) \ events
             replayed == Milestone(w, body) # {} /\ new = {}
         IN /\ versions' = IF replayed THEN versions ELSE [versions EXCEPT ![Target(w)].body = body]
            /\ meta' = [meta EXCEPT !.seq = IF new = {} THEN @ ELSE @ + 1]
            /\ events' = events \cup new
            /\ worker' = [worker EXCEPT ![w] = Saved(w, body)]
    /\ UNCHANGED <<lease, sent, done, client, commits>>

Complete(w) ==
    /\ At(w, "saved")
    /\ Owns(w) /\ worker[w].msg \notin done
    /\ done' = done \cup {worker[w].msg}
    /\ lease' = [lease EXCEPT ![Target(w)] = None]
    /\ versions' = [versions EXCEPT ![Target(w)].lock = @ + 1]
    /\ worker' = [worker EXCEPT ![w] = Idle]
    /\ UNCHANGED <<meta, sent, events, client, commits>>

\* A conflict, a lost lease, an unavailable service or the death of the process.
Abandon(w) ==
    /\ ~At(w, "idle")
    /\ worker' = [worker EXCEPT ![w] = Idle]
    /\ UNCHANGED <<meta, versions, lease, sent, done, events, client, commits>>

-----------------------------------------------------------------------------
(* The API.  get() reads META, then VERSION; a write is conditional on      *)
(* META being as read, so reading both at the later point loses no write.  *)

\* POST .../revisions of n again, while its child is QUEUED.
RevisionReplay(n) ==
    meta.current = n + 1 /\ Current.body.status = "QUEUED" /\ Current.body.revision # None

\* The statuses a request accepts for the current version.
Accepts(op) ==
    CASE op = "cancel" -> {"QUEUED", "READY_FOR_REVIEW"}
      [] op = "retry"  -> {"FAILED"}
      [] op = "revise" -> {"READY_FOR_REVIEW", "FINAL"}

\* A replay that does not compare the feedback.
ReplaysMutant(op, n, f) ==
    \/ op = "revise" /\ RevisionReplay(n)
    \/ /\ op = "retry" /\ n = meta.current
       /\ Current.body.status = "QUEUED" /\ Current.body.job > 0
       /\ Current.body.job = Current.body.attempt

\* Requests that only submit again what an earlier one has written.
Replays(op, n, f) ==
    \/ op = "revise" /\ RevisionReplay(n) /\ Current.body.revision = f
    \/ /\ op = "retry" /\ n = meta.current
       /\ Current.body.status = "QUEUED" /\ Current.body.job > 0
       /\ Current.body.job = Current.body.attempt

Read(c, op, n, f) ==
    /\ client[c].pc \in {"idle", "accepted"}
    /\ \/ Replays(op, n, f)
       \/ n = meta.current /\ Current.body.status \in Accepts(op)
    /\ client' = [client EXCEPT ![c] =
          [pc |-> IF Replays(op, n, f) THEN "submit" ELSE "commit", op |-> op, target |-> n,
           feedback |-> f, meta |-> meta, seen |-> Current, commits |-> commits]]
    /\ UNCHANGED <<meta, versions, lease, sent, done, events, worker, commits>>

\* The conditions on META without its lock_version, or without the sequence.
AsReadMutant(c) == meta.current = client[c].meta.current
AsRead(c) == meta = client[c].meta

\* A FINAL version is not part of the transaction that revises it.
VersionAsRead(c) ==
    \/ client[c].op = "revise" /\ client[c].seen.body.status = "FINAL"
    \/ versions[client[c].target].lock = client[c].seen.lock

Committing(c, op) ==
    /\ client[c].pc = "commit" /\ client[c].op = op
    /\ AsRead(c) /\ VersionAsRead(c)
    /\ commits' = commits + 1
    /\ UNCHANGED <<lease, sent, done, events, worker>>

\* Version n with another body and the next lock_version.
Written(n, body) == [body |-> body, lock |-> versions[n].lock + 1]

\* Both items get the VERSION's next lock_version.
CommitCancel(c) ==
    LET n == client[c].target
        cancelled == [versions[n].body EXCEPT !.status = "CANCELLED"]
    IN /\ Committing(c, "cancel")
       /\ versions' = [versions EXCEPT ![n] = Written(n, cancelled)]
       /\ meta' = [current |-> meta.current, lock |-> versions[n].lock + 1, seq |-> meta.seq + 2]
       /\ client' = [client EXCEPT ![c] = Resting]

CommitRetry(c) ==
    LET n == client[c].target
        retried == [versions[n].body EXCEPT !.status = "QUEUED", !.job = client[c].seen.body.attempt]
    IN /\ Committing(c, "retry")
       /\ versions' = [versions EXCEPT ![n] = Written(n, retried)]
       /\ meta' = [current |-> meta.current, lock |-> versions[n].lock + 1, seq |-> meta.seq + 1]
       /\ client' = [client EXCEPT ![c] = [@ EXCEPT !.pc = "submit", !.seen = Written(n, retried)]]

\* The child starts with lock_version 0, META goes on from its own.
CommitRevise(c) ==
    LET n == client[c].target
        child == Queued(client[c].feedback)
        frozen == IF client[c].seen.body.status = "FINAL" THEN versions[n]
                  ELSE Written(n, [versions[n].body EXCEPT !.status = "REVISION_REQUESTED"])
    IN /\ Committing(c, "revise")
       /\ n < MaxVersion
       /\ versions' = [versions EXCEPT ![n] = frozen, ![n + 1] = child]
       /\ meta' = [current |-> n + 1, lock |-> meta.lock + 1, seq |-> meta.seq + 1]
       /\ client' = [client EXCEPT ![c] = [@ EXCEPT !.pc = "submit", !.seen = child]]

\* The child is the one META said would come next.
CommandMutant(c) ==
    IF client[c].op = "revise"
      THEN [version |-> client[c].meta.current + 1, op |-> "REGENERATE", job |-> client[c].seen.body.job]
      ELSE [version |-> client[c].target, op |-> "START", job |-> client[c].seen.body.job]

\* A revision's message is built from the child's job_id, whatever that is by now.
Command(c) ==
    IF client[c].op = "revise"
      THEN [version |-> client[c].target + 1, op |-> "REGENERATE", job |-> client[c].seen.body.job]
      ELSE [version |-> client[c].target, op |-> "START", job |-> client[c].seen.body.job]

Submit(c) ==
    /\ client[c].pc = "submit"
    /\ sent' = sent \cup {Command(c)}
    /\ client' = [client EXCEPT ![c] = IF @.op = "revise" THEN [@ EXCEPT !.pc = "accepted"] ELSE Resting]
    /\ UNCHANGED <<meta, versions, lease, done, events, worker, commits>>

\* A conflict, a failure or the death of the API process.
GiveUp(c) ==
    /\ client[c].pc \in {"commit", "submit"}
    /\ client' = [client EXCEPT ![c] = Resting]
    /\ UNCHANGED <<meta, versions, lease, sent, done, events, worker, commits>>

-----------------------------------------------------------------------------
WorkerStep(w) ==
    \/ \E m \in sent : Load(w, m)
    \/ AcquireLease(w) \/ Adopt(w) \/ Save(w) \/ Complete(w) \/ Abandon(w)

Operation == {"cancel", "retry", "revise"}

ClientStep(c) ==
    \/ \E op \in Operation, n \in Number :
         \E f \in IF op = "revise" THEN Feedback ELSE {None} : Read(c, op, n, f)
    \/ CommitCancel(c) \/ CommitRetry(c) \/ CommitRevise(c)
    \/ Submit(c) \/ GiveUp(c)

Next == (\E w \in Worker : WorkerStep(w)) \/ (\E c \in Client : ClientStep(c))

Spec == Init /\ [][Next]_vars

-----------------------------------------------------------------------------
Meta == [current : Number, lock : Nat, seq : Nat]

\* Every variable has its type.  What could break it: a message for a version that
\* does not exist (campaign_service.py:556).
TypeOK ==
    /\ meta \in Meta
    /\ versions \in [Number -> Item]
    /\ lease \in [Number -> Worker \cup {None}]
    /\ sent \subseteq Message
    /\ done \subseteq Message
    /\ events \subseteq Number \X Status \X Nat
    /\ worker \in [Worker -> [pc : {"idle", "loaded", "acquired", "running", "saved"},
                              msg : Message, body : Body, held : Nat]]
    /\ client \in [Client -> [pc : {"idle", "commit", "submit", "accepted"}, op : Operation,
                              target : Number, feedback : Feedback \cup {None},
                              meta : Meta, seen : Item, commits : Nat]]
    /\ commits \in Nat

\* No API write is based on a state that another API write has replaced, although
\* META's lock_version may come back to a value it had: cancel and retry set it to
\* the VERSION's, revise to its own successor (dynamodb_campaign_repository.py:227).
CommitIsFresh ==
    [][commits' # commits => \E c \in Client :
         client[c].pc = "commit" /\ client'[c] # client[c] /\ client[c].commits = commits]_vars

\* A revision answered 202 is the one its child was made with, whoever else revises,
\* repeats or retries at the same time (campaign_service.py:438).
AcceptedRevisionIsTheChild ==
    \A c \in Client : client[c].pc = "accepted" /\ client[c].op = "revise" =>
        /\ client[c].target < meta.current
        /\ versions[client[c].target + 1].body.revision = client[c].feedback
==============================================================================
