--------------------------- MODULE CampaignCreation ---------------------------
(***************************************************************************)
(* POST /campaigns under one idempotency key: the campaign_id and the      *)
(* job_id are hashes of the key, so every such request is about the same   *)
(* META and VERSION#1 items.  A step is one request to DynamoDB or SQS.    *)
(* The consumer and POST .../cancel are here as far as they touch those    *)
(* items; what happens in between is in LeaseProtocol.                     *)
(***************************************************************************)
EXTENDS Naturals

CONSTANTS
    Client,       \* requests that may be in flight together
    Brief,        \* request bodies sent under the key
    None,         \* no campaign
    MaxMessages,  \* bound of the model: START messages ever accepted
    MaxLock       \* bound of the model: no acquisition beyond this lock_version

ASSUME CreationAssumption ==
    /\ None \notin Brief
    /\ {MaxMessages, MaxLock} \subseteq Nat

VARIABLES
    brief,    \* the brief of the campaign that exists, or None
    status,   \* VERSION#1's status
    lock,     \* VERSION#1's lock_version
    meta,     \* META: current_status and lock_version
    queued,   \* START messages that the queue accepted
    working,  \* a consumer executes the job
    client    \* per request: what it does next, its brief, its answer

vars == <<brief, status, lock, meta, queued, working, client>>

-----------------------------------------------------------------------------
Status == {"CREATED", "QUEUED", "CANCELLED", "SETTLED"}

\* SETTLED stands for every status a consumer saves.
Fresh == [status |-> "CREATED", lock |-> 0]

\* 202; IDEMPOTENCY_CONFLICT; STATE_CONFLICT; QUEUE_UNAVAILABLE; no answer, or
\* STORAGE_UNAVAILABLE.
Answers == {"none", "accepted", "refused", "conflict", "unavailable", "broken"}

At(c, label) == client[c].pc = label
Goto(c, label) == client' = [client EXCEPT ![c].pc = label]
Answer(c, code) ==
    client' = [client EXCEPT ![c] = [pc |-> "answered", brief |-> @.brief, answer |-> code]]

Exists == brief # None

Init ==
    /\ brief = None
    /\ status = "CREATED"
    /\ lock = 0
    /\ meta = Fresh
    /\ queued = 0
    /\ working = FALSE
    /\ client \in [Client -> [pc : {"creating"}, brief : Brief, answer : {"none"}]]

-----------------------------------------------------------------------------
\* The puts overwrite what is there.
CreateInitialMutant(c) ==
    /\ At(c, "creating")
    /\ brief' = client[c].brief
    /\ status' = "CREATED"
    /\ lock' = 0
    /\ meta' = Fresh
    /\ Goto(c, "submitting")
    /\ UNCHANGED <<queued, working>>

CreateInitial(c) ==
    /\ At(c, "creating")
    /\ IF Exists
         THEN /\ Goto(c, "readMeta")
              /\ UNCHANGED <<brief, status, lock, meta>>
         ELSE /\ brief' = client[c].brief
              /\ status' = "CREATED"
              /\ lock' = 0
              /\ meta' = Fresh
              /\ Goto(c, "submitting")
    /\ UNCHANGED <<queued, working>>

\* The replay's get(): META first.  No campaign any more: IDEMPOTENCY_CONFLICT.
ReadMeta(c) ==
    /\ At(c, "readMeta")
    /\ IF Exists THEN Goto(c, "readVersion") ELSE Answer(c, "refused")
    /\ UNCHANGED <<brief, status, lock, meta, queued, working>>

\* A replay that repeats the recorded status, or does not compare the briefs.
RepeatsMutant(c) ==
    IF ~Exists THEN "broken" ELSE IF brief # client[c].brief THEN "refused" ELSE status
TrustsKeyMutant(c) ==
    IF ~Exists THEN "broken" ELSE IF status = "QUEUED" THEN "accepted" ELSE "unavailable"

\* What VERSION#1 says then.
ReplayAnswer(c) ==
    IF ~Exists THEN "broken"
    ELSE IF brief # client[c].brief THEN "refused"
    ELSE IF status = "QUEUED" THEN "accepted" ELSE "unavailable"

ReadVersion(c) ==
    /\ At(c, "readVersion")
    /\ Answer(c, ReplayAnswer(c))
    /\ UNCHANGED <<brief, status, lock, meta, queued, working>>

\* A result that was not accepted is not looked at.
SubmitMutant(c) ==
    /\ At(c, "submitting")
    /\ Goto(c, "replacing")
    /\ queued' \in {queued} \cup (IF queued < MaxMessages THEN {queued + 1} ELSE {})
    /\ UNCHANGED <<brief, status, lock, meta, working>>

\* send_message: whatever SQS did with it, the client sees success, a read
\* timeout, or another error; a broken connection is one of the others.
Submit(c) ==
    /\ At(c, "submitting")
    /\ \/ queued < MaxMessages /\ queued' = queued + 1
             /\ (Goto(c, "replacing") \/ Answer(c, "unavailable") \/ Goto(c, "rollingBack"))
       \/ queued' = queued
             /\ (Answer(c, "unavailable") \/ Goto(c, "rollingBack"))
    /\ UNCHANGED <<brief, status, lock, meta, working>>

\* A rollback that only looks at META, which no consumer writes.
RollbackSafeMutant == Exists /\ meta = Fresh
RollbackSafe == Exists /\ meta = Fresh /\ lock = 0 /\ status = "CREATED"

RollbackInitial(c) ==
    /\ At(c, "rollingBack")
    /\ IF RollbackSafe
         THEN brief' = None /\ Answer(c, "unavailable")
         ELSE brief' = brief /\ Answer(c, "conflict")
    /\ UNCHANGED <<status, lock, meta, queued, working>>

Replaceable == Exists /\ meta.lock = 0 /\ lock = 0

ReplaceCurrent(c) ==
    /\ At(c, "replacing")
    /\ IF Replaceable
         THEN /\ status' = "QUEUED"
              /\ lock' = 1
              /\ meta' = [status |-> "QUEUED", lock |-> 1]
              /\ Answer(c, "accepted")
         ELSE /\ Answer(c, "conflict")
              /\ UNCHANGED <<status, lock, meta>>
    /\ UNCHANGED <<brief, queued, working>>

\* DynamoDB does not answer, or the process dies: what was written stays.
Break(c) ==
    /\ ~At(c, "answered")
    /\ Answer(c, "broken")
    /\ UNCHANGED <<brief, status, lock, meta, queued, working>>

\* The client sends the request again, with this or another brief.
Post(c, b) ==
    /\ At(c, "answered")
    /\ client' = [client EXCEPT ![c] = [pc |-> "creating", brief |-> b, answer |-> "none"]]
    /\ UNCHANGED <<brief, status, lock, meta, queued, working>>

-----------------------------------------------------------------------------
\* A consumer takes the lease of the job, whatever the status but CANCELLED.
Take ==
    /\ queued > 0 /\ Exists /\ ~working
    /\ status # "CANCELLED"
    /\ lock < MaxLock
    /\ lock' = lock + 1
    /\ working' = TRUE
    /\ UNCHANGED <<brief, status, meta, queued, client>>

\* It saves a status, if the lock_version is still its own, and ends.
Finish ==
    /\ working
    /\ status' \in {status, "SETTLED"}
    /\ status = "CANCELLED" => status' = status
    /\ working' = FALSE
    /\ UNCHANGED <<brief, lock, meta, queued, client>>

Cancel ==
    /\ Exists
    /\ status \in {"CREATED", "QUEUED"}
    /\ status' = "CANCELLED"
    /\ lock' = lock + 1
    /\ meta' = [status |-> "CANCELLED", lock |-> lock + 1]
    /\ UNCHANGED <<brief, queued, working, client>>

-----------------------------------------------------------------------------
Request(c) ==
    \/ CreateInitial(c) \/ ReadMeta(c) \/ ReadVersion(c)
    \/ Submit(c) \/ RollbackInitial(c) \/ ReplaceCurrent(c)

Next ==
    \/ \E c \in Client : Request(c) \/ Break(c) \/ \E b \in Brief : Post(c, b)
    \/ Take \/ Finish \/ Cancel

Spec == Init /\ [][Next]_vars

-----------------------------------------------------------------------------
\* Every variable has its type; what could break it is a replay that answers with the
\* recorded status instead of a response (campaign_service.py:162).
TypeOK ==
    /\ brief \in Brief \cup {None}
    /\ status \in Status
    /\ lock \in Nat
    /\ meta \in [status : Status, lock : Nat]
    /\ queued \in Nat
    /\ working \in BOOLEAN
    /\ client \in [Client -> [pc : {"creating", "readMeta", "readVersion", "submitting",
                                    "rollingBack", "replacing", "answered"},
                              brief : Brief, answer : Answers]]

\* Whoever created the campaign is alone in submitting it, marking it QUEUED or
\* rolling it back, and acts on its own brief, whatever other requests under the
\* key do meanwhile (dynamodb_campaign_repository.py:87).
CreatorActsAlone ==
    \A c \in Client : client[c].pc \in {"submitting", "rollingBack", "replacing"} =>
        /\ brief = client[c].brief
        /\ \A d \in Client : client[d].pc \in {"submitting", "rollingBack", "replacing"} => d = c

\* QUEUED is never shown of a campaign whose message no one sent, whatever the
\* answer of the queue and whoever crashes (campaign-lifecycle.md:10).
QueuedWasSent == status = "QUEUED" /\ Exists => queued > 0

\* A request answered 202 finds its campaign, with its brief, for ever after: not
\* rolled back, not replaced by a reuse of the key (campaign_service.py:155).
AcceptedIsKept == \A c \in Client : client[c].answer = "accepted" => brief = client[c].brief

\* No campaign is rolled back under a consumer that executes it, although a failed
\* submission may have been accepted (dynamodb_campaign_repository.py:487).
WorkedOnExists == working => Exists
==============================================================================
