# AI Marketing Campaign Agent: models, checks and proofs

This directory holds TLA+ modules that model the campaign backend, the TLC
configurations that check them on small instances, and TLAPS proofs of what
matters most for every instance. Paths below are relative to `src/`.

## The system

A campaign is created over a REST API, executed by a worker that takes jobs from
an SQS queue, and shown by a browser frontend. One DynamoDB table and one S3
bucket are the only shared state:

| item | written by | fields that matter here |
|---|---|---|
| META | API (all mutations), worker (`event_sequence` only) | `lock_version`, `current_version`, `event_sequence` |
| VERSION#n | API (status, job_id), worker (the whole body, and the lease) | `status`, `job_id`, `retry`, the outputs, `lock_version`, `lease_*` |
| STEP#n#name | worker, without the lease | `status` of one pipeline step |
| EVENT#seq#id | both, in one transaction with the state they describe | `event_id`, `event_sequence` |
| IDEMPOTENCY | worker, in the completion transaction | one per (operation, job) |
| S3: an object and its `.metadata.json` per version and scene | worker, without the lease | the bytes; checksum and fingerprint |

| component | state it keeps | operations | hard behaviour | correct when | modelled in |
|---|---|---|---|---|---|
| API service and repository (`services/api`) | META, versions, events | create, cancel, retry, revise, list, events | optimistic transactions against the worker's writes; commit-then-submit gaps; ambiguous submissions | a 202 is kept; no write is based on a replaced state; one key, one campaign | CampaignCreation, CampaignVersions, EventLog |
| Queue (SQS, external) | messages, receive counts | submit, receive, delete, change visibility, redrive | at-least-once delivery, visibility timeouts, dead-lettering | a message leaves only when its job is settled | every module that has deliveries |
| Consumer, one delivery (`services/worker/.../consumer`) | the message in hand, `LeaseContext` | process_raw, heartbeat loop, exhaustion | lease takeover, stale reads across awaits, a heartbeat that races its own worker's writes, crashes between any two requests | one writer at a time; every delivery ends | LeaseProtocol |
| Consumer, the loop | the batch, `_active`, `_stopping`, the backoff | run, shutdown, record_invalid, record_exhausted | which errors end a delivery and which end the loop; SIGTERM against a receive that returns; the application's delivery bound against the queue's | attempts are spent on work; nothing runs after shutdown; what is dead-lettered is FAILED | ConsumerLoop |
| Workflow repository | (the table) | acquire_lease, heartbeat, save_version, save_step, complete, release | conditional writes, replay detection by event id, sequence contention | the log and the state it describes never part | LeaseProtocol, EventLog |
| Job processor and graph | the streamed `current` version, `starting_status` | process, seeding, skipping, _fail, fail_delivery_exhausted | partial failure between step record and version; redelivery of a half-done pipeline | a skipped step has its output in the version | StepPipeline |
| Asset pipelines and artifact store | objects in S3 | acquire, reconcile, put, fallback | partial uploads, provider failures and retries, reuse of stale artifacts, overlapping deliveries under the same keys | references and objects agree | AssetPipelines |
| Pure algorithms | none | word budget, tempo, creative plan, shot clock, composition | rounding and off-by-one at bounds, one bound trusted by the next step | the steps' bounds fit together | MediaTiming |
| Frontend | cached queries | polling, retry/cancel mutations | stops polling at terminal states | shows what the table last said | not modelled |

Components interact through the table, the queue and the bucket only: API -> queue
-> consumer -> processor -> repository and store, and API <-> table <-> worker. No
two of them share memory, except that a consumer's heartbeat task and its
processing task share one `LeaseContext`, and its loop and its shutdown one
consumer object.

## The modules

```
FencedVersion     <-- refined by --  LeaseProtocol     <- LeaseProtocolProofs
EventPages  -- extends -->           EventLog          <- EventLogProofs
                                     CampaignCreation  <- CampaignCreationProofs
                                     CampaignVersions  <- CampaignVersionsProofs
                                     ConsumerLoop      <- ConsumerLoopProofs
                                     StepPipeline      <- StepPipelineProofs
                                     AssetPipelines    <- AssetPipelinesProofs
                                     MediaTiming       <- MediaTimingProofs
```

Each specification has a module `MC<name>` that adds the symmetry set or the
inputs TLC uses. In the concurrent ones a step is one request to DynamoDB, SQS, S3
or a provider with the local computation up to the next request: two coroutines
interleave where they await, and a process dies between two steps.

They form layers, each abstracting the one above to what it needs. LeaseProtocol
has the lease with its heartbeats and what a version promises under it;
ConsumerLoop puts a loop around a delivery and keeps of the job only how far it
came; StepPipeline keeps of the lease only its owner (the refinement to
FencedVersion is why it may: there is at most one worker whose save is accepted)
and walks the graph inside `process`; AssetPipelines opens the four steps of that
graph that make files; MediaTiming is the data of the steps between STORYBOARD
and VIDEO.

### LeaseProtocol: one version, its consumers, cancel and retry

`version` holds the fields `save_version` writes as one body (status, job,
attempt, resume), `lock` the item's `lock_version`, `lease` the lease fields,
`meta` META's `lock_version` and `event_sequence`, `done` the completion markers,
`events` the deterministic ids of the worker's events, `packaged` whether the
PACKAGE step is recorded as SUCCEEDED, `messages` the queue with receive counts,
`worker` a consumer's coroutine (its place, the version it works on, the
lock_version it holds, its heartbeat), `client` an API request, `creating` the
last request of `create`.

`process_raw` is the sequence Receive, LoadVersion, AcquireLease, ReadLockVersion,
Revalidate, CheckCompleted, the saves of `process`, StopHeartbeat, Complete, Delete;
every failing request ends in Uncertain, every lost lease in LoseLease, a dying
process in Crash. The exhausted delivery goes to FailExhausted instead. Heartbeat
and HeartbeatReply are the other task, kept out of a save by `MutexFree`
(`LeaseContext.lock`). Job 0 is `START:1`, job k is `RETRY:1:k`; ids that the code
derives with uuid5 are the tuples they are derived from.

`FencedVersion` is what this promises in the abstract: at most one worker whose
write the table would accept, and every API write dismisses it. The refinement
maps the abstract `writer` to the lease owner if its lock_version is (or, with its
heartbeat's reply on the way, will be) the item's, and `revision` to META's
lock_version, which for one version only grows.

### EventLog and EventPages: the events

`_write_state_with_events` as three requests (CheckEvent, ReadSequence, and the
transaction: Append1, Refused or Contended) in a loop with a budget, for
`save_step` (conditional on nothing else) and `save_version` (conditional on the
lease). The API appends one or two events in its own transactions. `record` is
the STEP item, `first` a history variable: the sequence at a call's first read.
`EventPages` adds a client that follows `next_cursor` through `GET /events`
with reads that need not be consistent.

### CampaignCreation: POST /campaigns under one idempotency key

The campaign id is a hash of the key, so all requests under a key meet at the same
two items. Requests create, replay, submit, roll back or mark QUEUED; the queue may
accept a message and report success, a read timeout or another error; the database
may fail under any request. A consumer and a cancellation are there as far as they
touch the two items.

### CampaignVersions: revise, retry and cancel over several versions

META's current version, one item per version, the messages START:1, REGENERATE:n
and RETRY:n:k, the requests as read, transaction, submission, and consumers reduced
to lease, adopted lock_version, conditional saves and completion. A request reads
META and VERSION in one step: its write is conditional on META being as read, so a
pair read in between is a pair whose write is refused. `commits` is a history
variable that counts the API's transactions.

### ConsumerLoop: batches, backoff, shutdown, redrive

`queue` and `received` are SQS's view of the messages (`visible`, `hidden`,
`deleted`, `dead`; ApproximateReceiveCount), `consumer` a process: its loop
(`receive`, `sleep`, `batch`, `ended`), the batch in hand, the place in
`_process_raw` of the active delivery, the backoff, `_stopping` and how far
`shutdown()` is. Receive, ReceiveNothing, ReceiveFails and Wake are the loop;
NextMessage looks at `_stopping` and makes a delivery active in one step, as `run`
does without an await in between. Parse, RecordInvalid, RecordExhausted,
MarkFailed, Load, Acquire, Check, Work, Complete, Release and Delete are the
requests of a delivery. CallFails makes any of them fail and follows the code in
what that ends: the delivery where the call is inside the `try`, the loop with the
rest of the batch where it is not. Shutdown and GraceEnds are SIGTERM and the grace
period; Restart is Kubernetes. `handled` and `spoiled` are history.

Lease and visibility are two clocks. A batch becomes invisible when it is received;
the lease of each of its messages begins when that message's own delivery does
(`sqs_consumer.py:145`). So `lease` stays when a delivery ends without giving it back
(process raises, a crash; the lease of a process that was replaced is `Former`'s), and
Reappear lets it outlive one visibility timeout (`outlived`), not two, since the lease
is shorter than the timeout and began, or was last prolonged, before the first ended. A lease that
may have expired is not removed: whoever asks for it gets it or is refused (`Refused`),
and the model chooses.

### StepPipeline: the graph, its records and the version's outputs

`record` has the STEP items, `version.outputs` which outputs the saved body has,
`worker.body` the body streamed through the graph, `scope` the revision that made
the version. A delivery is Deliver, Acquire, for a revision or a retry Seed (one
save_step at a time, with REUSED), then per node Skip, or Begin, Start, Run,
RecordDone, SaveChunk; a failure is RecordFailed and Fail; REVIEW is Reviewed and
AwaitApproval; PACKAGE is a graph of its own. The requests that fail may have written
nothing (TrackingFails, SaveChunkFails) or have committed and be reported as errors
(TrackingUncertain, SaveChunkUncertain); the repository does not tell these apart.
with_step_tracking drops the node's result in either case, while a chunk that was to
be saved is saved again by Fail. `lost` is history: the steps whose SUCCEEDED record
committed under such an error. Abandon is a crash or a takeover. The exhausted
delivery goes through AcquireExhausted to the same Fail. `Retry` is the API's.

### AssetPipelines: four pipelines and the objects they share

`object` and `metadata` are per key the bytes and their description, or None;
`version` the references of the VERSION item; `worker` a delivery: its place, its
body, the scene it is at, the provider it uses, the bytes in hand, what it has
downloaded. `reconcile` is two reads (Read..., Check...), `put` two writes (Put...,
Describe...), so that a crash or another delivery comes in between. Bytes are
named by how they came about: by which provider, or rendered from which downloads.
A delivery goes from step to step, PACKAGE included (`job_processor.py:139-158`), and
Save ends it there.
FallBack is `FallbackImagePipeline`. `overlapped` is history: a delivery began
before another had ended.

### MediaTiming: words, shots, texts and sounds

One campaign through create_storyboard (`Budgeted`: add or drop sentences until the
words fit), the plan provider (`Planned`: accept the model's answer or the
deterministic plan), the voice pipeline (`Corrected`: tempo) and the video pipeline
(`Composition`: shots scaled to the clock, texts and sounds placed on them). A text
is the number of its words, a shot's cues are a set. Each of the code's three loops over
the shots has a clock of its own (`ShotClock`, `TextClock`, `SoundClock`); what they
make of it is compared with intervals that follow one another. Times are exact:
milliseconds over a common denominator.

## What the runs check

Runs that pass:

| run | instance | properties |
|---|---|---|
| lease_exhausted | 2 consumers, 1 message received up to 2 times, the second time as exhausted, one API request (cancel or retry) | TypeOK, AckIsDurable, CancelledStays, NoSelfFencing, FencedSpec |
| lease_retry | 2 consumers, START and up to 2 retries, 3 receptions in all, any message's second and later ones exhausted, one client that retries, several times if it can | OneRetryPerFailure |
| lease_redelivery | 2 consumers, 1 message received up to 2 times and executed both times, committed writes reported as errors, fairness | CompletedJobIsQuiet, DeliveryEnds |
| event_log | 2 workers, 1 request, 2 step events, 1 milestone, budget 2, 4 events, a reader with pages of 2 | TypeOK, LogIsDense, MilestonesOnce, RecordIsLastEvent, ContentionIsProgress, ReaderSkipsNothing |
| creation_key | 3 requests, 2 briefs, 2 messages | TypeOK, CreatorActsAlone, QueuedWasSent, AcceptedIsKept, WorkedOnExists |
| versions_requests | 2 requests, 2 bodies, 2 versions, 1 consumer | TypeOK, AcceptedRevisionIsTheChild, CommitIsFresh |
| consumer_loop | 2 consumers with batches of 2, 1 job, 1 invalid message, leases that may outlive a visibility timeout, 2 delivery attempts, 3 receptions, backoff up to 2, 2 disturbances, fairness | TypeOK, NothingRunsAfterShutdown, DeadLetteredIsFailed, AttemptsAreAccounted, ShutdownEnds, MessagesSettle |
| step_pipeline | 2 workers, 2 attempts, 2 receptions, 2 faults; four cases: revisions of VIDEO and of SELECTED_IMAGES, with a voice and without, of which two have the second delivery exhausted | ReviewedIsComplete, SeededIsInherited, RetryFindsOutputs |
| assets | 2 workers, 2 scenes, 3 photos, stock photos or generation with fallback, 4 files made, 2 faults, with and without a voice | ProviderIsTrue, PhotosAreDistinct, VideoIsOfItsReferences, FilesAreTheReferences |
| media | 24 briefs, plans of 4 to 9 shots of four kinds, valid and not, speech at 6 paces, both styles, both renderers | TypeOK, NarrationFits, NarrationIsSpeakable, RefusedEarly, VideoIsOnOneClock |

*The lease.* `CompletedJobIsQuiet` says that once `complete` has recorded a job,
nobody who executes a delivery of it can still change the version. `NoSelfFencing`
is the purpose of `LeaseContext.lock`. `AckIsDurable` says no message is deleted for
a job that is not settled. `OneRetryPerFailure` says that the name of a retry's job,
which is made of the attempt alone, means one operation: workers that fail under the
same attempt, the exhausted delivery among them, may want the pipeline or only the
packaging to be resumed, and the replay of the attempt's FAILED event keeps the
first verdict. In its run START is received twice, so that the exhausted delivery
records FAILED again or takes the lease of a consumer at work, retries are made from
fresh and stale copies, and several messages share a job.

*The log.* `RecordIsLastEvent` ties the STEP item to the log, `ContentionIsProgress`
the retry budget to the progress of others, `ReaderSkipsNothing` the client's cursor
to what it was shown.

*The requests.* `CommitIsFresh` holds although META's lock_version does not only
grow.

*The loop.* `NothingRunsAfterShutdown` is about two tasks of one process: when
`shutdown()` has returned, no delivery is active, whichever of receive, batch or
delivery it came between. `AttemptsAreAccounted` counts: at least every other
reception of a message is used for work, a record or a settlement, or is paid for by a
disturbance. The others may meet the lease that such a delivery left behind and end in
a LEASE_CONFLICT; never two in a row. `DeadLetteredIsFailed` relates the two bounds of
a job, the application's and the queue's; where the exhausted delivery is refused such
a lease the campaign is not marked, which is one of the ways `spoiled` stands for. `MessagesSettle` holds although an error may end the loop, because the
process is started again. `ShutdownEnds` is stated of all processes at once: since a
process is told to stop until its loop has ended, that again and again nobody who was
told to is still running means that each of them ends.

*The graph.* A step is recorded before its output is saved, and the record is not
conditional on the lease. `ReviewedIsComplete` says what saves the reader from that:
a skipped step whose output is missing is found before the review.
`RetryFindsOutputs` says when nothing is lost at all: as long as no delivery was
cut off or overtaken, because `_fail` saves the chunk that could not be saved. The
steps in `lost` are excepted, since the code does lose their outputs (see below); not
excepted is what a packaging that is resumed reads, whatever was lost. A
delivery counts as cut off when a `Retry` dismisses it at work: a job that was
dismissed between its terminal save and `complete` is delivered again, runs on the
failed version, and may be in the middle of a step when the client retries.
`SeededIsInherited` compares two step orders in two services.

*The files.* `ProviderIsTrue` and `VideoIsOfItsReferences` hold under overlapping
deliveries, cut uploads and fallback. `PhotosAreDistinct` and
`FilesAreTheReferences` hold as long as deliveries do not overlap, which is how far
the code carries them: see below.

*The media.* `NarrationFits` compares the running total of the budget with the
texts; `NarrationIsSpeakable` the budget's band with the tempo bounds and the
margin; `VideoIsOnOneClock` three loops that place shots, texts and sounds.

### Bounds

`MaxLock`, `MaxReceptions`, `MaxSeq`, `MaxMessages`, `MaxAttempt`, `MaxVersion`,
`MaxMade`, `MaxFaults` and `MaxDisturbances` cap what is unbounded in the code or in the
world; each is in the guard of the action that advances it. They leave room for
the hazards: a takeover with the old owner still writing needs two acquisitions and
a heartbeat (MaxLock counts heartbeats in LeaseProtocol and acquisitions
elsewhere; lease_retry, whose property knows no heartbeat, has none), a replay two
deliveries, a duplicate on two pages three events with a page of two, a revision
against a revision two requests with two bodies. Two
disturbances are an error and a crash, or a signal and an error; two faults a
failure in the fallback and a takeover, or a crash between record and save in the
delivery and another in the redelivery. Two scenes are enough for one to be found
and the other made; three photos for a choice when one is used and one was used by
another delivery; with four files, each of two deliveries can make both images. The
budget of an append is 2 where the code has 5: it is spent within the bound.

`Requests` chooses the API's operations: lease_retry has only retries, since a cancel
ends what it looks at. Its three receptions may all be of START, two of START and one
of a retry in any order, or one of START and two of retries.

The two revision scopes of step_pipeline are the ones that differ most: VIDEO
seeds six steps, SELECTED_IMAGES is refused. A VIDEO with a voice is executed in both
deliveries, one without a voice is exhausted in the second. The others, and the
first version, are covered by the proofs of ReviewedIsComplete and SeededIsInherited. The
`ConsumerLoop` run has MaxDeliveryAttempts below MaxReceiveCount, as
`terraform/environments/dev/sqs.tf:2-4` wants it; the theorem has that as its only
assumption.

The `media` instance has names of one, four and nine words, messages from short to
one that fills a third of the video, sentences to add that fit both, one or not at
all, so that budgets are missed below, met, and missed above. Its paces include the
two ends of what `NarrationIsSpeakable` claims and one beyond each.

Two of a kind of actor is the least that interleaves; the proofs cover the other
instances. The runs without a deadlock check are those of systems that stop: when
the messages are gone and the requests answered, when the package is built or the
attempts are used up, or when a bound is met.

`TypeOK` of StepPipeline and of AssetPipelines is proved, and in no run.

### Fairness

`LeaseProtocol!FairSpec` asks strong fairness of the consumer's own coroutine and
weak fairness of the heartbeat's reply: asyncio runs every task that can run, and
`asyncio.Lock` wakes its waiters in the order they came, so a heartbeat may delay a
save but not for ever. Nothing is asked of failures, crashes, heartbeats or the
queue.

`ConsumerLoop!FairSpec` asks weak fairness of a process (its loop and its delivery
take the next step), of the end of the grace period, of the restart of an ended
process by Kubernetes, and of SQS's visibility timeout and redrive, per message.
Nothing is asked of failed calls, crashes or signals, whose number is bounded. No
fairness makes the queue deliver a particular message, and none is needed:
a batch is at most all of what is visible, and every reception is counted.

Every property of a passing run has a mutant in PROJECT.json: a plausible bug in
the code of one definition, under which the property fails on the same instance.

## What the code does not do as documented

Two disagreements have a run of their own, which TLC refutes. The comment above the
property quotes the document, and PROJECT.json has the line of the code.

| run | property | what happens |
|---|---|---|
| lease_cancelledimmutable | CancelledImmutable | the exhaustion path writes FAILED over a cancellation it did not look for |
| plan_readable | PlanIsReadable | a plan of the language model whose total lies outside 13 to 20 s is accepted and saved with `model_copy`; nobody can load that version again |

The models also behave in these ways, which a document or a comment rules out; no
run is kept for them.

The lease and the requests:

- `acquire_lease` adopts a lock_version it reads after its transaction
  (`dynamodb_workflow_repository.py:114`), so a body loaded before can be saved over
  the QUEUED that a retry wrote in between; the retry's identity is then not durable
  (`campaign_service.py:304`).
- A retry's job need not be new. `acquire_lease` adopts the later lock_version for a
  body loaded before it, so a worker can save a copy from before the last attempt
  (`sqs_consumer.py:173`), and `retry.attempt`, of which the comment at
  `boundary.py:27-29` says that it "only advances on a real handle_failure-driven
  retry cycle", goes back. If that copy then fails again, its FAILED event is a
  replay and the save writes nothing; the job is completed, and the next retry of
  that attempt gets its name again: `is_completed` swallows the message and the
  version stays QUEUED, against `docs/spec.md:72` ("Work resumes once or remains
  failed"). The model has this as a behaviour of 47 steps of two workers, one client
  and three attempts, too long for a run to find from the initial state.
- A redelivery between the terminal save and `complete` runs a FINAL or FAILED
  version again: the consumer refuses only CANCELLED (`sqs_consumer.py:143`), against
  `data-model.md:86` and `campaign-lifecycle.md:20`. A crash between the PACKAGE record
  and the save of FINAL completes the job at READY_FOR_REVIEW (`boundary.py:54`),
  which `campaign-lifecycle.md:16` calls momentary.
- A connection that breaks after SQS accepted the message counts as a failed
  submission (`sqs_job_queue.py:38`), and the rollback orphans the message
  (`campaign_service.py:178`).
- A revision repeated after a retry of its child sends the retry's job under a second
  identity (`campaign_service.py:432`, against the comment at 425-428).
- The transaction of a retry does not look at the status, and a saved chunk leaves
  no trace in what it looks at (`dynamodb_campaign_repository.py:358`), against
  `data-model.md:123`.
- START is executed on a CREATED version, against `sqs-message.md:43`.
- The replay check of an event and its append are two requests
  (`dynamodb_workflow_repository.py:418`): an event_id can be in the log twice. The
  paged read removes duplicates within one query only, before it judges whether the
  page is the last (`campaign_service.py:729`).
- A replay overtaken by a rollback is told that its key was reused with a different
  request (`campaign_service.py:158`); a replay after QUEUED is answered 503
  (`:172`); nothing submits the message of a CREATED campaign again after an
  ambiguous submission.
- A consumer leased before a revision writes the parent after it
  (`dynamodb_workflow_repository.py:114`), against `data-model.md:86`.
- Cancel and retry give META the VERSION's lock_version, which starts at 0 with every
  revision (`dynamodb_campaign_repository.py:229`): META's can decrease, against
  `data-model.md:105`. `CommitIsFresh` holds nevertheless.

The loop:

- `DeadLetteredIsFailed` needs the application's bound to be lower than the queue's,
  which `environments/dev/sqs.tf:2-4` says it is. In production both are 4
  (`terraform/modules/runtime/main.tf:40`, `config.py:212`): no delivery is ever
  exhausted there, and a job that is dead-lettered leaves its campaign as it was.
- Errors of `load_version`, `acquire_lease`, the second `load_version` and
  `is_completed`, and a lost connection in `record_invalid`, `record_exhausted` or
  `release`, are raised through `process_raw` and end `run`, with the rest of the
  batch, not one delivery (`sqs_consumer.py:136`).
- The lease that a delivery left when `process` raised can outlive the visibility of
  its message, by as long as the message waited in its batch (`sqs_consumer.py:145`).
  The next reception is then spent on a LEASE_CONFLICT; if it is the exhausted one,
  its lease is refused (`:202`) and the campaign is not marked FAILED.
- A message received while the consumer is stopping has used an attempt. The waiting
  messages of a batch have no heartbeat, so a batch larger than 1 can run into their
  visibility timeout.

The graph:

- The worker without the lease writes RUNNING or FAILED over SUCCEEDED
  (`dynamodb_workflow_repository.py:285`), against `data-model.md:135`; and a crash
  between the record and the save loses the output of a step that is called done
  (`boundary.py:56`). The retry then fails at the first step that needs it.
- A SUCCEEDED record that commits and is reported as an error
  (`dynamodb_workflow_repository.py:460`) leaves the step without its output:
  `boundary.py:120` drops the result and `_fail` saves the chunk before it, while
  `job_processor.py:177` says "Retry can safely treat that step as done". The retry
  skips the step and fails at the first one that needs it; when the step was PACKAGE,
  it skips the packaging and completes its job with the version still QUEUED.
- CREATIVE_PLAN is not in the API's step order (`campaign_service.py:59`, `:459`): a
  revision that seeds it as REUSED has no plan, against `data-model.md:101`, and its
  video is composed without one.
- The exhausted path saves the body that it loaded before its lease, so FAILED can
  be written over FINAL.
- Redeliveries that fail consume the retry's attempts.
- `build_consumer` passes no `is_cancelled`, so that `NodeCancelled` cannot be raised.

The files:

- `artifact-and-error-schemas.md:41` says that checksums are over stored bytes. When
  two deliveries overlap, the later upload replaces the bytes under the key that the
  other one's reference names: `ChecksumIsOverStoredBytes` does not hold then.
- Under the same overlap two scenes can get the same photo. The video pipeline
  refuses that (`scene_mapping.py:10`), and as reconcile finds the same files again,
  it refuses it in every retry.
- The name of the renderer is not in the video's fingerprint: a video made by the
  other renderer is reused.

The media:

- A plan of five shots of which none has a text makes the hyperframes composition
  index a sixth shot (`hyperframes_composition.py:112`): the error `INDEX` of the model.
- The ffmpeg renderer shows the three scenes and no texts, while the sounds are
  placed at the plan's shots.
- Speech measured at exactly 13.0 or 20.0 s is not corrected, and gets no margin.
- `docs/spec.md` has 13 to 17 s where the contracts and the code have 13 to 20 s.
- `MUSIC_FIRST_REEL` is a value of the contract that the audio plan does not implement.

## What is proved

TLAPS proves every invariant and every safety action property that a run checks, and
the refinement of FencedVersion, for every value of the constants that satisfies the
modules' named assumptions. These are about model values being distinct from data,
bounds being natural numbers, and what an input is: a brief's parts have numbers of
words, a plan's shots are a sequence of shots. Only ConsumerLoop's set of consumers
is assumed finite, because its argument counts them.

*LeaseProtocolProofs*: TypeOK, CompletedJobIsQuiet, AckIsDurable, CancelledStays,
NoSelfFencing and FencedSpec. CompletedJobIsQuiet is not inductive: what makes it so
is which lock_versions a worker can hold. Nobody holds more than the item's
lock_version, a worker that was owner before somebody else's acquisition holds less,
and `complete` advances it, so the only workers that could write are those that
acquired after the marker was written, and these see it in CheckCompleted before
they process. NoSelfFencing adds what the mutex protects: with a heartbeat on its
way no save is being prepared, and its reply adds exactly what the item got; it is
proved of `LostReplies = FALSE`, as the run has it.

OneRetryPerFailure needs nothing of the lease. Its invariant says that there is a
function from attempts to verdicts (`Verdict`): every copy of the version, in the
table, in a worker's or a client's hands or about to be written, has the verdict of
its attempt, and so has every message that was submitted. It grows by one attempt at
the first FAILED event of that attempt, and the event's deterministic id makes every
later verdict on the same attempt a replay that writes nothing.

*EventLogProofs*: TypeOK, LogIsDense, MilestonesOnce, RecordIsLastEvent,
ContentionIsProgress, and of EventPages ReaderSkipsNothing. `CallInv` relates a call
in progress to the log: what it read is not newer than META, a budget spent by k was
k advances of the sequence, and a milestone that passed the replay check is not in
the log as long as its caller still owns the lease with the lock_version it holds -
which is what the transaction asks again. The pages are sets whose sizes the model
compares; the proof picks the least and the greatest sequence of a page, and shows
that what a page leaves out lies above what it shows. PagesOfTheLog lets the log's
theorems be used beside a reader.

*CampaignCreationProofs*: TypeOK, CreatorActsAlone, AcceptedIsKept, QueuedWasSent,
WorkedOnExists. The conditions of `rollback_initial` rest on two marks (`Marks`): a
consumer leaves one on the VERSION's lock_version only, a 202 on META's too.

*CampaignVersionsProofs*: TypeOK, AcceptedRevisionIsTheChild, CommitIsFresh. META's
lock_version is no part of the argument. Writes are fresh because the event_sequence
only grows and each write advances it (`ReadsAge`); a child keeps its revision
because a stale consumer can only save bodies that carry the revision of its own
version (`BodiesKeepRevision`), and no consumer or message is for a version that
does not exist (`InRange`).

*ConsumerLoopProofs*: TypeOK, NothingRunsAfterShutdown, AttemptsAreAccounted, and
DeadLetteredIsFailed assuming `MaxDeliveryAttempts < MaxReceiveCount`. `Fine` says
of a process that nothing is active after its shutdown and that the loop, the batch
and the place in the delivery fit together. `Settled` is what carries the second: a
job received more often than the application allows is over, or is due in some batch
as an exhausted delivery, or its chance was spoiled. The dead letter queue takes it
only after its last reception (`Buried`), when by then nothing is due.
AttemptsAreAccounted is a credit argument, message by message. Work and disturbances
pay for two deliveries each: their own, and one that the lease they leave may cost. To
the receptions are added the deliveries that are paid for and still in hand (`Owed`,
twice where a signal has come during one, `Late`), the batches that a stopping
consumer may yet receive and will leave (`Prepaid`), and what the lease may still cost
(`Grade`: nothing while there is none or its owner was not counted yet, one while its
owner is past that or once it has outlived a timeout, two when it was left and has its
timeout before it). The sum never exceeds what was paid, but for the one delivery that
is in hand (`Balanced`).

*StepPipelineProofs*: TypeOK, ReviewedIsComplete, SeededIsInherited,
RetryFindsOutputs. Step records are no part of the argument for the review, since
any worker may write them. What is: every body, in the table or in a worker's hands,
is `Whole` (its status implies the mark of the review, and the mark implies the
outputs), holds what the version was created with, and only ever gains outputs
(`Good`). `Seeds` says which steps can be REUSED, and the two step orders are
compared scope by scope (`SeededIsCopied`). For RetryFindsOutputs they are (`KInv`):
as long as nobody was cut off, whoever has begun a delivery owns the lease, every
step recorded as SUCCEEDED, but for the lost ones, is among the outputs of his body,
or of the version when nobody is at work, and a packaging that is resumed was approved.

*AssetPipelinesProofs*: TypeOK, ProviderIsTrue, VideoIsOfItsReferences,
PhotosAreDistinct, FilesAreTheReferences. For the second and third the bytes at a
key are not part of the argument, since anybody may replace them. What is: a
description in the store tells the truth about the checksum it holds (`Labelled`),
and a delivery's images are by the provider it works with, from the first found file
to its reference (`Fine`). That a fallback begins anew, and that reconcile compares
the description with the bytes it has read, is what the steps FallsBack and HitIs
rest on. The last two hold while deliveries do not overlap (`Kept`): one delivery is
at work, the files of the steps before its own are those of its body, and an upload
that was cut off left new bytes under an old description at most, which reconcile
finds wrong.

*MediaTimingProofs*: TypeOK, which bounds the length of a stored voice whatever was
measured, and RefusedEarly, from what each step leaves for the next (`Promised`);
NarrationFits, from what dropping or adding one part does to a draft whose total is
the number of its words (`Shortens`, `Extends`); NarrationIsSpeakable, from the
bounds on what 32 to 41 words last at each pace (`BandIsSpeakable`); and
VideoIsOnOneClock. The last is about sums over shots, for plans of any length: the
three clocks are the same running total (`Clocks`), a recursive function, and that it exists, grows by each length in
turn and stretches with them (`RunsExist`, `ElapsedIs`, `Stretched`) is shown by a
least counterexample, since natural numbers are well founded, in place of an
induction.

Only model-checked:

- DeliveryEnds, ShutdownEnds, MessagesSettle: liveness under fairness is out of
  the prover's reach.
- The refutations.

## What is not modelled

- The content of a version: briefs, copy, storyboards. The models follow its status,
  job, attempt, resume point and revision, which outputs it has, and which files
  these refer to; MediaTiming follows the words and seconds of one campaign.
- `expires` and `now`: a lease may expire at any moment, which includes the
  clock skew of two workers; so may a visibility timeout.
- Encoders and renderers: what they produce is a choice, as are provider answers.
  The checks of a file that was produced (size, codec, loudness) end a delivery as a
  failure. The audio mix, HTML, CSS and ffmpeg filter texts, the ranking of photos
  and the search queries are left out.
- `MAX_NARRATION_CHARS` and candidate sentences that are equal in the narration budget.
- Campaign lists, artifact links, health, metrics, logging: reads or no state.
- The in-memory repository and queue of the API's tests.
- The frontend, the providers' HTTP clients and the deployment.

## The plan

1. Proofs: that the requests of CampaignVersions and LeaseProtocol agree on what a
   retry does to one version, as a refinement; the exact condition under which a
   retry's job is new (no body saved that was loaded before the last attempt).
2. **Lifecycle** (`shared/.../validation.py`): the documented transitions as an
   abstract specification of a version's status, refined by LeaseProtocol and
   CampaignVersions as far as the findings allow.
3. The audio mix (`video/audio_mix.py`) and the offset pagination of lists, as functions
   against reference definitions over bounded inputs.
4. Frontend polling: cached queries against a table that changes, terminal states
   that a retry or a revision leaves again.
