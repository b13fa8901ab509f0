----------------------------- MODULE StepPipeline -----------------------------
(***************************************************************************)
(* One campaign version in the worker's graph: the STEP records that say   *)
(* which steps are done, and the version body that holds their outputs.    *)
(*                                                                         *)
(* A step is recorded first (save_step, no condition on the lease) and its *)
(* output is saved afterwards with the whole body (save_version,           *)
(* conditional on the lease).  A redelivery or a retry runs the graph from *)
(* its first node and skips what the records call done.  The lease is      *)
(* abstracted to its owner (LeaseProtocol has the protocol), events to     *)
(* their deterministic ids (EventLog has the appends), an output to        *)
(* whether the body has it.                                                *)
(***************************************************************************)
EXTENDS Naturals, Sequences

CONSTANTS
    Worker,
    None,                 \* no owner, no step
    MaxAttempts,          \* RetryMetadata.max_attempts
    MaxReceiveCount,      \* the queue's redrive bound
    MaxFaults,            \* bound of the model: crashes, timeouts, failures of providers and stores
    Cases                 \* the versions considered, each with its settings.max_delivery_attempts

\* RevisionTarget; None: a first version.
Scopes == {None, "STRATEGY", "COPY", "STORYBOARD", "SELECTED_IMAGES", "VIDEO"}

ASSUME StepPipelineAssumption ==
    /\ None \notin Worker \cup {"REUSED", "SUCCEEDED", "PACKAGE"}
    /\ None \notin {"STRATEGY", "COPY", "STORYBOARD", "SELECTED_IMAGES", "VIDEO"}
    /\ {MaxAttempts, MaxReceiveCount, MaxFaults} \subseteq Nat
    /\ Cases \subseteq [scope : Scopes, limit : Nat, voice : BOOLEAN]

\* _PIPELINE_ORDER: the worker's steps.
PipelineOrder == <<"STRATEGY", "COPY", "STORYBOARD", "CREATIVE_PLAN", "IMAGES", "VOICEOVER", "VIDEO">>
Tracked == {PipelineOrder[i] : i \in 1..7} \cup {"PACKAGE"}

\* The graph: the nodes that change nothing are left out, REVIEW stands for
\* validate_review_package and await_human_approval, PACKAGE is the graph of
\* its own that follows.
Graph == PipelineOrder \o <<"REVIEW", "PACKAGE">>
Review == 8
Package == 9

VARIABLES
    scope,     \* the revision that made this version, or None
    limit,     \* settings.max_delivery_attempts: deliveries after which the job is given up
    voice,     \* audio_plan_for(brief.video_style).voiceover_required
    version,   \* the VERSION item's body
    record,    \* the STEP items: their status, or None
    events,    \* ids of the STEP events in the log
    owner,     \* the worker whose lock_version the VERSION item carries, or None
    sent,      \* submitted jobs: the operation and retry attempt of each
    received,  \* deliveries of each job
    completed, \* jobs with a completion marker
    worker,    \* per worker: its delivery
    faults,    \* how many of them have happened
    interrupted, \* history: a delivery was cut off or overtaken by another
    lost       \* history: steps recorded as SUCCEEDED by a request that failed

vars == <<scope, limit, voice, version, record, events, owner, sent, received, completed, worker, faults, interrupted, lost>>
fixed == <<scope, limit, voice>>
queue == <<sent, received, completed>>

-----------------------------------------------------------------------------
\* What a node raises ValueError (or a pipeline its precondition) without.
Requires(step) ==
    CASE step = "STRATEGY"      -> {}
      [] step = "COPY"          -> {"STRATEGY"}
      [] step = "STORYBOARD"    -> {"STRATEGY"}
      [] step = "CREATIVE_PLAN" -> {"STRATEGY", "COPY", "STORYBOARD"}
      [] step = "IMAGES"        -> {"STORYBOARD"}
      [] step = "VOICEOVER"     -> IF voice THEN {"STORYBOARD"} ELSE {}
      [] step = "VIDEO"         -> {"STORYBOARD", "IMAGES"} \cup IF voice THEN {"VOICEOVER"} ELSE {}
      [] step = "PACKAGE"       -> {"STRATEGY", "COPY", "STORYBOARD", "IMAGES", "VIDEO", "REVIEW"}

\* The check of the video is left out.
ReviewRequiresMutant ==
    {"STRATEGY", "COPY", "STORYBOARD", "IMAGES"} \cup IF voice THEN {"VOICEOVER"} ELSE {}

\* validate_review_package.
ReviewRequires ==
    {"STRATEGY", "COPY", "STORYBOARD", "IMAGES", "VIDEO"} \cup IF voice THEN {"VOICEOVER"} ELSE {}

Done == {"SUCCEEDED", "REUSED", "SKIPPED"}

\* _last_completed_pipeline_step: an index of PipelineOrder, or 0.
LastDone ==
    LET done == {i \in 1..7 : record[PipelineOrder[i]] \in Done}
    IN  IF done = {} THEN 0 ELSE CHOOSE i \in done : \A j \in done : j <= i

ResumePoint == IF LastDone = 0 THEN None ELSE PipelineOrder[LastDone]

\* _in_flight_step.
InFlight(body) ==
    CASE LastDone = 0 -> IF body.resume = None THEN PipelineOrder[1] ELSE body.resume
      [] LastDone \in 1..6 -> PipelineOrder[LastDone + 1]
      [] OTHER -> PipelineOrder[7]

\* earliest_regeneration_step, as a place in the graph.
Earliest ==
    CASE scope = "STRATEGY" -> 1
      [] scope = "COPY" -> 2
      [] scope = "STORYBOARD" -> 3
      [] scope = "SELECTED_IMAGES" -> 5
      [] scope = "VIDEO" -> 7

\* The voice artifact is forgotten.
CopiedMutant(target, spoken) ==
    CASE target \in {None, "STRATEGY"} -> {}
      [] target = "COPY" -> {"STRATEGY"}
      [] target = "STORYBOARD" -> {"STRATEGY", "COPY"}
      [] target = "SELECTED_IMAGES" -> {"STRATEGY", "COPY", "STORYBOARD"}
      [] target = "VIDEO" -> {"STRATEGY", "COPY", "STORYBOARD", "IMAGES"}

\* What CampaignService.revise copies into the child: its own _STEP_ORDER has
\* no CREATIVE_PLAN.
Copied(target, spoken) ==
    CASE target \in {None, "STRATEGY"} -> {}
      [] target = "COPY" -> {"STRATEGY"}
      [] target = "STORYBOARD" -> {"STRATEGY", "COPY"}
      [] target = "SELECTED_IMAGES" -> {"STRATEGY", "COPY", "STORYBOARD"}
      [] target = "VIDEO" -> {"STRATEGY", "COPY", "STORYBOARD", "IMAGES"} \cup IF spoken THEN {"VOICEOVER"} ELSE {}

NewVersion(outputs) ==
    [status |-> "QUEUED", outputs |-> outputs, attempt |-> 0, retryable |-> FALSE, resume |-> None]

NoJob == [op |-> "START", attempt |-> 0]
Idle == [pc |-> "idle", job |-> NoJob, body |-> NewVersion({}), at |-> 0, step |-> None, again |-> FALSE]

At(w, label) == worker[w].pc = label
Goto(w, label) == worker' = [worker EXCEPT ![w].pc = label]
Drop(w) == worker' = [worker EXCEPT ![w] = Idle]
Step(w) == Graph[worker[w].at]
Fault == faults < MaxFaults /\ faults' = faults + 1

Init ==
    /\ \E case \in Cases : scope = case.scope /\ limit = case.limit /\ voice = case.voice
    /\ version = NewVersion(Copied(scope, voice))
    /\ record = [s \in Tracked |-> None]
    /\ events = {}
    /\ owner = None
    /\ sent = {[op |-> IF scope = None THEN "START" ELSE "REGENERATE", attempt |-> 0]}
    /\ received = [j \in sent |-> 0]
    /\ completed = {}
    /\ worker = [w \in Worker |-> Idle]
    /\ faults = 0
    /\ interrupted = FALSE
    /\ lost = {}

-----------------------------------------------------------------------------
(* The delivery.                                                           *)

\* SQSConsumer: receive and load_version.  A message that another worker has
\* not finished comes again when its visibility ends.
Deliver(w, j) ==
    /\ At(w, "idle")
    /\ j \in sent \ completed
    /\ received[j] < MaxReceiveCount
    /\ received' = [received EXCEPT ![j] = @ + 1]
    /\ IF \E v \in Worker : ~At(v, "idle") /\ worker[v].job = j THEN Fault ELSE UNCHANGED faults
    /\ worker' = [worker EXCEPT ![w] =
           [Idle EXCEPT !.job = j, !.body = version,
                        !.pc = IF received[j] < limit THEN "loaded" ELSE "exhausted"]]
    /\ UNCHANGED <<fixed, version, record, events, owner, sent, completed, interrupted, lost>>

\* What process() does first.
FirstLabel(w) ==
    CASE worker[w].job.op # "REGENERATE" -> "chunk"
      [] scope = "SELECTED_IMAGES" -> "unsupported"
      [] Earliest = 1 -> "chunk"
      [] OTHER -> "seed"

\* Another delivery had the lease, or has saved since this one loaded the body.
Overtaken(w) == owner # None \/ worker[w].body # version

\* The lease is free or has expired.  The job was completed meanwhile, or
\* process() begins with the body that was loaded before.
Acquire(w) ==
    /\ At(w, "loaded")
    /\ IF worker[w].job \in completed
       THEN owner' = None /\ Drop(w)
       ELSE owner' = w /\ Goto(w, FirstLabel(w))
    /\ interrupted' = (interrupted \/ Overtaken(w))
    /\ UNCHANGED <<fixed, faults, version, record, events, queue, lost>>

\* _mark_exhausted_campaign_failed and fail_delivery_exhausted up to its write.
AcquireExhausted(w) ==
    /\ At(w, "exhausted")
    /\ IF worker[w].body.status \in {"FAILED", "FINAL"}
       THEN owner' = None /\ Drop(w)
       ELSE /\ owner' = w
            /\ worker' = [worker EXCEPT ![w] = [@ EXCEPT !.pc = "giving up", !.step = InFlight(worker[w].body)]]
    /\ interrupted' = (interrupted \/ Overtaken(w))
    /\ UNCHANGED <<fixed, faults, version, record, events, queue, lost>>

\* The process dies, a lease is refused, or a store fails where the delivery
\* ends with it: in seeding, in _fail's own save, in complete.
Abandon(w) ==
    /\ worker[w].pc # "idle"
    /\ Drop(w)
    /\ interrupted' = TRUE
    /\ Fault
    /\ UNCHANGED <<fixed, version, record, events, owner, queue, lost>>

\* LeaseLost: the save of the chunk is refused, and so is the one of _fail.
Lost(w) ==
    /\ worker[w].pc \in {"chunk", "failing", "giving up", "unsupported", "completing"}
    /\ owner # w
    /\ Drop(w)
    /\ interrupted' = TRUE
    /\ UNCHANGED <<fixed, faults, version, record, events, owner, queue, lost>>

\* complete: the marker and the end of the lease.
Complete(w) ==
    /\ At(w, "completing")
    /\ owner = w
    /\ completed' = completed \cup {worker[w].job}
    /\ owner' = None
    /\ Drop(w)
    /\ UNCHANGED <<fixed, faults, version, record, events, sent, received, interrupted, lost>>

-----------------------------------------------------------------------------
(* with_step_tracking.                                                     *)

Event(s, type, attempt) == [step |-> s, type |-> type, attempt |-> attempt]

\* save_step: an event that is in the log already writes nothing, not even
\* the record.
SaveStep(s, status, event) ==
    IF event \in events
    THEN UNCHANGED <<record, events>>
    ELSE /\ record' = [record EXCEPT ![s] = status]
         /\ events' = events \cup {event}

\* _seed_reused_steps, one step of it.
Seed(w) ==
    /\ At(w, "seed")
    /\ LET i == worker[w].at + 1 IN
       /\ SaveStep(PipelineOrder[i], "REUSED", Event(PipelineOrder[i], "REUSED", 0))
       /\ worker' = [worker EXCEPT ![w] = IF i + 1 = Earliest THEN [@ EXCEPT !.pc = "chunk", !.at = 0]
                                                              ELSE [@ EXCEPT !.at = i]]
    /\ UNCHANGED <<fixed, faults, version, owner, queue, interrupted, lost>>

\* get_step; a step that is done passes the body on as it is.
Skip(w) ==
    /\ At(w, "node")
    /\ Step(w) \in Tracked
    /\ record[Step(w)] \in Done
    /\ Goto(w, "chunk")
    /\ UNCHANGED <<fixed, faults, version, record, events, owner, queue, interrupted, lost>>

\* get_step finds no such record; save_step RUNNING comes later.
Begin(w) ==
    /\ At(w, "node")
    /\ Step(w) \in Tracked
    /\ record[Step(w)] \notin Done
    /\ Goto(w, "start")
    /\ UNCHANGED <<fixed, faults, version, record, events, owner, queue, interrupted, lost>>

Skipped(w) == Step(w) = "VOICEOVER" /\ ~voice

\* The save_step that w sends next.
Track(w) ==
    LET event(type) == Event(Step(w), type, worker[w].body.attempt) IN
    \/ At(w, "start") /\ SaveStep(Step(w), "RUNNING", event("STARTED"))
    \/ At(w, "done") /\ Skipped(w) /\ SaveStep(Step(w), "SKIPPED", event("SKIPPED"))
    \/ At(w, "done") /\ ~Skipped(w) /\ SaveStep(Step(w), "SUCCEEDED", event("COMPLETED"))
    \/ At(w, "undone") /\ SaveStep(Step(w), "FAILED", event("FAILED"))

Start(w) ==
    /\ At(w, "start")
    /\ Track(w)
    /\ Goto(w, "run")
    /\ UNCHANGED <<fixed, faults, version, owner, queue, interrupted, lost>>

\* The node: its provider answers, or it raises.
Run(w) ==
    /\ At(w, "run")
    /\ \/ /\ Requires(Step(w)) \subseteq worker[w].body.outputs
          /\ Goto(w, "done")
          /\ UNCHANGED faults
       \/ /\ Fault \/ (~Requires(Step(w)) \subseteq worker[w].body.outputs /\ UNCHANGED faults)
          /\ \E again \in BOOLEAN :
                worker' = [worker EXCEPT ![w] = [@ EXCEPT !.pc = "undone", !.step = Step(w), !.again = again]]
    /\ UNCHANGED <<fixed, version, record, events, owner, queue, interrupted, lost>>

\* The body that the node returned.
Result(w) ==
    LET body == worker[w].body IN
    IF Skipped(w) THEN body
    ELSE [body EXCEPT !.outputs = body.outputs \cup {Step(w)},
                      !.status = IF Step(w) = "PACKAGE" THEN "FINAL" ELSE body.status]

RecordDone(w) ==
    /\ At(w, "done")
    /\ Track(w)
    /\ worker' = [worker EXCEPT ![w] = [@ EXCEPT !.pc = "chunk", !.body = Result(w)]]
    /\ UNCHANGED <<fixed, faults, version, owner, queue, interrupted, lost>>

RecordFailed(w) ==
    /\ At(w, "undone")
    /\ Track(w)
    /\ Goto(w, "failing")
    /\ UNCHANGED <<fixed, faults, version, owner, queue, interrupted, lost>>

\* A request of with_step_tracking fails and has written nothing: NodeFailure
\* names the step, and the node's result is gone.
TrackingFails(w) ==
    /\ worker[w].pc \in {"node", "start", "done", "undone"}
    /\ Step(w) \in Tracked
    /\ worker' = [worker EXCEPT ![w] = [@ EXCEPT !.pc = "failing", !.step = Step(w), !.again = TRUE]]
    /\ Fault
    /\ UNCHANGED <<fixed, version, record, events, owner, queue, interrupted, lost>>

\* PersistenceUnavailable although save_step committed.
TrackingUncertain(w) ==
    /\ Track(w)
    /\ lost' = lost \cup IF At(w, "done") /\ ~Skipped(w) THEN {Step(w)} ELSE {}
    /\ worker' = [worker EXCEPT ![w] = [@ EXCEPT !.pc = "failing", !.step = Step(w), !.again = TRUE]]
    /\ Fault
    /\ UNCHANGED <<fixed, version, owner, queue, interrupted>>

Reviewed(body) == [body EXCEPT !.status = "READY_FOR_REVIEW", !.outputs = body.outputs \cup {"REVIEW"}]

\* validate_review_package and await_human_approval.
AwaitApproval(w) ==
    /\ At(w, "node")
    /\ worker[w].at = Review
    /\ worker' = [worker EXCEPT ![w] = IF ReviewRequires \subseteq worker[w].body.outputs
                                       THEN [@ EXCEPT !.pc = "chunk", !.body = Reviewed(worker[w].body)]
                                       ELSE [@ EXCEPT !.pc = "failing", !.step = ResumePoint, !.again = TRUE]]
    /\ UNCHANGED <<fixed, faults, version, record, events, owner, queue, interrupted, lost>>

-----------------------------------------------------------------------------
(* process: the two streams and their saves.                               *)

NextPlace(w) ==
    CASE worker[w].at > 0 -> worker[w].at + 1
      [] worker[w].job.op = "RESUME" -> Package
      [] OTHER -> 1

SaveChunk(w) ==
    /\ At(w, "chunk")
    /\ owner = w
    /\ version' = worker[w].body
    /\ IF worker[w].at = Package
       THEN Goto(w, "completing")
       ELSE worker' = [worker EXCEPT ![w] = [@ EXCEPT !.pc = "node", !.at = NextPlace(w)]]
    /\ UNCHANGED <<fixed, faults, record, events, owner, queue, interrupted, lost>>

\* The failure is recorded on the body that is in the table.
SaveChunkFailsMutant(w) ==
    /\ At(w, "chunk")
    /\ Fault
    /\ worker' = [worker EXCEPT ![w] =
          [@ EXCEPT !.pc = "failing", !.step = ResumePoint, !.again = TRUE, !.body = version]]
    /\ UNCHANGED <<fixed, version, record, events, owner, queue, interrupted, lost>>

\* PersistenceUnavailable, and nothing was written.
SaveChunkFails(w) ==
    /\ At(w, "chunk")
    /\ worker' = [worker EXCEPT ![w] = [@ EXCEPT !.pc = "failing", !.step = ResumePoint, !.again = TRUE]]
    /\ Fault
    /\ UNCHANGED <<fixed, version, record, events, owner, queue, interrupted, lost>>

\* PersistenceUnavailable although the save committed: _fail writes over it, for
\* save_version leaves the lock_version that it is conditional on as it was.
SaveChunkUncertain(w) ==
    /\ At(w, "chunk")
    /\ owner = w
    /\ version' = worker[w].body
    /\ worker' = [worker EXCEPT ![w] = [@ EXCEPT !.pc = "failing", !.step = ResumePoint, !.again = TRUE]]
    /\ Fault
    /\ UNCHANGED <<fixed, record, events, owner, queue, interrupted, lost>>

\* handle_failure.
Failed(body, step, again) ==
    [body EXCEPT !.status = "FAILED",
                 !.attempt = body.attempt + 1,
                 !.retryable = again /\ body.attempt + 1 < MaxAttempts,
                 !.resume = step]

\* _fail; the exhausted delivery releases its lease and completes nothing.
Fail(w) ==
    /\ worker[w].pc \in {"failing", "giving up"}
    /\ owner = w
    /\ version' = Failed(worker[w].body, worker[w].step, worker[w].again)
    /\ IF At(w, "giving up")
       THEN owner' = None /\ Drop(w)
       ELSE owner' = owner /\ Goto(w, "completing")
    /\ UNCHANGED <<fixed, faults, record, events, queue, interrupted, lost>>

\* _fail_unsupported_scope.
FailUnsupported(w) ==
    /\ At(w, "unsupported")
    /\ owner = w
    /\ version' = [worker[w].body EXCEPT !.status = "FAILED", !.retryable = FALSE]
    /\ Goto(w, "completing")
    /\ UNCHANGED <<fixed, faults, record, events, owner, queue, interrupted, lost>>

\* CampaignService.retry: the write dismisses whoever holds the lease, which
\* cuts a delivery off unless it had nothing left to do but complete.
Retry ==
    /\ version.status = "FAILED"
    /\ version.retryable
    /\ version.resume # None
    /\ LET job == [op |-> IF version.resume = "PACKAGE" THEN "RESUME" ELSE "START", attempt |-> version.attempt]
       IN /\ sent' = sent \cup {job}
          /\ received' = [j \in sent' |-> IF j \in sent THEN received[j] ELSE 0]
    /\ version' = [version EXCEPT !.status = "QUEUED"]
    /\ owner' = None
    /\ interrupted' = (interrupted \/ \E w \in Worker : owner = w /\ ~At(w, "completing"))
    /\ UNCHANGED <<fixed, faults, record, events, completed, worker, lost>>

Work(w) ==
    \/ Acquire(w) \/ AcquireExhausted(w) \/ Lost(w) \/ Complete(w)
    \/ Seed(w) \/ Skip(w) \/ Begin(w) \/ Start(w) \/ Run(w) \/ RecordDone(w) \/ RecordFailed(w)
    \/ AwaitApproval(w) \/ SaveChunk(w) \/ Fail(w) \/ FailUnsupported(w)

Faults(w) == Abandon(w) \/ TrackingFails(w) \/ TrackingUncertain(w) \/ SaveChunkFails(w) \/ SaveChunkUncertain(w)

Next ==
    \/ \E w \in Worker : Work(w) \/ Faults(w) \/ \E j \in sent : Deliver(w, j)
    \/ Retry

Spec == Init /\ [][Next]_vars

-----------------------------------------------------------------------------
(* Properties.                                                             *)

Output == Tracked \cup {"REVIEW"}
Body == [status : {"QUEUED", "FAILED", "READY_FOR_REVIEW", "FINAL"}, outputs : SUBSET Output,
         attempt : Nat, retryable : BOOLEAN, resume : Tracked \cup {None}]
Job == [op : {"START", "RESUME", "REGENERATE"}, attempt : Nat]

\* The types of the variables.
TypeOK ==
    /\ scope \in Scopes
    /\ limit \in Nat
    /\ voice \in BOOLEAN
    /\ version \in Body
    /\ record \in [Tracked -> {"RUNNING", "FAILED", None} \cup Done]
    /\ events \subseteq [step : Tracked, type : {"STARTED", "COMPLETED", "SKIPPED", "FAILED", "REUSED"}, attempt : Nat]
    /\ owner \in Worker \cup {None}
    /\ sent \subseteq Job
    /\ received \in [sent -> Nat]
    /\ completed \subseteq Job
    /\ faults \in 0..MaxFaults
    /\ interrupted \in BOOLEAN
    /\ lost \subseteq Tracked
    /\ worker \in [Worker -> [pc : {"idle", "loaded", "exhausted", "seed", "node", "start", "run", "done", "undone",
                                    "chunk", "failing", "giving up", "unsupported", "completing"},
                              job : Job, body : Body, at : 0..Package, step : Tracked \cup {None}, again : BOOLEAN]]

Shown == {"STRATEGY", "COPY", "STORYBOARD", "IMAGES", "VIDEO", "REVIEW"} \cup IF voice THEN {"VOICEOVER"} ELSE {}

\* A version that waits for review or is final has every output a client is
\* shown: a step skipped for its record while its output was lost in a crash,
\* or overwritten by a worker with an older body, is found before the review.
\* validate_review_package, await_human_approval and prepare_final_package.
ReviewedIsComplete ==
    /\ version.status \in {"READY_FOR_REVIEW", "FINAL"} => Shown \subseteq version.outputs
    /\ version.status = "FINAL" => "PACKAGE" \in version.outputs

\* Which outputs a child version inherits and which of its steps are seeded as
\* REUSED are computed in two services, each from a step order of its own: apart
\* from CREATIVE_PLAN, which one of them does not know, they agree.
SeededIsInherited ==
    \A s \in Tracked \ {"CREATIVE_PLAN"} :
        record[s] = "REUSED" /\ (s = "VOICEOVER" => voice) => s \in version.outputs

\* job_processor.py on the last completed step: "Retry can safely treat that
\* step as done."  As long as no delivery was cut off, a retry finds the output
\* of every step it will skip, but for the steps whose SUCCEEDED record committed
\* and was reported as an error: a save of the version that fails after the step
\* was recorded loses nothing, because _fail saves the chunk again.  And the
\* packaging graph, which generates nothing, finds all that it reads.
RetryFindsOutputs ==
    version.status = "FAILED" /\ owner = None /\ ~interrupted =>
        /\ \A s \in Tracked \ lost : record[s] = "SUCCEEDED" => s \in version.outputs
        /\ version.resume = "PACKAGE" => Requires("PACKAGE") \subseteq version.outputs
=============================================================================
