-------------------------- MODULE StepPipelineProofs --------------------------
(***************************************************************************)
(* For any number of workers, deliveries, retries and faults: a version    *)
(* that is shown for review or is final has every output; a child version  *)
(* holds what its seeded steps stand for; and a retry finds the outputs of *)
(* the steps it skips, unless a delivery was cut off or overtaken, or the  *)
(* step's record committed and was reported as an error.                   *)
(***************************************************************************)
EXTENDS StepPipeline, SequenceTheorems, TLAPS

\* Revision scopes for which steps are seeded.
Seeding == {"COPY", "STORYBOARD", "VIDEO"}

\* An output "REVIEW" means that the review package was complete.
Whole(body) ==
    /\ body.status \in {"READY_FOR_REVIEW", "FINAL"} => "REVIEW" \in body.outputs
    /\ body.status = "FINAL" => "PACKAGE" \in body.outputs
    /\ "REVIEW" \in body.outputs => Shown \subseteq body.outputs

\* A body is typed, whole, and has what the version began with.
Good(body) == body \in Body /\ Whole(body) /\ Copied(scope, voice) \subseteq body.outputs

Labels == {"idle", "loaded", "exhausted", "seed", "node", "start", "run", "done", "undone",
           "chunk", "failing", "giving up", "unsupported", "completing"}
Delivery == [pc : Labels, job : Job, body : Body, at : 0..Package, step : Tracked \cup {None}, again : BOOLEAN]

\* What is true of a delivery s at each place.
Fine(s) ==
    /\ s.pc # "idle" => Good(s.body)
    /\ s.pc = "loaded" => s.at = 0
    /\ s.pc = "seed" => scope \in Seeding /\ s.at + 1 < Earliest
    /\ s.pc \in {"start", "run", "done", "undone"} => Graph[s.at] \in Tracked
    /\ s.pc = "done" => Requires(Graph[s.at]) \subseteq s.body.outputs
    /\ s.job.op = "REGENERATE" => scope # None

Workers == worker \in [Worker -> Delivery] /\ \A w \in Worker : Fine(worker[w])

Fixed == scope \in Scopes /\ limit \in Nat /\ voice \in BOOLEAN

Records ==
    /\ record \in [Tracked -> {"RUNNING", "FAILED", None} \cup Done]
    /\ events \subseteq [step : Tracked, type : {"STARTED", "COMPLETED", "SKIPPED", "FAILED", "REUSED"}, attempt : Nat]

\* Only steps before the first one to be done again are seeded.
Seeds ==
    \A s \in Tracked : record[s] = "REUSED" =>
        scope \in Seeding /\ \E i \in 1..7 : i < Earliest /\ s = PipelineOrder[i]

Jobs ==
    /\ sent \subseteq Job
    /\ \A j \in sent : j.op = "REGENERATE" => scope # None
    /\ received \in [sent -> Nat]
    /\ completed \subseteq Job

Rest == owner \in Worker \cup {None} /\ faults \in 0..MaxFaults /\ interrupted \in BOOLEAN

IInv == Fixed /\ Good(version) /\ Records /\ Seeds /\ Jobs /\ Rest /\ Workers

-----------------------------------------------------------------------------
LEMMA Constants ==
    /\ None \notin Worker /\ None # "REUSED"
    /\ None \notin {"STRATEGY", "COPY", "STORYBOARD", "SELECTED_IMAGES", "VIDEO"}
    /\ MaxAttempts \in Nat /\ MaxFaults \in Nat
    /\ Scopes = {None, "STRATEGY", "COPY", "STORYBOARD", "SELECTED_IMAGES", "VIDEO"}
  BY StepPipelineAssumption DEF Scopes

LEMMA Order ==
    /\ PipelineOrder[1] = "STRATEGY" /\ PipelineOrder[2] = "COPY" /\ PipelineOrder[3] = "STORYBOARD"
    /\ PipelineOrder[4] = "CREATIVE_PLAN" /\ PipelineOrder[5] = "IMAGES" /\ PipelineOrder[6] = "VOICEOVER"
    /\ PipelineOrder[7] = "VIDEO"
  BY DEF PipelineOrder

LEMMA TrackedIs ==
    /\ Tracked = {"STRATEGY", "COPY", "STORYBOARD", "CREATIVE_PLAN", "IMAGES", "VOICEOVER", "VIDEO", "PACKAGE"}
    /\ \A i \in 1..7 : PipelineOrder[i] \in Tracked
<1>1. {PipelineOrder[i] : i \in 1..7}
      = {"STRATEGY", "COPY", "STORYBOARD", "CREATIVE_PLAN", "IMAGES", "VOICEOVER", "VIDEO"}
  BY Order
<1> QED
  BY <1>1 DEF Tracked

\* The steps before the first one to be done again are among the outputs that
\* the child inherited, where there is an output at all.
LEMMA SeededIsCopied ==
  ASSUME Fixed, scope \in Seeding, NEW i \in 1..7, i < Earliest,
         PipelineOrder[i] # "CREATIVE_PLAN", PipelineOrder[i] = "VOICEOVER" => voice
  PROVE  PipelineOrder[i] \in Copied(scope, voice)
<1>1. CASE scope = "COPY"
  <2>1. Earliest = 2
    BY <1>1 DEF Earliest
  <2>2. Copied(scope, voice) = {"STRATEGY"}
    BY <1>1, Constants DEF Copied
  <2> QED
    BY <2>1, <2>2, Order
<1>2. CASE scope = "STORYBOARD"
  <2>1. Earliest = 3
    BY <1>2 DEF Earliest
  <2>2. Copied(scope, voice) = {"STRATEGY", "COPY"}
    BY <1>2, Constants DEF Copied
  <2> QED
    BY <2>1, <2>2, Order
<1>3. CASE scope = "VIDEO"
  <2>1. Earliest = 7
    BY <1>3 DEF Earliest
  <2>2. Copied(scope, voice) = {"STRATEGY", "COPY", "STORYBOARD", "IMAGES"} \cup IF voice THEN {"VOICEOVER"} ELSE {}
    BY <1>3, Constants DEF Copied
  <2>3. i \in 1..6
    BY <2>1
  <2> QED
    BY <2>2, <2>3, Order DEF Fixed
<1> QED
  BY <1>1, <1>2, <1>3 DEF Seeding

LEMMA CopiedOutputs ==
  ASSUME Fixed
  PROVE  Copied(scope, voice) \subseteq Output /\ "REVIEW" \notin Copied(scope, voice)
<1>1. scope \in {None, "STRATEGY", "COPY", "STORYBOARD", "SELECTED_IMAGES", "VIDEO"}
  BY Constants DEF Fixed
<1> QED
  BY <1>1, TrackedIs, Constants DEF Copied, Output

\* The last of a set of places.
LEMMA LastOf ==
  ASSUME NEW S \in SUBSET (1..7), S # {}
  PROVE  \E i \in S : \A j \in S : j <= i
<1>1. CASE 7 \in S
  BY <1>1
<1>2. CASE 7 \notin S /\ 6 \in S
  BY <1>2
<1>3. CASE 7 \notin S /\ 6 \notin S /\ 5 \in S
  BY <1>3
<1>4. CASE 7 \notin S /\ 6 \notin S /\ 5 \notin S /\ 4 \in S
  BY <1>4
<1>5. CASE 7 \notin S /\ 6 \notin S /\ 5 \notin S /\ 4 \notin S /\ 3 \in S
  BY <1>5
<1>6. CASE 7 \notin S /\ 6 \notin S /\ 5 \notin S /\ 4 \notin S /\ 3 \notin S
  <2>1. S \subseteq {1, 2}
    BY <1>6
  <2>2. CASE 2 \in S
    BY <2>1, <2>2
  <2>3. CASE 2 \notin S
    <3>1. 1 \in S
      BY <2>1, <2>3
    <3> QED
      BY <2>1, <2>3, <3>1
  <2> QED
    BY <2>2, <2>3
<1> QED
  BY <1>1, <1>2, <1>3, <1>4, <1>5, <1>6

LEMMA LastDoneType == LastDone \in 0..7
<1> DEFINE done == {i \in 1..7 : record[PipelineOrder[i]] \in Done}
<1>1. CASE done = {}
  BY <1>1 DEF LastDone
<1>2. CASE done # {}
  <2>1. \E i \in done : \A j \in done : j <= i
    BY <1>2, LastOf
  <2>2. LastDone = CHOOSE i \in done : \A j \in done : j <= i
    BY <1>2 DEF LastDone
  <2>3. LastDone \in done
    BY <2>1, <2>2
  <2> QED
    BY <2>3
<1> QED
  BY <1>1, <1>2

LEMMA ResumeTypes ==
  /\ ResumePoint \in Tracked \cup {None}
  /\ \A body \in Body : InFlight(body) \in Tracked \cup {None}
<1>1. LastDone \in 0..7
  BY LastDoneType
<1>2. ResumePoint \in Tracked \cup {None}
  BY <1>1, TrackedIs DEF ResumePoint
<1>3. ASSUME NEW body \in Body PROVE InFlight(body) \in Tracked \cup {None}
  <2>1. body.resume \in Tracked \cup {None}
    BY DEF Body
  <2>2. CASE LastDone = 0
    BY <2>1, <2>2, TrackedIs DEF InFlight
  <2>3. CASE LastDone \in 1..6
    <3>1. InFlight(body) = PipelineOrder[LastDone + 1] /\ LastDone + 1 \in 1..7
      BY <2>3 DEF InFlight
    <3> QED
      BY <3>1, TrackedIs
  <2>4. CASE LastDone = 7
    BY <2>4, TrackedIs DEF InFlight
  <2> QED
    BY <1>1, <2>2, <2>3, <2>4
<1> QED
  BY <1>2, <1>3

-----------------------------------------------------------------------------
LEMMA NewVersionGood ==
  ASSUME Fixed
  PROVE  Good(NewVersion(Copied(scope, voice)))
<1> DEFINE body == NewVersion(Copied(scope, voice))
<1>1. Copied(scope, voice) \subseteq Output /\ "REVIEW" \notin Copied(scope, voice)
  BY CopiedOutputs
<1>2. body.status = "QUEUED" /\ body.outputs = Copied(scope, voice)
  BY DEF NewVersion
<1>3. body \in Body
  BY <1>1 DEF NewVersion, Body
<1> HIDE DEF body
<1>4. Good(body)
  BY <1>1, <1>2, <1>3 DEF Good, Whole
<1> QED
  BY <1>4 DEF body

LEMMA IdleIs == Idle \in Delivery /\ Idle.pc = "idle" /\ Idle.job.op = "START" /\ Idle.at = 0
<1>1. NewVersion({}) \in Body
  BY DEF NewVersion, Body
<1>2. NoJob \in Job /\ NoJob.op = "START"
  BY DEF NoJob, Job
<1> QED
  BY <1>1, <1>2 DEF Idle, Delivery, Labels, Package

LEMMA IdleFine == Fine(Idle)
  BY IdleIs DEF Fine

LEMMA InitIInv == Init => IInv
<1> SUFFICES ASSUME Init PROVE IInv
  OBVIOUS
<1>1. Fixed
  <2>1. PICK case \in Cases : scope = case.scope /\ limit = case.limit /\ voice = case.voice
    BY DEF Init
  <2>2. case.scope \in Scopes /\ case.limit \in Nat /\ case.voice \in BOOLEAN
    BY StepPipelineAssumption
  <2> QED
    BY <2>1, <2>2 DEF Fixed
<1>2. Good(version)
  BY <1>1, NewVersionGood DEF Init
<1>3. Records /\ Seeds
  <2>1. record = [s \in Tracked |-> None] /\ events = {}
    BY DEF Init
  <2>2. None # "REUSED"
    BY Constants
  <2> QED
    BY <2>1, <2>2 DEF Records, Seeds
<1>4. Jobs
  <2>1. sent = {[op |-> IF scope = None THEN "START" ELSE "REGENERATE", attempt |-> 0]}
    BY DEF Init
  <2>2. sent \subseteq Job /\ \A j \in sent : j.op = "REGENERATE" => scope # None
    BY <2>1 DEF Job
  <2> QED
    BY <2>2 DEF Init, Jobs
<1>5. Rest
  <2>1. owner = None /\ faults = 0 /\ interrupted = FALSE
    BY DEF Init
  <2>2. 0 \in 0..MaxFaults
    BY Constants
  <2> QED
    BY <2>1, <2>2 DEF Rest
<1>6. Workers
  BY IdleIs, IdleFine DEF Init, Workers
<1> QED
  BY <1>1, <1>2, <1>3, <1>4, <1>5, <1>6 DEF IInv

-----------------------------------------------------------------------------
(* What a step does to the invariant.                                      *)

\* Nothing said of a body or a delivery depends on more than scope and voice.
LEMMA Steady ==
  ASSUME UNCHANGED fixed
  PROVE  /\ \A body : Good(body) => Good(body)'
         /\ \A s : Fine(s) => Fine(s)'
         /\ Fixed => Fixed'
  BY DEF fixed, Good, Whole, Shown, Fine, Earliest, Requires, Fixed

LEMMA Change ==
  ASSUME Workers, UNCHANGED fixed, NEW w \in Worker, NEW s \in Delivery, Fine(s), worker' = [worker EXCEPT ![w] = s]
  PROVE  Workers'
<1>1. worker' \in [Worker -> Delivery]
  BY DEF Workers
<1>2. ASSUME NEW v \in Worker PROVE Fine(worker[v])'
  <2>1. Fine(worker'[v])
    BY DEF Workers
  <2>2. Good(worker[v].body)' <=> Good(worker'[v].body)
    BY DEF Good, Whole, Shown, fixed
  <2> QED
    BY <2>1, <2>2 DEF Fine, Earliest, Requires, fixed
<1> QED
  BY <1>1, <1>2 DEF Workers

LEMMA AtDelivery ==
  ASSUME Workers, NEW w \in Worker
  PROVE  /\ worker[w] \in Delivery /\ Fine(worker[w])
         /\ worker[w].pc # "idle" => Good(worker[w].body)
  BY DEF Workers, Fine

LEMMA DropMoves ==
  ASSUME Workers, UNCHANGED fixed, NEW w \in Worker, Drop(w)
  PROVE  Workers'
  BY IdleIs, IdleFine, Change DEF Drop

LEMMA GotoMoves ==
  ASSUME Workers, UNCHANGED fixed, NEW w \in Worker, worker[w].pc # "idle",
         NEW label \in Labels \ {"loaded", "seed"}, Goto(w, label),
         label \in {"start", "run", "done", "undone"} => Step(w) \in Tracked,
         label = "done" => Requires(Step(w)) \subseteq worker[w].body.outputs
  PROVE  Workers'
<1> DEFINE s == [worker[w] EXCEPT !.pc = label]
<1>1. s \in Delivery /\ s.pc = label /\ s.body = worker[w].body /\ s.at = worker[w].at /\ s.job = worker[w].job
  BY AtDelivery DEF Delivery
<1>2. worker' = [worker EXCEPT ![w] = s]
  BY DEF Goto
<1> HIDE DEF s
<1>3. Fine(s)
  BY <1>1, AtDelivery DEF Fine, Step
<1> QED
  BY <1>1, <1>2, <1>3, Change

\* The same with another body or place, and what _fail will write.
LEMMA MoveTo ==
  ASSUME Workers, UNCHANGED fixed, NEW w \in Worker, NEW label \in {"chunk", "node", "failing"},
         NEW body \in Body, Good(body), NEW at \in 0..Package, NEW step \in Tracked \cup {None}, NEW again \in BOOLEAN,
         worker' = [worker EXCEPT ![w] = [@ EXCEPT !.pc = label, !.body = body, !.at = at, !.step = step, !.again = again]]
  PROVE  Workers'
<1> DEFINE s == [worker[w] EXCEPT !.pc = label, !.body = body, !.at = at, !.step = step, !.again = again]
<1>1. s \in Delivery /\ s.pc = label /\ s.body = body /\ s.job = worker[w].job
  BY AtDelivery DEF Delivery, Labels
<1>2. worker' = [worker EXCEPT ![w] = s]
  OBVIOUS
<1> HIDE DEF s
<1>3. Fine(s)
  BY <1>1, AtDelivery DEF Fine
<1> QED
  BY <1>1, <1>2, <1>3, Change

\* The failure is to be written: with the body, whatever it is by now.
LEMMA FailingMoves ==
  ASSUME Workers, UNCHANGED fixed, NEW w \in Worker, worker[w].pc # "idle",
         NEW label \in {"failing", "undone"}, label = "undone" => Step(w) \in Tracked,
         NEW step \in Tracked \cup {None}, NEW again \in BOOLEAN,
         worker' = [worker EXCEPT ![w] = [@ EXCEPT !.pc = label, !.step = step, !.again = again]]
  PROVE  Workers'
<1> DEFINE s == [worker[w] EXCEPT !.pc = label, !.step = step, !.again = again]
<1>1. s \in Delivery /\ s.pc = label /\ s.body = worker[w].body /\ s.at = worker[w].at /\ s.job = worker[w].job
  BY AtDelivery DEF Delivery, Labels
<1>2. worker' = [worker EXCEPT ![w] = s]
  OBVIOUS
<1> HIDE DEF s
<1>3. Fine(s)
  BY <1>1, AtDelivery DEF Fine, Step
<1> QED
  BY <1>1, <1>2, <1>3, Change

EventTypes == {"STARTED", "COMPLETED", "SKIPPED", "FAILED", "REUSED"}

\* A step that is saved with another status than REUSED.
LEMMA SaveStepKeeps ==
  ASSUME Records, Seeds, UNCHANGED fixed, NEW s \in Tracked, NEW status \in {"RUNNING", "FAILED", "SUCCEEDED", "SKIPPED"},
         NEW type \in EventTypes, NEW attempt \in Nat, SaveStep(s, status, Event(s, type, attempt))
  PROVE  Records' /\ Seeds'
<1>1. Event(s, type, attempt) \in [step : Tracked, type : EventTypes, attempt : Nat]
  BY DEF Event
<1>2. CASE UNCHANGED <<record, events>>
  BY <1>2 DEF Records, Seeds, Earliest, fixed
<1>3. CASE /\ record' = [record EXCEPT ![s] = status]
           /\ events' = events \cup {Event(s, type, attempt)}
  <2>1. Records'
    BY <1>1, <1>3 DEF Records, EventTypes, Done
  <2>2. \A t \in Tracked : record'[t] = "REUSED" => record[t] = "REUSED"
    BY <1>3 DEF Records
  <2>3. Seeds'
    BY <2>2 DEF Seeds, Earliest, fixed
  <2> QED
    BY <2>1, <2>3
<1> QED
  BY <1>2, <1>3 DEF SaveStep

LEMMA SameRecords ==
  ASSUME Records, Seeds, UNCHANGED fixed, UNCHANGED <<record, events>>
  PROVE  Records' /\ Seeds'
  BY DEF Records, Seeds, Earliest, fixed

\* Only the delivery moves.
LEMMA WorkerStep ==
  ASSUME IInv, UNCHANGED fixed, UNCHANGED version, UNCHANGED queue, Records' /\ Seeds', Rest', Workers'
  PROVE  IInv'
<1>1. Fixed' /\ Good(version)'
  BY Steady DEF IInv
<1>2. Jobs'
  BY DEF IInv, Jobs, queue, fixed
<1> QED
  BY <1>1, <1>2 DEF IInv

LEMMA FaultBound ==
  /\ Rest => faults \in 0..MaxFaults
  /\ Rest /\ Fault => faults' \in 0..MaxFaults
  BY Constants DEF Rest, Fault

LEMMA BooleanOr ==
  ASSUME NEW A \in BOOLEAN, NEW B \in BOOLEAN
  PROVE  (A \/ B) \in BOOLEAN
  OBVIOUS

LEMMA OvertakenType == \A w \in Worker : Overtaken(w) \in BOOLEAN
  BY DEF Overtaken

-----------------------------------------------------------------------------
(* One lemma per action.                                                   *)

LEMMA DeliverStep ==
  ASSUME IInv, NEW w \in Worker, NEW j \in sent, Deliver(w, j)
  PROVE  IInv'
<1> DEFINE pc == IF received[j] < limit THEN "loaded" ELSE "exhausted"
           s == [Idle EXCEPT !.job = j, !.body = version, !.pc = pc]
<1>1. j \in Job /\ (j.op = "REGENERATE" => scope # None) /\ received[j] \in Nat
  BY DEF IInv, Jobs
<1>2. pc \in {"loaded", "exhausted"}
  OBVIOUS
<1> HIDE DEF pc
<1>3. s \in Delivery /\ s.pc = pc /\ s.body = version /\ s.job = j /\ s.at = 0
  BY <1>1, <1>2, IdleIs DEF Delivery, Labels, IInv, Good
<1>4. worker' = [worker EXCEPT ![w] = s] /\ UNCHANGED fixed
  BY DEF Deliver, pc
<1> HIDE DEF s
<1>5. Fine(s)
  BY <1>1, <1>2, <1>3 DEF Fine, IInv
<1>6. Workers'
  BY <1>3, <1>4, <1>5, Change DEF IInv
<1>7. Fixed' /\ Good(version)'
  BY <1>4, Steady DEF IInv, Deliver
<1>8. Records' /\ Seeds'
  BY <1>4, SameRecords DEF IInv, Deliver
<1>9. Jobs'
  BY <1>1, <1>4 DEF IInv, Jobs, Deliver, fixed
<1>10. Rest'
  BY FaultBound DEF IInv, Rest, Deliver
<1> QED
  BY <1>6, <1>7, <1>8, <1>9, <1>10 DEF IInv

LEMMA AcquireStep ==
  ASSUME IInv, NEW w \in Worker, Acquire(w)
  PROVE  IInv'
<1>1. UNCHANGED fixed /\ UNCHANGED queue /\ UNCHANGED version /\ UNCHANGED <<record, events, faults>>
      /\ worker[w].pc = "loaded"
  BY DEF Acquire, queue, At
<1>2. Rest'
  <2>1. owner' \in Worker \cup {None}
    BY DEF Acquire
  <2>2. interrupted' \in BOOLEAN
    BY OvertakenType, BooleanOr DEF Acquire, IInv, Rest
  <2> QED
    BY <1>1, <2>1, <2>2 DEF IInv, Rest
<1>3. Workers'
  <2>1. CASE Drop(w)
    BY <1>1, <2>1, DropMoves DEF IInv
  <2>2. CASE Goto(w, FirstLabel(w))
    <3> DEFINE label == FirstLabel(w)
               s == [worker[w] EXCEPT !.pc = label]
    <3>1. worker[w] \in Delivery /\ Fine(worker[w]) /\ worker[w].at = 0 /\ worker[w].pc = "loaded"
      BY <1>1, AtDelivery DEF IInv, Fine
    <3>2. label \in {"chunk", "unsupported", "seed"}
      BY DEF FirstLabel
    <3>3. label = "seed" => worker[w].job.op = "REGENERATE" /\ scope # "SELECTED_IMAGES" /\ Earliest # 1
      BY DEF FirstLabel
    <3> HIDE DEF label
    <3>4. s \in Delivery /\ s.pc = label /\ s.body = worker[w].body /\ s.at = 0 /\ s.job = worker[w].job
      BY <3>1, <3>2 DEF Delivery, Labels
    <3>5. label = "seed" => scope \in Seeding /\ 1 < Earliest
      <4> SUFFICES ASSUME label = "seed" PROVE scope \in Seeding /\ 1 < Earliest
        OBVIOUS
      <4>1. scope \in {None, "STRATEGY", "COPY", "STORYBOARD", "SELECTED_IMAGES", "VIDEO"} /\ scope # None
        BY <3>1, <3>3, Constants DEF Fine, IInv, Fixed
      <4>2. scope = "STRATEGY" => Earliest = 1
        BY DEF Earliest
      <4> QED
        BY <3>3, <4>1, <4>2 DEF Seeding, Earliest
    <3>6. worker' = [worker EXCEPT ![w] = s]
      BY <2>2 DEF Goto, label
    <3> HIDE DEF s
    <3>7. Fine(s)
      BY <3>1, <3>2, <3>4, <3>5 DEF Fine
    <3> QED
      BY <1>1, <3>4, <3>6, <3>7, Change DEF IInv
  <2> QED
    BY <2>1, <2>2 DEF Acquire
<1> QED
  BY <1>1, <1>2, <1>3, SameRecords, WorkerStep DEF IInv

LEMMA AcquireExhaustedStep ==
  ASSUME IInv, NEW w \in Worker, AcquireExhausted(w)
  PROVE  IInv'
<1>1. UNCHANGED fixed /\ UNCHANGED queue /\ UNCHANGED version /\ UNCHANGED <<record, events, faults>>
      /\ worker[w].pc = "exhausted"
  BY DEF AcquireExhausted, queue, At
<1>2. Rest'
  <2>1. owner' \in Worker \cup {None}
    BY DEF AcquireExhausted
  <2>2. interrupted' \in BOOLEAN
    BY OvertakenType, BooleanOr DEF AcquireExhausted, IInv, Rest
  <2> QED
    BY <1>1, <2>1, <2>2 DEF IInv, Rest
<1>3. Workers'
  <2>1. CASE Drop(w)
    BY <1>1, <2>1, DropMoves DEF IInv
  <2>2. CASE worker' = [worker EXCEPT ![w] = [@ EXCEPT !.pc = "giving up", !.step = InFlight(worker[w].body)]]
    <3> DEFINE step == InFlight(worker[w].body)
               s == [worker[w] EXCEPT !.pc = "giving up", !.step = step]
    <3>1. worker[w] \in Delivery /\ Fine(worker[w])
      BY AtDelivery DEF IInv
    <3>2. step \in Tracked \cup {None}
      BY <3>1, ResumeTypes DEF Delivery
    <3> HIDE DEF step
    <3>3. s \in Delivery /\ s.pc = "giving up" /\ s.body = worker[w].body /\ s.job = worker[w].job
      BY <3>1, <3>2 DEF Delivery, Labels
    <3>4. worker' = [worker EXCEPT ![w] = s]
      BY <2>2 DEF step
    <3> HIDE DEF s
    <3>5. Fine(s)
      BY <1>1, <3>1, <3>3 DEF Fine
    <3> QED
      BY <1>1, <3>3, <3>4, <3>5, Change DEF IInv
  <2> QED
    BY <2>1, <2>2 DEF AcquireExhausted
<1> QED
  BY <1>1, <1>2, <1>3, SameRecords, WorkerStep DEF IInv

LEMMA LeaveStep ==
  ASSUME IInv, NEW w \in Worker, Abandon(w) \/ Lost(w)
  PROVE  IInv'
<1>1. UNCHANGED fixed /\ UNCHANGED queue /\ UNCHANGED version /\ UNCHANGED <<record, events, owner>> /\ Drop(w)
      /\ interrupted' = TRUE
  BY DEF Abandon, Lost
<1>2. Rest'
  BY <1>1, FaultBound DEF IInv, Rest, Abandon, Lost
<1> QED
  BY <1>1, <1>2, DropMoves, SameRecords, WorkerStep DEF IInv

LEMMA CompleteStep ==
  ASSUME IInv, NEW w \in Worker, Complete(w)
  PROVE  IInv'
<1>1. UNCHANGED fixed /\ UNCHANGED version /\ UNCHANGED <<record, events, sent, received, faults, interrupted>> /\ Drop(w)
      /\ owner' = None /\ completed' = completed \cup {worker[w].job}
  BY DEF Complete
<1>2. Fixed' /\ Good(version)'
  BY <1>1, Steady DEF IInv
<1>3. Jobs'
  <2>1. worker[w].job \in Job
    BY AtDelivery DEF IInv, Delivery
  <2> QED
    BY <1>1, <2>1 DEF IInv, Jobs, fixed
<1>4. Rest'
  BY <1>1 DEF IInv, Rest
<1> QED
  BY <1>1, <1>2, <1>3, <1>4, DropMoves, SameRecords DEF IInv

LEMMA SeedStep ==
  ASSUME IInv, NEW w \in Worker, Seed(w)
  PROVE  IInv'
<1>1. UNCHANGED fixed /\ UNCHANGED queue /\ UNCHANGED version /\ UNCHANGED <<owner, faults, interrupted>>
      /\ worker[w].pc = "seed"
  BY DEF Seed, At
<1>2. worker[w] \in Delivery /\ Fine(worker[w]) /\ worker[w].at \in 0..9
  BY AtDelivery DEF IInv, Delivery, Package
<1> DEFINE i == worker[w].at + 1
<1>3. scope \in Seeding /\ i < Earliest /\ i \in Nat \ {0}
  BY <1>1, <1>2 DEF Fine
<1>4. Earliest \in 2..7
  BY <1>3 DEF Seeding, Earliest
<1>5. i \in 1..6 /\ i \in 1..7
  BY <1>3, <1>4
<1>6. SaveStep(PipelineOrder[i], "REUSED", Event(PipelineOrder[i], "REUSED", 0))
  BY DEF Seed
<1>7. PipelineOrder[i] \in Tracked
  BY <1>5, TrackedIs
<1>8. worker' = [worker EXCEPT ![w] = IF i + 1 = Earliest THEN [@ EXCEPT !.pc = "chunk", !.at = 0] ELSE [@ EXCEPT !.at = i]]
  BY DEF Seed
<1> HIDE DEF i
<1>9. Records' /\ Seeds'
  <2> DEFINE step == PipelineOrder[i]
  <2>1. step \in Tracked
    BY <1>7
  <2>2. Event(step, "REUSED", 0) \in [step : Tracked, type : EventTypes, attempt : Nat]
    BY <2>1 DEF Event, EventTypes
  <2>3. scope \in Seeding /\ \E k \in 1..7 : k < Earliest /\ step = PipelineOrder[k]
    BY <1>3, <1>5
  <2>4. SaveStep(step, "REUSED", Event(step, "REUSED", 0))
    BY <1>6
  <2> HIDE DEF step
  <2>5. CASE UNCHANGED <<record, events>>
    BY <1>1, <2>5, SameRecords DEF IInv
  <2>6. CASE /\ record' = [record EXCEPT ![step] = "REUSED"]
             /\ events' = events \cup {Event(step, "REUSED", 0)}
    <3>1. Records'
      BY <2>1, <2>2, <2>6 DEF IInv, Records, EventTypes, Done
    <3>2. \A t \in Tracked : record'[t] = "REUSED" => record[t] = "REUSED" \/ t = step
      BY <2>6 DEF IInv, Records
    <3>3. Seeds'
      BY <1>1, <2>3, <3>2 DEF IInv, Seeds, Earliest, fixed
    <3> QED
      BY <3>1, <3>3
  <2> QED
    BY <2>4, <2>5, <2>6 DEF SaveStep
<1>10. Workers'
  <2>1. CASE i + 1 = Earliest
    <3> DEFINE s == [worker[w] EXCEPT !.pc = "chunk", !.at = 0]
    <3>0. 0 \in 0..Package /\ "chunk" \in Labels
      BY DEF Package, Labels
    <3>1. s \in Delivery /\ s.pc = "chunk" /\ s.body = worker[w].body /\ s.job = worker[w].job
      BY <1>2, <3>0 DEF Delivery
    <3>2. worker' = [worker EXCEPT ![w] = s]
      BY <1>8, <2>1
    <3> HIDE DEF s
    <3>3. Fine(s)
      BY <1>1, <1>2, <3>1 DEF Fine
    <3> QED
      BY <1>1, <3>1, <3>2, <3>3, Change DEF IInv
  <2>2. CASE i + 1 # Earliest
    <3> DEFINE s == [worker[w] EXCEPT !.at = i]
    <3>0. i \in 0..Package
      BY <1>5 DEF Package
    <3>1. s \in Delivery /\ s.pc = "seed" /\ s.body = worker[w].body /\ s.job = worker[w].job /\ s.at = i
      BY <1>1, <1>2, <3>0 DEF Delivery
    <3>2. worker' = [worker EXCEPT ![w] = s]
      BY <1>8, <2>2
    <3> HIDE DEF s
    <3>3. Fine(s)
      BY <1>1, <1>2, <1>3, <1>4, <1>5, <2>2, <3>1 DEF Fine
    <3> QED
      BY <1>1, <3>1, <3>2, <3>3, Change DEF IInv
  <2> QED
    BY <2>1, <2>2
<1>11. Rest'
  BY <1>1 DEF IInv, Rest
<1> QED
  BY <1>1, <1>9, <1>10, <1>11, WorkerStep

LEMMA SkipStep ==
  ASSUME IInv, NEW w \in Worker, Skip(w) \/ Begin(w)
  PROVE  IInv'
<1>1. UNCHANGED fixed /\ UNCHANGED queue /\ UNCHANGED version /\ UNCHANGED <<record, events, owner, faults, interrupted>>
      /\ worker[w].pc = "node" /\ Step(w) \in Tracked
  BY DEF Skip, Begin, At
<1>2. Workers'
  <2>1. Goto(w, "chunk") \/ Goto(w, "start")
    BY DEF Skip, Begin
  <2>2. {"chunk", "start"} \subseteq Labels \ {"loaded", "seed"}
    BY DEF Labels
  <2> QED
    BY <1>1, <2>1, <2>2, GotoMoves DEF IInv
<1>3. Rest'
  BY <1>1 DEF IInv, Rest
<1> QED
  BY <1>1, <1>2, <1>3, SameRecords, WorkerStep DEF IInv

\* Where a step runs.
LEMMA InStep ==
  ASSUME Workers, NEW w \in Worker, worker[w].pc \in {"start", "run", "done", "undone"}
  PROVE  /\ Step(w) \in Tracked /\ worker[w] \in Delivery /\ Good(worker[w].body)
         /\ worker[w].body.attempt \in Nat
         /\ worker[w].pc # "idle"
         /\ worker[w].pc = "done" => Requires(Step(w)) \subseteq worker[w].body.outputs
<1>1. worker[w] \in Delivery /\ Fine(worker[w])
  BY AtDelivery
<1>2. Good(worker[w].body)
  BY <1>1 DEF Fine
<1>3. worker[w].body.attempt \in Nat
  BY <1>2 DEF Good, Body
<1> QED
  BY <1>1, <1>2, <1>3 DEF Fine, Step

\* with_step_tracking's save_step, whatever it reports.
LEMMA TrackKeeps ==
  ASSUME IInv, NEW w \in Worker, UNCHANGED fixed, Track(w)
  PROVE  Records' /\ Seeds' /\ Step(w) \in Tracked /\ worker[w].pc \in {"start", "done", "undone"}
<1>1. worker[w].pc \in {"start", "done", "undone"}
  BY DEF Track, At
<1>2. Step(w) \in Tracked /\ worker[w].body.attempt \in Nat
  BY <1>1, InStep DEF IInv
<1>3. PICK status \in {"RUNNING", "FAILED", "SUCCEEDED", "SKIPPED"}, type \in EventTypes :
         SaveStep(Step(w), status, Event(Step(w), type, worker[w].body.attempt))
  BY DEF Track, EventTypes
<1>4. Records' /\ Seeds'
  BY <1>2, <1>3, SaveStepKeeps DEF IInv
<1> QED
  BY <1>1, <1>2, <1>4

LEMMA StartStep ==
  ASSUME IInv, NEW w \in Worker, Start(w)
  PROVE  IInv'
<1>1. UNCHANGED fixed /\ UNCHANGED queue /\ UNCHANGED version /\ UNCHANGED <<owner, faults, interrupted>>
      /\ worker[w].pc = "start" /\ Goto(w, "run")
  BY DEF Start, At
<1>2. Step(w) \in Tracked /\ worker[w].body.attempt \in Nat /\ worker[w].pc # "idle"
  BY <1>1, InStep DEF IInv
<1>3. Workers'
  <2>1. "run" \in Labels \ {"loaded", "seed"}
    BY DEF Labels
  <2> QED
    BY <1>1, <1>2, <2>1, GotoMoves DEF IInv
<1>4. Records' /\ Seeds'
  BY <1>1, TrackKeeps DEF Start
<1>5. Rest'
  BY <1>1 DEF IInv, Rest
<1> QED
  BY <1>1, <1>3, <1>4, <1>5, WorkerStep

LEMMA RunStep ==
  ASSUME IInv, NEW w \in Worker, Run(w)
  PROVE  IInv'
<1>1. UNCHANGED fixed /\ UNCHANGED queue /\ UNCHANGED version /\ UNCHANGED <<record, events, owner, interrupted>>
      /\ worker[w].pc = "run"
  BY DEF Run, At
<1>2. Step(w) \in Tracked /\ worker[w].pc # "idle"
  BY <1>1, InStep DEF IInv
<1>3. Workers'
  <2>1. CASE Requires(Step(w)) \subseteq worker[w].body.outputs /\ Goto(w, "done")
    <3>1. "done" \in Labels \ {"loaded", "seed"}
      BY DEF Labels
    <3> QED
      BY <1>1, <1>2, <2>1, <3>1, GotoMoves DEF IInv
  <2>2. CASE \E again \in BOOLEAN :
                worker' = [worker EXCEPT ![w] = [@ EXCEPT !.pc = "undone", !.step = Step(w), !.again = again]]
    <3>1. PICK again \in BOOLEAN :
                worker' = [worker EXCEPT ![w] = [@ EXCEPT !.pc = "undone", !.step = Step(w), !.again = again]]
      BY <2>2
    <3> QED
      BY <1>1, <1>2, <3>1, FailingMoves DEF IInv
  <2> QED
    BY <2>1, <2>2 DEF Run
<1>4. Rest'
  BY <1>1, FaultBound DEF IInv, Rest, Run
<1> QED
  BY <1>1, <1>3, <1>4, SameRecords, WorkerStep DEF IInv

\* What a node returns is as whole as what it was given.
LEMMA ResultGood ==
  ASSUME IInv, NEW w \in Worker, worker[w].pc = "done"
  PROVE  Good(Result(w))
<1> DEFINE body == worker[w].body
<1>1. Step(w) \in Tracked /\ Good(body) /\ Requires(Step(w)) \subseteq body.outputs /\ body \in Body
  BY InStep DEF IInv, Good
<1>2. CASE Skipped(w)
  BY <1>1, <1>2 DEF Result
<1>3. CASE ~Skipped(w)
  <2> DEFINE r == [body EXCEPT !.outputs = body.outputs \cup {Step(w)},
                               !.status = IF Step(w) = "PACKAGE" THEN "FINAL" ELSE body.status]
  <2>1. Result(w) = r
    BY <1>3 DEF Result
  <2>2. r \in Body /\ r.outputs = body.outputs \cup {Step(w)}
        /\ r.status = IF Step(w) = "PACKAGE" THEN "FINAL" ELSE body.status
    BY <1>1 DEF Body, Output
  <2>3. Step(w) # "REVIEW"
    BY <1>1, TrackedIs
  <2>4. Step(w) = "PACKAGE" => "REVIEW" \in body.outputs
    BY <1>1 DEF Requires
  <2> HIDE DEF r
  <2>5. Good(r)
    BY <1>1, <2>2, <2>3, <2>4 DEF Good, Whole
  <2> QED
    BY <2>1, <2>5
<1> QED
  BY <1>2, <1>3

LEMMA RecordDoneStep ==
  ASSUME IInv, NEW w \in Worker, RecordDone(w)
  PROVE  IInv'
<1>1. UNCHANGED fixed /\ UNCHANGED queue /\ UNCHANGED version /\ UNCHANGED <<owner, faults, interrupted>>
      /\ worker[w].pc = "done"
      /\ worker' = [worker EXCEPT ![w] = [@ EXCEPT !.pc = "chunk", !.body = Result(w)]]
  BY DEF RecordDone, At
<1>2. Step(w) \in Tracked /\ worker[w].body.attempt \in Nat /\ worker[w].pc # "idle" /\ worker[w] \in Delivery
  BY <1>1, InStep DEF IInv
<1>3. Workers'
  <2> DEFINE s == [worker[w] EXCEPT !.pc = "chunk", !.body = Result(w)]
  <2>1. Good(Result(w)) /\ Result(w) \in Body
    BY <1>1, ResultGood DEF Good
  <2>2. s \in Delivery /\ s.pc = "chunk" /\ s.body = Result(w) /\ s.job = worker[w].job
    BY <1>2, <2>1 DEF Delivery, Labels
  <2>3. worker' = [worker EXCEPT ![w] = s]
    BY <1>1
  <2> HIDE DEF s
  <2>4. Fine(s)
    BY <2>1, <2>2, AtDelivery DEF Fine, IInv
  <2> QED
    BY <1>1, <2>2, <2>3, <2>4, Change DEF IInv
<1>4. Records' /\ Seeds'
  BY <1>1, TrackKeeps DEF RecordDone
<1>5. Rest'
  BY <1>1 DEF IInv, Rest
<1> QED
  BY <1>1, <1>3, <1>4, <1>5, WorkerStep

LEMMA RecordFailedStep ==
  ASSUME IInv, NEW w \in Worker, RecordFailed(w)
  PROVE  IInv'
<1>1. UNCHANGED fixed /\ UNCHANGED queue /\ UNCHANGED version /\ UNCHANGED <<owner, faults, interrupted>>
      /\ worker[w].pc = "undone" /\ Goto(w, "failing")
  BY DEF RecordFailed, At
<1>2. Step(w) \in Tracked /\ worker[w].body.attempt \in Nat /\ worker[w].pc # "idle"
  BY <1>1, InStep DEF IInv
<1>3. Workers'
  <2>1. "failing" \in Labels \ {"loaded", "seed"}
    BY DEF Labels
  <2> QED
    BY <1>1, <1>2, <2>1, GotoMoves DEF IInv
<1>4. Records' /\ Seeds'
  BY <1>1, TrackKeeps DEF RecordFailed
<1>5. Rest'
  BY <1>1 DEF IInv, Rest
<1> QED
  BY <1>1, <1>3, <1>4, <1>5, WorkerStep

LEMMA TrackingFailsStep ==
  ASSUME IInv, NEW w \in Worker, TrackingFails(w) \/ TrackingUncertain(w) \/ SaveChunkFails(w)
  PROVE  IInv'
<1>1. UNCHANGED fixed /\ UNCHANGED queue /\ UNCHANGED version /\ UNCHANGED <<owner, interrupted>> /\ Fault
  BY DEF TrackingFails, TrackingUncertain, SaveChunkFails
<1>2. worker[w].pc # "idle" /\ Records' /\ Seeds'
  <2>1. CASE TrackingFails(w) \/ SaveChunkFails(w)
    BY <1>1, <2>1, SameRecords DEF IInv, TrackingFails, SaveChunkFails, At
  <2>2. CASE TrackingUncertain(w)
    BY <1>1, <2>2, TrackKeeps DEF TrackingUncertain
  <2> QED
    BY <2>1, <2>2
<1>3. Workers'
  <2>1. CASE TrackingFails(w)
    BY <1>1, <1>2, <2>1, FailingMoves DEF IInv, TrackingFails
  <2>2. CASE TrackingUncertain(w)
    BY <1>1, <1>2, <2>2, TrackKeeps, FailingMoves DEF IInv, TrackingUncertain
  <2>3. CASE SaveChunkFails(w)
    BY <1>1, <1>2, <2>3, FailingMoves, ResumeTypes DEF IInv, SaveChunkFails
  <2> QED
    BY <2>1, <2>2, <2>3
<1>4. Rest'
  BY <1>1, FaultBound DEF IInv, Rest
<1> QED
  BY <1>1, <1>2, <1>3, <1>4, WorkerStep

\* A version is put up for review with everything that is shown.
LEMMA AwaitApprovalStep ==
  ASSUME IInv, NEW w \in Worker, AwaitApproval(w)
  PROVE  IInv'
<1>1. UNCHANGED fixed /\ UNCHANGED queue /\ UNCHANGED version /\ UNCHANGED <<record, events, owner, faults, interrupted>>
      /\ worker[w].pc = "node"
  BY DEF AwaitApproval, At
<1>2. worker[w] \in Delivery /\ Good(worker[w].body) /\ worker[w].pc # "idle" /\ Fine(worker[w])
  BY <1>1, AtDelivery DEF IInv
<1>3. Workers'
  <2>1. CASE ReviewRequires \subseteq worker[w].body.outputs
    <3> DEFINE body == worker[w].body
               r == Reviewed(body)
               s == [worker[w] EXCEPT !.pc = "chunk", !.body = r]
    <3>1. body \in Body
      BY <1>2 DEF Good
    <3>2. r \in Body /\ r.status = "READY_FOR_REVIEW" /\ r.outputs = body.outputs \cup {"REVIEW"}
      BY <3>1 DEF Reviewed, Body, Output
    <3> HIDE DEF r
    <3>3. Shown \subseteq r.outputs
      BY <2>1, <3>2 DEF Shown, ReviewRequires, IInv, Fixed
    <3>4. Good(r)
      BY <1>2, <3>2, <3>3 DEF Good, Whole
    <3>5. s \in Delivery /\ s.pc = "chunk" /\ s.body = r /\ s.job = worker[w].job
      BY <1>2, <3>2 DEF Delivery, Labels
    <3>6. worker' = [worker EXCEPT ![w] = s]
      BY <2>1 DEF AwaitApproval, r
    <3> HIDE DEF s
    <3>7. Fine(s)
      BY <1>2, <3>4, <3>5 DEF Fine
    <3> QED
      BY <1>1, <3>5, <3>6, <3>7, Change DEF IInv
  <2>2. CASE ~ReviewRequires \subseteq worker[w].body.outputs
    <3>1. worker' = [worker EXCEPT ![w] = [@ EXCEPT !.pc = "failing", !.step = ResumePoint, !.again = TRUE]]
      BY <2>2 DEF AwaitApproval
    <3> QED
      BY <1>1, <1>2, <3>1, FailingMoves, ResumeTypes DEF IInv
  <2> QED
    BY <2>1, <2>2
<1>4. Rest'
  BY <1>1 DEF IInv, Rest
<1> QED
  BY <1>1, <1>3, <1>4, SameRecords, WorkerStep DEF IInv

\* The version is written, and nothing but the delivery and the lease moves.
LEMMA VersionStep ==
  ASSUME IInv, UNCHANGED fixed, UNCHANGED <<record, events>>, UNCHANGED queue,
         Good(version'), Rest', Workers'
  PROVE  IInv'
<1>1. Fixed'
  BY Steady DEF IInv
<1>2. Good(version)'
  BY DEF Good, Whole, Shown, fixed
<1>3. Jobs'
  BY DEF IInv, Jobs, queue, fixed
<1>4. Records' /\ Seeds'
  BY SameRecords DEF IInv
<1> QED
  BY <1>1, <1>2, <1>3, <1>4 DEF IInv

LEMMA SaveChunkStep ==
  ASSUME IInv, NEW w \in Worker, SaveChunk(w) \/ SaveChunkUncertain(w)
  PROVE  IInv'
<1>1. UNCHANGED fixed /\ UNCHANGED queue /\ UNCHANGED <<record, events, interrupted>>
      /\ worker[w].pc = "chunk" /\ version' = worker[w].body
  BY DEF SaveChunk, SaveChunkUncertain, At
<1>2. worker[w] \in Delivery /\ Good(worker[w].body) /\ worker[w].pc # "idle" /\ Fine(worker[w])
  BY <1>1, AtDelivery DEF IInv
<1>3. Rest'
  BY <1>1, FaultBound DEF IInv, Rest, SaveChunk, SaveChunkUncertain
<1>4. Workers'
  <2>1. CASE worker' = [worker EXCEPT ![w] = [@ EXCEPT !.pc = "failing", !.step = ResumePoint, !.again = TRUE]]
    BY <1>1, <1>2, <2>1, FailingMoves, ResumeTypes DEF IInv
  <2>2. CASE Goto(w, "completing")
    <3>1. "completing" \in Labels \ {"loaded", "seed"}
      BY DEF Labels
    <3> QED
      BY <1>1, <1>2, <2>2, <3>1, GotoMoves DEF IInv
  <2>3. CASE worker[w].at # Package /\ worker' = [worker EXCEPT ![w] = [@ EXCEPT !.pc = "node", !.at = NextPlace(w)]]
    <3> DEFINE at == NextPlace(w)
               s == [worker[w] EXCEPT !.pc = "node", !.at = at]
    <3>1. at \in 0..Package
      BY <1>2, <2>3 DEF NextPlace, Delivery, Package
    <3> HIDE DEF at
    <3>2. s \in Delivery /\ s.pc = "node" /\ s.body = worker[w].body /\ s.job = worker[w].job
      BY <1>2, <3>1 DEF Delivery, Labels
    <3>3. worker' = [worker EXCEPT ![w] = s]
      BY <2>3 DEF at
    <3> HIDE DEF s
    <3>4. Fine(s)
      BY <1>2, <3>2 DEF Fine
    <3> QED
      BY <1>1, <3>2, <3>3, <3>4, Change DEF IInv
  <2> QED
    BY <2>1, <2>2, <2>3 DEF SaveChunk, SaveChunkUncertain
<1> QED
  BY <1>1, <1>2, <1>3, <1>4, VersionStep

\* A failure is written over the body, and loses none of its outputs.
LEMMA FailStep ==
  ASSUME IInv, NEW w \in Worker, Fail(w) \/ FailUnsupported(w)
  PROVE  IInv'
<1>1. UNCHANGED fixed /\ UNCHANGED queue /\ UNCHANGED <<record, events, interrupted, faults>> /\ worker[w].pc # "idle"
  BY DEF Fail, FailUnsupported, At
<1>2. worker[w] \in Delivery /\ Good(worker[w].body)
  BY <1>1, AtDelivery DEF IInv
<1> DEFINE body == worker[w].body
<1>3. body \in Body /\ worker[w].step \in Tracked \cup {None} /\ worker[w].again \in BOOLEAN
  BY <1>2 DEF Good, Delivery
<1>4. Good(version')
  <2>1. CASE version' = Failed(body, worker[w].step, worker[w].again)
    <3> DEFINE r == Failed(body, worker[w].step, worker[w].again)
    <3>1. body.attempt + 1 \in Nat /\ (worker[w].again /\ body.attempt + 1 < MaxAttempts) \in BOOLEAN
      BY <1>3 DEF Body
    <3>2. r \in Body /\ r.status = "FAILED" /\ r.outputs = body.outputs
      BY <1>3, <3>1 DEF Failed, Body
    <3> HIDE DEF r
    <3>3. Good(r)
      BY <1>2, <3>2 DEF Good, Whole
    <3> QED
      BY <2>1, <3>3 DEF r
  <2>2. CASE version' = [body EXCEPT !.status = "FAILED", !.retryable = FALSE]
    <3>1. version' \in Body /\ version'.status = "FAILED" /\ version'.outputs = body.outputs
      BY <1>3, <2>2 DEF Body
    <3> QED
      BY <1>2, <3>1 DEF Good, Whole
  <2> QED
    BY <2>1, <2>2 DEF Fail, FailUnsupported
<1>5. Workers'
  <2>1. Drop(w) \/ Goto(w, "completing")
    BY DEF Fail, FailUnsupported
  <2>2. "completing" \in Labels \ {"loaded", "seed"}
    BY DEF Labels
  <2> QED
    BY <1>1, <2>1, <2>2, DropMoves, GotoMoves DEF IInv
<1>6. Rest'
  BY <1>1 DEF IInv, Rest, Fail, FailUnsupported
<1> QED
  BY <1>1, <1>4, <1>5, <1>6, VersionStep

LEMMA RetryStep ==
  ASSUME IInv, Retry
  PROVE  IInv'
<1>1. UNCHANGED fixed /\ UNCHANGED <<record, events, completed, worker, faults>> /\ owner' = None
      /\ version' = [version EXCEPT !.status = "QUEUED"]
  BY DEF Retry
<1>2. Good(version')
  <2>1. version \in Body
    BY DEF IInv, Good
  <2>2. version' \in Body /\ version'.status = "QUEUED" /\ version'.outputs = version.outputs
    BY <1>1, <2>1 DEF Body
  <2> QED
    BY <2>2 DEF IInv, Good, Whole
<1>3. Fixed' /\ Good(version)'
  <2>1. Good(version)'
    BY <1>1, <1>2 DEF Good, Whole, Shown, fixed
  <2> QED
    BY <1>1, <2>1, Steady DEF IInv
<1>4. Jobs'
  <2> DEFINE job == [op |-> IF version.resume = "PACKAGE" THEN "RESUME" ELSE "START", attempt |-> version.attempt]
  <2>1. version.attempt \in Nat
    BY DEF IInv, Good, Body
  <2>2. job \in Job /\ job.op # "REGENERATE"
    BY <2>1 DEF Job
  <2>3. sent' = sent \cup {job} /\ received' = [j \in sent' |-> IF j \in sent THEN received[j] ELSE 0]
    BY DEF Retry
  <2> HIDE DEF job
  <2>4. received' \in [sent' -> Nat]
    BY <2>3 DEF IInv, Jobs
  <2> QED
    BY <1>1, <2>2, <2>3, <2>4 DEF IInv, Jobs, fixed
<1>5. Rest'
  <2>1. interrupted' \in BOOLEAN
    BY DEF IInv, Rest, Retry
  <2> QED
    BY <1>1, <2>1 DEF IInv, Rest
<1>6. Workers'
  <2>1. \A w \in Worker : Fine(worker[w])'
    BY <1>1 DEF IInv, Workers, Fine, Good, Whole, Shown, Earliest, Requires, fixed
  <2> QED
    BY <1>1, <2>1 DEF IInv, Workers
<1> QED
  BY <1>1, <1>3, <1>4, <1>5, <1>6, SameRecords DEF IInv

-----------------------------------------------------------------------------
LEMMA NextIInv == IInv /\ [Next]_vars => IInv'
<1> SUFFICES ASSUME IInv, [Next]_vars PROVE IInv'
  OBVIOUS
<1>1. CASE UNCHANGED vars
  <2>1. UNCHANGED fixed /\ UNCHANGED <<version, record, events, owner, sent, received, completed, worker, faults, interrupted, lost>>
    BY <1>1 DEF vars, fixed
  <2>2. Workers'
    BY <2>1 DEF IInv, Workers, Fine, Good, Whole, Shown, Earliest, Requires, fixed
  <2>3. Rest'
    BY <2>1 DEF IInv, Rest
  <2> QED
    BY <2>1, <2>2, <2>3, SameRecords, WorkerStep DEF IInv, queue
<1>2. ASSUME NEW w \in Worker, Work(w) PROVE IInv'
  BY <1>2, AcquireStep, AcquireExhaustedStep, LeaveStep, CompleteStep, SeedStep, SkipStep, StartStep, RunStep,
     RecordDoneStep, RecordFailedStep, AwaitApprovalStep, SaveChunkStep, FailStep DEF Work
<1>3. ASSUME NEW w \in Worker, Faults(w) PROVE IInv'
  BY <1>3, LeaveStep, TrackingFailsStep, SaveChunkStep DEF Faults
<1>4. ASSUME NEW w \in Worker, NEW j \in sent, Deliver(w, j) PROVE IInv'
  BY <1>4, DeliverStep
<1> QED
  BY <1>1, <1>2, <1>3, <1>4, RetryStep DEF Next

\* The invariant holds in every reachable state.
THEOREM Inductive == Spec => []IInv
<1> QED
  BY InitIInv, NextIInv, PTL DEF Spec

\* What is lost is a step, and stays lost.
LEMMA LostStep ==
  ASSUME IInv, [Next]_vars
  PROVE  lost \subseteq lost' /\ lost' \subseteq lost \cup Tracked
<1>1. CASE UNCHANGED lost
  BY <1>1
<1>2. ASSUME NEW w \in Worker, TrackingUncertain(w) PROVE lost \subseteq lost' /\ lost' \subseteq lost \cup Tracked
  <2>1. UNCHANGED fixed /\ Track(w) /\ lost' \in {lost, lost \cup {Step(w)}}
    BY <1>2 DEF TrackingUncertain
  <2> QED
    BY <2>1, TrackKeeps
<1>3. ASSUME NEW w \in Worker, Work(w) PROVE UNCHANGED lost
  <2>1. CASE Acquire(w) \/ AcquireExhausted(w) \/ Lost(w) \/ Complete(w) \/ Seed(w) \/ Skip(w) \/ Begin(w) \/ Start(w)
    BY <2>1 DEF Acquire, AcquireExhausted, Lost, Complete, Seed, Skip, Begin, Start
  <2>2. CASE \/ Run(w) \/ RecordDone(w) \/ RecordFailed(w) \/ AwaitApproval(w) \/ SaveChunk(w) \/ Fail(w)
             \/ FailUnsupported(w)
    BY <2>2 DEF Run, RecordDone, RecordFailed, AwaitApproval, SaveChunk, Fail, FailUnsupported
  <2> QED
    BY <1>3, <2>1, <2>2 DEF Work
<1>4. ASSUME NEW w \in Worker, Faults(w), ~TrackingUncertain(w) PROVE UNCHANGED lost
  BY <1>4 DEF Faults, Abandon, TrackingFails, SaveChunkFails, SaveChunkUncertain
<1>5. ASSUME NEW w \in Worker, NEW j \in sent, Deliver(w, j) PROVE UNCHANGED lost
  BY <1>5 DEF Deliver
<1>6. Retry \/ UNCHANGED vars => UNCHANGED lost
  BY DEF Retry, vars
<1> QED
  BY <1>1, <1>2, <1>3, <1>4, <1>5, <1>6 DEF Next

\* The types of the variables.
THEOREM TypeCorrect == Spec => []TypeOK
<1>1. IInv /\ lost \subseteq Tracked => TypeOK
  BY DEF IInv, Fixed, Good, Records, Jobs, Rest, Workers, Delivery, Labels, TypeOK
<1>2. Init => lost \subseteq Tracked
  BY DEF Init
<1>3. IInv /\ lost \subseteq Tracked /\ [Next]_vars => (lost \subseteq Tracked)'
  BY LostStep
<1> QED
  BY <1>1, <1>2, <1>3, Inductive, PTL DEF Spec

\* A version that waits for review or is final has every output a client is
\* shown, however often its deliveries died or overtook each other:
\* validate_review_package and await_human_approval.
THEOREM ReviewedIsCompleteHolds == Spec => []ReviewedIsComplete
<1>1. IInv => ReviewedIsComplete
  BY DEF IInv, Good, Whole, ReviewedIsComplete
<1> QED
  BY <1>1, Inductive, PTL

\* revise() copies every output that the worker's seeding calls REUSED, save
\* the creative plan: the step orders of the two services agree on the rest.
THEOREM SeededIsInheritedHolds == Spec => []SeededIsInherited
<1>1. IInv => SeededIsInherited
  <2> SUFFICES ASSUME IInv, NEW s \in Tracked \ {"CREATIVE_PLAN"}, record[s] = "REUSED", s = "VOICEOVER" => voice
               PROVE  s \in version.outputs
    BY DEF SeededIsInherited
  <2>1. PICK i \in 1..7 : scope \in Seeding /\ i < Earliest /\ s = PipelineOrder[i]
    BY DEF IInv, Seeds
  <2>2. s \in Copied(scope, voice)
    BY <2>1, SeededIsCopied DEF IInv
  <2> QED
    BY <2>2 DEF IInv, Good
<1> QED
  BY <1>1, Inductive, PTL

-----------------------------------------------------------------------------
(* A retry finds the outputs.  As long as no delivery was cut off, whoever  *)
(* changes a record holds the lease, and the body it will save has at least *)
(* what the table and the records have.                                     *)

\* The steps that are recorded as done by a node that knows of it.
Succeeded == {s \in Tracked \ lost : record[s] = "SUCCEEDED"}

\* A delivery that has begun.
Begun(s) == s.pc \notin {"idle", "loaded", "exhausted"}

\* Where the packaging graph is in sight, its package was approved.
Packs(s) ==
    s.body.resume = "PACKAGE" \/ s.step = "PACKAGE" \/ s.at = Package \/ (s.at = Review /\ s.pc = "chunk")
        => "REVIEW" \in s.body.outputs

\* The delivery s that has the lease, when the table has the outputs V and the
\* records the steps R.
Holds(s, V, R) ==
    /\ Begun(s)
    /\ V \cup R \subseteq s.body.outputs
    /\ s.pc = "completing" => s.body.outputs \subseteq V
    /\ s.pc \in {"node", "start", "run", "done", "undone"} => s.at # 0
    /\ Packs(s)

Outstanding ==
    \A w \in Worker : worker[w].pc # "idle" =>
        /\ worker[w].job \in sent
        /\ worker[w].pc \in {"loaded", "exhausted"} => worker[w].at = 0 /\ worker[w].step = None

\* A package that was asked for, or failed, was approved.
Approved == version.resume = "PACKAGE" \/ (\E j \in sent : j.op = "RESUME") => "REVIEW" \in version.outputs

Kept ==
    ~interrupted =>
        /\ \A w \in Worker : Begun(worker[w]) => owner = w \/ worker[w].pc = "completing"
        /\ \A w \in Worker : owner = w => Holds(worker[w], version.outputs, Succeeded)
        /\ owner = None => Succeeded \subseteq version.outputs
        /\ Approved

KInv == IInv /\ Outstanding /\ Kept

-----------------------------------------------------------------------------
LEMMA InitKInv == Init => KInv
<1> SUFFICES ASSUME Init PROVE KInv
  OBVIOUS
<1>1. IInv
  BY InitIInv
<1>2. \A w \in Worker : worker[w] = Idle
  BY DEF Init
<1>3. Outstanding
  BY <1>2, IdleIs DEF Outstanding
<1>4. Kept
  <2>1. \A w \in Worker : ~Begun(worker[w])
    BY <1>2, IdleIs DEF Begun
  <2>2. owner = None /\ None \notin Worker
    BY Constants DEF Init
  <2>3. Succeeded = {}
    <3>1. None # "SUCCEEDED"
      BY StepPipelineAssumption
    <3> QED
      BY <3>1 DEF Init, Succeeded
  <2>4. version.resume # "PACKAGE"
    <3>1. None # "PACKAGE"
      BY StepPipelineAssumption
    <3> QED
      BY <3>1 DEF Init, NewVersion
  <2>5. \A j \in sent : j.op # "RESUME"
    BY DEF Init
  <2> QED
    BY <2>1, <2>2, <2>3, <2>4, <2>5 DEF Kept, Approved
<1> QED
  BY <1>1, <1>3, <1>4 DEF KInv

\* No step but PACKAGE is in the last place, and none is in that of the review.
LEMMA Places ==
  /\ \A i \in 1..Package : Graph[i] = "PACKAGE" => i = Package
  /\ Graph[Review] = "REVIEW" /\ "REVIEW" \notin Tracked
  /\ \A i \in 1..7 : PipelineOrder[i] # "PACKAGE"
<1> DEFINE rest == <<"REVIEW", "PACKAGE">>
           Node == Tracked \cup {"REVIEW"}
<1>1. PipelineOrder \in Seq(Node) /\ Len(PipelineOrder) = 7
  <2>1. {"STRATEGY", "COPY", "STORYBOARD", "CREATIVE_PLAN", "IMAGES", "VOICEOVER", "VIDEO"} \subseteq Node
    BY TrackedIs
  <2> HIDE DEF Node
  <2> QED
    BY <2>1 DEF PipelineOrder
<1>2. rest \in Seq(Node) /\ Len(rest) = 2 /\ rest[1] = "REVIEW" /\ rest[2] = "PACKAGE"
  <2>1. {"REVIEW", "PACKAGE"} \subseteq Node
    BY TrackedIs
  <2> HIDE DEF Node
  <2> QED
    BY <2>1
<1>3. Graph = PipelineOrder \o rest
  BY DEF Graph
<1> HIDE DEF rest, Node
<1>4. Graph[8] = "REVIEW" /\ \A i \in 1..7 : Graph[i] = PipelineOrder[i]
  <2>1. \A i \in 1..Len(PipelineOrder) + Len(rest) :
           (PipelineOrder \o rest)[i] = IF i <= Len(PipelineOrder) THEN PipelineOrder[i] ELSE rest[i - Len(PipelineOrder)]
    BY <1>1, <1>2, ConcatProperties
  <2>2. ASSUME NEW i \in 1..9 PROVE Graph[i] = IF i <= 7 THEN PipelineOrder[i] ELSE rest[i - 7]
    <3>1. i \in 1..Len(PipelineOrder) + Len(rest)
      BY <1>1, <1>2
    <3>2. (PipelineOrder \o rest)[i] = IF i <= Len(PipelineOrder) THEN PipelineOrder[i] ELSE rest[i - Len(PipelineOrder)]
      BY <2>1, <3>1
    <3> QED
      BY <1>1, <1>3, <3>2
  <2>3. Graph[8] = rest[1]
    BY <2>2
  <2>4. ASSUME NEW i \in 1..7 PROVE Graph[i] = PipelineOrder[i]
    BY <2>2
  <2> QED
    BY <1>2, <2>3, <2>4
<1>5. \A i \in 1..7 : PipelineOrder[i] # "PACKAGE"
  BY Order
<1> QED
  BY <1>4, <1>5, TrackedIs DEF Package, Review

\* The step a failure between nodes is put down to is never PACKAGE, and that
\* of an exhausted delivery only if it was the last failure's already.
LEMMA ResumeIsNotPackage ==
  /\ ResumePoint # "PACKAGE"
  /\ \A body \in Body : InFlight(body) = "PACKAGE" => body.resume = "PACKAGE"
<1>1. LastDone \in 0..7 /\ None # "PACKAGE"
  BY LastDoneType, StepPipelineAssumption
<1>2. ResumePoint # "PACKAGE"
  BY <1>1, Places DEF ResumePoint
<1>3. ASSUME NEW body \in Body, InFlight(body) = "PACKAGE" PROVE body.resume = "PACKAGE"
  <2>1. CASE LastDone = 0
    BY <1>3, <2>1, Order DEF InFlight
  <2>2. CASE LastDone \in 1..6
    <3>1. InFlight(body) = PipelineOrder[LastDone + 1] /\ LastDone + 1 \in 1..7
      BY <2>2 DEF InFlight
    <3> QED
      BY <1>3, <3>1, Places
  <2>3. CASE LastDone = 7
    BY <1>3, <2>3, Order DEF InFlight
  <2> QED
    BY <1>1, <2>1, <2>2, <2>3
<1> QED
  BY <1>2, <1>3

\* The delivery w moves to s, and holds the lease where it is held.
LEMMA Moves ==
  ASSUME KInv, ~interrupted, NEW w \in Worker, NEW s, worker' = [worker EXCEPT ![w] = s], sent' = sent,
         owner \in {None, w}, owner' \in {None, w},
         owner' = w => Holds(s, version'.outputs, Succeeded'),
         owner' = None => Succeeded' \subseteq version'.outputs /\ (Begun(s) => s.pc = "completing"),
         version'.resume = "PACKAGE" \/ (\E j \in sent : j.op = "RESUME") => "REVIEW" \in version'.outputs
  PROVE  Kept'
<1>1. None \notin Worker /\ worker \in [Worker -> Delivery]
  BY Constants DEF KInv, IInv, Workers
<1>2. worker'[w] = s /\ \A v \in Worker : v # w => worker'[v] = worker[v]
  BY <1>1
<1>3. ASSUME NEW v \in Worker, Begun(worker'[v]) PROVE owner' = v \/ worker'[v].pc = "completing"
  BY <1>1, <1>2, <1>3 DEF KInv, Kept
<1>4. ASSUME NEW v \in Worker, owner' = v PROVE Holds(worker'[v], version'.outputs, Succeeded')
  BY <1>1, <1>2, <1>4
<1>5. \A v \in Worker : Begun(worker[v])' <=> Begun(worker'[v])
  BY DEF Begun
<1>6. \A v \in Worker : Holds(worker[v], version.outputs, Succeeded)' <=> Holds(worker'[v], version'.outputs, Succeeded')
  BY DEF Holds, Begun, Packs
<1>7. Approved'
  BY DEF Approved
<1> QED
  BY <1>3, <1>4, <1>5, <1>6, <1>7 DEF Kept

\* A delivery that has begun, and is not done, has the lease.
LEMMA AtWork ==
  ASSUME KInv, ~interrupted, NEW w \in Worker, Begun(worker[w]), worker[w].pc # "completing"
  PROVE  /\ owner = w /\ owner # None
         /\ Holds(worker[w], version.outputs, Succeeded)
         /\ worker[w] \in Delivery /\ Fine(worker[w]) /\ worker[w].pc # "idle"
         /\ worker[w].body \in Body /\ Whole(worker[w].body)
         /\ worker[w].job \in sent
         /\ version.outputs \cup Succeeded \subseteq worker[w].body.outputs
         /\ Packs(worker[w])
         /\ Approved
<1>1. owner = w /\ Holds(worker[w], version.outputs, Succeeded) /\ Approved
  BY DEF KInv, Kept
<1>2. None \notin Worker
  BY Constants
<1>3. worker[w].pc # "idle"
  BY DEF Begun
<1>4. worker[w] \in Delivery /\ Fine(worker[w]) /\ Good(worker[w].body)
  BY <1>3, AtDelivery DEF KInv, IInv
<1>5. worker[w].job \in sent
  BY <1>3 DEF KInv, Outstanding
<1> QED
  BY <1>1, <1>2, <1>3, <1>4, <1>5 DEF Good, Holds

\* It goes on, and loses no output.
LEMMA GoesOn ==
  ASSUME KInv, ~interrupted, NEW w \in Worker, Begun(worker[w]), worker[w].pc # "completing",
         UNCHANGED <<version, owner, sent>>, NEW s, worker' = [worker EXCEPT ![w] = s],
         Begun(s), s.pc # "completing", s.body.resume = worker[w].body.resume,
         worker[w].body.outputs \cup Succeeded' \subseteq s.body.outputs,
         s.pc \in {"node", "start", "run", "done", "undone"} => s.at # 0,
         s.step = "PACKAGE" => worker[w].step = "PACKAGE" \/ worker[w].at = Package,
         s.at = Package => worker[w].at = Package,
         s.at = Review /\ s.pc = "chunk" => "REVIEW" \in s.body.outputs
  PROVE  Kept'
<1>1. /\ owner = w /\ owner # None
      /\ version.outputs \cup Succeeded \subseteq worker[w].body.outputs
      /\ Packs(worker[w]) /\ Approved
  BY AtWork
<1>2. Packs(s)
  BY <1>1 DEF Packs
<1>3. Holds(s, version'.outputs, Succeeded')
  BY <1>1, <1>2 DEF Holds
<1>4. version'.resume = "PACKAGE" \/ (\E j \in sent : j.op = "RESUME") => "REVIEW" \in version'.outputs
  BY <1>1 DEF Approved
<1> QED
  BY <1>1, <1>3, <1>4, Moves

\* It ends, or is left with nothing but to complete, and its body is in the table.
LEMMA Leaves ==
  ASSUME KInv, ~interrupted, NEW w \in Worker, Begun(worker[w]), owner = w,
         UNCHANGED <<record, lost, sent>>, owner' \in {None, w}, NEW s, worker' = [worker EXCEPT ![w] = s],
         owner' = None => s.pc = "idle",
         owner' = w => s.pc = "completing" /\ s.body = worker[w].body /\ s.at = worker[w].at /\ s.step = worker[w].step,
         version'.outputs = worker[w].body.outputs,
         version'.resume \in {worker[w].step, worker[w].body.resume}
  PROVE  Kept'
<1>1. Holds(worker[w], version.outputs, Succeeded) /\ Approved
  BY DEF KInv, Kept
<1>2. Succeeded' = Succeeded
  BY DEF Succeeded
<1>3. owner' = w => Holds(s, version'.outputs, Succeeded')
  BY <1>1, <1>2 DEF Holds, Packs, Begun
<1>4. owner' = None => Succeeded' \subseteq version'.outputs /\ (Begun(s) => s.pc = "completing")
  BY <1>1, <1>2 DEF Holds, Begun
<1>5. version'.resume = "PACKAGE" \/ (\E j \in sent : j.op = "RESUME") => "REVIEW" \in version'.outputs
  BY <1>1 DEF Holds, Packs, Approved
<1> QED
  BY <1>3, <1>4, <1>5, Moves

\* Nothing that is said of a delivery depends on one that has not begun.
LEMMA SucceededKeeps ==
  ASSUME NEW step \in Tracked, NEW status, NEW event, record \in [Tracked -> {"RUNNING", "FAILED", None} \cup Done],
         SaveStep(step, status, event), lost \subseteq lost'
  PROVE  Succeeded' \subseteq Succeeded \cup IF status = "SUCCEEDED" THEN {step} ELSE {}
  BY DEF SaveStep, Succeeded

LEMMA TrackSucceeded ==
  ASSUME KInv, NEW w \in Worker, Track(w), Step(w) \in Tracked, lost \subseteq lost'
  PROVE  Succeeded' \subseteq Succeeded \cup IF worker[w].pc = "done" /\ ~Skipped(w) THEN {Step(w)} ELSE {}
<1>1. record \in [Tracked -> {"RUNNING", "FAILED", None} \cup Done]
  BY DEF KInv, IInv, Records
<1> QED
  BY <1>1, SucceededKeeps DEF Track, At

LEMMA DeliverKept ==
  ASSUME KInv, NEW w \in Worker, NEW j \in sent, Deliver(w, j)
  PROVE  Kept'
<1> SUFFICES ASSUME ~interrupted PROVE Kept'
  BY DEF Deliver, Kept
<1>1. PICK s : s = [Idle EXCEPT !.job = j, !.body = version, !.pc = IF received[j] < limit THEN "loaded" ELSE "exhausted"]
  OBVIOUS
<1>2. worker' = [worker EXCEPT ![w] = s] /\ UNCHANGED <<version, record, lost, owner, sent, interrupted>> /\ worker[w].pc = "idle"
  BY <1>1 DEF Deliver, At
<1>3. s.pc \in {"loaded", "exhausted"}
  BY <1>1, IdleIs DEF Idle
<1>4. ~Begun(s) /\ ~Begun(worker[w]) /\ Succeeded' = Succeeded
  BY <1>2, <1>3 DEF Begun, Succeeded
<1>5. worker \in [Worker -> Delivery]
  BY DEF KInv, IInv, Workers
<1>6. owner # w
  BY <1>4 DEF KInv, Kept, Holds
<1>7. ASSUME NEW v \in Worker, Begun(worker'[v]) PROVE v # w /\ worker'[v] = worker[v]
  BY <1>2, <1>4, <1>5, <1>7
<1>8. ASSUME NEW v \in Worker, owner = v PROVE worker'[v] = worker[v]
  BY <1>2, <1>5, <1>6, <1>8
<1>9. \A v \in Worker : Begun(worker[v])' <=> Begun(worker'[v])
  BY DEF Begun
<1>10. \A v \in Worker : Holds(worker[v], version.outputs, Succeeded)' <=> Holds(worker'[v], version'.outputs, Succeeded')
  BY DEF Holds, Begun, Packs
<1>11. Approved'
  BY <1>2 DEF KInv, Kept, Approved
<1> QED
  BY <1>2, <1>4, <1>7, <1>8, <1>9, <1>10, <1>11 DEF KInv, Kept

\* What was loaded is what is in the table, or the delivery is overtaken.
LEMMA AcquireKept ==
  ASSUME KInv, NEW w \in Worker, Acquire(w) \/ AcquireExhausted(w), ~interrupted'
  PROVE  Kept'
<1>1. ~interrupted /\ owner = None /\ worker[w].body = version /\ UNCHANGED <<version, record, lost, sent>>
      /\ worker[w].pc \in {"loaded", "exhausted"}
  BY DEF Acquire, AcquireExhausted, Overtaken, At, queue
<1>2. /\ worker[w].at = 0 /\ worker[w].step = None /\ None # "PACKAGE" /\ None \notin Worker
      /\ worker[w] \in Delivery /\ version \in Body
  BY <1>1, StepPipelineAssumption DEF KInv, IInv, Workers, Outstanding, Good
<1>3. Succeeded \subseteq version.outputs /\ Approved /\ Succeeded' = Succeeded
  BY <1>1 DEF KInv, Kept, Succeeded
<1>4. version'.resume = "PACKAGE" \/ (\E j \in sent : j.op = "RESUME") => "REVIEW" \in version'.outputs
  BY <1>1, <1>3 DEF Approved
<1>5. CASE owner' = None /\ Drop(w)
  <2>1. ~Begun(Idle)
    BY IdleIs DEF Begun
  <2> QED
    BY <1>1, <1>2, <1>3, <1>4, <1>5, <2>1, Moves DEF Drop
<1>6. CASE owner' = w /\ Goto(w, FirstLabel(w))
  <2>1. PICK s : s = [worker[w] EXCEPT !.pc = FirstLabel(w)]
    OBVIOUS
  <2>2. s.pc = FirstLabel(w) /\ s.body = version /\ s.at = 0 /\ s.step = None
    BY <1>1, <1>2, <2>1 DEF Delivery
  <2>3. s.pc \in {"chunk", "unsupported", "seed"}
    BY <2>2 DEF FirstLabel
  <2>4. Holds(s, version'.outputs, Succeeded')
    BY <1>1, <1>2, <1>3, <1>4, <2>2, <2>3 DEF Holds, Begun, Packs, Package, Review
  <2> QED
    BY <1>1, <1>2, <1>4, <1>6, <2>1, <2>4, Moves DEF Goto
<1>7. CASE /\ owner' = w
           /\ worker' = [worker EXCEPT ![w] = [@ EXCEPT !.pc = "giving up", !.step = InFlight(worker[w].body)]]
  <2>1. PICK s : s = [worker[w] EXCEPT !.pc = "giving up", !.step = InFlight(worker[w].body)]
    OBVIOUS
  <2>2. s.pc = "giving up" /\ s.body = version /\ s.at = 0 /\ s.step = InFlight(version)
    BY <1>1, <1>2, <2>1 DEF Delivery
  <2>3. s.step = "PACKAGE" => version.resume = "PACKAGE"
    BY <1>2, <2>2, ResumeIsNotPackage
  <2>4. Packs(s)
    <3>1. version.resume = "PACKAGE" => "REVIEW" \in version.outputs
      BY <1>3 DEF Approved
    <3>2. s.at = 0
      BY <2>2
    <3>3. s.at # Package /\ s.at # Review
      BY <3>2 DEF Package, Review
    <3> QED
      BY <2>2, <2>3, <3>1, <3>3 DEF Packs
  <2>5. Begun(s)
    BY <2>2 DEF Begun
  <2>6. version' = version
    BY <1>1
  <2>7. Holds(s, version'.outputs, Succeeded')
    BY <1>3, <2>2, <2>4, <2>5, <2>6 DEF Holds
  <2> QED
    BY <1>1, <1>2, <1>4, <1>7, <2>1, <2>7, Moves
<1> QED
  BY <1>5, <1>6, <1>7 DEF Acquire, AcquireExhausted

LEMMA SeedKept ==
  ASSUME KInv, NEW w \in Worker, Seed(w), ~interrupted'
  PROVE  Kept'
<1> DEFINE i == worker[w].at + 1
<1>1. ~interrupted /\ UNCHANGED <<version, owner, sent, lost>> /\ worker[w].pc = "seed"
      /\ SaveStep(PipelineOrder[i], "REUSED", Event(PipelineOrder[i], "REUSED", 0))
      /\ worker' = [worker EXCEPT ![w] = IF i + 1 = Earliest THEN [@ EXCEPT !.pc = "chunk", !.at = 0] ELSE [@ EXCEPT !.at = i]]
  BY DEF Seed, At, queue
<1>2. Begun(worker[w]) /\ worker[w].pc # "completing"
  BY <1>1 DEF Begun
<1>3. worker[w] \in Delivery /\ Fine(worker[w]) /\ version.outputs \cup Succeeded \subseteq worker[w].body.outputs
  BY <1>1, <1>2, AtWork
<1>4. scope \in Seeding /\ i < Earliest /\ worker[w].at \in 0..9
  BY <1>1, <1>3 DEF Fine, Delivery, Package
<1>5. i \in 1..6
  BY <1>4 DEF Seeding, Earliest
<1>6. Succeeded' \subseteq worker[w].body.outputs
  <2>1. PipelineOrder[i] \in Tracked
    BY <1>5, TrackedIs
  <2>2. record \in [Tracked -> {"RUNNING", "FAILED", None} \cup Done]
    BY DEF KInv, IInv, Records
  <2> QED
    BY <1>1, <1>3, <2>1, <2>2, SucceededKeeps
<1>7. PICK s : s = IF i + 1 = Earliest THEN [worker[w] EXCEPT !.pc = "chunk", !.at = 0] ELSE [worker[w] EXCEPT !.at = i]
  OBVIOUS
<1>8. /\ s.pc \in {"chunk", "seed"} /\ s.body = worker[w].body /\ s.step = worker[w].step
      /\ s.at \in 0..6
  BY <1>1, <1>3, <1>5, <1>7 DEF Delivery
<1>9. worker' = [worker EXCEPT ![w] = s]
  BY <1>1, <1>7
<1>10. Begun(s) /\ s.pc \notin {"completing", "node", "start", "run", "done", "undone"} /\ s.at # Package /\ s.at # Review
  BY <1>8 DEF Begun, Package, Review
<1>11. s.body.resume = worker[w].body.resume /\ worker[w].body.outputs \cup Succeeded' \subseteq s.body.outputs
  BY <1>6, <1>8
<1> QED
  BY <1>1, <1>2, <1>8, <1>9, <1>10, <1>11, GoesOn

\* Nothing but the place of the delivery and, of the records, one that is not
\* SUCCEEDED.
LEMMA GotoKept ==
  ASSUME KInv, NEW w \in Worker, worker[w].pc \in {"node", "start", "run", "undone"},
         ~interrupted, UNCHANGED <<version, owner, sent>>, NEW label \in {"chunk", "start", "run", "done", "failing"},
         Goto(w, label), worker[w].at # Review, Succeeded' \subseteq Succeeded
  PROVE  Kept'
<1>1. Begun(worker[w]) /\ worker[w].pc # "completing"
  BY DEF Begun
<1>2. /\ worker[w] \in Delivery /\ version.outputs \cup Succeeded \subseteq worker[w].body.outputs
      /\ Holds(worker[w], version.outputs, Succeeded)
  BY <1>1, AtWork
<1>3. PICK s : s = [worker[w] EXCEPT !.pc = label]
  OBVIOUS
<1>4. s.pc = label /\ s.body = worker[w].body /\ s.at = worker[w].at /\ s.step = worker[w].step
  BY <1>2, <1>3 DEF Delivery
<1>5. worker' = [worker EXCEPT ![w] = s]
  BY <1>3 DEF Goto
<1>6. s.at # 0
  BY <1>2, <1>4 DEF Holds
<1> QED
  BY <1>1, <1>2, <1>4, <1>5, <1>6, GoesOn DEF Begun

\* The failure that will be written: of PACKAGE only where the package is.
LEMMA FailingKept ==
  ASSUME KInv, NEW w \in Worker, Begun(worker[w]), worker[w].pc # "completing",
         ~interrupted, UNCHANGED <<version, owner, sent>>, Succeeded' \subseteq Succeeded,
         NEW label \in {"failing", "undone"}, NEW step, NEW again,
         \/ worker[w].pc \in {"node", "start", "run", "done", "undone"} /\ step = Step(w)
         \/ label = "failing" /\ step = ResumePoint,
         worker' = [worker EXCEPT ![w] = [@ EXCEPT !.pc = label, !.step = step, !.again = again]]
  PROVE  Kept'
<1>1. /\ worker[w] \in Delivery /\ version.outputs \cup Succeeded \subseteq worker[w].body.outputs
      /\ Holds(worker[w], version.outputs, Succeeded)
  BY AtWork
<1>2. PICK s : s = [worker[w] EXCEPT !.pc = label, !.step = step, !.again = again]
  OBVIOUS
<1>3. s.pc = label /\ s.body = worker[w].body /\ s.at = worker[w].at /\ s.step = step
  BY <1>1, <1>2 DEF Delivery
<1>4. worker' = [worker EXCEPT ![w] = s]
  BY <1>2
<1>5. step = "PACKAGE" => worker[w].at = Package
  <2>1. CASE step = ResumePoint
    BY <2>1, ResumeIsNotPackage
  <2>2. CASE worker[w].pc \in {"node", "start", "run", "done", "undone"} /\ step = Step(w)
    <3>1. worker[w].at \in 1..Package
      BY <1>1, <2>2 DEF Holds, Delivery, Package
    <3> QED
      BY <2>2, <3>1, Places DEF Step
  <2> QED
    BY <2>1, <2>2
<1>6. s.pc = "undone" => s.at # 0
  BY <1>1, <1>3 DEF Holds
<1> QED
  BY <1>1, <1>3, <1>4, <1>5, <1>6, GoesOn DEF Begun

\* with_step_tracking up to the node's answer, and after an exception.
LEMMA NodeKept ==
  ASSUME KInv, NEW w \in Worker, ~interrupted',
         \/ Skip(w) \/ Begin(w) \/ Start(w) \/ Run(w) \/ RecordFailed(w)
         \/ TrackingFails(w) \/ TrackingUncertain(w)
  PROVE  Kept'
<1>1. ~interrupted /\ UNCHANGED <<version, owner, sent>> /\ worker[w].pc \in {"node", "start", "run", "done", "undone"}
      /\ (TrackingUncertain(w) \/ UNCHANGED lost)
  <2>1. CASE Skip(w) \/ Begin(w)
    BY <2>1 DEF Skip, Begin, queue, At
  <2>2. CASE Start(w) \/ RecordFailed(w)
    BY <2>2 DEF Start, RecordFailed, queue, At
  <2>3. CASE Run(w)
    BY <2>3 DEF Run, queue, At
  <2>4. CASE TrackingFails(w)
    BY <2>4 DEF TrackingFails, queue
  <2>5. CASE TrackingUncertain(w)
    BY <2>5 DEF TrackingUncertain, Track, At, queue
  <2> QED
    BY <2>1, <2>2, <2>3, <2>4, <2>5
<1>2. Begun(worker[w]) /\ worker[w].pc # "completing"
  BY <1>1 DEF Begun
<1>3. Step(w) \in Tracked /\ worker[w].at # Review
  <2>1. Step(w) \in Tracked
    BY <1>1, <1>2, AtWork DEF Skip, Begin, TrackingFails, TrackingUncertain, Track, Start, Run, RecordFailed, At, Fine, Step
  <2> QED
    BY <2>1, Places DEF Step
<1>5. CASE Skip(w) \/ Begin(w)
  <2>1. Succeeded' = Succeeded /\ (Goto(w, "chunk") \/ Goto(w, "start"))
    BY <1>5 DEF Skip, Begin, Succeeded
  <2>2. worker[w].pc \in {"node", "start", "run", "undone"}
    BY <1>5 DEF Skip, Begin, At
  <2> QED
    BY <1>1, <1>3, <2>1, <2>2, GotoKept
<1>6. CASE Start(w) \/ RecordFailed(w)
  <2>1. Succeeded' \subseteq Succeeded
    BY <1>3, <1>6, TrackSucceeded DEF Start, RecordFailed, At
  <2>2. Goto(w, "run") \/ Goto(w, "failing")
    BY <1>6 DEF Start, RecordFailed
  <2>3. worker[w].pc \in {"node", "start", "run", "undone"}
    BY <1>6 DEF Start, RecordFailed, At
  <2> QED
    BY <1>1, <1>3, <2>1, <2>2, <2>3, GotoKept
<1>7. CASE Run(w)
  <2>1. worker[w].pc = "run" /\ Succeeded' = Succeeded
    BY <1>7 DEF Run, At, Succeeded
  <2>2. CASE Goto(w, "done")
    BY <1>1, <1>3, <2>1, <2>2, GotoKept
  <2>3. CASE \E again \in BOOLEAN :
                worker' = [worker EXCEPT ![w] = [@ EXCEPT !.pc = "undone", !.step = Step(w), !.again = again]]
    <3>1. PICK again \in BOOLEAN :
                worker' = [worker EXCEPT ![w] = [@ EXCEPT !.pc = "undone", !.step = Step(w), !.again = again]]
      BY <2>3
    <3> QED
      BY <1>1, <1>2, <2>1, <3>1, FailingKept
  <2> QED
    BY <1>7, <2>2, <2>3 DEF Run
<1>8. CASE TrackingFails(w) \/ TrackingUncertain(w)
  <2>1. worker' = [worker EXCEPT ![w] = [@ EXCEPT !.pc = "failing", !.step = Step(w), !.again = TRUE]]
    BY <1>8 DEF TrackingFails, TrackingUncertain
  <2>2. Succeeded' \subseteq Succeeded
    <3>1. CASE TrackingFails(w)
      BY <3>1 DEF TrackingFails, Succeeded
    <3>2. CASE TrackingUncertain(w)
      <4>1. Track(w) /\ lost' = lost \cup IF worker[w].pc = "done" /\ ~Skipped(w) THEN {Step(w)} ELSE {}
        BY <3>2 DEF TrackingUncertain, At
      <4>2. Succeeded' \subseteq Succeeded \cup IF worker[w].pc = "done" /\ ~Skipped(w) THEN {Step(w)} ELSE {}
        BY <1>3, <4>1, TrackSucceeded
      <4> QED
        BY <4>1, <4>2 DEF Succeeded
    <3> QED
      BY <1>8, <3>1, <3>2
  <2> QED
    BY <1>1, <1>2, <2>1, <2>2, FailingKept
<1> QED
  BY <1>5, <1>6, <1>7, <1>8

\* The record says SUCCEEDED when the delivery has the output.
LEMMA RecordDoneKept ==
  ASSUME KInv, NEW w \in Worker, RecordDone(w), ~interrupted'
  PROVE  Kept'
<1>1. ~interrupted /\ UNCHANGED <<version, owner, sent, lost>> /\ worker[w].pc = "done" /\ Track(w)
      /\ worker' = [worker EXCEPT ![w] = [@ EXCEPT !.pc = "chunk", !.body = Result(w)]]
  BY DEF RecordDone, At, queue
<1>2. Begun(worker[w]) /\ worker[w].pc # "completing"
  BY <1>1 DEF Begun
<1>3. /\ worker[w] \in Delivery /\ version.outputs \cup Succeeded \subseteq worker[w].body.outputs
      /\ Fine(worker[w]) /\ worker[w].body \in Body
  BY <1>1, <1>2, AtWork
<1>4. Step(w) \in Tracked /\ worker[w].at # Review
  BY <1>1, <1>3, Places DEF Fine, Step
<1>5. Result(w).resume = worker[w].body.resume
      /\ Result(w).outputs = worker[w].body.outputs \cup IF Skipped(w) THEN {} ELSE {Step(w)}
  BY <1>3 DEF Result, Body
<1>6. Succeeded' \subseteq Result(w).outputs
  <2>1. Succeeded' \subseteq Succeeded \cup IF Skipped(w) THEN {} ELSE {Step(w)}
    BY <1>1, <1>4, TrackSucceeded
  <2> QED
    BY <1>3, <1>5, <2>1
<1>7. PICK s : s = [worker[w] EXCEPT !.pc = "chunk", !.body = Result(w)]
  OBVIOUS
<1>8. s.pc = "chunk" /\ s.body = Result(w) /\ s.at = worker[w].at /\ s.step = worker[w].step
  BY <1>3, <1>7 DEF Delivery
<1>9. worker' = [worker EXCEPT ![w] = s]
  BY <1>1, <1>7
<1>10. worker[w].body.outputs \cup Succeeded' \subseteq s.body.outputs /\ s.body.resume = worker[w].body.resume
  BY <1>5, <1>6, <1>8
<1>11. Begun(s) /\ s.pc \notin {"completing", "node", "start", "run", "done", "undone"} /\ s.at # Review
  BY <1>4, <1>8 DEF Begun
<1> QED
  BY <1>1, <1>2, <1>8, <1>9, <1>10, <1>11, GoesOn

LEMMA AwaitApprovalKept ==
  ASSUME KInv, NEW w \in Worker, AwaitApproval(w) \/ SaveChunkFails(w), ~interrupted'
  PROVE  Kept'
<1>1. ~interrupted /\ UNCHANGED <<version, record, lost, owner, sent>> /\ worker[w].pc \in {"node", "chunk"}
  BY DEF AwaitApproval, SaveChunkFails, At, queue
<1>2. Begun(worker[w]) /\ worker[w].pc # "completing"
  BY <1>1 DEF Begun
<1>3. CASE worker' = [worker EXCEPT ![w] = [@ EXCEPT !.pc = "failing", !.step = ResumePoint, !.again = TRUE]]
  BY <1>1, <1>2, <1>3, FailingKept DEF Succeeded
<1>4. CASE worker' = [worker EXCEPT ![w] = [@ EXCEPT !.pc = "chunk", !.body = Reviewed(worker[w].body)]]
           /\ worker[w].at = Review
  <2>1. /\ worker[w] \in Delivery /\ version.outputs \cup Succeeded \subseteq worker[w].body.outputs
        /\ worker[w].body \in Body
    BY <1>1, <1>2, AtWork
  <2>2. Reviewed(worker[w].body).resume = worker[w].body.resume
        /\ Reviewed(worker[w].body).outputs = worker[w].body.outputs \cup {"REVIEW"}
    BY <2>1 DEF Reviewed, Body
  <2>3. PICK s : s = [worker[w] EXCEPT !.pc = "chunk", !.body = Reviewed(worker[w].body)]
    OBVIOUS
  <2>4. s.pc = "chunk" /\ s.body = Reviewed(worker[w].body) /\ s.at = worker[w].at /\ s.step = worker[w].step
    BY <2>1, <2>3 DEF Delivery
  <2>5. worker' = [worker EXCEPT ![w] = s]
    BY <1>4, <2>3
  <2>6. Succeeded' = Succeeded
    BY <1>1 DEF Succeeded
  <2>7. worker[w].body.outputs \cup Succeeded' \subseteq s.body.outputs /\ s.body.resume = worker[w].body.resume
        /\ "REVIEW" \in s.body.outputs
    BY <2>1, <2>2, <2>4, <2>6
  <2>8. Begun(s) /\ s.pc \notin {"completing", "node", "start", "run", "done", "undone"}
    BY <2>4 DEF Begun
  <2> QED
    BY <1>1, <1>2, <2>4, <2>5, <2>7, <2>8, GoesOn
<1> QED
  BY <1>3, <1>4 DEF AwaitApproval, SaveChunkFails

\* The save of a chunk: the packaging graph comes next only after the review,
\* or when the job resumes an approved package.
LEMMA SaveChunkKept ==
  ASSUME KInv, NEW w \in Worker, SaveChunk(w) \/ SaveChunkUncertain(w), ~interrupted'
  PROVE  Kept'
<1>1. ~interrupted /\ UNCHANGED <<record, lost, sent>> /\ worker[w].pc = "chunk" /\ owner = w /\ version' = worker[w].body
  BY DEF SaveChunk, SaveChunkUncertain, At, queue
<1>2. Begun(worker[w]) /\ worker[w].pc # "completing"
  BY <1>1 DEF Begun
<1>3. /\ worker[w] \in Delivery /\ version.outputs \cup Succeeded \subseteq worker[w].body.outputs
      /\ Packs(worker[w]) /\ Approved /\ worker[w].job \in sent
  BY <1>1, <1>2, AtWork
<1>4. CASE owner' = w /\ worker' = [worker EXCEPT ![w] = [@ EXCEPT !.pc = "failing", !.step = ResumePoint, !.again = TRUE]]
  <2> DEFINE s == [worker[w] EXCEPT !.pc = "failing", !.step = ResumePoint, !.again = TRUE]
  <2>1. s.pc = "failing" /\ s.body = worker[w].body /\ s.at = worker[w].at /\ s.step = ResumePoint
    BY <1>3 DEF Delivery
  <2>2. worker' = [worker EXCEPT ![w] = s] /\ None \notin Worker
    BY <1>4, Constants
  <2> HIDE DEF s
  <2>3. Succeeded' = Succeeded
    BY <1>1 DEF Succeeded
  <2>4. Packs(s)
    BY <1>3, <2>1, ResumeIsNotPackage DEF Packs
  <2>5. Holds(s, version'.outputs, Succeeded')
    BY <1>1, <1>3, <2>1, <2>3, <2>4 DEF Holds, Begun
  <2>6. version'.resume = "PACKAGE" \/ (\E j \in sent : j.op = "RESUME") => "REVIEW" \in version'.outputs
    BY <1>1, <1>3 DEF Packs, Approved
  <2> QED
    BY <1>1, <1>4, <2>2, <2>5, <2>6, Moves
<1>5. CASE owner' = w /\ Goto(w, "completing")
  <2>1. PICK s : s = [worker[w] EXCEPT !.pc = "completing"]
    OBVIOUS
  <2>2. s.pc = "completing" /\ s.body = worker[w].body /\ s.at = worker[w].at /\ s.step = worker[w].step
    BY <1>3, <2>1 DEF Delivery
  <2>3. worker' = [worker EXCEPT ![w] = s] /\ None \notin Worker
    BY <1>5, <2>1, Constants DEF Goto
  <2> QED
    BY <1>1, <1>2, <1>5, <2>2, <2>3, Leaves
<1>6. CASE owner' = w /\ worker[w].at # Package /\ worker' = [worker EXCEPT ![w] = [@ EXCEPT !.pc = "node", !.at = NextPlace(w)]]
  <2>1. PICK s : s = [worker[w] EXCEPT !.pc = "node", !.at = NextPlace(w)]
    OBVIOUS
  <2>2. s.pc = "node" /\ s.body = worker[w].body /\ s.at = NextPlace(w) /\ s.step = worker[w].step
    BY <1>3, <2>1 DEF Delivery
  <2>3. NextPlace(w) # 0 /\ (NextPlace(w) = Package => worker[w].at = Review \/ worker[w].job.op = "RESUME")
    BY <1>3, <1>6 DEF NextPlace, Delivery, Package, Review
  <2>4. NextPlace(w) = Package => "REVIEW" \in worker[w].body.outputs
    BY <1>1, <1>3, <2>3 DEF Packs, Approved
  <2>5. Packs(s)
    BY <1>3, <2>2, <2>4 DEF Packs
  <2>6. Succeeded' = Succeeded
    BY <1>1 DEF Succeeded
  <2>7. Holds(s, version'.outputs, Succeeded')
    BY <1>1, <1>3, <2>2, <2>3, <2>5, <2>6 DEF Holds, Begun
  <2>8. version'.resume = "PACKAGE" \/ (\E j \in sent : j.op = "RESUME") => "REVIEW" \in version'.outputs
    BY <1>1, <1>3 DEF Packs, Approved
  <2>9. worker' = [worker EXCEPT ![w] = s] /\ None \notin Worker
    BY <1>6, <2>1, Constants
  <2> QED
    BY <1>1, <1>6, <2>7, <2>8, <2>9, Moves
<1> QED
  BY <1>1, <1>4, <1>5, <1>6 DEF SaveChunk, SaveChunkUncertain

\* The failure is written over the chunk.
LEMMA FailKept ==
  ASSUME KInv, NEW w \in Worker, Fail(w) \/ FailUnsupported(w), ~interrupted'
  PROVE  Kept'
<1>1. ~interrupted /\ UNCHANGED <<record, lost, sent>> /\ worker[w].pc \in {"failing", "giving up", "unsupported"} /\ owner = w
  <2>1. CASE Fail(w)
    BY <2>1 DEF Fail, queue
  <2>2. CASE FailUnsupported(w)
    BY <2>2 DEF FailUnsupported, At, queue
  <2> QED
    BY <2>1, <2>2
<1>2. Begun(worker[w]) /\ worker[w].pc # "completing"
  BY <1>1 DEF Begun
<1>3. worker[w] \in Delivery /\ worker[w].body \in Body
  BY <1>1, <1>2, AtWork
<1>4. version'.outputs = worker[w].body.outputs /\ version'.resume \in {worker[w].step, worker[w].body.resume}
  BY <1>3 DEF Fail, FailUnsupported, Failed, Body
<1>5. CASE owner' = None /\ Drop(w)
  <2>1. worker' = [worker EXCEPT ![w] = Idle] /\ Idle.pc = "idle" /\ None # w
    BY <1>5, IdleIs, Constants DEF Drop
  <2> QED
    BY <1>1, <1>2, <1>4, <1>5, <2>1, Leaves
<1>6. CASE owner' = w /\ Goto(w, "completing")
  <2>1. PICK s : s = [worker[w] EXCEPT !.pc = "completing"]
    OBVIOUS
  <2>2. s.pc = "completing" /\ s.body = worker[w].body /\ s.at = worker[w].at /\ s.step = worker[w].step
    BY <1>3, <2>1 DEF Delivery
  <2>3. worker' = [worker EXCEPT ![w] = s] /\ None \notin Worker
    BY <1>6, <2>1, Constants DEF Goto
  <2> QED
    BY <1>1, <1>2, <1>4, <1>6, <2>2, <2>3, Leaves
<1> QED
  BY <1>1, <1>5, <1>6 DEF Fail, FailUnsupported

LEMMA CompleteKept ==
  ASSUME KInv, NEW w \in Worker, Complete(w), ~interrupted'
  PROVE  Kept'
<1>1. ~interrupted /\ UNCHANGED <<record, lost, sent, version>> /\ worker[w].pc = "completing" /\ owner = w /\ owner' = None
  BY DEF Complete, At
<1>2. Holds(worker[w], version.outputs, Succeeded) /\ Approved
  BY <1>1 DEF KInv, Kept
<1>3. worker' = [worker EXCEPT ![w] = Idle] /\ ~Begun(Idle) /\ None # w
  BY IdleIs, Constants DEF Complete, Drop, Begun
<1>4. Succeeded' \subseteq version'.outputs
  BY <1>1, <1>2 DEF Holds, Succeeded
<1>5. version'.resume = "PACKAGE" \/ (\E j \in sent : j.op = "RESUME") => "REVIEW" \in version'.outputs
  BY <1>1, <1>2 DEF Approved
<1> QED
  BY <1>1, <1>3, <1>4, <1>5, Moves

\* A retry dismisses no delivery that is still at work.
LEMMA RetryKept ==
  ASSUME KInv, Retry, ~interrupted'
  PROVE  Kept'
<1>1. ~interrupted /\ UNCHANGED <<record, lost, worker>> /\ owner' = None
      /\ version' = [version EXCEPT !.status = "QUEUED"]
      /\ \A w \in Worker : owner = w => worker[w].pc = "completing"
  BY DEF Retry, At
<1>2. version'.outputs = version.outputs /\ version'.resume = version.resume
  BY <1>1 DEF KInv, IInv, Good, Body
<1>3. Succeeded' \subseteq version'.outputs
  <2>1. owner \in Worker \cup {None}
    BY DEF KInv, IInv, Rest
  <2>2. Succeeded \subseteq version.outputs
    BY <1>1, <2>1 DEF KInv, Kept, Holds
  <2> QED
    BY <1>1, <1>2, <2>2 DEF Succeeded
<1>4. ASSUME NEW w \in Worker, Begun(worker[w]) PROVE worker[w].pc = "completing"
  BY <1>1, <1>4 DEF KInv, Kept
<1>5. Approved'
  <2>1. \A j \in sent' : j.op = "RESUME" => j \in sent \/ version.resume = "PACKAGE"
    BY DEF Retry
  <2> QED
    BY <1>1, <1>2, <2>1 DEF KInv, Kept, Approved
<1>6. \A w \in Worker : Begun(worker[w])' <=> Begun(worker[w])
  BY <1>1 DEF Begun
<1>7. None \notin Worker
  BY Constants
<1> QED
  BY <1>1, <1>3, <1>4, <1>5, <1>6, <1>7 DEF Kept

\* Every delivery is of a job that was sent.
LEMMA OutstandingStep ==
  ASSUME KInv, [Next]_vars
  PROVE  Outstanding'
<1>1. worker \in [Worker -> Delivery]
  BY DEF KInv, IInv, Workers
<1>2. CASE UNCHANGED worker /\ sent \subseteq sent'
  BY <1>2 DEF KInv, Outstanding
<1>3. ASSUME NEW w \in Worker, NEW s, worker' = [worker EXCEPT ![w] = s], sent' = sent,
             s.pc # "idle" => s.job \in sent /\ (s.pc \in {"loaded", "exhausted"} => s.at = 0 /\ s.step = None)
      PROVE  Outstanding'
  BY <1>1, <1>3 DEF KInv, Outstanding
<1>4. ASSUME NEW w \in Worker, NEW j \in sent, Deliver(w, j) PROVE Outstanding'
  <2>1. PICK s : s = [Idle EXCEPT !.job = j, !.body = version, !.pc = IF received[j] < limit THEN "loaded" ELSE "exhausted"]
    OBVIOUS
  <2>2. s.job = j /\ s.at = 0 /\ s.step = None
    BY <2>1 DEF Idle
  <2>3. worker' = [worker EXCEPT ![w] = s] /\ sent' = sent
    BY <1>4, <2>1 DEF Deliver
  <2> QED
    BY <1>3, <2>2, <2>3
<1>5. ASSUME NEW w \in Worker, Drop(w), sent' = sent PROVE Outstanding'
  BY <1>3, <1>5, IdleIs DEF Drop
<1>6. ASSUME NEW w \in Worker, worker[w].pc # "idle", sent' = sent, NEW s, worker' = [worker EXCEPT ![w] = s],
             s.job = worker[w].job, s.pc \notin {"loaded", "exhausted"}
      PROVE  Outstanding'
  BY <1>3, <1>6 DEF KInv, Outstanding
<1>7. ASSUME NEW w \in Worker, worker[w].pc # "idle", sent' = sent, NEW label \in Labels \ {"loaded", "exhausted"},
             NEW body, NEW at, NEW step, NEW again,
             \/ Goto(w, label)
             \/ worker' = [worker EXCEPT ![w] = [@ EXCEPT !.pc = label, !.body = body]]
             \/ worker' = [worker EXCEPT ![w] = [@ EXCEPT !.pc = label, !.at = at]]
             \/ worker' = [worker EXCEPT ![w] = [@ EXCEPT !.pc = label, !.step = step]]
             \/ worker' = [worker EXCEPT ![w] = [@ EXCEPT !.pc = label, !.step = step, !.again = again]]
      PROVE  Outstanding'
  <2>1. worker[w] \in Delivery
    BY <1>1
  <2>2. PICK s : /\ worker' = [worker EXCEPT ![w] = s]
                 /\ \/ s = [worker[w] EXCEPT !.pc = label]
                    \/ s = [worker[w] EXCEPT !.pc = label, !.body = body]
                    \/ s = [worker[w] EXCEPT !.pc = label, !.at = at]
                    \/ s = [worker[w] EXCEPT !.pc = label, !.step = step]
                    \/ s = [worker[w] EXCEPT !.pc = label, !.step = step, !.again = again]
    BY <1>7 DEF Goto
  <2>3. s.pc = label /\ s.job = worker[w].job
    BY <2>1, <2>2 DEF Delivery
  <2> QED
    BY <1>6, <1>7, <2>2, <2>3
<1>8. ASSUME NEW w \in Worker, Seed(w) PROVE Outstanding'
  <2>1. worker[w].pc = "seed" /\ sent' = sent /\ "chunk" \in Labels
    BY <1>8 DEF Seed, At, queue, Labels
  <2>2. CASE worker' = [worker EXCEPT ![w] = [@ EXCEPT !.pc = "chunk", !.at = 0]]
    BY <1>7, <2>1, <2>2
  <2>3. CASE worker' = [worker EXCEPT ![w] = [@ EXCEPT !.at = worker[w].at + 1]]
    <3>1. PICK s : s = [worker[w] EXCEPT !.at = worker[w].at + 1]
      OBVIOUS
    <3>2. s.pc = "seed" /\ s.job = worker[w].job
      BY <1>1, <2>1, <3>1 DEF Delivery
    <3> QED
      BY <1>6, <2>1, <2>3, <3>1, <3>2
  <2> QED
    BY <1>8, <2>2, <2>3 DEF Seed
<1>9. /\ {"chunk", "seed", "start", "run", "done", "undone", "node", "failing", "giving up", "unsupported", "completing"}
            \subseteq Labels \ {"loaded", "exhausted"}
      /\ \A w \in Worker : FirstLabel(w) \in {"chunk", "seed", "unsupported"}
  BY DEF Labels, FirstLabel
<1>10. ASSUME NEW w \in Worker, Acquire(w) \/ AcquireExhausted(w) \/ Complete(w) \/ Abandon(w) \/ Lost(w) PROVE Outstanding'
  <2>1. sent' = sent /\ worker[w].pc # "idle"
    BY <1>10 DEF Acquire, AcquireExhausted, Complete, Abandon, Lost, At, queue
  <2>2. \/ Drop(w) \/ Goto(w, FirstLabel(w))
        \/ worker' = [worker EXCEPT ![w] = [@ EXCEPT !.pc = "giving up", !.step = InFlight(worker[w].body)]]
    BY <1>10 DEF Acquire, AcquireExhausted, Complete, Abandon, Lost
  <2> QED
    BY <1>5, <1>7, <1>9, <2>1, <2>2
<1>11. ASSUME NEW w \in Worker,
              \/ Skip(w) \/ Begin(w) \/ Start(w) \/ Run(w) \/ RecordFailed(w)
              \/ TrackingFails(w) \/ TrackingUncertain(w)
       PROVE  Outstanding'
  <2>1. sent' = sent /\ worker[w].pc # "idle"
    <3>1. CASE Skip(w) \/ Begin(w) \/ Start(w) \/ RecordFailed(w)
      BY <3>1 DEF Skip, Begin, Start, RecordFailed, At, queue
    <3>2. CASE Run(w) \/ TrackingFails(w) \/ TrackingUncertain(w)
      BY <3>2 DEF Run, TrackingFails, TrackingUncertain, Track, At, queue
    <3> QED
      BY <1>11, <3>1, <3>2
  <2>2. \/ Goto(w, "chunk") \/ Goto(w, "start") \/ Goto(w, "run") \/ Goto(w, "done") \/ Goto(w, "failing")
        \/ \E again : worker' = [worker EXCEPT ![w] = [@ EXCEPT !.pc = "undone", !.step = Step(w), !.again = again]]
        \/ worker' = [worker EXCEPT ![w] = [@ EXCEPT !.pc = "failing", !.step = Step(w), !.again = TRUE]]
    BY <1>11 DEF Skip, Begin, Start, Run, RecordFailed, TrackingFails, TrackingUncertain
  <2> QED
    BY <1>7, <1>9, <2>1, <2>2
<1>12. ASSUME NEW w \in Worker, RecordDone(w) \/ AwaitApproval(w) \/ SaveChunkFails(w) PROVE Outstanding'
  <2>1. sent' = sent /\ worker[w].pc # "idle"
    BY <1>12 DEF RecordDone, AwaitApproval, SaveChunkFails, At, queue
  <2>2. \/ \E body : worker' = [worker EXCEPT ![w] = [@ EXCEPT !.pc = "chunk", !.body = body]]
        \/ worker' = [worker EXCEPT ![w] = [@ EXCEPT !.pc = "failing", !.step = ResumePoint, !.again = TRUE]]
    BY <1>12 DEF RecordDone, AwaitApproval, SaveChunkFails
  <2> QED
    BY <1>7, <1>9, <2>1, <2>2
<1>13. ASSUME NEW w \in Worker, SaveChunk(w) \/ SaveChunkUncertain(w) \/ Fail(w) \/ FailUnsupported(w) PROVE Outstanding'
  <2>1. sent' = sent /\ worker[w].pc # "idle"
    BY <1>13 DEF SaveChunk, SaveChunkUncertain, Fail, FailUnsupported, At, queue
  <2>2. \/ Drop(w) \/ Goto(w, "completing")
        \/ worker' = [worker EXCEPT ![w] = [@ EXCEPT !.pc = "node", !.at = NextPlace(w)]]
        \/ worker' = [worker EXCEPT ![w] = [@ EXCEPT !.pc = "failing", !.step = ResumePoint, !.again = TRUE]]
    BY <1>13 DEF SaveChunk, SaveChunkUncertain, Fail, FailUnsupported
  <2> QED
    BY <1>5, <1>7, <1>9, <2>1, <2>2
<1>14. CASE Retry \/ UNCHANGED vars
  BY <1>2, <1>14 DEF Retry, vars
<1> QED
  BY <1>4, <1>8, <1>10, <1>11, <1>12, <1>13, <1>14 DEF Next, Work, Faults

LEMMA NextKInv == KInv /\ [Next]_vars => KInv'
<1> SUFFICES ASSUME KInv, [Next]_vars PROVE KInv'
  OBVIOUS
<1>1. IInv' /\ Outstanding'
  BY NextIInv, OutstandingStep DEF KInv
<1>2. ASSUME interrupted' PROVE Kept'
  BY <1>2 DEF Kept
<1>3. ASSUME ~interrupted' PROVE Kept'
  <2>1. CASE UNCHANGED vars
    BY <2>1 DEF KInv, Kept, Approved, Holds, Packs, Begun, Succeeded, vars
  <2>2. ASSUME NEW w \in Worker, Work(w) PROVE Kept'
    <3>1. ~Lost(w)
      BY <1>3 DEF Lost
    <3> QED
      BY <1>3, <2>2, <3>1, AcquireKept, CompleteKept, SeedKept, NodeKept, RecordDoneKept, AwaitApprovalKept,
         SaveChunkKept, FailKept DEF Work
  <2>3. ASSUME NEW w \in Worker, Faults(w) PROVE Kept'
    <3>1. ~Abandon(w)
      BY <1>3 DEF Abandon
    <3> QED
      BY <1>3, <2>3, <3>1, NodeKept, AwaitApprovalKept, SaveChunkKept DEF Faults
  <2> QED
    BY <1>3, <2>1, <2>2, <2>3, DeliverKept, RetryKept DEF Next
<1> QED
  BY <1>1, <1>2, <1>3 DEF KInv, Kept

\* As long as no delivery was cut off or overtaken, a retry finds the output of
\* every step that it will skip, but for those whose success was reported as an
\* error, and a packaging that is resumed all that it reads: whoever records a step holds the lease, and _fail saves what a save
\* that failed has left.
THEOREM RetryFindsOutputsHolds == Spec => []RetryFindsOutputs
<1>1. KInv => RetryFindsOutputs
  <2> SUFFICES ASSUME KInv, version.status = "FAILED", owner = None, ~interrupted
               PROVE  /\ \A s \in Tracked \ lost : record[s] = "SUCCEEDED" => s \in version.outputs
                      /\ version.resume = "PACKAGE" => Requires("PACKAGE") \subseteq version.outputs
    BY DEF RetryFindsOutputs
  <2>1. Succeeded \subseteq version.outputs /\ Approved
    BY DEF KInv, Kept
  <2>2. version.resume = "PACKAGE" => Shown \subseteq version.outputs
    BY <2>1 DEF Approved, KInv, IInv, Good, Whole
  <2>3. Requires("PACKAGE") \subseteq Shown
    BY DEF Requires, Shown
  <2> QED
    BY <2>1, <2>2, <2>3 DEF Succeeded
<1>2. Spec => []KInv
  BY InitKInv, NextKInv, PTL DEF Spec
<1> QED
  BY <1>1, <1>2, PTL
=============================================================================
