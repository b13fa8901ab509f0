----------------------------- MODULE ConsumerLoop -----------------------------
(***************************************************************************)
(* SQSConsumer.run, _process_raw and shutdown around the queue: batches,   *)
(* backoff, which failures of a delivery end the delivery and which end    *)
(* the loop, invalid and exhausted messages, SIGTERM, and the restart of   *)
(* the process.  A job is abstracted to how far its version came; what two *)
(* consumers do to one version is LeaseProtocol's.                         *)
(***************************************************************************)
EXTENDS Naturals, Sequences, FiniteSets

CONSTANTS
    Consumer,             \* worker processes
    Job,                  \* messages that parse
    Junk,                 \* messages that do not
    None,
    Former,               \* a process that has ended and whose place another took
    BatchSize,            \* settings.batch_size
    MaxDeliveryAttempts,  \* settings.max_delivery_attempts
    MaxReceiveCount,      \* the queue's redrive bound
    MaxBackoff,           \* settings.sqs_receive_retry_max_backoff_seconds, in initial backoffs
    MaxDisturbances       \* bound of the model: failed calls, crashes, signals, early redeliveries

ASSUME ConsumerLoopAssumption ==
    /\ Job \cap Junk = {}
    /\ IsFiniteSet(Consumer) /\ {None, Former} \cap Consumer = {} /\ None # Former
    /\ {BatchSize, MaxDeliveryAttempts, MaxBackoff} \subseteq Nat \ {0}
    /\ {MaxReceiveCount, MaxDisturbances} \subseteq Nat

Message == Job \cup Junk

VARIABLES
    queue,        \* per message: visible, hidden, deleted, dead
    received,     \* per message: ApproximateReceiveCount
    version,      \* per job: its version is open, over (FINAL or FAILED), or over with a completion marker
    lease,        \* per job: lease_owner, while it may not have expired: a consumer, Former, or None
    outlived,     \* jobs whose lease has outlived the visibility timeout of its owner's delivery
    consumer,     \* per consumer: the loop, its batch, the active delivery, the shutdown
    handled,      \* history: per message, deliveries in which it was worked on, recorded or settled
    spoiled,      \* history: jobs of which an exhausted delivery was cut off or refused the lease
    disturbances

vars == <<queue, received, version, lease, outlived, consumer, handled, spoiled, disturbances>>

-----------------------------------------------------------------------------
Running == [loop |-> "receive", batch |-> <<>>, pc |-> "none", backoff |-> 1,
            stopping |-> FALSE, shutdown |-> "no"]

Init ==
    /\ queue = [m \in Message |-> "visible"]
    /\ received = [m \in Message |-> 0]
    /\ version = [m \in Job |-> "open"]
    /\ lease = [m \in Job |-> None]
    /\ outlived = {}
    /\ consumer = [c \in Consumer |-> Running]
    /\ handled = [m \in Message |-> 0]
    /\ spoiled = {}
    /\ disturbances = 0

Disturb == disturbances < MaxDisturbances /\ disturbances' = disturbances + 1

At(c, pc) == consumer[c].pc = pc
Delivery(c) == Head(consumer[c].batch)
Active(c) == Delivery(c).message

\* Off by one: the delivery after the first exhausted one.
ExhaustedMutant(delivery) == delivery.count > MaxDeliveryAttempts + 1

Exhausted(delivery) == delivery.count > MaxDeliveryAttempts

Goto(c, pc) == consumer' = [consumer EXCEPT ![c].pc = pc]

\* process_raw has returned an outcome, and the loop goes on.
EndDelivery(c) == consumer' = [consumer EXCEPT ![c] = [@ EXCEPT !.pc = "none", !.batch = Tail(consumer[c].batch)]]

Handle(c) == handled' = [handled EXCEPT ![Active(c)] = @ + 1]

\* Consumers that have a delivery of m whose outcome is still open.
Pending(m) ==
    {c \in Consumer : \E i \in DOMAIN consumer[c].batch : consumer[c].batch[i].message = m}

\* Deliveries that end with the loop, without an outcome.
Drop(batch) ==
    spoiled' = spoiled \cup {m \in Job : \E i \in DOMAIN batch : batch[i].message = m /\ Exhausted(batch[i])}

\* run returns or raises.
Ended(c) == [consumer[c] EXCEPT !.loop = "ended", !.batch = <<>>, !.pc = "none"]

-----------------------------------------------------------------------------
(* The queue.                                                              *)

\* receive_message may return although shutdown() was called meanwhile.
Receive(c) ==
    /\ consumer[c].loop = "receive"
    /\ \E n \in 1..BatchSize : \E batch \in [1..n -> Message] :
          /\ \A i, j \in 1..n : batch[i] = batch[j] => i = j
          /\ \A i \in 1..n : queue[batch[i]] = "visible" /\ received[batch[i]] < MaxReceiveCount
          /\ received' = [m \in Message |-> IF \E i \in 1..n : batch[i] = m THEN received[m] + 1 ELSE received[m]]
          /\ queue' = [m \in Message |-> IF \E i \in 1..n : batch[i] = m THEN "hidden" ELSE queue[m]]
          /\ consumer' = [consumer EXCEPT
                ![c] = [@ EXCEPT !.loop = "batch", !.backoff = 1,
                                 !.batch = [i \in 1..n |-> [message |-> batch[i], count |-> received'[batch[i]]]]]]
    /\ UNCHANGED <<version, lease, outlived, handled, spoiled, disturbances>>

\* The loop does not look at _stopping.
ReceiveNothingMutant(c) ==
    /\ consumer[c].loop = "receive"
    /\ consumer' = [consumer EXCEPT ![c].backoff = 1]
    /\ UNCHANGED <<queue, received, version, lease, outlived, handled, spoiled, disturbances>>

\* The long poll ends without a message.
ReceiveNothing(c) ==
    /\ consumer[c].loop = "receive"
    /\ consumer' = [consumer EXCEPT ![c] = IF @.stopping THEN Ended(c) ELSE [@ EXCEPT !.backoff = 1]]
    /\ UNCHANGED <<queue, received, version, lease, outlived, handled, spoiled, disturbances>>

ReceiveFails(c) ==
    /\ consumer[c].loop = "receive"
    /\ Disturb
    /\ consumer' = [consumer EXCEPT ![c].loop = "sleep"]
    /\ UNCHANGED <<queue, received, version, lease, outlived, handled, spoiled>>

Top(c) == IF consumer[c].stopping THEN "ended" ELSE "receive"

\* The backoff has no upper bound.
UncappedMutant(c) ==
    /\ consumer[c].loop = "sleep"
    /\ consumer' = [consumer EXCEPT ![c].loop = Top(c), ![c].backoff = 2 * @]
    /\ UNCHANGED <<queue, received, version, lease, outlived, handled, spoiled, disturbances>>

\* The sleep ends only with shutdown().
WakeMutant(c) ==
    /\ consumer[c].loop = "sleep"
    /\ consumer' = [consumer EXCEPT ![c].loop = IF consumer[c].stopping THEN "ended" ELSE "sleep"]
    /\ UNCHANGED <<queue, received, version, lease, outlived, handled, spoiled, disturbances>>

\* _interruptible_sleep: the backoff is over, or shutdown() was called.
Wake(c) ==
    /\ consumer[c].loop = "sleep"
    /\ LET twice == 2 * consumer[c].backoff IN
       consumer' = [consumer EXCEPT ![c] =
          [@ EXCEPT !.loop = Top(c), !.backoff = IF twice < MaxBackoff THEN twice ELSE MaxBackoff]]
    /\ UNCHANGED <<queue, received, version, lease, outlived, handled, spoiled, disturbances>>

\* The visibility timeout.  The heartbeat of the active delivery holds it off;
\* a message that waits in a batch has none.  It runs from the reception, and
\* the lease, a second shorter, from the start of the message's own delivery or
\* the last heartbeat: a lease that its delivery left can outlive the timeout of
\* that reception, not that of the next.
Reappear(m) ==
    /\ queue[m] = "hidden"
    /\ queue' = [queue EXCEPT ![m] = "visible"]
    /\ \/ /\ Pending(m) # {}
          /\ Disturb
          /\ UNCHANGED <<lease, outlived>>
       \/ /\ Pending(m) = {}
          /\ LET left == {n \in Job : n = m /\ lease[n] # None} IN
             /\ lease' = [n \in Job |-> IF n \in left \cap outlived THEN None ELSE lease[n]]
             /\ outlived' = (outlived \ {m}) \cup (left \ outlived)
          /\ UNCHANGED disturbances
    /\ UNCHANGED <<received, version, consumer, handled, spoiled>>

\* The redrive policy.
DeadLetter(m) ==
    /\ queue[m] = "visible"
    /\ received[m] = MaxReceiveCount
    /\ queue' = [queue EXCEPT ![m] = "dead"]
    /\ UNCHANGED <<received, version, lease, outlived, consumer, handled, spoiled, disturbances>>

-----------------------------------------------------------------------------
(* run: the messages of a batch, one after the other.                      *)

\* The rest of the batch is left when the first delivery was not acknowledged.
NextMessageMutant(c) ==
    /\ consumer[c].loop = "batch"
    /\ At(c, "none")
    /\ LET rest == consumer[c].batch
           stop == consumer[c].stopping \/ rest = <<>> \/ (Len(rest) < BatchSize /\ queue[Head(rest).message] # "deleted")
       IN /\ consumer' = [consumer EXCEPT
                ![c] = IF stop THEN [Ended(c) EXCEPT !.loop = Top(c)] ELSE [@ EXCEPT !.pc = "parse"]]
          /\ IF stop THEN Drop(rest) ELSE UNCHANGED spoiled
    /\ UNCHANGED <<queue, received, version, lease, outlived, handled, disturbances>>

NextMessage(c) ==
    /\ consumer[c].loop = "batch"
    /\ At(c, "none")
    /\ LET rest == consumer[c].batch
           stop == consumer[c].stopping \/ rest = <<>>
       IN /\ consumer' = [consumer EXCEPT
                ![c] = IF stop THEN [Ended(c) EXCEPT !.loop = Top(c)] ELSE [@ EXCEPT !.pc = "parse"]]
          /\ IF stop THEN Drop(rest) ELSE UNCHANGED spoiled
    /\ UNCHANGED <<queue, received, version, lease, outlived, handled, disturbances>>

Parse(c) ==
    /\ At(c, "parse")
    /\ Goto(c, CASE Active(c) \in Junk -> "record_invalid"
                 [] Active(c) \in Job /\ Exhausted(Delivery(c)) -> "record_exhausted"
                 [] OTHER -> "load")
    /\ UNCHANGED <<queue, received, version, lease, outlived, handled, spoiled, disturbances>>

\* INVALID: the message stays for the redrive.
RecordInvalid(c) ==
    /\ At(c, "record_invalid")
    /\ Handle(c)
    /\ EndDelivery(c)
    /\ UNCHANGED <<queue, received, version, lease, outlived, spoiled, disturbances>>

RecordExhausted(c) ==
    /\ At(c, "record_exhausted")
    /\ Handle(c)
    /\ Goto(c, "mark_failed")
    /\ UNCHANGED <<queue, received, version, lease, outlived, spoiled, disturbances>>

\* A lease of another process, which may have expired.
Refused(c, m) == lease[m] \notin {None, c}

Take(c, m) ==
    /\ lease' = [lease EXCEPT ![m] = c]
    /\ outlived' = outlived \ {m}

\* _mark_exhausted_campaign_failed.
MarkFailed(c) ==
    /\ At(c, "mark_failed")
    /\ LET m == Active(c) IN
       \/ /\ version' = [version EXCEPT ![m] = IF @ = "open" THEN "over" ELSE @]
          /\ lease' = [lease EXCEPT ![m] = None]
          /\ outlived' = outlived \ {m}
          /\ UNCHANGED spoiled
       \/ /\ Refused(c, m)
          /\ spoiled' = spoiled \cup {m}
          /\ UNCHANGED <<version, lease, outlived>>
    /\ EndDelivery(c)
    /\ UNCHANGED <<queue, received, handled, disturbances>>

Load(c) ==
    /\ At(c, "load")
    /\ Goto(c, "acquire")
    /\ UNCHANGED <<queue, received, version, lease, outlived, handled, spoiled, disturbances>>

Acquire(c) ==
    /\ At(c, "acquire")
    /\ LET m == Active(c) IN
       \/ Take(c, m) /\ Goto(c, "check")
       \/ Refused(c, m) /\ EndDelivery(c) /\ UNCHANGED <<lease, outlived>>
    /\ UNCHANGED <<queue, received, version, handled, spoiled, disturbances>>

\* The second load_version and is_completed.
Check(c) ==
    /\ At(c, "check")
    /\ Handle(c)
    /\ Goto(c, IF version[Active(c)] = "completed" THEN "release" ELSE "work")
    /\ UNCHANGED <<queue, received, version, lease, outlived, spoiled, disturbances>>

Release(c) ==
    /\ At(c, "release")
    /\ lease' = [lease EXCEPT ![Active(c)] = IF @ = c THEN None ELSE @]
    /\ IF lease[Active(c)] = c THEN Goto(c, "delete") ELSE EndDelivery(c)
    /\ UNCHANGED <<queue, received, version, outlived, handled, spoiled, disturbances>>

\* process: it ends the version, unless the lease was lost or it raises.
Work(c) ==
    /\ At(c, "work")
    /\ \/ /\ lease[Active(c)] = c
          /\ version' = [version EXCEPT ![Active(c)] = "over"]
          /\ Goto(c, "complete")
       \/ /\ EndDelivery(c)
          /\ UNCHANGED version
    /\ UNCHANGED <<queue, received, lease, outlived, handled, spoiled, disturbances>>

Complete(c) ==
    /\ At(c, "complete")
    /\ IF lease[Active(c)] = c
       THEN /\ version' = [version EXCEPT ![Active(c)] = "completed"]
            /\ lease' = [lease EXCEPT ![Active(c)] = None]
            /\ Goto(c, "delete")
       ELSE EndDelivery(c) /\ UNCHANGED <<version, lease>>
    /\ UNCHANGED <<queue, received, outlived, handled, spoiled, disturbances>>

Delete(c) ==
    /\ At(c, "delete")
    /\ queue' = [queue EXCEPT ![Active(c)] = IF @ = "dead" THEN @ ELSE "deleted"]
    /\ EndDelivery(c)
    /\ UNCHANGED <<received, version, lease, outlived, handled, spoiled, disturbances>>

-----------------------------------------------------------------------------
(* Failures.                                                               *)

\* What _process_raw turns into an outcome at each call: an error the service
\* answers with (ClientError), or no answer at all (BotoCoreError), which the
\* repository does not translate.
Outcome(pc) ==
    CASE pc \in {"record_invalid", "record_exhausted", "release"} -> {"answered"}
      [] pc \in {"mark_failed", "work", "complete", "delete"} -> {"answered", "unanswered"}
      [] OTHER -> {}

\* An error that is not turned into one ends run, and with it the process.
CallFails(c) ==
    /\ consumer[c].pc \notin {"none", "parse"}
    /\ Disturb
    /\ \E kind \in {"answered", "unanswered"} :
         IF kind \in Outcome(consumer[c].pc)
         THEN EndDelivery(c) /\ Drop(<<Delivery(c)>>)
         ELSE consumer' = [consumer EXCEPT ![c] = Ended(c)] /\ Drop(consumer[c].batch)
    /\ UNCHANGED <<queue, received, version, lease, outlived, handled>>

Crash(c) ==
    /\ consumer[c].loop # "ended"
    /\ Disturb
    /\ consumer' = [consumer EXCEPT ![c] = [Ended(c) EXCEPT !.shutdown = "no"]]
    /\ Drop(consumer[c].batch)
    /\ UNCHANGED <<queue, received, version, lease, outlived, handled>>

-----------------------------------------------------------------------------
(* shutdown.                                                               *)

\* SIGTERM: the loop is told, and the active delivery has its grace period.
Shutdown(c) ==
    /\ ~consumer[c].stopping
    /\ consumer[c].loop # "ended"
    /\ Disturb
    /\ consumer' = [consumer EXCEPT ![c] =
          [@ EXCEPT !.stopping = TRUE, !.shutdown = IF At(c, "none") THEN "returned" ELSE "waiting"]]
    /\ UNCHANGED <<queue, received, version, lease, outlived, handled, spoiled>>

\* The task is not cancelled.
GraceEndsMutant(c) ==
    /\ consumer[c].shutdown = "waiting"
    /\ consumer' = [consumer EXCEPT ![c].shutdown = "returned"]
    /\ UNCHANGED <<queue, received, version, lease, outlived, handled, spoiled, disturbances>>

\* The active delivery is over, or it is cancelled, which ends run too.
GraceEnds(c) ==
    /\ consumer[c].shutdown = "waiting"
    /\ IF At(c, "none")
       THEN consumer' = [consumer EXCEPT ![c].shutdown = "returned"] /\ UNCHANGED spoiled
       ELSE /\ consumer' = [consumer EXCEPT ![c] = [Ended(c) EXCEPT !.shutdown = "returned"]]
            /\ Drop(consumer[c].batch)
    /\ UNCHANGED <<queue, received, version, lease, outlived, handled, disturbances>>

\* Another process takes the place of one that has ended.
Restart(c) ==
    /\ consumer[c].loop = "ended"
    /\ consumer[c].shutdown # "waiting"
    /\ consumer' = [consumer EXCEPT ![c] = Running]
    /\ lease' = [m \in Job |-> IF lease[m] = c THEN Former ELSE lease[m]]
    /\ UNCHANGED <<queue, received, version, outlived, handled, spoiled, disturbances>>

-----------------------------------------------------------------------------
Deliver(c) ==
    \/ Parse(c) \/ RecordInvalid(c) \/ RecordExhausted(c) \/ MarkFailed(c) \/ Load(c) \/ Acquire(c)
    \/ Check(c) \/ Release(c) \/ Work(c) \/ Complete(c) \/ Delete(c)

Loop(c) == Receive(c) \/ ReceiveNothing(c) \/ Wake(c) \/ NextMessage(c)

Next ==
    \/ \E c \in Consumer : \/ Loop(c) \/ Deliver(c) \/ ReceiveFails(c) \/ CallFails(c) \/ Crash(c)
                           \/ Shutdown(c) \/ GraceEnds(c) \/ Restart(c)
    \/ \E m \in Message : Reappear(m) \/ DeadLetter(m)

Spec == Init /\ [][Next]_vars

\* The loop runs, calls end, the grace period and the visibility timeout run
\* out, Kubernetes restarts what has ended; nothing else is due.
Fairness ==
    /\ \A c \in Consumer : WF_vars(Loop(c) \/ Deliver(c)) /\ WF_vars(GraceEnds(c)) /\ WF_vars(Restart(c))
    /\ \A m \in Message : WF_vars(Reappear(m)) /\ WF_vars(DeadLetter(m))

FairSpec == Spec /\ Fairness

-----------------------------------------------------------------------------
(* Properties.                                                             *)

\* The types of the variables.
TypeOK ==
    /\ queue \in [Message -> {"visible", "hidden", "deleted", "dead"}]
    /\ received \in [Message -> 0..MaxReceiveCount]
    /\ version \in [Job -> {"open", "over", "completed"}]
    /\ lease \in [Job -> Consumer \cup {Former, None}]
    /\ outlived \subseteq Job
    /\ \A c \in Consumer :
          /\ consumer[c].loop \in {"receive", "sleep", "batch", "ended"}
          /\ consumer[c].pc # "none" => consumer[c].loop = "batch" /\ consumer[c].batch # <<>>
          /\ consumer[c].backoff \in 1..MaxBackoff
          /\ consumer[c].stopping \in BOOLEAN
          /\ consumer[c].shutdown \in {"no", "waiting", "returned"}
    /\ handled \in [Message -> Nat]
    /\ spoiled \subseteq Job
    /\ disturbances \in 0..MaxDisturbances

\* When shutdown() has returned no delivery is active, and none will be: run
\* looks at _stopping and sets _active without giving up control in between.
NothingRunsAfterShutdown ==
    \A c \in Consumer : consumer[c].shutdown = "returned" => At(c, "none")

\* sqs.tf: the application's bound is "intentionally lower than
\* maxReceiveCount", so that the worker sees a message once more than it works
\* on it: a job that is dead-lettered has its campaign marked FAILED, or every
\* delivery that should have done it was cut off or refused the lease.
DeadLetteredIsFailed ==
    \A m \in Job : queue[m] = "dead" /\ Pending(m) = {} /\ version[m] = "open" => m \in spoiled

\* At least every other attempt is spent on work or on a disturbance: an attempt
\* may be spent on the lease that an unfinished delivery left, never two in a row.
AttemptsAreAccounted ==
    \A m \in Message : received[m] > 2 * (handled[m] + disturbances) => Pending(m) # {}

\* SIGTERM ends the loop: no process that was told to stop goes on for ever.  It
\* is told until its loop has ended, so that this is leads-to for each of them.
ShutdownEnds == []<>(\A c \in Consumer : consumer[c].stopping => consumer[c].loop = "ended")

\* No message is received for ever: it is acknowledged or dead-lettered, also
\* when an error has ended the loop of a process.
MessagesSettle == <>(\A m \in Message : queue[m] \in {"deleted", "dead"})
=============================================================================
