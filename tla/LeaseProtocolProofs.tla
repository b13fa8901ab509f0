------------------------- MODULE LeaseProtocolProofs -------------------------
(***************************************************************************)
(* Theorems about LeaseProtocol, for any number of workers, API requests,  *)
(* messages, deliveries and attempts.                                      *)
(***************************************************************************)
EXTENDS LeaseProtocol, TLAPS

-----------------------------------------------------------------------------
(* Types of the records and of their updates.                              *)

Pc == InFlight \cup {"idle"}

LEMMA VersionFields ==
  ASSUME NEW v \in Version
  PROVE  /\ v.status \in Status /\ v.job \in Nat /\ v.attempt \in Nat
         /\ v.resume \in Operation \cup {"no"}
  BY DEF Version

LEMMA VersionUpdates ==
  ASSUME NEW v \in Version
  PROVE  /\ \A s \in Status : [v EXCEPT !.status = s] \in Version
         /\ \A r \in Operation \cup {"no"} : Failed(v, r) \in Version
         /\ \A s \in Status, j \in Nat : [v EXCEPT !.status = s, !.job = j] \in Version
<1>1. \A s \in Status : [v EXCEPT !.status = s] \in Version
  BY DEF Version
<1>2. ASSUME NEW r \in Operation \cup {"no"}
      PROVE  Failed(v, r) \in Version
  <2>1. "FAILED" \in Status
    BY DEF Status
  <2>2. v.attempt + 1 \in Nat
    BY DEF Version
  <2> QED
    BY <2>1, <2>2 DEF Version, Failed
<1>3. ASSUME NEW s \in Status, NEW j \in Nat
      PROVE  [v EXCEPT !.status = s, !.job = j] \in Version
  BY DEF Version
<1> QED
  BY <1>1, <1>2, <1>3

LEMMA IdleType == Idle \in Consumer
  BY ConstantsAssumption DEF Idle, Consumer, Unset, Version, Status, Operation, InFlight

LEMMA ConsumerUpdates ==
  ASSUME NEW k \in Consumer
  PROVE  /\ \A l \in Pc : [k EXCEPT !.pc = l] \in Consumer
         /\ \A l \in Pc, n \in Nat : [k EXCEPT !.held = n, !.pc = l] \in Consumer
         /\ \A b \in {"off", "on", "sent", "lost"}, l \in Pc :
               /\ [k EXCEPT !.beat = b] \in Consumer
               /\ [k EXCEPT !.beat = b, !.pc = l] \in Consumer
               /\ [k EXCEPT !.pc = l, !.beat = b] \in Consumer
         /\ \A n \in Nat : [k EXCEPT !.beat = "on", !.held = n] \in Consumer
         /\ \A l \in Pc, v \in Version, s \in Status :
               /\ [k EXCEPT !.pc = l, !.current = v] \in Consumer
               /\ [k EXCEPT !.current = v, !.pc = l] \in Consumer
               /\ [k EXCEPT !.pc = l, !.current = v, !.starting = s] \in Consumer
  BY DEF Consumer, Pc

\* The shape of every step that touches one consumer.
LEMMA OneConsumer ==
  ASSUME worker \in [Worker -> Consumer], NEW w \in Worker, NEW k \in Consumer,
         worker' = [worker EXCEPT ![w] = k]
  PROVE  worker' \in [Worker -> Consumer]
  OBVIOUS

LEMMA GotoType ==
  ASSUME worker \in [Worker -> Consumer], NEW w \in Worker, NEW l \in Pc, Goto(w, l)
  PROVE  worker' \in [Worker -> Consumer]
<1>1. worker' = [worker EXCEPT ![w] = [worker[w] EXCEPT !.pc = l]]
  BY DEF Goto
<1> QED
  BY <1>1, ConsumerUpdates

LEMMA AbandonType ==
  ASSUME worker \in [Worker -> Consumer], NEW w \in Worker, Abandon(w)
  PROVE  worker' \in [Worker -> Consumer]
  BY IdleType DEF Abandon

LEMMA SaveType ==
  ASSUME TypeOK, NEW w \in Worker, NEW v \in Version,
         NEW evs \in SUBSET (Status \X Nat), Save(w, v, evs)
  PROVE  /\ version' \in Version
         /\ events' \subseteq Status \X Nat
         /\ meta' \in [lock : Nat, seq : Nat]
         /\ UNCHANGED <<lock, lease, done, messages, client, creating>>
  BY DEF TypeOK, Save

-----------------------------------------------------------------------------
(* TypeOK.  It is inductive only together with what a retry carries from   *)
(* its read to its submission: a version whose resume is an operation.     *)

RequestsResume ==
    \A c \in Client : client[c].pc # "idle" /\ client[c].op = "retry"
                        => client[c].seen.resume \in Operation

SubmitIsRetry == \A c \in Client : client[c].pc = "submit" => client[c].op = "retry"

TypeInv == TypeOK /\ RequestsResume /\ SubmitIsRetry

LEMMA InitialType == Init => TypeInv
<1> SUFFICES ASSUME Init PROVE TypeInv
  OBVIOUS
<1>1. Unset \in Version
  BY DEF Unset, Version, Status, Operation
<1>2. [m \in Message |-> IF m = 1 THEN [Unsent EXCEPT !.state = "queued"] ELSE Unsent]
        \in [Message -> Delivery]
  BY DEF Unsent, Delivery, Operation
<1>3. Resting \in Request /\ Resting.pc = "idle"
  BY <1>1 DEF Resting, Request
<1> QED
  BY <1>1, <1>2, <1>3, IdleType
     DEF Init, TypeInv, TypeOK, RequestsResume, SubmitIsRetry, NoLease

LEMMA WorkerType ==
  ASSUME TypeOK, NEW w \in Worker, WorkerStep(w)
  PROVE  TypeOK' /\ UNCHANGED client
<1> DEFINE Typed == worker' \in [Worker -> Consumer]
           LeaseItem == [owner : Worker \cup {None, Gone}, job : Nat, live : BOOLEAN]
           k == worker[w]
<1> USE DEF TypeOK
<1>0. /\ k \in Consumer
      /\ k.pc \in Pc /\ k.held \in Nat /\ k.msg \in Message /\ k.current \in Version
      /\ version.status \in Status
      /\ InFlight \subseteq Pc /\ Running \subseteq Pc /\ "idle" \in Pc
      /\ "FAILED" \in Status /\ "FINAL" \in Status /\ "READY_FOR_REVIEW" \in Status
  BY VersionFields DEF Consumer, Pc, InFlight, Status
<1>j. Job(w) \in Nat /\ Key(w) \in Operation \X Nat
  BY <1>0 DEF Job, Key, Delivery
<1>n. NoLease \in LeaseItem
  BY DEF NoLease
<1>1. ASSUME NEW m \in Message, Receive(w, m)
      PROVE  TypeOK' /\ UNCHANGED client
  <2>1. [messages[m] EXCEPT !.received = @ + 1] \in Delivery
    BY DEF Delivery
  <2>2. messages' \in [Message -> Delivery]
    BY <1>1, <2>1 DEF Receive
  <2> DEFINE last == messages[m].received + 1 > MaxDeliveryAttempts
  <2>3. \A e \in BOOLEAN : [Idle EXCEPT !.pc = "received", !.msg = m, !.exhausted = e] \in Consumer
    BY IdleType DEF Consumer, InFlight
  <2>4. last \in BOOLEAN
    OBVIOUS
  <2>5. worker' = [worker EXCEPT ![w] = [Idle EXCEPT !.pc = "received", !.msg = m, !.exhausted = last]]
    BY <1>1 DEF Receive
  <2> HIDE DEF last
  <2>6. Typed
    BY <2>3, <2>4, <2>5, OneConsumer
  <2> QED
    BY <1>1, <2>2, <2>6 DEF Receive
<1>2. CASE LoadVersion(w)
  <2>1. CASE Goto(w, "deleting")
    BY <1>2, <2>1, GotoType DEF LoadVersion, Pc, InFlight
  <2>2. CASE worker' = [worker EXCEPT ![w] = [k EXCEPT !.pc = "loaded", !.current = version,
                                                       !.starting = version.status]]
    <3>k. [k EXCEPT !.pc = "loaded", !.current = version, !.starting = version.status] \in Consumer
      BY <1>0, ConsumerUpdates DEF Pc, InFlight
    <3>1. Typed
      BY <2>2, <3>k, OneConsumer
    <3> QED
      BY <1>2, <3>1 DEF LoadVersion
  <2> QED
    BY <1>2, <2>1, <2>2 DEF LoadVersion
<1>3. CASE AcquireLease(w)
  <2>1. Typed
    BY <1>3, GotoType, AbandonType DEF AcquireLease, Pc, InFlight
  <2>2. [owner |-> w, job |-> Job(w), live |-> TRUE] \in LeaseItem
    BY <1>j
  <2>3. lock' \in {lock, lock + 1} /\ lease' \in {lease, [owner |-> w, job |-> Job(w), live |-> TRUE]}
    BY <1>3 DEF AcquireLease
  <2>4. lease' \in LeaseItem
    <3>1. lease \in LeaseItem
      OBVIOUS
    <3> HIDE DEF LeaseItem, TypeOK
    <3> QED
      BY <2>2, <2>3, <3>1
  <2> QED
    BY <1>3, <2>1, <2>3, <2>4 DEF AcquireLease
<1>4. CASE ReadLockVersion(w)
  <2>1. PICK l \in Pc : worker' = [worker EXCEPT ![w] = [k EXCEPT !.held = lock, !.pc = l]]
    BY <1>4 DEF ReadLockVersion, Pc, InFlight
  <2>k. [k EXCEPT !.held = lock, !.pc = l] \in Consumer
    BY <1>0, ConsumerUpdates
  <2>2. Typed
    BY <2>1, <2>k, OneConsumer
  <2> QED
    BY <1>4, <2>2 DEF ReadLockVersion
<1>5. CASE Revalidate(w)
  BY <1>5, GotoType DEF Revalidate, Pc, InFlight
<1>6. CASE CheckCompleted(w)
  <2>1. CASE Goto(w, "releasing")
    BY <1>6, <2>1, GotoType DEF CheckCompleted, Pc, InFlight
  <2>2. ASSUME NEW l \in Pc, worker' = [worker EXCEPT ![w] = [k EXCEPT !.beat = "on", !.pc = l]]
        PROVE  TypeOK' /\ UNCHANGED client
    <3>k. [k EXCEPT !.beat = "on", !.pc = l] \in Consumer
      BY <1>0, ConsumerUpdates
    <3>1. Typed
      BY <2>2, <3>k, OneConsumer
    <3> QED
      BY <1>6, <3>1 DEF CheckCompleted
  <2> QED
    BY <1>6, <2>1, <2>2 DEF CheckCompleted, Pc, InFlight, Running
<1>7. CASE Heartbeat(w)
  <2>1. \/ worker' = worker
        \/ \E b \in {"sent", "lost"} : worker' = [worker EXCEPT ![w] = [k EXCEPT !.beat = b]]
    BY <1>7 DEF Heartbeat
  <2>b. \A b \in {"sent", "lost"} : [k EXCEPT !.beat = b] \in Consumer
    BY <1>0, ConsumerUpdates DEF Pc
  <2>2. Typed
    <3>1. CASE worker' = worker
      BY <3>1
    <3>2. ASSUME NEW b \in {"sent", "lost"}, worker' = [worker EXCEPT ![w] = [k EXCEPT !.beat = b]]
          PROVE  Typed
      BY <2>b, <3>2, OneConsumer
    <3> QED
      BY <2>1, <3>1, <3>2
  <2> QED
    BY <1>7, <2>2 DEF Heartbeat
<1>8. CASE HeartbeatReply(w)
  <2>1. worker' = [worker EXCEPT ![w] = [k EXCEPT !.beat = "on", !.held = k.held + 1]]
    BY <1>8 DEF HeartbeatReply
  <2>2. k.held + 1 \in Nat
    BY <1>0
  <2>k. [k EXCEPT !.beat = "on", !.held = k.held + 1] \in Consumer
    BY <1>0, <2>2, ConsumerUpdates
  <2>3. Typed
    BY <2>1, <2>k, OneConsumer
  <2> QED
    BY <1>8, <2>3 DEF HeartbeatReply
<1>9. CASE HeartbeatUnavailable(w)
  <2>1. worker' = [worker EXCEPT ![w] = [k EXCEPT !.beat = "lost"]]
    BY <1>9 DEF HeartbeatUnavailable
  <2>k. [k EXCEPT !.beat = "lost"] \in Consumer
    BY <1>0, ConsumerUpdates DEF Pc
  <2>2. Typed
    BY <2>1, <2>k, OneConsumer
  <2> QED
    BY <1>9, <2>2 DEF HeartbeatUnavailable
<1>10. CASE SaveChunk(w)
  <2>1. PICK l \in Pc : Goto(w, l)
    BY <1>10 DEF SaveChunk, Pc, InFlight, Running
  <2>2. Typed
    BY <2>1, GotoType
  <2>3. Save(w, k.current, {}) /\ packaged' = packaged
    BY <1>10 DEF SaveChunk
  <2> QED
    BY <1>0, <2>2, <2>3, SaveType
<1>11. CASE SaveReview(w)
  <2> DEFINE v == [k.current EXCEPT !.status = "READY_FOR_REVIEW"]
             evs == MilestoneEvent(w, "READY_FOR_REVIEW")
  <2>0. v \in Version
    BY <1>0, VersionUpdates
  <2>1. v \in Version /\ evs \in SUBSET (Status \X Nat)
    BY <1>0, <2>0 DEF MilestoneEvent
  <2>2. Save(w, v, evs) /\ packaged' = packaged
    BY <1>11 DEF SaveReview
  <2>3. worker' = [worker EXCEPT ![w] = [k EXCEPT !.pc = "packaging", !.current = v,
                                                  !.starting = "READY_FOR_REVIEW"]]
    BY <1>11 DEF SaveReview
  <2>4. Typed
    BY <1>0, <2>1, <2>3, ConsumerUpdates DEF Running
  <2> HIDE DEF v, evs
  <2> QED
    BY <2>1, <2>2, <2>4, SaveType
<1>12. CASE StartPackage(w) \/ FinishPackage(w) \/ FailPackage(w)
  BY <1>12, GotoType DEF StartPackage, FinishPackage, FailPackage, Pc, InFlight, Running
<1>13. CASE SaveFinal(w)
  <2> DEFINE v == [k.current EXCEPT !.status = "FINAL"]
             evs == MilestoneEvent(w, "FINAL")
  <2>0. v \in Version
    BY <1>0, VersionUpdates
  <2>1. v \in Version /\ evs \in SUBSET (Status \X Nat)
    BY <1>0, <2>0 DEF MilestoneEvent
  <2>2. Save(w, v, evs) /\ packaged' = packaged
    BY <1>13 DEF SaveFinal
  <2>3. PICK l \in AfterFinal : worker' = [worker EXCEPT ![w] = [k EXCEPT !.current = v, !.pc = l]]
    BY <1>13 DEF SaveFinal
  <2>r. l \in Running
    BY DEF AfterFinal, Running
  <2>4. Typed
    <3>k. [k EXCEPT !.current = v, !.pc = l] \in Consumer
      BY <1>0, <2>1, <2>r, ConsumerUpdates
    <3> QED
      BY <2>3, <3>k, OneConsumer
  <2> HIDE DEF v, evs
  <2> QED
    BY <2>1, <2>2, <2>4, SaveType
<1>14. CASE RecordFailure(w)
  <2>1. ResumeChoices(w) \subseteq Operation \cup {"no"}
    BY DEF ResumeChoices, ResumeAt, Operation
  <2>2. PICK resume \in Operation \cup {"no"} :
          /\ Save(w, Failed(k.current, resume), {<<"FAILED", Failed(k.current, resume).attempt>>})
          /\ worker' = [worker EXCEPT ![w] =
                          [k EXCEPT !.pc = "finished", !.current = Failed(k.current, resume)]]
    BY <1>14, <2>1 DEF RecordFailure
  <2> DEFINE v == Failed(k.current, resume)
  <2>3. v \in Version
    BY <1>0, VersionUpdates
  <2>4. {<<"FAILED", v.attempt>>} \in SUBSET (Status \X Nat)
    BY <1>0, <2>3, VersionFields
  <2>5. packaged' = packaged
    BY <1>14 DEF RecordFailure
  <2> HIDE DEF v
  <2>6. Typed
    BY <1>0, <2>2, <2>3, ConsumerUpdates DEF Running, v
  <2>7. Save(w, v, {<<"FAILED", v.attempt>>})
    BY <2>2 DEF v
  <2> QED
    BY <2>3, <2>4, <2>5, <2>6, <2>7, SaveType
<1>15. CASE LoseLease(w) \/ Uncertain(w)
  BY <1>15, AbandonType DEF LoseLease, Uncertain
<1>16. CASE StopHeartbeat(w)
  <2>1. CASE Abandon(w)
    BY <1>16, <2>1, AbandonType DEF StopHeartbeat
  <2>2. CASE worker' = [worker EXCEPT ![w] = [k EXCEPT !.pc = "completing", !.beat = "off"]]
    BY <1>0, <1>16, <2>2, ConsumerUpdates DEF StopHeartbeat, Pc, InFlight
  <2> QED
    BY <1>16, <2>1, <2>2 DEF StopHeartbeat
<1>17. CASE Complete(w)
  <2>1. Typed
    BY <1>17, GotoType, AbandonType DEF Complete, Pc, InFlight
  <2>2. lock' \in {lock, lock + 1} /\ lease' \in {lease, NoLease}
    BY <1>17 DEF Complete
  <2>3. done' \subseteq Operation \X Nat
    BY <1>17, <1>j DEF Complete
  <2> QED
    BY <1>17, <1>n, <2>1, <2>2, <2>3 DEF Complete
<1>18. CASE Release(w)
  <2>1. Typed
    BY <1>18, GotoType, AbandonType DEF Release, Pc, InFlight
  <2>2. lock' \in {lock, lock + 1} /\ lease' \in {lease, NoLease}
    BY <1>18 DEF Release
  <2> QED
    BY <1>18, <1>n, <2>1, <2>2 DEF Release
<1>19. CASE Delete(w)
  <2>1. \A d \in Delivery : [d EXCEPT !.state = IF @ = "queued" THEN "deleted" ELSE @] \in Delivery
    BY DEF Delivery
  <2> QED
    BY <1>0, <1>19, <2>1, AbandonType DEF Delete
<1>20. CASE FailExhausted(w)
  <2> DEFINE v == Failed(k.current, "no")
  <2>1. v \in Version
    BY <1>0, VersionUpdates
  <2>2. {<<"FAILED", v.attempt>>} \in SUBSET (Status \X Nat)
    BY <1>0, <2>1, VersionFields
  <2>3. Typed /\ packaged' = packaged
    BY <1>20, GotoType DEF FailExhausted, Pc, InFlight
  <2>4. \/ Save(w, v, {<<"FAILED", v.attempt>>})
        \/ UNCHANGED <<version, events, meta, lock, lease, done, messages, client, creating>>
    BY <1>20 DEF FailExhausted
  <2> HIDE DEF v
  <2> QED
    BY <2>1, <2>2, <2>3, <2>4, SaveType
<1>21. CASE Crash(w)
  BY <1>21, AbandonType DEF Crash
<1> QED
  BY <1>1, <1>2, <1>3, <1>4, <1>5, <1>6, <1>7, <1>8, <1>9, <1>10, <1>11, <1>12, <1>13,
     <1>14, <1>15, <1>16, <1>17, <1>18, <1>19, <1>20, <1>21 DEF WorkerStep

LEMMA ClientType ==
  ASSUME TypeInv, NEW c \in Client, ClientStep(c)
  PROVE  TypeInv'
<1> DEFINE q == client[c]
<1> USE DEF TypeInv, TypeOK
<1>0. /\ q \in Request /\ q.seen \in Version /\ q.seen.attempt \in Nat
      /\ Resting \in Request /\ Resting.pc = "idle" /\ Resting.op = "cancel"
  BY VersionFields DEF Request, Resting, Unset, Version, Status, Operation
<1>1. ASSUME client' = [client EXCEPT ![c] = Resting]
      PROVE  client' \in [Client -> Request] /\ RequestsResume' /\ SubmitIsRetry'
  BY <1>0, <1>1 DEF RequestsResume, SubmitIsRetry
<1>2. ASSUME client' = [client EXCEPT ![c] = [q EXCEPT !.pc = "submit"]],
             q.pc = "commit", q.op = "retry"
      PROVE  client' \in [Client -> Request] /\ RequestsResume' /\ SubmitIsRetry'
  <2>1. [q EXCEPT !.pc = "submit"] \in Request
    BY <1>0 DEF Request
  <2> QED
    BY <1>0, <1>2, <2>1 DEF RequestsResume, SubmitIsRetry, Request
<1>3. ASSUME NEW op \in Requests, Read(c, op)
      PROVE  TypeInv'
  <2>1. PICK pc \in {"commit", "submit"} :
          /\ client' = [client EXCEPT ![c] =
               [pc |-> pc, op |-> op, seen |-> version, lock |-> lock,
                metaLock |-> meta.lock, metaSeq |-> meta.seq]]
          /\ pc = "submit" => op = "retry"
    BY <1>3 DEF Read
  <2>2. op = "retry" => version.resume \in Operation
    BY <1>3, VersionFields DEF Read, RetryAllowed, RetryReplay
  <2>3. [pc |-> pc, op |-> op, seen |-> version, lock |-> lock,
         metaLock |-> meta.lock, metaSeq |-> meta.seq] \in Request
    BY ConstantsAssumption DEF Request
  <2>4. client' \in [Client -> Request] /\ RequestsResume' /\ SubmitIsRetry'
    BY <2>1, <2>2, <2>3 DEF RequestsResume, SubmitIsRetry
  <2> QED
    BY <1>3, <2>4 DEF Read
<1>4. CASE CommitCancel(c)
  <2>1. [version EXCEPT !.status = "CANCELLED"] \in Version
    BY VersionUpdates DEF Status
  <2>2. version' \in Version /\ lock' \in Nat /\ meta' \in [lock : Nat, seq : Nat]
    BY <1>4, <2>1 DEF CommitCancel
  <2>3. events' \subseteq Status \X Nat
    BY <1>4 DEF CommitCancel, Status
  <2> QED
    BY <1>1, <1>4, <2>2, <2>3 DEF CommitCancel
<1>5. CASE CommitRetry(c)
  <2>1. [version EXCEPT !.status = "QUEUED", !.job = q.seen.attempt] \in Version
    BY <1>0, VersionUpdates DEF Status
  <2>2. version' \in Version /\ lock' \in Nat /\ meta' \in [lock : Nat, seq : Nat]
    BY <1>5, <2>1 DEF CommitRetry
  <2> QED
    BY <1>2, <1>5, <2>2 DEF CommitRetry
<1>6. ASSUME NEW m \in Message, SubmitRetry(c, m)
      PROVE  TypeInv'
  <2>1. q.seen.resume \in Operation
    BY <1>6 DEF SubmitRetry, RequestsResume, SubmitIsRetry
  <2>2. messages' \in [Message -> Delivery]
    BY <1>0, <1>6, <2>1 DEF SubmitRetry, Delivery
  <2> QED
    BY <1>1, <1>6, <2>2 DEF SubmitRetry
<1>7. CASE GiveUp(c)
  BY <1>1, <1>7 DEF GiveUp
<1> QED
  BY <1>3, <1>4, <1>5, <1>6, <1>7 DEF ClientStep

LEMMA StepType == TypeInv /\ [Next]_vars => TypeInv'
<1> SUFFICES ASSUME TypeInv, [Next]_vars PROVE TypeInv'
  OBVIOUS
<1> USE DEF TypeInv, TypeOK
<1>1. ASSUME NEW w \in Worker, WorkerStep(w) PROVE TypeInv'
  BY <1>1, WorkerType DEF RequestsResume, SubmitIsRetry
<1>2. ASSUME NEW c \in Client, ClientStep(c) PROVE TypeInv'
  BY <1>2, ClientType
<1>3. ASSUME NEW m \in Message, DeadLetter(m) PROVE TypeInv'
  BY <1>3 DEF DeadLetter, Delivery, RequestsResume, SubmitIsRetry
<1>4. CASE LeaseExpires
  BY <1>4 DEF LeaseExpires, RequestsResume, SubmitIsRetry
<1>5. CASE MarkQueued
  <2>1. [version EXCEPT !.status = "QUEUED"] \in Version
    BY VersionUpdates DEF Status
  <2>2. version' \in Version /\ lock' \in Nat /\ meta' \in [lock : Nat, seq : Nat]
    BY <1>5, <2>1 DEF MarkQueued
  <2> QED
    BY <1>5, <2>2 DEF MarkQueued, RequestsResume, SubmitIsRetry
<1>6. CASE UNCHANGED vars
  BY <1>6 DEF vars, RequestsResume, SubmitIsRetry
<1> QED
  BY <1>1, <1>2, <1>3, <1>4, <1>5, <1>6 DEF Next

LEMMA TypeInvariant == Spec => []TypeInv
  BY InitialType, StepType, PTL DEF Spec

\* Every variable keeps its type; in particular a retry never sends a message
\* without an operation.
THEOREM TypeCorrect == Spec => []TypeOK
<1>1. TypeInv => TypeOK
  BY DEF TypeInv
<1> QED
  BY <1>1, TypeInvariant, PTL

-----------------------------------------------------------------------------
(* The inductive invariant behind the safety theorems.  None of them is    *)
(* inductive alone: that a worker is fenced depends on what it holds, on   *)
(* what it will hold after its heartbeat's reply, and on what it concluded *)
(* from the items it read since it took the lease.                         *)

Cancelled == <<"CANCELLED", 0>> \in events

\* w was told it may write only after it saw a version that was not CANCELLED
\* and a job that was not done; it acknowledges only what is settled.
Sound(w) ==
    /\ worker[w].beat # "off" => worker[w].pc \in Running
    /\ worker[w].pc \in Leased => HeldSoon(w) <= lock
    /\ worker[w].pc # "idle" => messages[worker[w].msg].state # "unsent"
    /\ At(w, "exhausting") => worker[w].exhausted
    /\ worker[w].pc \in Running \cup {"leased", "revalidated", "completing"} => ~worker[w].exhausted
    /\ ~worker[w].exhausted => worker[w].current.status # "CANCELLED"
    /\ worker[w].pc \in Running \cup {"revalidated"} /\ MayWrite(w) => version.status # "CANCELLED"
    /\ Processing(w) /\ MayWrite(w) => Key(w) \notin done
    /\ At(w, "deleting") \/ (At(w, "releasing") /\ ~worker[w].exhausted)
         => Key(w) \in done \/ Cancelled

\* A cancellation is recorded, and overtakes every retry that read before it.
CancelSeen ==
    version.status = "CANCELLED" =>
        /\ Cancelled
        /\ meta.lock > 0
        /\ \A c \in Client : client[c].pc = "commit" /\ client[c].op = "retry"
                               => client[c].metaLock < meta.lock

\* The API never writes a META.lock_version beyond the version's own, which is
\* what makes each of its writes give META a new one.
ReadsAreOld ==
    /\ meta.lock <= lock
    /\ \A c \in Client : client[c].pc # "idle" => client[c].metaLock <= meta.lock

IInv ==
    /\ TypeInv
    /\ \A w \in Worker : Sound(w)
    /\ CancelSeen
    /\ ReadsAreOld
    /\ AckIsDurable

\* What was sent keeps its job and its operation.
Kept ==
    \A m \in Message : messages[m].state # "unsent" =>
        /\ messages'[m].state # "unsent"
        /\ messages'[m].job = messages[m].job
        /\ messages'[m].op = messages[m].op

\* A step that is not u's own.
Around(u) ==
    /\ worker'[u] = worker[u]
    /\ lock <= lock'
    /\ lease'.owner = u => lease.owner = u
    /\ Kept
    /\ done \subseteq done' /\ events \subseteq events'
    /\ done' # done => lease'.owner # u
    /\ version'.status = "CANCELLED" => version.status = "CANCELLED" \/ lock < lock'

LEMMA SoundAround ==
  ASSUME TypeInv, TypeInv', NEW u \in Worker, Sound(u), Around(u)
  PROVE  Sound(u)'
<1>1. /\ lock \in Nat /\ lock' \in Nat
      /\ worker[u].msg \in Message /\ worker[u].held \in Nat
  BY DEF TypeInv, TypeOK, Consumer
<1>2. worker[u].pc # "idle" => Key(u)' = Key(u)
  BY <1>1 DEF Around, Kept, Sound, Key, Job
<1>3. worker[u].pc \in Leased => HeldSoon(u) <= lock'
  BY <1>1 DEF Around, Sound, HeldSoon
<1>4. MayWrite(u)' => MayWrite(u) /\ lock' = lock
  BY <1>1, <1>3 DEF Around, Sound, HeldSoon, MayWrite
<1>5. worker[u].pc # "idle" => (messages[worker[u].msg].state # "unsent")'
  BY <1>1 DEF Around, Kept, Sound
<1>6. (worker[u].pc \in Leased => HeldSoon(u) <= lock)'
  BY <1>3 DEF Around, HeldSoon
<1>7. (worker[u].pc \in Running \cup {"revalidated"} /\ MayWrite(u) => version.status # "CANCELLED")'
  BY <1>1, <1>4 DEF Around, Sound
<1>8. (Processing(u) /\ MayWrite(u) => Key(u) \notin done)'
  BY <1>2, <1>4 DEF Around, Sound, Processing, MayWrite, Running
<1>9. (At(u, "deleting") \/ (At(u, "releasing") /\ ~worker[u].exhausted)
         => Key(u) \in done \/ Cancelled)'
  BY <1>2 DEF Around, Sound, At, Cancelled
<1> QED
  BY <1>5, <1>6, <1>7, <1>8, <1>9 DEF Around, Sound, At

LEMMA SaveEffect ==
  ASSUME TypeInv, NEW w \in Worker, NEW v, NEW evs, Save(w, v, evs),
         worker[w].pc \in Leased
  PROVE  /\ MayWrite(w)
         /\ UNCHANGED <<lock, lease, done, messages, client, creating>>
         /\ meta'.lock = meta.lock
         /\ events \subseteq events'
         /\ version' \in {version, v}
  BY DEF TypeInv, TypeOK, Save, MutexFree, Owns, MayWrite, HeldSoon

\* What a step of w does to everything but w's own record.
Effect(w) ==
    /\ \A u \in Worker \ {w} :
         /\ worker'[u] = worker[u]
         /\ lease'.owner = u => lease.owner = u
         /\ lock' # lock \/ done' # done => lease'.owner # u
    /\ lock <= lock'
    /\ Kept
    /\ done \subseteq done' /\ events \subseteq events'
    /\ \A m \in Message : messages'[m].state = "deleted" =>
         messages[m].state = "deleted" \/ (At(w, "deleting") /\ m = worker[w].msg)
    /\ UNCHANGED client /\ meta'.lock = meta.lock
    /\ \/ UNCHANGED version
       \/ /\ MayWrite(w) /\ MayWrite(w)'
          /\ version'.status # "CANCELLED"
          /\ UNCHANGED <<lock, lease>>

LEMMA SaveIsEffect ==
  ASSUME TypeInv, NEW w \in Worker, NEW v, NEW evs, Save(w, v, evs),
         worker[w].pc \in Leased, v.status # "CANCELLED",
         NEW k, worker' = [worker EXCEPT ![w] = k],
         k.pc \in Leased, k.held = worker[w].held, k.beat = worker[w].beat
  PROVE  Effect(w)
<1>1. /\ MayWrite(w)
      /\ UNCHANGED <<lock, lease, done, messages, client, creating>>
      /\ meta'.lock = meta.lock
      /\ events \subseteq events'
      /\ version' \in {version, v}
  BY SaveEffect
<1>2. worker'[w] = k /\ \A u \in Worker \ {w} : worker'[u] = worker[u]
  BY DEF TypeInv, TypeOK
<1>3. MayWrite(w)'
  BY <1>1, <1>2 DEF MayWrite, HeldSoon
<1>4. Kept
  BY <1>1 DEF Kept
<1>5. lock <= lock'
  BY <1>1 DEF TypeInv, TypeOK
<1> QED
  BY <1>1, <1>2, <1>3, <1>4, <1>5 DEF Effect

LEMMA WorkerEffect ==
  ASSUME TypeInv, NEW w \in Worker, Sound(w), WorkerStep(w)
  PROVE  Effect(w)
<1> DEFINE k == worker[w]
           Silent == UNCHANGED <<version, lock, lease, meta, done, events, messages, client>>
<1>0. /\ worker \in [Worker -> Consumer] /\ messages \in [Message -> Delivery] /\ lock \in Nat
      /\ k \in Consumer /\ w \notin {None, Gone}
      /\ Running \subseteq Leased /\ "releasing" \in Leased /\ "exhausting" \in Leased
  BY ConstantsAssumption DEF TypeInv, TypeOK, Leased
<1>1. ASSUME NEW n, worker' = [worker EXCEPT ![w] = n], Silent
      PROVE  Effect(w)
  BY <1>0, <1>1 DEF Effect, Kept
<1>2. ASSUME NEW n, worker' = [worker EXCEPT ![w] = n],
             UNCHANGED <<version, meta, events, messages, client>>,
             done \subseteq done', lease'.owner \in {w, None},
             lock' = lock + 1
      PROVE  Effect(w)
  BY <1>0, <1>2, ConstantsAssumption DEF Effect, Kept
<1>3. ASSUME NEW m \in Message, Receive(w, m)
      PROVE  Effect(w)
  BY <1>0, <1>3 DEF Receive, Effect, Kept
<1>4. CASE LoadVersion(w) \/ ReadLockVersion(w) \/ Revalidate(w) \/ CheckCompleted(w)
  BY <1>1, <1>4 DEF LoadVersion, ReadLockVersion, Revalidate, CheckCompleted, Goto
<1>5. CASE HeartbeatReply(w) \/ HeartbeatUnavailable(w) \/ StartPackage(w) \/ FinishPackage(w) \/ FailPackage(w) \/ LoseLease(w)
             \/ StopHeartbeat(w) \/ Uncertain(w)
  BY <1>1, <1>5 DEF HeartbeatReply, HeartbeatUnavailable, StartPackage, FinishPackage, FailPackage, LoseLease,
     StopHeartbeat, Uncertain, Goto, Abandon
<1>6. CASE AcquireLease(w)
  <2>1. CASE Acquirable(w)
    BY <1>2, <1>6, <2>1 DEF AcquireLease, Goto
  <2>2. CASE ~Acquirable(w)
    BY <1>1, <1>6, <2>2 DEF AcquireLease, Abandon
  <2> QED
    BY <2>1, <2>2
<1>7. CASE Heartbeat(w)
  <2>1. worker' = [worker EXCEPT ![w] = k] \/ \E n : worker' = [worker EXCEPT ![w] = n]
    BY <1>0, <1>7 DEF Heartbeat
  <2>2. CASE OwnsJob(w) /\ lease.live
    BY <1>2, <1>7, <2>1, <2>2 DEF Heartbeat, OwnsJob, Owns
  <2>3. CASE ~(OwnsJob(w) /\ lease.live)
    BY <1>1, <1>7, <2>3 DEF Heartbeat
  <2> QED
    BY <2>2, <2>3
<1>8. CASE SaveChunk(w)
  <2>1. k.pc \in Running /\ k.current.status # "CANCELLED"
    BY <1>8 DEF SaveChunk, Running, Sound
  <2>2. PICK l \in Running : worker' = [worker EXCEPT ![w] = [k EXCEPT !.pc = l]]
    BY <1>8 DEF SaveChunk, Goto, Running
  <2>3. Save(w, k.current, {})
    BY <1>8 DEF SaveChunk
  <2>4. [k EXCEPT !.pc = l].pc \in Leased /\ [k EXCEPT !.pc = l].held = k.held
        /\ [k EXCEPT !.pc = l].beat = k.beat
    BY <1>0 DEF Consumer
  <2> QED
    BY <1>0, <2>1, <2>2, <2>3, <2>4, SaveIsEffect
<1>9. CASE SaveReview(w)
  <2> DEFINE v == [k.current EXCEPT !.status = "READY_FOR_REVIEW"]
             n == [k EXCEPT !.pc = "packaging", !.current = v, !.starting = "READY_FOR_REVIEW"]
  <2>1. k.pc \in Leased /\ v.status # "CANCELLED"
    BY <1>0, <1>9 DEF SaveReview, At, Running, Consumer, Version
  <2>2. worker' = [worker EXCEPT ![w] = n] /\ n.pc \in Leased /\ n.held = k.held /\ n.beat = k.beat
    BY <1>0, <1>9 DEF SaveReview, Running, Consumer
  <2>3. Save(w, v, MilestoneEvent(w, "READY_FOR_REVIEW"))
    BY <1>9 DEF SaveReview
  <2> HIDE DEF v, n
  <2> QED
    BY <2>1, <2>2, <2>3, SaveIsEffect
<1>10. CASE SaveFinal(w)
  <2> DEFINE v == [k.current EXCEPT !.status = "FINAL"]
             n(l) == [k EXCEPT !.current = v, !.pc = l]
  <2>1. k.pc \in Leased /\ v.status # "CANCELLED"
    BY <1>0, <1>10 DEF SaveFinal, At, Running, Consumer, Version
  <2>2. PICK l \in AfterFinal : worker' = [worker EXCEPT ![w] = n(l)]
    BY <1>10 DEF SaveFinal
  <2>r. l \in Running
    BY DEF AfterFinal, Running
  <2>3. n(l).pc \in Leased /\ n(l).held = k.held /\ n(l).beat = k.beat
    BY <1>0, <2>r DEF Consumer, Leased
  <2>4. Save(w, v, MilestoneEvent(w, "FINAL"))
    BY <1>10 DEF SaveFinal
  <2> HIDE DEF v, n
  <2> QED
    BY <2>1, <2>2, <2>3, <2>4, SaveIsEffect
<1>11. CASE RecordFailure(w)
  <2> DEFINE v(r) == Failed(k.current, r)
             n(r) == [k EXCEPT !.pc = "finished", !.current = v(r)]
  <2>1. PICK r : Save(w, v(r), {<<"FAILED", v(r).attempt>>}) /\ worker' = [worker EXCEPT ![w] = n(r)]
    BY <1>11 DEF RecordFailure
  <2>2. k.pc \in Leased /\ v(r).status # "CANCELLED"
    BY <1>0, <1>11 DEF RecordFailure, Consumer, Version, Failed
  <2>3. n(r).pc \in Leased /\ n(r).held = k.held /\ n(r).beat = k.beat
    BY <1>0 DEF Consumer, Running
  <2> HIDE DEF v, n
  <2> QED
    BY <2>1, <2>2, <2>3, SaveIsEffect
<1>12. CASE Complete(w)
  <2>1. CASE OwnsJob(w) /\ Key(w) \notin done
    BY <1>2, <1>12, <2>1 DEF Complete, Goto, NoLease
  <2>2. CASE ~(OwnsJob(w) /\ Key(w) \notin done)
    BY <1>1, <1>12, <2>2 DEF Complete, Abandon
  <2> QED
    BY <2>1, <2>2
<1>13. CASE Release(w)
  <2>1. CASE OwnsJob(w)
    BY <1>2, <1>13, <2>1 DEF Release, Goto, Abandon, NoLease
  <2>2. CASE ~OwnsJob(w)
    BY <1>1, <1>13, <2>2 DEF Release, Abandon
  <2> QED
    BY <2>1, <2>2
<1>14. CASE Delete(w)
  BY <1>0, <1>14 DEF Delete, Abandon, Effect, Kept, Delivery
<1>15. CASE FailExhausted(w)
  <2> DEFINE v == Failed(k.current, "no")
             n == [k EXCEPT !.pc = "releasing"]
  <2>1. k.pc \in Leased /\ v.status # "CANCELLED"
    BY <1>0, <1>15 DEF FailExhausted, At, Consumer, Version, Failed
  <2>2. worker' = [worker EXCEPT ![w] = n] /\ n.pc \in Leased /\ n.held = k.held /\ n.beat = k.beat
    BY <1>0, <1>15 DEF FailExhausted, Goto, Consumer
  <2>3. Save(w, v, {<<"FAILED", v.attempt>>}) \/ Silent
    BY <1>15 DEF FailExhausted
  <2> HIDE DEF v, n
  <2> QED
    BY <1>1, <2>1, <2>2, <2>3, SaveIsEffect
<1>16. CASE Crash(w)
  <2>1. lease' = lease \/ (lease.owner = w /\ lease'.owner = Gone)
    BY <1>16 DEF Crash, TypeInv, TypeOK
  <2> QED
    BY <1>0, <1>16, <2>1, ConstantsAssumption DEF Crash, Abandon, Effect, Kept
<1> QED
  BY <1>3, <1>4, <1>5, <1>6, <1>7, <1>8, <1>9, <1>10, <1>11, <1>12, <1>13, <1>14, <1>15, <1>16
     DEF WorkerStep

LEMMA SoundOwn ==
  ASSUME TypeInv, TypeInv', NEW w \in Worker, Sound(w), CancelSeen, WorkerStep(w)
  PROVE  Sound(w)'
<1> DEFINE k == worker[w]
<1>0. /\ worker \in [Worker -> Consumer] /\ lock \in Nat /\ lock' \in Nat
      /\ k \in Consumer /\ k.msg \in Message /\ k.held \in Nat
      /\ messages \in [Message -> Delivery]
  BY DEF TypeInv, TypeOK, Consumer
<1>e. /\ lock <= lock' /\ done \subseteq done' /\ events \subseteq events' /\ Kept
      /\ UNCHANGED version \/ version'.status # "CANCELLED"
  BY WorkerEffect DEF Effect
<1>i. ASSUME worker' = [worker EXCEPT ![w] = Idle]
      PROVE  Sound(w)'
  BY <1>0, <1>i DEF Sound, Idle, Unset, At, Leased, Running, Processing
<1>1. ASSUME NEW m \in Message, Receive(w, m)
      PROVE  Sound(w)'
  BY <1>0, <1>1 DEF Receive, Sound, Idle, Unset, At, Leased, Running, Processing, Delivery
<1>2. CASE LoadVersion(w)
  BY <1>0, <1>2 DEF LoadVersion, Goto, Sound, CancelSeen, Cancelled, At, Leased, Running, Processing, Consumer
<1>3. CASE AcquireLease(w)
  <2>1. CASE Acquirable(w)
    BY <1>0, <1>3, <2>1 DEF AcquireLease, Goto, Sound, At, Leased, Running, Processing, Consumer
  <2> QED
    BY <1>i, <1>3, <2>1 DEF AcquireLease, Abandon
<1>4. CASE ReadLockVersion(w)
  BY <1>0, <1>4 DEF ReadLockVersion, Sound, At, Leased, Running, Processing, HeldSoon, Consumer
<1>5. CASE Revalidate(w)
  BY <1>0, <1>5 DEF Revalidate, Goto, Sound, CancelSeen, Cancelled, At, Leased, Running, Processing,
     HeldSoon, MayWrite, Consumer
<1>6. CASE CheckCompleted(w)
  BY <1>0, <1>6 DEF CheckCompleted, Goto, Sound, At, Leased, Running, Processing, HeldSoon,
     MayWrite, Key, Job, Consumer
<1>7. CASE Heartbeat(w)
  BY <1>0, <1>7 DEF Heartbeat, OwnsJob, Owns, Sound, At, Leased, Running, Processing, HeldSoon,
     MayWrite, Key, Job, Consumer
<1>8. CASE HeartbeatReply(w) \/ HeartbeatUnavailable(w)
  BY <1>0, <1>8 DEF HeartbeatReply, HeartbeatUnavailable, Sound, At, Leased, Running, Processing,
     HeldSoon, MayWrite, Key, Job, Consumer
<1>9. ASSUME k.pc \in Running, NEW n \in Consumer,
             worker' = [worker EXCEPT ![w] = n],
             n.pc \in Running, n.msg = k.msg, n.held = k.held, n.beat = k.beat,
             n.exhausted = k.exhausted, n.current.status # "CANCELLED",
             UNCHANGED <<lock, lease, done, messages>>
      PROVE  Sound(w)'
  BY <1>0, <1>e, <1>9 DEF Sound, At, Leased, Running, Processing, HeldSoon, MayWrite, Key, Job
<1>10. CASE SaveChunk(w) \/ StartPackage(w) \/ FinishPackage(w) \/ FailPackage(w)
  <2>1. PICK l \in Running : worker' = [worker EXCEPT ![w] = [k EXCEPT !.pc = l]]
    BY <1>10 DEF SaveChunk, StartPackage, FinishPackage, FailPackage, Goto, Running
  <2>2. k.pc \in Running /\ UNCHANGED <<lock, lease, done, messages>>
    BY <1>10 DEF SaveChunk, StartPackage, FinishPackage, FailPackage, Save, At, Running
  <2>3. k.current.status # "CANCELLED"
    BY <2>2 DEF Sound
  <2> DEFINE n == [k EXCEPT !.pc = l]
  <2>4. /\ n \in Consumer /\ n.pc = l /\ n.msg = k.msg /\ n.held = k.held /\ n.beat = k.beat
        /\ n.exhausted = k.exhausted /\ n.current = k.current
    BY <1>0 DEF Consumer, InFlight
  <2> HIDE DEF n
  <2> QED
    BY <1>9, <2>1, <2>2, <2>3, <2>4 DEF n
<1>11. CASE SaveReview(w) \/ SaveFinal(w) \/ RecordFailure(w)
  <2>1. k.pc \in Running /\ UNCHANGED <<lock, lease, done, messages>>
    BY <1>11 DEF SaveReview, SaveFinal, RecordFailure, Save, At, Running
  <2>2. PICK n : /\ worker' = [worker EXCEPT ![w] = n]
                 /\ n.pc \in Running /\ n.msg = k.msg /\ n.held = k.held /\ n.beat = k.beat
                 /\ n.exhausted = k.exhausted /\ n.current.status # "CANCELLED"
    <3> DEFINE review == [k EXCEPT !.pc = "packaging",
                             !.current = [k.current EXCEPT !.status = "READY_FOR_REVIEW"],
                             !.starting = "READY_FOR_REVIEW"]
               final(l) == [k EXCEPT !.current = [k.current EXCEPT !.status = "FINAL"], !.pc = l]
               failed(r) == [k EXCEPT !.pc = "finished", !.current = Failed(k.current, r)]
    <3>1. CASE SaveReview(w)
      <4>1. worker' = [worker EXCEPT ![w] = review]
        BY <3>1 DEF SaveReview
      <4>2. /\ review.pc = "packaging"
            /\ review.msg = k.msg /\ review.held = k.held /\ review.beat = k.beat
            /\ review.exhausted = k.exhausted /\ review.current.status # "CANCELLED"
        BY <1>0 DEF Consumer, Version
      <4> HIDE DEF review
      <4> QED
        BY <4>1, <4>2 DEF Running
    <3>2. CASE SaveFinal(w)
      <4>1. PICK l \in AfterFinal : worker' = [worker EXCEPT ![w] = final(l)]
        BY <3>2 DEF SaveFinal
      <4>r. l \in Running
        BY DEF AfterFinal, Running
      <4>2. /\ final(l).pc = l
            /\ final(l).msg = k.msg /\ final(l).held = k.held /\ final(l).beat = k.beat
            /\ final(l).exhausted = k.exhausted /\ final(l).current.status # "CANCELLED"
        BY <1>0 DEF Consumer, Version
      <4> HIDE DEF final
      <4> QED
        BY <4>1, <4>2, <4>r
    <3>3. CASE RecordFailure(w)
      <4>1. PICK r : worker' = [worker EXCEPT ![w] = failed(r)]
        BY <3>3 DEF RecordFailure
      <4>2. /\ failed(r).pc = "finished"
            /\ failed(r).msg = k.msg /\ failed(r).held = k.held /\ failed(r).beat = k.beat
            /\ failed(r).exhausted = k.exhausted /\ failed(r).current.status # "CANCELLED"
        BY <1>0 DEF Consumer, Version, Failed
      <4> HIDE DEF failed
      <4> QED
        BY <4>1, <4>2 DEF Running
    <3> QED
      BY <1>11, <3>1, <3>2, <3>3
  <2>3. n \in Consumer
    BY <1>0, <2>2 DEF TypeInv, TypeOK
  <2> QED
    BY <1>9, <2>1, <2>2, <2>3
<1>12. CASE LoseLease(w) \/ Uncertain(w) \/ Delete(w) \/ Crash(w)
  BY <1>i, <1>12 DEF LoseLease, Uncertain, Delete, Crash, Abandon
<1>13. CASE StopHeartbeat(w)
  <2>1. CASE k.beat = "lost"
    BY <1>i, <1>13, <2>1 DEF StopHeartbeat, Abandon
  <2>2. CASE k.beat # "lost"
    BY <1>0, <1>13, <2>2 DEF StopHeartbeat, MutexFree, Sound, At, Leased, Running, Processing, HeldSoon,
       MayWrite, Key, Job, Consumer
  <2> QED
    BY <2>1, <2>2
<1>14. CASE Complete(w)
  <2>1. CASE OwnsJob(w) /\ Key(w) \notin done
    BY <1>0, <1>14, <2>1 DEF Complete, Goto, Sound, At, Leased, Running, Processing, Key, Job, Consumer
  <2> QED
    BY <1>i, <1>14, <2>1 DEF Complete, Abandon
<1>15. CASE Release(w)
  <2>1. CASE OwnsJob(w) /\ ~k.exhausted
    BY <1>0, <1>e, <1>15, <2>1 DEF Release, Goto, Sound, At, Leased, Running, Processing, Key, Job,
       Cancelled, Consumer
  <2> QED
    BY <1>i, <1>15, <2>1 DEF Release, Abandon
<1>16. CASE FailExhausted(w)
  <2>1. worker' = [worker EXCEPT ![w].pc = "releasing"] /\ k.exhausted /\ k.beat = "off"
        /\ lock' = lock /\ messages' = messages
    BY <1>16 DEF FailExhausted, Save, Goto, Sound, At, Running
  <2> QED
    BY <1>0, <1>16, <2>1 DEF FailExhausted, Sound, At, Leased, Running, Processing, HeldSoon, Consumer
<1> QED
  BY <1>1, <1>2, <1>3, <1>4, <1>5, <1>6, <1>7, <1>8, <1>10, <1>11, <1>12, <1>13, <1>14, <1>15, <1>16
     DEF WorkerStep

-----------------------------------------------------------------------------
LEMMA InitialIInv == Init => IInv
<1> SUFFICES ASSUME Init PROVE IInv
  OBVIOUS
<1>1. TypeInv
  BY InitialType
<1>2. ASSUME NEW w \in Worker PROVE Sound(w)
  BY <1>2 DEF Init, Sound, Idle, Unset, At, Leased, Running, Processing
<1>3. CancelSeen /\ ReadsAreOld
  BY DEF Init, CancelSeen, ReadsAreOld, Unset, Resting
<1>4. AckIsDurable
  BY DEF Init, AckIsDurable, Unsent
<1> QED
  BY <1>1, <1>2, <1>3, <1>4 DEF IInv

LEMMA WorkerIInv ==
  ASSUME IInv, TypeInv', NEW w \in Worker, WorkerStep(w)
  PROVE  IInv'
<1>0. /\ TypeInv /\ CancelSeen /\ Sound(w)
      /\ worker[w].msg \in Message
  BY DEF IInv, TypeInv, TypeOK, Delivery, Consumer
<1>1. Effect(w)
  BY <1>0, WorkerEffect
<1>2. ASSUME NEW u \in Worker PROVE Sound(u)'
  <2>1. CASE u = w
    BY <1>0, <2>1, SoundOwn
  <2>2. CASE u # w
    <3>1. Around(u)
      BY <1>1, <2>2 DEF Effect, Around
    <3>2. TypeInv /\ Sound(u)
      BY DEF IInv
    <3> QED
      BY <3>1, <3>2, SoundAround
  <2> QED
    BY <2>1, <2>2
<1>3. CancelSeen'
  BY <1>0, <1>1 DEF Effect, CancelSeen, Cancelled
<1>4. ReadsAreOld'
  BY <1>1, TypeInv' DEF IInv, TypeInv, TypeOK, Effect, ReadsAreOld
<1>5. AckIsDurable'
  <2> SUFFICES ASSUME NEW m \in Message, messages'[m].state = "deleted"
               PROVE  (<<messages[m].op, messages[m].job>> \in done \/ Cancelled)'
    BY DEF AckIsDurable, Cancelled
  <2>1. CASE messages[m].state = "deleted"
    BY <1>1, <2>1 DEF IInv, AckIsDurable, Effect, Kept, Cancelled
  <2>2. CASE At(w, "deleting") /\ m = worker[w].msg
    <3>1. messages[m].state # "unsent" /\ (<<messages[m].op, messages[m].job>> \in done \/ Cancelled)
      BY <1>0, <2>2 DEF Sound, Key, Job, At
    <3> QED
      BY <1>1, <3>1 DEF Effect, Kept, Cancelled
  <2> QED
    BY <1>1, <2>1, <2>2 DEF Effect
<1> QED
  BY <1>2, <1>3, <1>4, <1>5 DEF IInv

\* A step of the queue, of the clock or of the API disturbs no worker's record.
LEMMA OutsideIInv ==
  ASSUME IInv, TypeInv', UNCHANGED worker,
         lock <= lock',
         \A u \in Worker : lease'.owner = u => lease.owner = u,
         Kept, done' = done, events \subseteq events',
         version'.status = "CANCELLED" => version.status = "CANCELLED" \/ lock < lock',
         \A m \in Message : messages'[m].state = "deleted" => messages[m].state = "deleted",
         CancelSeen', ReadsAreOld'
  PROVE  IInv'
<1>1. ASSUME NEW u \in Worker PROVE Sound(u)'
  <2>1. Around(u)
    BY DEF Around
  <2> QED
    BY <2>1, SoundAround DEF IInv
<1>2. AckIsDurable'
  <2> SUFFICES ASSUME NEW m \in Message, messages'[m].state = "deleted"
               PROVE  (<<messages[m].op, messages[m].job>> \in done \/ Cancelled)'
    BY DEF AckIsDurable, Cancelled
  <2> QED
    BY DEF IInv, AckIsDurable, Kept, Cancelled
<1> QED
  BY <1>1, <1>2 DEF IInv

LEMMA ClientIInv ==
  ASSUME IInv, TypeInv', NEW c \in Client, ClientStep(c)
  PROVE  IInv'
<1> DEFINE q == client[c]
<1>0. /\ CancelSeen /\ ReadsAreOld
      /\ lock \in Nat /\ meta.lock \in Nat
      /\ client \in [Client -> Request] /\ q.metaLock \in Nat
      /\ messages \in [Message -> Delivery]
  BY DEF IInv, TypeInv, TypeOK, Request
<1>1. /\ \A u \in Worker : lease'.owner = u => lease.owner = u
      /\ Kept /\ done' = done /\ events \subseteq events'
      /\ UNCHANGED worker /\ lock <= lock'
      /\ \A m \in Message : messages'[m].state = "deleted" => messages[m].state = "deleted"
  BY <1>0 DEF ClientStep, Read, CommitCancel, CommitRetry, SubmitRetry, GiveUp, Kept, Delivery
<1>2. ASSUME NEW op \in Requests, Read(c, op)
      PROVE  IInv'
  <2>1. PICK pc \in {"commit", "submit"} :
          client' = [client EXCEPT ![c] =
            [pc |-> pc, op |-> op, seen |-> version, lock |-> lock,
             metaLock |-> meta.lock, metaSeq |-> meta.seq]]
    BY <1>2 DEF Read
  <2>2. UNCHANGED <<version, lock, meta, events>>
    BY <1>2 DEF Read
  <2>3. version.status = "CANCELLED" => op # "retry"
    BY <1>2 DEF Read, RetryAllowed, RetryReplay
  <2>3a. version.status = "CANCELLED" => op # "cancel"
    BY <1>2 DEF Read, CancelAllowed, Cancellable
  <2>4. CancelSeen'
    BY <1>0, <2>2, <2>3, <2>3a, ConstantsAssumption DEF CancelSeen, Cancelled
  <2>5. ReadsAreOld'
    BY <1>0, <2>1, <2>2 DEF ReadsAreOld
  <2> QED
    BY <1>1, <2>2, <2>4, <2>5, OutsideIInv
<1>3. CASE CommitCancel(c)
  <2>1. /\ meta'.lock = lock + 1 /\ lock' = lock + 1
        /\ client' = [client EXCEPT ![c] = Resting]
        /\ <<"CANCELLED", 0>> \in events'
    BY <1>3 DEF CommitCancel
  <2>2. CancelSeen'
    BY <1>0, <2>1 DEF CancelSeen, ReadsAreOld, Cancelled, Resting, Request
  <2>3. ReadsAreOld'
    BY <1>0, <2>1 DEF ReadsAreOld, Resting, Request
  <2> QED
    BY <1>0, <1>1, <2>1, <2>2, <2>3, OutsideIInv
<1>4. CASE CommitRetry(c)
  <2>1. /\ meta'.lock = lock + 1 /\ lock' = lock + 1
        /\ client' = [client EXCEPT ![c].pc = "submit"]
    BY <1>4 DEF CommitRetry
  <2>2. version'.status = "QUEUED"
    BY <1>4 DEF CommitRetry, IInv, TypeInv, TypeOK, Version
  <2>3. CancelSeen'
    BY <2>2 DEF CancelSeen
  <2>4. ReadsAreOld'
    BY <1>0, <1>4, <2>1 DEF CommitRetry, ReadsAreOld, Request
  <2> QED
    BY <1>1, <2>2, <2>3, <2>4, OutsideIInv
<1>5. ASSUME NEW m \in Message, SubmitRetry(c, m) \/ GiveUp(c)
      PROVE  IInv'
  <2>1. UNCHANGED <<version, lock, meta, events>> /\ client' = [client EXCEPT ![c] = Resting]
    BY <1>5 DEF SubmitRetry, GiveUp
  <2>2. CancelSeen' /\ ReadsAreOld'
    BY <1>0, <2>1 DEF CancelSeen, ReadsAreOld, Cancelled, Resting
  <2> QED
    BY <1>1, <2>1, <2>2, OutsideIInv
<1> QED
  BY ConstantsAssumption, <1>2, <1>3, <1>4, <1>5 DEF ClientStep

LEMMA StepIInv == IInv /\ [Next]_vars => IInv'
<1> SUFFICES ASSUME IInv, [Next]_vars PROVE IInv'
  OBVIOUS
<1>0. TypeInv'
  BY StepType DEF IInv
<1>1. ASSUME NEW w \in Worker, WorkerStep(w) PROVE IInv'
  BY <1>0, <1>1, WorkerIInv
<1>2. ASSUME NEW c \in Client, ClientStep(c) PROVE IInv'
  BY <1>0, <1>2, ClientIInv
<1>t. /\ lock \in Nat /\ messages \in [Message -> Delivery] /\ CancelSeen /\ ReadsAreOld
      /\ version \in Version /\ meta \in [lock : Nat, seq : Nat]
  BY DEF IInv, TypeInv, TypeOK
<1>3. ASSUME NEW m \in Message, DeadLetter(m) PROVE IInv'
  <2>1. CancelSeen' /\ ReadsAreOld'
    BY <1>3, <1>t DEF DeadLetter, CancelSeen, ReadsAreOld, Cancelled
  <2> QED
    BY <1>0, <1>3, <1>t, <2>1, OutsideIInv DEF DeadLetter, Kept, Delivery
<1>4. CASE LeaseExpires
  <2>1. CancelSeen' /\ ReadsAreOld'
    BY <1>4, <1>t DEF LeaseExpires, CancelSeen, ReadsAreOld, Cancelled
  <2>2. lease'.owner = lease.owner
    BY <1>4 DEF LeaseExpires, IInv, TypeInv, TypeOK
  <2> QED
    BY <1>0, <1>4, <1>t, <2>1, <2>2, OutsideIInv DEF LeaseExpires, Kept
<1>5. CASE MarkQueued
  <2>1. /\ UNCHANGED version \/ version'.status # "CANCELLED"
        /\ meta.lock <= meta'.lock /\ lock <= lock'
    BY <1>5, <1>t DEF MarkQueued, Version
  <2>2. version'.status = "CANCELLED" => meta'.lock = meta.lock
    BY <1>5, <1>t DEF MarkQueued, Version
  <2>3. meta.lock \in Nat /\ meta'.lock \in Nat
    BY <1>0 DEF IInv, TypeInv, TypeOK
  <2>4. \A c \in Client : client[c].metaLock \in Nat
    BY DEF IInv, TypeInv, TypeOK, Request
  <2>5. CancelSeen' /\ ReadsAreOld'
    BY <1>5, <1>t, <2>1, <2>2, <2>3, <2>4 DEF MarkQueued, CancelSeen, ReadsAreOld, Cancelled
  <2> QED
    BY <1>0, <1>5, <1>t, <2>1, <2>5, OutsideIInv DEF MarkQueued, Kept
<1>6. CASE UNCHANGED vars
  <2>1. CancelSeen' /\ ReadsAreOld'
    BY <1>6, <1>t DEF vars, CancelSeen, ReadsAreOld, Cancelled
  <2> QED
    BY <1>0, <1>6, <1>t, <2>1, OutsideIInv DEF vars, Kept
<1> QED
  BY <1>1, <1>2, <1>3, <1>4, <1>5, <1>6 DEF Next

LEMMA InductiveInvariant == Spec => []IInv
  BY InitialIInv, StepIInv, PTL DEF Spec

\* A recorded job is never written to again, by any delivery of it.
THEOREM CompletedJobIsQuietHolds == Spec => []CompletedJobIsQuiet
<1>1. IInv => CompletedJobIsQuiet
  BY DEF IInv, Sound, CompletedJobIsQuiet
<1> QED
  BY <1>1, InductiveInvariant, PTL

\* An acknowledged message was recorded as done, or its version as cancelled.
THEOREM AckIsDurableHolds == Spec => []AckIsDurable
<1>1. IInv => AckIsDurable
  BY DEF IInv
<1> QED
  BY <1>1, InductiveInvariant, PTL

-----------------------------------------------------------------------------
(* Action properties and the refinement.                                   *)

LEMMA WhoWrites ==
  ASSUME NEW w \in Worker, WorkerStep(w), version' # version
  PROVE  worker[w].pc \in Running \/ At(w, "exhausting")
  BY DEF WorkerStep, Receive, LoadVersion, AcquireLease, ReadLockVersion, Revalidate, CheckCompleted,
     Heartbeat, HeartbeatReply, HeartbeatUnavailable, SaveChunk, SaveReview, StartPackage, FinishPackage, FailPackage, SaveFinal,
     RecordFailure, LoseLease, StopHeartbeat, Complete, Release, Delete, FailExhausted, Uncertain,
     Crash, At, Running

LEMMA StepCancelled ==
  ASSUME IInv, Next, version.status = "CANCELLED", version'.status # "CANCELLED"
  PROVE  \E w \in Worker : At(w, "exhausting")
<1>0. CancelSeen /\ version \in Version /\ (\A c \in Client : client[c] \in Request)
  BY DEF IInv, TypeInv, TypeOK
<1>1. ASSUME NEW w \in Worker, WorkerStep(w) PROVE At(w, "exhausting")
  <2>1. Sound(w) /\ TypeInv
    BY DEF IInv
  <2>2. Effect(w)
    BY <1>1, <2>1, WorkerEffect
  <2>3. MayWrite(w)
    BY <2>2 DEF Effect
  <2> QED
    BY <1>1, <2>1, <2>3, WhoWrites DEF Sound
<1>2. ASSUME NEW c \in Client, ClientStep(c) PROVE FALSE
  BY <1>0, <1>2 DEF ClientStep, Read, CommitCancel, CommitRetry, SubmitRetry, GiveUp, AsRead,
     CancelSeen, Version, IInv, TypeInv, TypeOK
<1>3. ASSUME MarkQueued PROVE FALSE
  BY <1>0, <1>3 DEF MarkQueued, CancelSeen
<1> QED
  BY <1>1, <1>2, <1>3 DEF Next, DeadLetter, LeaseExpires

\* Only the exhaustion path ever replaces CANCELLED.
THEOREM CancelledStaysHolds == Spec => CancelledStays
<1>1. IInv /\ [Next]_vars =>
        [version.status = "CANCELLED" /\ version'.status # "CANCELLED"
           => \E w \in Worker : At(w, "exhausting")]_vars
  BY StepCancelled DEF vars
<1> QED
  BY <1>1, InductiveInvariant, PTL DEF Spec, CancelledStays

LEMMA OwnFencing ==
  ASSUME TypeInv, NEW w \in Worker, Sound(w), ~LostReplies, WorkerStep(w),
         Processing(w), MayWrite(w), Processing(w)', (lease.owner = w)'
  PROVE  MayWrite(w)'
<1> DEFINE k == worker[w]
<1>0. /\ worker \in [Worker -> Consumer] /\ k \in Consumer /\ k.held \in Nat /\ lock \in Nat
      /\ w # None /\ w # Gone
      /\ lease \in [owner : Worker \cup {None, Gone}, job : Nat, live : BOOLEAN]
  BY ConstantsAssumption DEF TypeInv, TypeOK, Consumer
<1>1. Effect(w)
  BY WorkerEffect
<1>2. ASSUME version' # version PROVE MayWrite(w)'
  BY <1>1, <1>2 DEF Effect
<1>3. ~Abandon(w)
  BY <1>0 DEF Abandon, Idle, Processing, Running
<1>4. CASE Heartbeat(w)
  BY <1>0, <1>4 DEF Heartbeat, OwnsJob, Owns, MayWrite, HeldSoon, Leased, Processing, Consumer
<1>5. CASE HeartbeatReply(w) \/ HeartbeatUnavailable(w)
  BY <1>0, <1>5 DEF HeartbeatReply, HeartbeatUnavailable, MayWrite, HeldSoon,
     Leased, Processing, Running, Consumer
<1>11. CASE StartPackage(w) \/ FinishPackage(w) \/ FailPackage(w)
  <2>1. UNCHANGED <<lock, lease>> /\ \E label : Goto(w, label)
    BY <1>11 DEF StartPackage, FinishPackage, FailPackage
  <2>2. worker'[w].held = k.held /\ worker'[w].beat = k.beat
    BY <1>0, <2>1 DEF Goto, Consumer
  <2> QED
    BY <2>1, <2>2 DEF Processing, Leased, MayWrite, HeldSoon
<1>6. CASE StopHeartbeat(w)
  BY <1>0, <1>3, <1>6 DEF StopHeartbeat, MutexFree, MayWrite, HeldSoon, Leased, Consumer
<1>7. CASE SaveChunk(w) \/ SaveReview(w) \/ SaveFinal(w) \/ RecordFailure(w)
  <2>1. UNCHANGED <<lock, lease>> /\ k.beat # "sent"
    BY <1>7 DEF SaveChunk, SaveReview, SaveFinal, RecordFailure, Save, MutexFree
  <2>2. worker'[w].held = k.held /\ worker'[w].beat = k.beat
    <3>1. CASE SaveChunk(w)
      BY <1>0, <3>1 DEF SaveChunk, Goto, Consumer
    <3>2. CASE SaveReview(w)
      BY <1>0, <3>2 DEF SaveReview, Consumer
    <3>3. CASE SaveFinal(w)
      <4>1. PICK v, l : worker' = [worker EXCEPT ![w].current = v, ![w].pc = l]
        <5> DEFINE v == [worker[w].current EXCEPT !.status = "FINAL"]
        <5>1. \E l : worker' = [worker EXCEPT ![w].current = v, ![w].pc = l]
          BY <3>3 DEF SaveFinal
        <5> QED
          BY <5>1
      <4> QED
        BY <1>0, <4>1 DEF Consumer
    <3>4. CASE RecordFailure(w)
      <4>1. PICK v : worker' = [worker EXCEPT ![w].pc = "finished", ![w].current = v]
        BY <3>4 DEF RecordFailure
      <4> QED
        BY <1>0, <4>1 DEF Consumer
    <3> QED
      BY <1>7, <3>1, <3>2, <3>3, <3>4
  <2>3. worker'[w].pc \in Leased
    BY DEF Processing, Leased
  <2> QED
    BY <2>1, <2>2, <2>3 DEF MayWrite, HeldSoon
<1>8. ASSUME Complete(w) PROVE FALSE
  BY <1>0, <1>3, <1>8 DEF Complete, Goto, Processing, Running, Consumer
<1>9. ASSUME \/ \E m \in Message : Receive(w, m)
             \/ LoadVersion(w) \/ AcquireLease(w) \/ ReadLockVersion(w) \/ Revalidate(w)
             \/ CheckCompleted(w) \/ Release(w) \/ Delete(w) \/ FailExhausted(w)
      PROVE  FALSE
  BY <1>9 DEF Receive, LoadVersion, AcquireLease, ReadLockVersion, Revalidate, CheckCompleted,
     Release, Delete, FailExhausted, At, Processing, Running
<1>10. ASSUME LoseLease(w) \/ Uncertain(w) \/ Crash(w) PROVE FALSE
  BY <1>3, <1>10 DEF LoseLease, Uncertain, Crash
<1> QED
  BY <1>4, <1>5, <1>6, <1>7, <1>8, <1>9, <1>10, <1>11 DEF WorkerStep

LEMMA StepFencing ==
  ASSUME IInv, ~LostReplies, Next, NEW u \in Worker,
         Processing(u), MayWrite(u), Processing(u)', (lease.owner = u)', ~MayWrite(u)'
  PROVE  meta'.lock # meta.lock
<1>0. /\ TypeInv /\ Sound(u)
      /\ lock \in Nat /\ meta \in [lock : Nat, seq : Nat] /\ meta.lock <= lock
  BY DEF IInv, TypeInv, TypeOK, ReadsAreOld
<1>1. ASSUME NEW w \in Worker, WorkerStep(w) PROVE FALSE
  <2>1. CASE w = u
    BY <1>0, <1>1, <2>1, OwnFencing
  <2>2. CASE w # u
    <3>1. Effect(w)
      BY <1>1, WorkerEffect DEF IInv
    <3> QED
      BY <2>2, <3>1 DEF Effect, MayWrite, HeldSoon
  <2> QED
    BY <2>1, <2>2
<1>2. ASSUME UNCHANGED <<lock, worker>>, lease'.owner = lease.owner PROVE FALSE
  BY <1>2 DEF MayWrite, HeldSoon
<1>3. ASSUME NEW c \in Client, ClientStep(c) PROVE meta'.lock # meta.lock
  BY <1>0, <1>2, <1>3 DEF ClientStep, Read, CommitCancel, CommitRetry, SubmitRetry, GiveUp
<1>4. CASE MarkQueued
  BY <1>0, <1>2, <1>4 DEF MarkQueued
<1>5. CASE LeaseExpires
  BY <1>2, <1>5 DEF LeaseExpires, IInv, TypeInv, TypeOK
<1> QED
  BY <1>1, <1>2, <1>3, <1>4, <1>5 DEF Next, DeadLetter

\* When every reply arrives, no worker ever fences itself out.
THEOREM NoSelfFencingHolds == ~LostReplies => (Spec => NoSelfFencing)
<1> SUFFICES ASSUME ~LostReplies PROVE Spec => NoSelfFencing
  OBVIOUS
<1>1. IInv /\ [Next]_vars =>
        [\A w \in Worker :
           Processing(w) /\ MayWrite(w) /\ (Processing(w) /\ lease.owner = w /\ ~MayWrite(w))'
             => meta'.lock # meta.lock]_vars
  BY StepFencing
<1> QED
  BY <1>1, InductiveInvariant, PTL DEF Spec, NoSelfFencing

LEMMA WriterIs ==
  ASSUME NEW u \in Worker
  PROVE  Writer = u <=> MayWrite(u)
  BY ConstantsAssumption DEF Writer, MayWrite

LEMMA WriterType == Writer \in Worker \cup {None}
  BY DEF Writer

\* Only AcquireLease makes a worker the owner, and it does not know its
\* lock_version yet.
LEMMA NewOwner ==
  ASSUME TypeInv, NEW w \in Worker, WorkerStep(w), lease'.owner = w, lease.owner # w
  PROVE  ~MayWrite(w)'
<1>0. /\ worker \in [Worker -> Consumer] /\ w # None /\ w # Gone
      /\ lease \in [owner : Worker \cup {None, Gone}, job : Nat, live : BOOLEAN]
  BY ConstantsAssumption DEF TypeInv, TypeOK
<1>1. CASE AcquireLease(w)
  BY <1>0, <1>1 DEF AcquireLease, Goto, MayWrite, Leased, Running, Consumer
<1>2. lease' # lease
  OBVIOUS
<1>3. CASE Complete(w) \/ Release(w) \/ Crash(w)
  BY <1>0, <1>3 DEF Complete, Release, Crash, NoLease
<1> QED
  BY <1>1, <1>2, <1>3 DEF WorkerStep, Receive, LoadVersion, ReadLockVersion, Revalidate, CheckCompleted,
     Heartbeat, HeartbeatReply, HeartbeatUnavailable, SaveChunk, SaveReview, StartPackage, FinishPackage, FailPackage, SaveFinal,
     RecordFailure, LoseLease, StopHeartbeat, Delete, FailExhausted, Uncertain, Save

LEMMA WorkerFenced ==
  ASSUME IInv, NEW w \in Worker, WorkerStep(w)
  PROVE  [Fenced!Next]_(Fenced!vars)
<1>0. TypeInv /\ Sound(w) /\ Effect(w)
  BY WorkerEffect DEF IInv
<1>1. CASE version' # version
  <2>1. MayWrite(w) /\ MayWrite(w)' /\ meta'.lock = meta.lock
    BY <1>0, <1>1 DEF Effect
  <2>2. Writer = w /\ Writer' = w
    BY <2>1, WriterIs, ConstantsAssumption DEF Writer, MayWrite
  <2> QED
    BY <2>1, <2>2 DEF Fenced!Next, Fenced!WorkerWrite
<1>2. CASE version' = version /\ Writer' = None
  BY <1>0, <1>2 DEF Effect, Fenced!Next, Fenced!Revoke
<1>3. ASSUME version' = version, NEW x \in Worker, Writer' = x
      PROVE  [Fenced!Next]_(Fenced!vars)
  <2>1. MayWrite(x)' /\ lease'.owner = x
    BY <1>3, ConstantsAssumption DEF Writer, MayWrite
  <2>2. lease.owner = x
    BY <1>0, <2>1, NewOwner DEF Effect
  <2>3. Writer \in {x, None}
    BY <2>2 DEF Writer
  <2> QED
    BY <1>0, <1>3, <2>3 DEF Effect, Fenced!Next, Fenced!Grant, Fenced!vars
<1> QED
  BY <1>1, <1>2, <1>3, WriterType DEF Writer

LEMMA ApiFenced ==
  ASSUME IInv, UNCHANGED worker, lease'.owner = lease.owner,
         lock < lock', meta'.lock > meta.lock
  PROVE  Fenced!ApiWrite
<1>1. ASSUME NEW u \in Worker PROVE ~MayWrite(u)'
  BY DEF IInv, TypeInv, TypeOK, Consumer, Sound, MayWrite, HeldSoon
<1>2. Writer' = None
  BY <1>1 DEF Writer
<1> QED
  BY <1>2 DEF Fenced!ApiWrite

LEMMA StepFenced == IInv /\ [Next]_vars => [Fenced!Next]_(Fenced!vars)
<1> SUFFICES ASSUME IInv, [Next]_vars PROVE [Fenced!Next]_(Fenced!vars)
  OBVIOUS
<1>0. lock \in Nat /\ lease \in [owner : Worker \cup {None, Gone}, job : Nat, live : BOOLEAN]
  BY DEF IInv, TypeInv, TypeOK
<1>1. ASSUME NEW w \in Worker, WorkerStep(w) PROVE [Fenced!Next]_(Fenced!vars)
  BY <1>1, WorkerFenced
<1>2. ASSUME UNCHANGED <<version, lock, worker>>, lease'.owner = lease.owner, meta'.lock = meta.lock
      PROVE  UNCHANGED Fenced!vars
  BY <1>2 DEF Fenced!vars, Writer, MayWrite, HeldSoon
<1>3. ASSUME NEW c \in Client, ClientStep(c) PROVE [Fenced!Next]_(Fenced!vars)
  <2>1. CASE CommitCancel(c) \/ CommitRetry(c)
    <3>1. /\ lock < lock' /\ meta'.lock = lock + 1 /\ UNCHANGED <<worker, lease>>
      BY <1>0, <2>1 DEF CommitCancel, CommitRetry
    <3>2. meta'.lock > meta.lock
      BY <1>0, <3>1 DEF IInv, TypeInv, TypeOK, ReadsAreOld
    <3> QED
      BY <3>1, <3>2, ApiFenced DEF Fenced!Next
  <2> QED
    BY <1>2, <1>3, <2>1 DEF ClientStep, Read, SubmitRetry, GiveUp
<1>4. CASE MarkQueued
  <2>1. CASE meta.lock = 0 /\ lock = 0
    <3>1. lock < lock' /\ meta'.lock > meta.lock /\ UNCHANGED <<worker, lease>>
      BY <1>4, <2>1 DEF MarkQueued, IInv, TypeInv, TypeOK
    <3> QED
      BY <3>1, ApiFenced DEF Fenced!Next
  <2> QED
    BY <1>2, <1>4, <2>1 DEF MarkQueued
<1>5. CASE LeaseExpires \/ \E m \in Message : DeadLetter(m)
  BY <1>0, <1>2, <1>5 DEF LeaseExpires, DeadLetter
<1>6. CASE UNCHANGED vars
  BY <1>2, <1>6 DEF vars
<1> QED
  BY <1>1, <1>3, <1>4, <1>5, <1>6 DEF Next

\* The lease, the lock_version and the heartbeats implement a version with one
\* writer at a time, dismissed by every write of the API.
THEOREM FencedSpecHolds == Spec => FencedSpec
<1>1. Init => Fenced!Init
  BY ConstantsAssumption DEF Init, Fenced!Init, Writer, NoLease
<1>2. IInv /\ [Next]_vars => [Fenced!Next]_(Fenced!vars)
  BY StepFenced
<1> QED
  BY <1>1, <1>2, InductiveInvariant, PTL DEF Spec, FencedSpec, Fenced!Spec

-----------------------------------------------------------------------------
(* OneRetryPerFailure.  Copies of the version grow old, and a save from an *)
(* old copy can put the attempt back: the lease is no help here.  What is  *)
(* kept is that one attempt has one verdict (the resume that is saved with *)
(* its FAILED event), because an event that is already in the log turns    *)
(* every later save of that attempt into a replay.                         *)

\* r gives each attempt its verdict; v, with its event in the log, agrees.
Fits(log, r, v) ==
    /\ v.resume = r[v.attempt]
    /\ v.attempt = 0 \/ <<"FAILED", v.attempt>> \in log

FitsMessage(log, r, d) ==
    d.state # "unsent" =>
        /\ d.op = IF d.job = 0 THEN "START" ELSE r[d.job]
        /\ d.job = 0 \/ <<"FAILED", d.job>> \in log

\* w may still save the copy it has in memory.
Using(w) == worker[w].pc \notin {"finished", "completing", "releasing", "deleting"}

Verdict(r) ==
    /\ r \in [Nat -> Operation \cup {"no"}]
    /\ r[0] = "no"
    /\ Fits(events, r, version)
    /\ \A w \in Worker : Using(w) => Fits(events, r, worker[w].current)
    /\ \A c \in Client : Fits(events, r, client[c].seen)
    /\ \A m \in Message : FitsMessage(events, r, messages[m])

Decided == TypeInv /\ \E r : Verdict(r)

LEMMA FitsStays ==
  ASSUME NEW log, NEW more, log \subseteq more, NEW r, NEW v
  PROVE  /\ Fits(log, r, v) => Fits(more, r, v)
         /\ FitsMessage(log, r, v) => FitsMessage(more, r, v)
  BY DEF Fits, FitsMessage

\* An attempt that is not in the log yet may be given its verdict.
LEMMA FitsNew ==
  ASSUME NEW log, NEW r \in [Nat -> Operation \cup {"no"}],
         NEW a \in Nat, a > 0, <<"FAILED", a>> \notin log, NEW o \in Operation \cup {"no"}
  PROVE  /\ [r EXCEPT ![a] = o] \in [Nat -> Operation \cup {"no"}]
         /\ [r EXCEPT ![a] = o][0] = r[0]
         /\ [r EXCEPT ![a] = o][a] = o
         /\ \A v \in Version : Fits(log, r, v) => Fits(log, [r EXCEPT ![a] = o], v)
         /\ \A d \in Delivery : FitsMessage(log, r, d) => FitsMessage(log, [r EXCEPT ![a] = o], d)
<1>1. ASSUME NEW v \in Version, Fits(log, r, v)
      PROVE  Fits(log, [r EXCEPT ![a] = o], v)
  <2>1. v.attempt \in Nat /\ v.attempt # a
    BY <1>1, VersionFields DEF Fits
  <2> QED
    BY <1>1, <2>1 DEF Fits
<1>2. ASSUME NEW d \in Delivery, FitsMessage(log, r, d)
      PROVE  FitsMessage(log, [r EXCEPT ![a] = o], d)
  <2>1. d.job \in Nat /\ (d.state # "unsent" => d.job # a)
    BY <1>2 DEF FitsMessage, Delivery
  <2> QED
    BY <1>2, <2>1 DEF FitsMessage
<1>3. /\ [r EXCEPT ![a] = o] \in [Nat -> Operation \cup {"no"}]
      /\ [r EXCEPT ![a] = o][0] = r[0]
      /\ [r EXCEPT ![a] = o][a] = o
  OBVIOUS
<1> QED
  BY <1>1, <1>2, <1>3

\* A step of w that leaves the verdicts as they are.
LEMMA VerdictAround ==
  ASSUME TypeInv, NEW r, Verdict(r), NEW w \in Worker,
         events \subseteq events',
         Fits(events', r, version'),
         \A u \in Worker \ {w} : worker'[u] = worker[u],
         Using(w)' => Fits(events', r, worker'[w].current),
         client' = client,
         \A m \in Message : FitsMessage(events', r, messages'[m])
  PROVE  Verdict(r)'
<1>1. \A u \in Worker \ {w} : Using(u)' => Fits(events', r, worker'[u].current)
  BY FitsStays DEF Verdict, Using
<1>2. \A c \in Client : Fits(events', r, client'[c].seen)
  BY FitsStays DEF Verdict
<1> QED
  BY <1>1, <1>2 DEF Verdict

\* A step that saves w's copy, or what became of it, with no failure in it.
LEMMA VerdictSave ==
  ASSUME TypeInv, NEW r, Verdict(r), NEW w \in Worker, Using(w),
         NEW v \in Version, v.attempt = worker[w].current.attempt,
         v.resume = worker[w].current.resume,
         NEW evs, Save(w, v, evs),
         NEW k, worker' = [worker EXCEPT ![w] = k],
         k.current = v \/ k.current = worker[w].current
  PROVE  Verdict(r)'
<1>1. events \subseteq events' /\ version' \in {version, v} /\ UNCHANGED <<messages, client>>
  BY DEF Save
<1>2. Fits(events, r, worker[w].current)
  BY DEF Verdict
<1>3. Fits(events, r, v)
  BY <1>2 DEF Fits
<1>4. worker'[w] = k /\ \A u \in Worker \ {w} : worker'[u] = worker[u]
  BY DEF TypeInv, TypeOK
<1>5. Fits(events', r, version') /\ Fits(events', r, k.current)
  BY <1>1, <1>2, <1>3, FitsStays DEF Verdict
<1>6. \A m \in Message : FitsMessage(events', r, messages'[m])
  BY <1>1, FitsStays DEF Verdict
<1> QED
  BY <1>1, <1>4, <1>5, <1>6, VerdictAround

\* A failure gives its attempt a verdict, unless the attempt has one.
LEMMA VerdictFailure ==
  ASSUME TypeInv, NEW r, Verdict(r), NEW w \in Worker, Using(w),
         NEW o \in Operation \cup {"no"},
         Save(w, Failed(worker[w].current, o), {<<"FAILED", Failed(worker[w].current, o).attempt>>}),
         \A u \in Worker \ {w} : worker'[u] = worker[u],
         ~Using(w)'
  PROVE  \E q : Verdict(q)'
<1> DEFINE v == Failed(worker[w].current, o)
<1>1. worker[w].current \in Version
  BY DEF TypeInv, TypeOK, Consumer
<1>a. PICK a \in Nat : a = worker[w].current.attempt + 1
  BY <1>1, VersionFields
<1>2. v \in Version /\ v.attempt = a /\ v.resume = o /\ a \in Nat /\ a > 0
  <2>1. v \in Version
    BY <1>1, VersionUpdates
  <2>2. v.attempt = a /\ v.resume = o
    BY <1>1, <1>a DEF Failed, Version
  <2>3. a \in Nat /\ a > 0
    BY <1>1, <1>a, VersionFields
  <2> QED
    BY <2>1, <2>2, <2>3
<1> HIDE DEF v
<1>3. /\ version' = IF Replayed({<<"FAILED", a>>}) THEN version ELSE v
      /\ events' = events \cup {<<"FAILED", a>>}
      /\ UNCHANGED <<messages, client>>
  BY <1>2 DEF Save, v
<1>4. CASE <<"FAILED", a>> \in events
  <2>1. version' = version /\ events' = events
    BY <1>3, <1>4 DEF Replayed
  <2>2. Verdict(r)'
    BY <1>3, <2>1, VerdictAround DEF Verdict
  <2> QED
    BY <2>2
<1>5. CASE <<"FAILED", a>> \notin events
  <2> DEFINE q == [r EXCEPT ![a] = o]
  <2>1. /\ q \in [Nat -> Operation \cup {"no"}] /\ q[0] = "no" /\ q[a] = o
        /\ \A u \in Version : Fits(events, r, u) => Fits(events, q, u)
        /\ \A d \in Delivery : FitsMessage(events, r, d) => FitsMessage(events, q, d)
    <3>1. r \in [Nat -> Operation \cup {"no"}] /\ r[0] = "no"
      BY DEF Verdict
    <3>2. /\ \A u \in Version : Fits(events, r, u) => Fits(events, q, u)
          /\ \A d \in Delivery : FitsMessage(events, r, d) => FitsMessage(events, q, d)
      BY <1>2, <1>5, <3>1, FitsNew
    <3>3. q \in [Nat -> Operation \cup {"no"}] /\ q[0] = "no" /\ q[a] = o
      BY <1>2, <3>1
    <3> QED
      BY <3>2, <3>3
  <2> HIDE DEF q
  <2>2. /\ version \in Version /\ messages \in [Message -> Delivery]
        /\ \A u \in Worker : worker[u].current \in Version
        /\ \A c \in Client : client[c].seen \in Version
    BY DEF TypeInv, TypeOK, Consumer, Request
  <2>3. Verdict(q)
    BY <2>1, <2>2 DEF Verdict
  <2>4. Fits(events', q, version')
    <3>1. version' = v
      BY <1>3, <1>5 DEF Replayed
    <3> QED
      BY <1>2, <1>3, <2>1, <3>1 DEF Fits
  <2>5. \A m \in Message : FitsMessage(events', q, messages'[m])
    BY <1>3, <2>3, FitsStays DEF Verdict
  <2>6. events \subseteq events' /\ client' = client
    BY <1>3
  <2>7. Verdict(q)'
    BY <2>3, <2>4, <2>5, <2>6, VerdictAround
  <2> QED
    BY <2>7
<1> QED
  BY <1>4, <1>5

LEMMA InitialVerdict == Init => Decided
<1> SUFFICES ASSUME Init PROVE \E r : Verdict(r)
  BY InitialType DEF Decided
<1> DEFINE r == [a \in Nat |-> "no"]
<1>1. r \in [Nat -> Operation \cup {"no"}] /\ r[0] = "no"
  OBVIOUS
<1>2. Fits({}, r, Unset)
  BY DEF Fits, Unset
<1> HIDE DEF r
<1>3. \A m \in Message : FitsMessage({}, r, messages[m])
  BY DEF Init, FitsMessage, Unsent
<1>4. (\A w \in Worker : worker[w].current = Unset) /\ (\A c \in Client : client[c].seen = Unset)
  BY DEF Init, Idle, Resting
<1> QED
  BY <1>1, <1>2, <1>3, <1>4 DEF Verdict, Init

\* Idle and Resting carry the version nothing has happened to.
LEMMA FitsUnset ==
  ASSUME NEW r, Verdict(r), NEW log
  PROVE  Fits(log, r, Idle.current) /\ Fits(log, r, Resting.seen)
  BY DEF Verdict, Fits, Idle, Resting, Unset

LEMMA WorkerVerdict ==
  ASSUME TypeInv, NEW r, Verdict(r), NEW w \in Worker, WorkerStep(w)
  PROVE  \E q : Verdict(q)'
<1> DEFINE k == worker[w]
<1>0. /\ worker \in [Worker -> Consumer] /\ messages \in [Message -> Delivery]
      /\ k \in Consumer /\ k.current \in Version /\ k.msg \in Message
      /\ (Using(w) => Fits(events, r, k.current))
  BY DEF TypeInv, TypeOK, Consumer, Verdict
\* Steps that write neither the version nor the log.
<1>1. ASSUME UNCHANGED <<version, events, client, messages>>,
             NEW n, worker' = [worker EXCEPT ![w] = n],
             \/ Fits(events, r, n.current)
             \/ n.pc \in {"finished", "completing", "releasing", "deleting"}
      PROVE  \E q : Verdict(q)'
  <2>1. worker'[w] = n /\ \A u \in Worker \ {w} : worker'[u] = worker[u]
    BY <1>0, <1>1
  <2>2. Verdict(r)'
    BY <1>1, <2>1, VerdictAround DEF Verdict, Using
  <2> QED
    BY <2>2
<1>2. ASSUME UNCHANGED <<version, events, client, messages>>, Abandon(w)
      PROVE  \E q : Verdict(q)'
  BY <1>1, <1>2, FitsUnset DEF Abandon
<1>3. ASSUME UNCHANGED <<version, events, client, messages>>, NEW l, Goto(w, l),
             Using(w) \/ l \in {"finished", "completing", "releasing", "deleting"}
      PROVE  \E q : Verdict(q)'
  <2>1. worker' = [worker EXCEPT ![w] = [k EXCEPT !.pc = l]]
    BY <1>3 DEF Goto
  <2>2. [k EXCEPT !.pc = l].pc = l /\ [k EXCEPT !.pc = l].current = k.current
    BY <1>0 DEF Consumer
  <2> QED
    BY <1>0, <1>1, <1>3, <2>1, <2>2
<1>4. ASSUME NEW m \in Message, Receive(w, m)
      PROVE  \E q : Verdict(q)'
  <2>1. \A u \in Worker \ {w} : worker'[u] = worker[u]
    BY <1>0, <1>4 DEF Receive
  <2>2. worker'[w].current = Idle.current
    BY <1>0, <1>4 DEF Receive, Idle
  <2>3. \A n \in Message : /\ messages'[n].state = messages[n].state
                           /\ messages'[n].job = messages[n].job
                           /\ messages'[n].op = messages[n].op
    BY <1>0, <1>4 DEF Receive, Delivery
  <2>4. \A n \in Message : FitsMessage(events', r, messages'[n])
    BY <1>4, <2>3 DEF Receive, Verdict, FitsMessage
  <2>5. UNCHANGED <<version, events, client>>
    BY <1>4 DEF Receive
  <2>6. Verdict(r)'
    BY <2>1, <2>2, <2>4, <2>5, FitsUnset, VerdictAround DEF Verdict
  <2> QED
    BY <2>6
<1>5. CASE LoadVersion(w)
  <2>1. UNCHANGED <<version, events, client, messages>>
    BY <1>5 DEF LoadVersion
  <2>2. CASE Goto(w, "deleting")
    BY <1>3, <2>1, <2>2
  <2>3. CASE worker' = [worker EXCEPT ![w] = [k EXCEPT !.pc = "loaded", !.current = version,
                                                       !.starting = version.status]]
    <3>1. [k EXCEPT !.pc = "loaded", !.current = version, !.starting = version.status].current = version
      BY <1>0 DEF Consumer
    <3>2. Fits(events, r, version)
      BY DEF Verdict
    <3> QED
      BY <1>1, <2>1, <2>3, <3>1, <3>2
  <2> QED
    BY <1>5, <2>2, <2>3 DEF LoadVersion
<1>6. CASE AcquireLease(w) \/ Complete(w) \/ Release(w)
  <2>1. UNCHANGED <<version, events, client, messages>>
    BY <1>6 DEF AcquireLease, Complete, Release
  <2>2. \/ Abandon(w)
        \/ Goto(w, "deleting")
        \/ Goto(w, "acquired") /\ Using(w)
    BY <1>6 DEF AcquireLease, Complete, Release, Using, At
  <2> QED
    BY <1>2, <1>3, <2>1, <2>2
<1>7. CASE Revalidate(w) \/ StartPackage(w) \/ FinishPackage(w) \/ FailPackage(w)
  <2>1. UNCHANGED <<version, events, client, messages>> /\ Using(w)
    BY <1>7 DEF Revalidate, StartPackage, FinishPackage, FailPackage, Using, At
  <2>2. \E l : Goto(w, l)
    BY <1>7 DEF Revalidate, StartPackage, FinishPackage, FailPackage
  <2> QED
    BY <1>3, <2>1, <2>2
\* Steps that change other fields of w's record than its copy.
<1>8. ASSUME UNCHANGED <<version, events, client, messages>>,
             NEW n, worker' = [worker EXCEPT ![w] = n], n.current = k.current,
             \/ Using(w)
             \/ n.pc \in {"finished", "completing", "releasing", "deleting"}
      PROVE  \E q : Verdict(q)'
  BY <1>0, <1>1, <1>8
<1>9. CASE ReadLockVersion(w)
  <2>1. PICK l : worker' = [worker EXCEPT ![w] = [k EXCEPT !.held = lock, !.pc = l]]
    BY <1>9 DEF ReadLockVersion
  <2>2. [k EXCEPT !.held = lock, !.pc = l].current = k.current
    BY <1>0 DEF Consumer
  <2>3. UNCHANGED <<version, events, client, messages>> /\ Using(w)
    BY <1>9 DEF ReadLockVersion, Using, At
  <2> QED
    BY <1>8, <2>1, <2>2, <2>3
<1>10. CASE CheckCompleted(w)
  <2>1. UNCHANGED <<version, events, client, messages>> /\ Using(w)
    BY <1>10 DEF CheckCompleted, Using, At
  <2>2. CASE Goto(w, "releasing")
    BY <1>3, <2>1, <2>2
  <2>3. ASSUME NEW l, worker' = [worker EXCEPT ![w] = [k EXCEPT !.beat = "on", !.pc = l]]
        PROVE  \E q : Verdict(q)'
    <3>1. [k EXCEPT !.beat = "on", !.pc = l].current = k.current
      BY <1>0 DEF Consumer
    <3> QED
      BY <1>8, <2>1, <2>3, <3>1
  <2> QED
    BY <1>10, <2>2, <2>3 DEF CheckCompleted
<1>11. CASE Heartbeat(w) \/ HeartbeatReply(w) \/ HeartbeatUnavailable(w)
  <2>1. UNCHANGED <<version, events, client, messages>>
    BY <1>11 DEF Heartbeat, HeartbeatReply, HeartbeatUnavailable
  <2>2. PICK n : worker' = [worker EXCEPT ![w] = n] /\ n.current = k.current /\ n.pc = k.pc
    <3>1. \A b : [k EXCEPT !.beat = b].current = k.current /\ [k EXCEPT !.beat = b].pc = k.pc
      BY <1>0 DEF Consumer
    <3>2. CASE worker' = worker
      <4>1. worker' = [worker EXCEPT ![w] = k]
        BY <1>0, <3>2
      <4> QED
        BY <4>1
    <3>3. CASE worker' = [worker EXCEPT ![w] = [k EXCEPT !.beat = "sent"]]
      BY <3>1, <3>3
    <3>4. CASE worker' = [worker EXCEPT ![w] = [k EXCEPT !.beat = "lost"]]
      BY <3>1, <3>4
    <3>5. CASE HeartbeatReply(w)
      <4>1. worker' = [worker EXCEPT ![w] = [k EXCEPT !.beat = "on", !.held = k.held + 1]]
        BY <3>5 DEF HeartbeatReply
      <4>2. /\ [k EXCEPT !.beat = "on", !.held = k.held + 1].current = k.current
            /\ [k EXCEPT !.beat = "on", !.held = k.held + 1].pc = k.pc
        BY <1>0 DEF Consumer
      <4> QED
        BY <4>1, <4>2
    <3> QED
      BY <1>11, <3>2, <3>3, <3>4, <3>5 DEF Heartbeat, HeartbeatUnavailable
  <2> QED
    BY <1>8, <2>1, <2>2 DEF Using
<1>12. CASE LoseLease(w) \/ Uncertain(w) \/ Crash(w)
  BY <1>2, <1>12 DEF LoseLease, Uncertain, Crash
<1>13. CASE StopHeartbeat(w)
  <2>1. UNCHANGED <<version, events, client, messages>>
    BY <1>13 DEF StopHeartbeat
  <2>2. CASE Abandon(w)
    BY <1>2, <2>1, <2>2
  <2>3. CASE worker' = [worker EXCEPT ![w] = [k EXCEPT !.pc = "completing", !.beat = "off"]]
    <3>1. /\ [k EXCEPT !.pc = "completing", !.beat = "off"].current = k.current
          /\ [k EXCEPT !.pc = "completing", !.beat = "off"].pc = "completing"
      BY <1>0 DEF Consumer
    <3> QED
      BY <1>8, <2>1, <2>3, <3>1
  <2> QED
    BY <1>13, <2>2, <2>3 DEF StopHeartbeat
<1>14. CASE Delete(w)
  <2>1. UNCHANGED <<version, events, client>>
    BY <1>14 DEF Delete
  <2>2. \A n \in Message : /\ messages'[n].state = "unsent" <=> messages[n].state = "unsent"
                           /\ messages'[n].job = messages[n].job
                           /\ messages'[n].op = messages[n].op
    BY <1>0, <1>14 DEF Delete, Delivery
  <2>3. \A n \in Message : FitsMessage(events', r, messages'[n])
    BY <2>1, <2>2 DEF Verdict, FitsMessage
  <2>4. worker'[w] = Idle /\ \A u \in Worker \ {w} : worker'[u] = worker[u]
    BY <1>0, <1>14 DEF Delete, Abandon
  <2>5. Verdict(r)'
    BY <2>1, <2>3, <2>4, FitsUnset, VerdictAround DEF Verdict
  <2> QED
    BY <2>5
\* Steps that save.
<1>15. CASE SaveChunk(w)
  <2>1. PICK l : worker' = [worker EXCEPT ![w] = [k EXCEPT !.pc = l]]
    BY <1>15 DEF SaveChunk, Goto
  <2>2. [k EXCEPT !.pc = l].current = k.current
    BY <1>0 DEF Consumer
  <2>3. Save(w, k.current, {}) /\ Using(w)
    BY <1>15 DEF SaveChunk, Using
  <2> QED
    BY <1>0, <2>1, <2>2, <2>3, VerdictSave
<1>16. ASSUME SaveReview(w) \/ SaveFinal(w)
       PROVE  \E q : Verdict(q)'
  <2>0. PICK s \in Status : \E evs :
          /\ Save(w, [k.current EXCEPT !.status = s], evs)
          /\ \E n : worker' = [worker EXCEPT ![w] = n] /\ n.current = [k.current EXCEPT !.status = s]
    BY <1>0, <1>16 DEF SaveReview, SaveFinal, Consumer, Status
  <2>1. PICK evs :
          /\ Save(w, [k.current EXCEPT !.status = s], evs)
          /\ \E n : worker' = [worker EXCEPT ![w] = n] /\ n.current = [k.current EXCEPT !.status = s]
    BY <2>0
  <2>2. Using(w)
    BY <1>16 DEF SaveReview, SaveFinal, Using, At
  <2> DEFINE v == [k.current EXCEPT !.status = s]
  <2>3. v \in Version /\ v.attempt = k.current.attempt /\ v.resume = k.current.resume
    BY <1>0, VersionUpdates DEF Version
  <2> HIDE DEF v
  <2>4. Save(w, v, evs) /\ \E n : worker' = [worker EXCEPT ![w] = n] /\ n.current = v
    BY <2>1 DEF v
  <2> QED
    BY <2>2, <2>3, <2>4, VerdictSave
<1>17. CASE RecordFailure(w)
  <2>1. ResumeChoices(w) \subseteq Operation \cup {"no"}
    BY DEF ResumeChoices, ResumeAt, Operation
  <2>2. PICK o \in Operation \cup {"no"} :
          /\ Save(w, Failed(k.current, o), {<<"FAILED", Failed(k.current, o).attempt>>})
          /\ worker' = [worker EXCEPT ![w] =
                          [k EXCEPT !.pc = "finished", !.current = Failed(k.current, o)]]
    BY <1>17, <2>1 DEF RecordFailure
  <2>3. worker'[w].pc = "finished" /\ \A u \in Worker \ {w} : worker'[u] = worker[u]
    BY <1>0, <2>2 DEF Consumer
  <2>4. Using(w) /\ ~Using(w)'
    BY <1>17, <2>3 DEF RecordFailure, Using, Running
  <2> QED
    BY <2>2, <2>3, <2>4, VerdictFailure
<1>18. CASE FailExhausted(w)
  <2>1. Goto(w, "releasing") /\ Using(w)
    BY <1>18 DEF FailExhausted, Using, At
  <2>2. worker'[w].pc = "releasing" /\ \A u \in Worker \ {w} : worker'[u] = worker[u]
    BY <1>0, <2>1 DEF Goto, Consumer
  <2>3. CASE Save(w, Failed(k.current, "no"), {<<"FAILED", Failed(k.current, "no").attempt>>})
    BY <2>1, <2>2, <2>3, VerdictFailure DEF Using
  <2>4. CASE UNCHANGED <<version, events, client, messages>>
    BY <1>3, <2>1, <2>4
  <2> QED
    BY <1>18, <2>3, <2>4 DEF FailExhausted
<1> QED
  BY <1>4, <1>5, <1>6, <1>7, <1>9, <1>10, <1>11, <1>12, <1>13, <1>14, <1>15, <1>16, <1>17,
     <1>18 DEF WorkerStep

LEMMA ClientVerdict ==
  ASSUME TypeInv, NEW r, Verdict(r), NEW c \in Client, ClientStep(c)
  PROVE  Verdict(r)'
<1> DEFINE q == client[c]
<1>0. /\ client \in [Client -> Request] /\ version \in Version
      /\ messages \in [Message -> Delivery]
      /\ q.seen \in Version /\ Fits(events, r, q.seen)
  BY DEF TypeInv, TypeOK, Request, Verdict
<1>1. UNCHANGED worker /\ events \subseteq events'
  BY DEF ClientStep, Read, CommitCancel, CommitRetry, SubmitRetry, GiveUp
\* Every step leaves the version's attempt and verdict, and changes one request.
<1>2. ASSUME version'.attempt = version.attempt, version'.resume = version.resume,
             NEW n, client' = [client EXCEPT ![c] = n], Fits(events, r, n.seen),
             \A m \in Message : FitsMessage(events', r, messages'[m])
      PROVE  Verdict(r)'
  <2>1. Fits(events', r, version')
    BY <1>1, <1>2 DEF Fits, Verdict
  <2>2. \A d \in Client : Fits(events', r, client'[d].seen)
    BY <1>0, <1>1, <1>2, FitsStays DEF Verdict
  <2>3. \A w \in Worker : Using(w)' => Fits(events', r, worker'[w].current)
    BY <1>1, FitsStays DEF Verdict, Using
  <2> QED
    BY <1>2, <2>1, <2>2, <2>3 DEF Verdict
<1>3. messages' = messages => \A m \in Message : FitsMessage(events', r, messages'[m])
  BY <1>1, FitsStays DEF Verdict
<1>4. ASSUME NEW op \in Requests, Read(c, op)
      PROVE  Verdict(r)'
  <2> DEFINE n(pc) == [pc |-> pc, op |-> op, seen |-> version, lock |-> lock,
                       metaLock |-> meta.lock, metaSeq |-> meta.seq]
  <2>p. PICK pc : client' = [client EXCEPT ![c] = n(pc)]
    BY <1>4 DEF Read
  <2>1. n(pc).seen = version
    OBVIOUS
  <2>2. Fits(events, r, n(pc).seen)
    BY <2>1 DEF Verdict
  <2> QED
    BY <1>2, <1>3, <1>4, <2>p, <2>2 DEF Read
<1>5. CASE CommitCancel(c)
  <2>1. version'.attempt = version.attempt /\ version'.resume = version.resume
    BY <1>0, <1>5 DEF CommitCancel, Version
  <2>2. client' = [client EXCEPT ![c] = Resting] /\ messages' = messages
    BY <1>5 DEF CommitCancel
  <2> QED
    BY <1>2, <1>3, <2>1, <2>2, FitsUnset
<1>6. CASE CommitRetry(c)
  <2>1. version'.attempt = version.attempt /\ version'.resume = version.resume
    BY <1>0, <1>6 DEF CommitRetry, Version
  <2>2. client' = [client EXCEPT ![c] = [q EXCEPT !.pc = "submit"]] /\ messages' = messages
    BY <1>6 DEF CommitRetry
  <2>3. [q EXCEPT !.pc = "submit"].seen = q.seen
    BY <1>0 DEF Request
  <2> QED
    BY <1>0, <1>2, <1>3, <2>1, <2>2, <2>3
<1>7. ASSUME NEW m \in Message, SubmitRetry(c, m)
      PROVE  Verdict(r)'
  <2> DEFINE d == [state |-> "queued", job |-> q.seen.attempt, op |-> q.seen.resume, received |-> 0]
  <2>1. q.seen.resume \in Operation
    BY <1>7 DEF SubmitRetry, TypeInv, RequestsResume, SubmitIsRetry
  <2>2. q.seen.attempt # 0
    BY <1>0, <2>1 DEF Fits, Verdict, Operation
  <2>3. FitsMessage(events, r, d)
    BY <1>0, <2>2 DEF Fits, FitsMessage
  <2>4. messages' = [messages EXCEPT ![m] = d] /\ client' = [client EXCEPT ![c] = Resting]
        /\ version' = version /\ events' = events
    BY <1>7 DEF SubmitRetry
  <2> HIDE DEF d
  <2>5. \A n \in Message : FitsMessage(events', r, messages'[n])
    BY <1>0, <2>3, <2>4 DEF Verdict
  <2> QED
    BY <1>2, <2>4, <2>5, FitsUnset
<1>8. CASE GiveUp(c)
  BY <1>2, <1>3, <1>8, FitsUnset DEF GiveUp
<1> QED
  BY <1>4, <1>5, <1>6, <1>7, <1>8 DEF ClientStep

LEMMA StepVerdict == Decided /\ [Next]_vars => Decided'
<1> SUFFICES ASSUME TypeInv, NEW r, Verdict(r), [Next]_vars PROVE \E q : Verdict(q)'
  BY StepType DEF Decided
<1>1. ASSUME NEW w \in Worker, WorkerStep(w) PROVE \E q : Verdict(q)'
  BY <1>1, WorkerVerdict
<1>2. ASSUME NEW c \in Client, ClientStep(c) PROVE \E q : Verdict(q)'
  BY <1>2, ClientVerdict
<1>3. ASSUME NEW m \in Message, DeadLetter(m) PROVE \E q : Verdict(q)'
  <2>1. \A n \in Message : /\ messages'[n].state = "unsent" <=> messages[n].state = "unsent"
                           /\ messages'[n].job = messages[n].job
                           /\ messages'[n].op = messages[n].op
    BY <1>3 DEF DeadLetter, TypeInv, TypeOK, Delivery
  <2>2. UNCHANGED <<version, events, worker, client>>
    BY <1>3 DEF DeadLetter
  <2>3. Verdict(r)'
    BY <2>1, <2>2 DEF Verdict, FitsMessage, Using
  <2> QED
    BY <2>3
<1>4. CASE LeaseExpires \/ MarkQueued \/ UNCHANGED vars
  <2>1. UNCHANGED <<events, worker, client, messages>>
    BY <1>4 DEF LeaseExpires, MarkQueued, vars
  <2>2. version'.attempt = version.attempt /\ version'.resume = version.resume
    BY <1>4 DEF LeaseExpires, MarkQueued, vars, TypeInv, TypeOK, Version
  <2>3. Verdict(r)'
    BY <2>1, <2>2 DEF Verdict, Fits, Using
  <2> QED
    BY <2>3
<1> QED
  BY <1>1, <1>2, <1>3, <1>4 DEF Next

\* However many workers record a failure of the same attempt, from copies of any age,
\* all that is submitted under that attempt's job is one operation, and it is what
\* the version asks for.
THEOREM OneRetryPerFailureHolds == Spec => []OneRetryPerFailure
<1>1. ASSUME TypeInv, NEW r, Verdict(r)
      PROVE  OneRetryPerFailure
  <2>1. \A m \in Message : FitsMessage(events, r, messages[m]) /\ messages[m].job \in Nat
    BY <1>1 DEF Verdict, TypeInv, TypeOK, Delivery
  <2>2. Fits(events, r, version) /\ \A c \in Client : Fits(events, r, client[c].seen)
    BY <1>1 DEF Verdict
  <2>3. \A m, n \in Message : Sent(m) /\ Sent(n) /\ messages[m].job = messages[n].job
                                => messages[m].op = messages[n].op
    BY <2>1 DEF FitsMessage, Sent
  <2>4. \A m \in Message : Sent(m) /\ messages[m].job > 0 /\ messages[m].job = version.attempt
                             => messages[m].op = version.resume
    BY <2>1, <2>2 DEF FitsMessage, Fits, Sent
  <2>5. \A c \in Client : client[c].pc = "submit" /\ client[c].seen.attempt = version.attempt
                            => client[c].seen.resume = version.resume
    BY <2>2 DEF Fits
  <2> QED
    BY <2>3, <2>4, <2>5 DEF OneRetryPerFailure
<1>2. Decided => OneRetryPerFailure
  BY <1>1 DEF Decided
<1> QED
  BY <1>2, InitialVerdict, StepVerdict, PTL DEF Spec

==============================================================================
