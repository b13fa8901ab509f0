-------------------------- MODULE ConsumerLoopProofs --------------------------
(***************************************************************************)
(* For any number of consumers, messages and disturbances: nothing runs    *)
(* after a shutdown; where the application gives up before the queue does, *)
(* a job that is dead-lettered has a campaign that failed, unless a        *)
(* delivery that should have done it was cut off or refused the lease; and *)
(* at least every other delivery attempt is spent on work or on a          *)
(* disturbance, the others on the lease that such a one left behind.       *)
(***************************************************************************)
EXTENDS ConsumerLoop, SequenceTheorems, FiniteSetTheorems, TLAPS

\* What a delivery consists of, where it can be, and what a consumer is.
Deliveries == [message : Message, count : Nat]
Worked == {"load", "acquire", "check", "release", "work", "complete", "delete"}
Places == {"none", "parse", "record_invalid", "record_exhausted", "mark_failed"} \cup Worked
State == [loop : {"receive", "sleep", "batch", "ended"}, batch : Seq(Deliveries), pc : Places,
          backoff : 1..MaxBackoff, stopping : BOOLEAN, shutdown : {"no", "waiting", "returned"}]

\* A consumer holds deliveries in its batch loop only; a shutdown is one of a
\* loop that was told to stop; only a job within the application's bound is
\* worked on, and only a job is marked.
Fine(s) ==
    /\ Len(s.batch) <= BatchSize
    /\ s.loop # "batch" => s.batch = <<>>
    /\ s.pc # "none" => s.loop = "batch" /\ s.batch # <<>>
    /\ s.shutdown # "no" => s.stopping
    /\ s.shutdown = "returned" => s.pc = "none"
    /\ s.pc = "record_invalid" => Head(s.batch).message \in Junk
    /\ s.pc \in {"record_exhausted", "mark_failed"} \cup Worked => Head(s.batch).message \in Job
    /\ s.pc \in Worked => ~Exhausted(Head(s.batch))

Types ==
    /\ queue \in [Message -> {"visible", "hidden", "deleted", "dead"}]
    /\ received \in [Message -> 0..MaxReceiveCount]
    /\ version \in [Job -> {"open", "over", "completed"}]
    /\ lease \in [Job -> Consumer \cup {Former, None}]
    /\ outlived \subseteq Job
    /\ handled \in [Message -> Nat]
    /\ spoiled \subseteq Job
    /\ disturbances \in 0..MaxDisturbances

Loops == consumer \in [Consumer -> State] /\ \A c \in Consumer : Fine(consumer[c])

\* A delivery that is to fail the campaign of job m is in some consumer's hands.
Due(m) ==
    \E c \in Consumer : \E i \in DOMAIN consumer[c].batch :
        consumer[c].batch[i].message = m /\ Exhausted(consumer[c].batch[i])

\* A job received more often than the application allows has an outcome, or
\* waits for one, or its chance was spoiled.
Settled ==
    \A m \in Job : received[m] > MaxDeliveryAttempts /\ version[m] = "open" => m \in spoiled \/ Due(m)

\* The queue gives up only what it has delivered often enough.
Buried == \A m \in Message : queue[m] = "dead" => received[m] = MaxReceiveCount

IInv == Types /\ Loops /\ Settled /\ Buried

-----------------------------------------------------------------------------
LEMMA Constants ==
    /\ BatchSize \in Nat \ {0} /\ MaxDeliveryAttempts \in Nat \ {0} /\ MaxBackoff \in Nat \ {0}
    /\ MaxReceiveCount \in Nat /\ MaxDisturbances \in Nat
    /\ Job \subseteq Message /\ Junk \subseteq Message /\ Message = Job \cup Junk
    /\ Job \cap Junk = {}
  BY ConsumerLoopAssumption DEF Message

\* The rest of a batch is the batch without its first delivery.
LEMMA Rest ==
  ASSUME NEW s \in Seq(Deliveries), s # <<>>
  PROVE  /\ Tail(s) \in Seq(Deliveries)
         /\ Len(Tail(s)) = Len(s) - 1
         /\ Len(s) \in Nat \ {0}
         /\ Head(s) = s[1]
         /\ Head(s) \in Deliveries
         /\ DOMAIN s = 1..Len(s)
         /\ DOMAIN Tail(s) = 1..(Len(s) - 1)
         /\ \A i \in 1..(Len(s) - 1) : Tail(s)[i] = s[i + 1]
  BY HeadTailProperties, LenProperties, EmptySeq, SMT

LEMMA EmptyLength == Len(<<>>) = 0 /\ <<>> \in Seq(Deliveries)
  BY EmptySeq

LEMMA RunningFine ==
  Running \in State /\ Fine(Running) /\ Running.batch = <<>>
<1>1. Running.loop = "receive" /\ Running.batch = <<>> /\ Running.pc = "none" /\ Running.shutdown = "no"
  BY DEF Running
<1>2. Running \in State
  BY Constants, EmptyLength DEF Running, State, Places
<1>3. Fine(Running)
  BY <1>1, EmptyLength, Constants DEF Fine, Worked
<1> QED
  BY <1>1, <1>2, <1>3

LEMMA InitIInv == Init => IInv
<1> SUFFICES ASSUME Init PROVE IInv
  OBVIOUS
<1>1. \A c \in Consumer : consumer[c] = Running
  BY DEF Init
<1>2. Loops
  <2>1. consumer \in [Consumer -> State]
    BY RunningFine DEF Init
  <2> QED
    BY <1>1, <2>1, RunningFine DEF Loops
<1>3. Types
  BY Constants DEF Init, Types
<1>4. Settled /\ Buried
  BY Constants DEF Init, Settled, Buried
<1> QED
  BY <1>2, <1>3, <1>4 DEF IInv

\* The invariant has the types the runs check.
LEMMA InvTypes == IInv => TypeOK
<1> SUFFICES ASSUME IInv PROVE TypeOK
  OBVIOUS
<1>1. ASSUME NEW c \in Consumer
      PROVE  /\ consumer[c].loop \in {"receive", "sleep", "batch", "ended"}
             /\ consumer[c].pc # "none" => consumer[c].loop = "batch" /\ consumer[c].batch # <<>>
             /\ consumer[c].backoff \in 1..MaxBackoff
             /\ consumer[c].stopping \in BOOLEAN
             /\ consumer[c].shutdown \in {"no", "waiting", "returned"}
  <2>1. consumer[c] \in State /\ Fine(consumer[c])
    BY DEF IInv, Loops
  <2> QED
    BY <2>1 DEF State, Fine
<1> QED
  BY <1>1 DEF IInv, Types, TypeOK

-----------------------------------------------------------------------------
(* What an action does to the consumer that takes it.                      *)

\* The consumer's record is replaced, and nobody else's.
LEMMA Change ==
  ASSUME Loops, NEW c \in Consumer, NEW s \in State, Fine(s), consumer' = [consumer EXCEPT ![c] = s]
  PROVE  Loops' /\ consumer'[c] = s /\ \A d \in Consumer \ {c} : consumer'[d] = consumer[d]
  BY DEF Loops

\* The delivery in hand is the first of the batch.
LEMMA InHand ==
  ASSUME Loops, NEW c \in Consumer, consumer[c].pc # "none"
  PROVE  /\ consumer[c] \in State /\ Fine(consumer[c]) /\ consumer[c].loop = "batch"
         /\ consumer[c].batch \in Seq(Deliveries) /\ consumer[c].batch # <<>>
         /\ Delivery(c) = consumer[c].batch[1] /\ Delivery(c) = Head(consumer[c].batch)
         /\ Delivery(c) \in Deliveries
         /\ Active(c) = Head(consumer[c].batch).message
         /\ Active(c) \in Message
         /\ consumer[c].shutdown # "returned"
<1>1. consumer[c] \in State /\ Fine(consumer[c])
  BY DEF Loops
<1>2. consumer[c].batch \in Seq(Deliveries) /\ consumer[c].batch # <<>> /\ consumer[c].loop = "batch"
      /\ consumer[c].shutdown # "returned"
  BY <1>1 DEF State, Fine
<1>3. Delivery(c) \in Deliveries /\ Delivery(c) = consumer[c].batch[1]
  BY <1>2, Rest DEF Delivery
<1> QED
  BY <1>1, <1>2, <1>3 DEF Active, Delivery, Deliveries

\* The delivery goes on.
LEMMA GotoMoves ==
  ASSUME Loops, NEW c \in Consumer, NEW pc \in Places, Goto(c, pc),
         consumer[c].pc # "none",
         pc = "record_invalid" => Active(c) \in Junk,
         pc \in {"record_exhausted", "mark_failed"} \cup Worked => Active(c) \in Job,
         pc \in Worked => ~Exhausted(Delivery(c))
  PROVE  Loops' /\ \A m \in Job : Due(m) => Due(m)'
<1> DEFINE s == [consumer[c] EXCEPT !.pc = pc]
<1>1. consumer' = [consumer EXCEPT ![c] = s]
  BY DEF Goto
<1>2. s \in State /\ s.batch = consumer[c].batch
  BY InHand DEF State
<1>3. Fine(s)
  <2>1. s.loop = consumer[c].loop /\ s.pc = pc /\ s.shutdown = consumer[c].shutdown /\ s.stopping = consumer[c].stopping
    BY InHand DEF State
  <2> HIDE DEF s
  <2> QED
    BY <1>2, <2>1, InHand DEF Fine
<1> HIDE DEF s
<1>4. Loops' /\ consumer'[c] = s /\ \A d \in Consumer \ {c} : consumer'[d] = consumer[d]
  BY <1>1, <1>2, <1>3, Change
<1>5. \A d \in Consumer : consumer'[d].batch = consumer[d].batch
  BY <1>2, <1>4
<1> QED
  BY <1>4, <1>5 DEF Due, Exhausted

LEMMA WorkMoves ==
  ASSUME Loops, NEW c \in Consumer, consumer[c].pc \in Worked, NEW pc \in Worked, Goto(c, pc)
  PROVE  Loops' /\ \A m \in Job : Due(m) => Due(m)'
<1>1. consumer[c].pc # "none"
  BY DEF Worked
<1>2. Active(c) \in Job /\ ~Exhausted(Delivery(c)) /\ pc \in Places /\ pc # "record_invalid"
  BY <1>1, InHand DEF Fine, Places, Worked
<1> QED
  BY <1>1, <1>2, GotoMoves

\* The delivery ends.
LEMMA EndMoves ==
  ASSUME Loops, NEW c \in Consumer, consumer[c].pc # "none", EndDelivery(c)
  PROVE  /\ Loops'
         /\ consumer'[c].batch = Tail(consumer[c].batch)
         /\ \A d \in Consumer \ {c} : consumer'[d] = consumer[d]
<1> DEFINE s == [consumer[c] EXCEPT !.pc = "none", !.batch = Tail(consumer[c].batch)]
<1>1. Tail(consumer[c].batch) \in Seq(Deliveries) /\ Len(Tail(consumer[c].batch)) <= BatchSize
  <2>1. Len(consumer[c].batch) <= BatchSize
    BY InHand DEF Fine
  <2> QED
    BY <2>1, InHand, Rest, Constants
<1>2. s \in State /\ s.batch = Tail(consumer[c].batch) /\ s.pc = "none" /\ s.loop = "batch"
      /\ s.shutdown = consumer[c].shutdown /\ s.stopping = consumer[c].stopping
  BY <1>1, InHand DEF State, Places
<1>3. consumer' = [consumer EXCEPT ![c] = s]
  BY DEF EndDelivery
<1> HIDE DEF s
<1>4. Fine(s)
  BY <1>1, <1>2, InHand DEF Fine, Worked
<1> QED
  BY <1>2, <1>3, <1>4, Change

\* The loop ends, here or in a moment.
LEMMA EndedFine ==
  ASSUME Loops, NEW c \in Consumer
  PROVE  /\ Ended(c) \in State /\ Fine(Ended(c))
         /\ Ended(c).batch = <<>> /\ Ended(c).pc = "none"
         /\ Ended(c).stopping = consumer[c].stopping /\ Ended(c).shutdown = consumer[c].shutdown
<1>1. consumer[c] \in State /\ Fine(consumer[c])
  BY DEF Loops
<1>2. Ended(c) \in State /\ Ended(c).batch = <<>> /\ Ended(c).pc = "none"
      /\ Ended(c).stopping = consumer[c].stopping /\ Ended(c).shutdown = consumer[c].shutdown
  BY <1>1, EmptyLength DEF State, Ended, Places
<1> QED
  BY <1>1, <1>2, EmptyLength, Constants DEF Fine, Worked

\* When a delivery ends, only that delivery is no longer due.
LEMMA StillDue ==
  ASSUME Loops, NEW c \in Consumer, consumer[c].pc # "none", EndDelivery(c),
         NEW m \in Job, Due(m), ~(Active(c) = m /\ Exhausted(Delivery(c)))
  PROVE  Due(m)'
<1>1. PICK d \in Consumer : \E i \in DOMAIN consumer[d].batch :
          consumer[d].batch[i].message = m /\ Exhausted(consumer[d].batch[i])
  BY DEF Due
<1>2. CASE d # c
  <2>1. consumer'[d] = consumer[d]
    BY <1>2, EndMoves
  <2> QED
    BY <1>1, <2>1 DEF Due, Exhausted
<1>3. CASE d = c
  <2> DEFINE batch == consumer[c].batch
  <2>0. PICK i \in DOMAIN batch : batch[i].message = m /\ Exhausted(batch[i])
    BY <1>1, <1>3
  <2>1. batch \in Seq(Deliveries) /\ batch # <<>> /\ Delivery(c) = batch[1]
    BY InHand
  <2>2. i # 1
    BY <2>0, <2>1 DEF Active
  <2>3. i \in 1..Len(batch) /\ Len(batch) \in Nat
    BY <2>0, <2>1, Rest
  <2>4. i - 1 \in 1..(Len(batch) - 1)
    BY <2>2, <2>3
  <2>5. i - 1 \in DOMAIN Tail(batch) /\ Tail(batch)[i - 1] = batch[i]
    <3>1. Tail(batch)[i - 1] = batch[(i - 1) + 1]
      BY <2>1, <2>4, Rest
    <3> QED
      BY <2>1, <2>3, <2>4, <3>1, Rest
  <2>6. consumer'[c].batch = Tail(batch)
    BY EndMoves
  <2> QED
    BY <2>0, <2>5, <2>6 DEF Due, Exhausted
<1> QED
  BY <1>2, <1>3

\* What is dropped was due, and is spoiled.
LEMMA DropSpoils ==
  ASSUME NEW c \in Consumer, Drop(consumer[c].batch),
         \A d \in Consumer \ {c} : consumer'[d] = consumer[d]
  PROVE  spoiled \subseteq spoiled' /\ \A m \in Job : Due(m) => m \in spoiled' \/ Due(m)'
<1> SUFFICES ASSUME NEW m \in Job, Due(m), m \notin spoiled' PROVE Due(m)'
  BY DEF Drop
<1>1. PICK d \in Consumer : \E i \in DOMAIN consumer[d].batch :
          consumer[d].batch[i].message = m /\ Exhausted(consumer[d].batch[i])
  BY DEF Due
<1>2. d # c
  BY <1>1 DEF Drop
<1> QED
  BY <1>1, <1>2 DEF Due, Exhausted

\* Who holds no delivery has none to lose.
LEMMA NothingDue ==
  ASSUME NEW c \in Consumer, consumer[c].batch = <<>>,
         \A d \in Consumer \ {c} : consumer'[d] = consumer[d]
  PROVE  \A m \in Job : Due(m) => Due(m)'
<1> SUFFICES ASSUME NEW m \in Job, Due(m) PROVE Due(m)'
  OBVIOUS
<1>1. PICK d \in Consumer : \E i \in DOMAIN consumer[d].batch :
          consumer[d].batch[i].message = m /\ Exhausted(consumer[d].batch[i])
  BY DEF Due
<1>2. d # c
  BY <1>1
<1> QED
  BY <1>1, <1>2 DEF Due, Exhausted

\* Nothing is received, what was due is due still, or spoiled.
LEMMA StaySettled ==
  ASSUME Settled, received' = received, spoiled \subseteq spoiled',
         \A m \in Job : version'[m] = "open" => version[m] = "open",
         \A m \in Job : Due(m) => m \in spoiled' \/ Due(m)'
  PROVE  Settled'
  BY DEF Settled

\* A delivery that ends takes its chance with it, or leaves it to others.
LEMMA EndSettles ==
  ASSUME Loops, Settled, NEW c \in Consumer, consumer[c].pc # "none", EndDelivery(c), received' = received,
         spoiled \subseteq spoiled', \A m \in Job : version'[m] = "open" => version[m] = "open",
         ~(Active(c) \in Job /\ Exhausted(Delivery(c)) /\ version'[Active(c)] = "open" /\ Active(c) \notin spoiled')
  PROVE  Settled'
<1> SUFFICES ASSUME NEW m \in Job, received[m] > MaxDeliveryAttempts, version'[m] = "open", m \notin spoiled'
             PROVE Due(m)'
  BY DEF Settled
<1>1. Due(m)
  BY DEF Settled
<1> QED
  BY <1>1, StillDue

LEMMA StayBuried ==
  ASSUME Buried, received' = received, \A m \in Message : queue'[m] = "dead" => queue[m] = "dead"
  PROVE  Buried'
  BY DEF Buried

-----------------------------------------------------------------------------
(* One lemma per action.                                                   *)

LEMMA ReceiveStep ==
  ASSUME IInv, NEW c \in Consumer, Receive(c)
  PROVE  IInv'
<1>1. Loops /\ Types /\ Settled /\ Buried
  BY DEF IInv
<1>2. consumer[c] \in State /\ Fine(consumer[c]) /\ consumer[c].loop = "receive" /\ consumer[c].batch = <<>>
      /\ consumer[c].pc = "none"
  BY <1>1 DEF Loops, Receive, Fine
<1>3. PICK n \in 1..BatchSize : \E batch \in [1..n -> Message] :
          /\ \A i \in 1..n : queue[batch[i]] = "visible" /\ received[batch[i]] < MaxReceiveCount
          /\ received' = [m \in Message |-> IF \E i \in 1..n : batch[i] = m THEN received[m] + 1 ELSE received[m]]
          /\ queue' = [m \in Message |-> IF \E i \in 1..n : batch[i] = m THEN "hidden" ELSE queue[m]]
          /\ consumer' = [consumer EXCEPT
                ![c] = [@ EXCEPT !.loop = "batch", !.backoff = 1,
                                 !.batch = [i \in 1..n |-> [message |-> batch[i], count |-> received'[batch[i]]]]]]
  BY DEF Receive
<1>4. PICK batch \in [1..n -> Message] :
          /\ \A i \in 1..n : queue[batch[i]] = "visible" /\ received[batch[i]] < MaxReceiveCount
          /\ received' = [m \in Message |-> IF \E i \in 1..n : batch[i] = m THEN received[m] + 1 ELSE received[m]]
          /\ queue' = [m \in Message |-> IF \E i \in 1..n : batch[i] = m THEN "hidden" ELSE queue[m]]
          /\ consumer' = [consumer EXCEPT
                ![c] = [@ EXCEPT !.loop = "batch", !.backoff = 1,
                                 !.batch = [i \in 1..n |-> [message |-> batch[i], count |-> received'[batch[i]]]]]]
  BY <1>3
<1> DEFINE taken == [i \in 1..n |-> [message |-> batch[i], count |-> received'[batch[i]]]]
           s == [consumer[c] EXCEPT !.loop = "batch", !.backoff = 1, !.batch = taken]
<1>5. received' \in [Message -> 0..MaxReceiveCount]
  <2>1. ASSUME NEW m \in Message
        PROVE  (IF \E i \in 1..n : batch[i] = m THEN received[m] + 1 ELSE received[m]) \in 0..MaxReceiveCount
    <3>1. received[m] \in 0..MaxReceiveCount /\ MaxReceiveCount \in Nat
      BY <1>1, Constants DEF Types
    <3>2. CASE \E i \in 1..n : batch[i] = m
      BY <1>4, <3>1, <3>2
    <3>3. CASE ~\E i \in 1..n : batch[i] = m
      BY <3>1, <3>3
    <3> QED
      BY <3>2, <3>3
  <2> QED
    BY <1>4, <2>1
<1>6. Types'
  <2>1. queue' \in [Message -> {"visible", "hidden", "deleted", "dead"}]
    BY <1>1, <1>4 DEF Types
  <2>2. UNCHANGED <<version, lease, outlived, handled, spoiled, disturbances>>
    BY DEF Receive
  <2> QED
    BY <1>1, <1>5, <2>1, <2>2 DEF Types
<1>7. taken \in Seq(Deliveries) /\ Len(taken) = n /\ n \in Nat \ {0} /\ DOMAIN taken = 1..n
  <2>1. n \in Nat \ {0}
    BY Constants
  <2>2. \A i \in 1..n : batch[i] \in Message /\ received'[batch[i]] \in Nat
    BY <1>5, Constants
  <2>3. \A i \in 1..n : [message |-> batch[i], count |-> received'[batch[i]]] \in Deliveries
    BY <2>2 DEF Deliveries
  <2> QED
    BY <2>1, <2>3
<1>8. taken # <<>> /\ Len(taken) <= BatchSize
  <2>1. Len(taken) # 0
    BY <1>7
  <2> QED
    BY <1>7, <2>1, EmptyLength, Constants
<1> HIDE DEF taken
<1>9. s \in State /\ s.batch = taken /\ s.pc = "none" /\ s.loop = "batch"
      /\ s.shutdown = consumer[c].shutdown /\ s.stopping = consumer[c].stopping
  <2>1. taken \in Seq(Deliveries) /\ consumer[c] \in State /\ 1 \in 1..MaxBackoff /\ consumer[c].pc = "none"
    BY <1>2, <1>7, Constants
  <2> QED
    BY <2>1 DEF State
<1>10. consumer' = [consumer EXCEPT ![c] = s]
  BY <1>4 DEF taken
<1> HIDE DEF s
<1>11. Fine(s)
  BY <1>2, <1>8, <1>9 DEF Fine, Worked
<1>12. Loops' /\ consumer'[c] = s /\ \A d \in Consumer \ {c} : consumer'[d] = consumer[d]
  BY <1>1, <1>9, <1>10, <1>11, Change
<1>13. Settled'
  <2> SUFFICES ASSUME NEW m \in Job, received'[m] > MaxDeliveryAttempts, version'[m] = "open", m \notin spoiled'
               PROVE Due(m)'
    BY DEF Settled
  <2>1. m \in Message
    BY Constants
  <2>2. CASE \E i \in 1..n : batch[i] = m
    <3>1. PICK i \in 1..n : batch[i] = m
      BY <2>2
    <3>2. taken[i] = [message |-> batch[i], count |-> received'[batch[i]]]
      BY DEF taken
    <3>3. i \in DOMAIN taken /\ taken[i].message = m /\ Exhausted(taken[i])
      BY <1>7, <3>1, <3>2 DEF Exhausted
    <3> QED
      BY <1>9, <1>12, <3>3 DEF Due, Exhausted
  <2>3. CASE ~\E i \in 1..n : batch[i] = m
    <3>1. received'[m] = received[m] /\ version'[m] = version[m] /\ spoiled' = spoiled
      BY <1>4, <2>1, <2>3 DEF Receive
    <3>2. Due(m)
      BY <1>1, <3>1 DEF Settled
    <3> QED
      BY <1>2, <1>12, <3>2, NothingDue
  <2> QED
    BY <2>2, <2>3
<1>14. Buried'
  <2> SUFFICES ASSUME NEW m \in Message, queue'[m] = "dead" PROVE received'[m] = MaxReceiveCount
    BY DEF Buried
  <2>1. ~\E i \in 1..n : batch[i] = m
    BY <1>4
  <2>2. queue[m] = "dead" /\ received'[m] = received[m]
    BY <1>4, <2>1
  <2> QED
    BY <1>1, <2>2 DEF Buried
<1> QED
  BY <1>6, <1>12, <1>13, <1>14 DEF IInv

\* The rest of the loop, while no delivery is held.
LEMMA IdleStep ==
  ASSUME IInv, NEW c \in Consumer, consumer[c].batch = <<>>,
         NEW s \in State, Fine(s), consumer' = [consumer EXCEPT ![c] = s],
         UNCHANGED <<queue, received, version, outlived, handled, spoiled>>, disturbances' \in 0..MaxDisturbances,
         lease' \in [Job -> Consumer \cup {Former, None}]
  PROVE  IInv'
<1>1. Loops' /\ \A d \in Consumer \ {c} : consumer'[d] = consumer[d]
  BY Change DEF IInv
<1>2. Types'
  BY DEF IInv, Types
<1>3. \A m \in Job : Due(m) => Due(m)'
  BY <1>1, NothingDue
<1>4. Settled'
  BY <1>3, StaySettled DEF IInv
<1>5. Buried'
  BY StayBuried DEF IInv
<1> QED
  BY <1>1, <1>2, <1>4, <1>5 DEF IInv

\* Whatever the consumer held is dropped.
LEMMA DropStep ==
  ASSUME IInv, NEW c \in Consumer, Drop(consumer[c].batch),
         NEW s \in State, Fine(s), consumer' = [consumer EXCEPT ![c] = s],
         UNCHANGED <<queue, received, version, lease, outlived, handled>>, disturbances' \in 0..MaxDisturbances
  PROVE  IInv'
<1>1. Loops' /\ \A d \in Consumer \ {c} : consumer'[d] = consumer[d]
  BY Change DEF IInv
<1>2. Types'
  BY DEF IInv, Types, Drop
<1>3. spoiled \subseteq spoiled' /\ \A m \in Job : Due(m) => m \in spoiled' \/ Due(m)'
  BY <1>1, DropSpoils
<1>4. Settled'
  BY <1>3, StaySettled DEF IInv
<1>5. Buried'
  BY StayBuried DEF IInv
<1> QED
  BY <1>1, <1>2, <1>4, <1>5 DEF IInv

LEMMA DisturbanceBound ==
  /\ IInv => disturbances \in 0..MaxDisturbances
  /\ IInv /\ Disturb => disturbances' \in 0..MaxDisturbances
  BY Constants DEF IInv, Types, Disturb

LEMMA LoopStep ==
  ASSUME IInv, NEW c \in Consumer,
         ReceiveNothing(c) \/ ReceiveFails(c) \/ Wake(c) \/ Restart(c)
  PROVE  IInv'
<1>1. consumer[c] \in State /\ Fine(consumer[c]) /\ MaxBackoff \in Nat \ {0} /\ 1 \in 1..MaxBackoff
  BY Constants DEF IInv, Loops
<1>2. consumer[c].batch = <<>> /\ consumer[c].pc = "none"
  BY <1>1 DEF Fine, ReceiveNothing, ReceiveFails, Wake, Restart
<1>3. lease' \in [Job -> Consumer \cup {Former, None}]
  BY DEF ReceiveNothing, ReceiveFails, Wake, Restart, IInv, Types
<1>4. CASE ReceiveNothing(c)
  <2> DEFINE s == IF consumer[c].stopping THEN Ended(c) ELSE [consumer[c] EXCEPT !.backoff = 1]
  <2>1. CASE consumer[c].stopping
    BY <1>3, <1>2, <1>4, <2>1, EndedFine, IdleStep, DisturbanceBound DEF ReceiveNothing, IInv
  <2>2. CASE ~consumer[c].stopping
    <3> DEFINE t == [consumer[c] EXCEPT !.backoff = 1]
    <3>1. t \in State /\ Fine(t)
      BY <1>1, <1>2 DEF State, Fine
    <3>2. consumer' = [consumer EXCEPT ![c] = t]
      BY <1>4, <2>2 DEF ReceiveNothing
    <3> HIDE DEF t
    <3> QED
      BY <1>3, <1>2, <1>4, <3>1, <3>2, IdleStep, DisturbanceBound DEF ReceiveNothing
  <2> QED
    BY <2>1, <2>2 DEF IInv, Loops
<1>5. CASE ReceiveFails(c)
  <2> DEFINE t == [consumer[c] EXCEPT !.loop = "sleep"]
  <2>1. t \in State /\ Fine(t)
    BY <1>1, <1>2 DEF State, Fine, Worked
  <2>2. consumer' = [consumer EXCEPT ![c] = t]
    BY <1>5 DEF ReceiveFails
  <2> HIDE DEF t
  <2> QED
    BY <1>3, <1>2, <1>5, <2>1, <2>2, IdleStep, DisturbanceBound DEF ReceiveFails
<1>6. CASE Wake(c)
  <2> DEFINE backoff == IF 2 * consumer[c].backoff < MaxBackoff THEN 2 * consumer[c].backoff ELSE MaxBackoff
             t == [consumer[c] EXCEPT !.loop = Top(c), !.backoff = backoff]
  <2>1. backoff \in 1..MaxBackoff
    BY <1>1 DEF State
  <2>2. Top(c) \in {"ended", "receive"}
    BY DEF Top
  <2>3. consumer' = [consumer EXCEPT ![c] = t]
    BY <1>6 DEF Wake
  <2> HIDE DEF backoff
  <2>4. t \in State /\ Fine(t)
    BY <1>1, <1>2, <2>1, <2>2 DEF State, Fine, Worked
  <2> HIDE DEF t
  <2> QED
    BY <1>3, <1>2, <1>6, <2>3, <2>4, IdleStep, DisturbanceBound DEF Wake
<1>7. CASE Restart(c)
  BY <1>3, <1>2, <1>7, RunningFine, IdleStep, DisturbanceBound DEF Restart
<1> QED
  BY <1>4, <1>5, <1>6, <1>7

LEMMA NextMessageStep ==
  ASSUME IInv, NEW c \in Consumer, NextMessage(c)
  PROVE  IInv'
<1>1. consumer[c] \in State /\ Fine(consumer[c]) /\ consumer[c].loop = "batch" /\ consumer[c].pc = "none"
  BY DEF IInv, Loops, NextMessage, At
<1> DEFINE stop == consumer[c].stopping \/ consumer[c].batch = <<>>
<1>2. CASE stop
  <2> DEFINE t == [Ended(c) EXCEPT !.loop = Top(c)]
  <2>1. Top(c) \in {"ended", "receive"}
    BY DEF Top
  <2>2. t \in State /\ Fine(t)
    BY <2>1, EndedFine DEF State, Fine, Worked, IInv
  <2>3. consumer' = [consumer EXCEPT ![c] = t] /\ Drop(consumer[c].batch)
    BY <1>2 DEF NextMessage
  <2> HIDE DEF t
  <2> QED
    BY <2>2, <2>3, DropStep, DisturbanceBound DEF NextMessage
<1>3. CASE ~stop
  <2> DEFINE t == [consumer[c] EXCEPT !.pc = "parse"]
  <2>1. t \in State /\ t.batch = consumer[c].batch
    BY <1>1 DEF State, Places
  <2>2. Fine(t)
    BY <1>1, <1>3 DEF State, Fine, Worked
  <2>3. consumer' = [consumer EXCEPT ![c] = t] /\ UNCHANGED <<queue, received, version, lease, outlived, handled, disturbances, spoiled>>
    BY <1>3 DEF NextMessage
  <2> HIDE DEF t
  <2>4. Loops' /\ consumer'[c] = t /\ \A d \in Consumer \ {c} : consumer'[d] = consumer[d]
    BY <2>1, <2>2, <2>3, Change DEF IInv
  <2>5. \A d \in Consumer : consumer'[d].batch = consumer[d].batch
    BY <2>1, <2>4
  <2>6. \A m \in Job : Due(m) => Due(m)'
    BY <2>5 DEF Due, Exhausted
  <2>7. Types' /\ Settled' /\ Buried'
    BY <2>3, <2>6, StaySettled, StayBuried DEF IInv, Types
  <2> QED
    BY <2>4, <2>7 DEF IInv
<1> QED
  BY <1>2, <1>3

\* The delivery goes on, and nothing it does reopens a version.
LEMMA GoStep ==
  ASSUME IInv, Loops', \A m \in Job : Due(m) => Due(m)', Types',
         UNCHANGED <<queue, received, spoiled>>, \A m \in Job : version'[m] = "open" => version[m] = "open"
  PROVE  IInv'
<1>1. Settled'
  BY StaySettled DEF IInv
<1>2. Buried'
  BY StayBuried DEF IInv
<1> QED
  BY <1>1, <1>2 DEF IInv

\* The delivery ends, and its job has an outcome if it was the last chance.
LEMMA EndStep ==
  ASSUME IInv, NEW c \in Consumer, consumer[c].pc # "none", EndDelivery(c), Types',
         received' = received, \A m \in Message : queue'[m] = "dead" => queue[m] = "dead",
         spoiled \subseteq spoiled', \A m \in Job : version'[m] = "open" => version[m] = "open",
         ~(Active(c) \in Job /\ Exhausted(Delivery(c)) /\ version'[Active(c)] = "open" /\ Active(c) \notin spoiled')
  PROVE  IInv'
<1>1. Loops'
  BY EndMoves DEF IInv
<1>2. Settled'
  BY EndSettles DEF IInv
<1>3. Buried'
  BY StayBuried DEF IInv
<1> QED
  BY <1>1, <1>2, <1>3 DEF IInv

\* Where a worked delivery is, and what it is about.
LEMMA AtWork ==
  ASSUME IInv, NEW c \in Consumer, consumer[c].pc \in Worked
  PROVE  consumer[c].pc # "none" /\ Active(c) \in Job /\ Active(c) \in Message /\ ~Exhausted(Delivery(c))
<1>1. consumer[c].pc # "none"
  BY DEF Worked
<1> QED
  BY <1>1, InHand DEF IInv, Fine

LEMMA ParseStep ==
  ASSUME IInv, NEW c \in Consumer, Parse(c)
  PROVE  IInv'
<1>1. consumer[c].pc # "none" /\ Loops
  BY DEF Parse, At, IInv
<1>2. Active(c) \in Message /\ Message = Job \cup Junk /\ Job \cap Junk = {}
  BY <1>1, InHand, Constants
<1>3. Loops' /\ \A m \in Job : Due(m) => Due(m)'
  <2>1. CASE Active(c) \in Junk
    <3>1. Goto(c, "record_invalid") /\ "record_invalid" \in Places /\ "record_invalid" \notin Worked
      BY <1>2, <2>1 DEF Parse, Places, Worked
    <3> QED
      BY <1>1, <2>1, <3>1, GotoMoves
  <2>2. CASE Active(c) \in Job /\ Exhausted(Delivery(c))
    <3>1. Goto(c, "record_exhausted") /\ "record_exhausted" \in Places /\ "record_exhausted" \notin Worked
      BY <1>2, <2>2 DEF Parse, Places, Worked
    <3> QED
      BY <1>1, <2>2, <3>1, GotoMoves
  <2>3. CASE Active(c) \in Job /\ ~Exhausted(Delivery(c))
    <3>1. Goto(c, "load") /\ "load" \in Places
      BY <1>2, <2>3 DEF Parse, Places, Worked
    <3> QED
      BY <1>1, <2>3, <3>1, GotoMoves
  <2> QED
    BY <1>2, <2>1, <2>2, <2>3
<1>4. Types'
  BY DEF Parse, IInv, Types
<1> QED
  BY <1>3, <1>4, GoStep DEF Parse

LEMMA HandleTypes ==
  ASSUME Types, NEW c \in Consumer, Active(c) \in Message, Handle(c)
  PROVE  handled' \in [Message -> Nat]
  BY DEF Types, Handle

LEMMA RecordStep ==
  ASSUME IInv, NEW c \in Consumer, RecordInvalid(c) \/ RecordExhausted(c)
  PROVE  IInv'
<1>1. consumer[c].pc # "none" /\ Active(c) \in Message /\ Fine(consumer[c]) /\ Active(c) = Head(consumer[c].batch).message
  BY InHand DEF RecordInvalid, RecordExhausted, At, IInv
<1>2. CASE RecordInvalid(c)
  <2>1. Active(c) \notin Job
    BY <1>1, <1>2, Constants DEF RecordInvalid, At, Fine
  <2>2. Types'
    BY <1>1, <1>2, HandleTypes DEF RecordInvalid, IInv, Types
  <2> QED
    BY <1>1, <1>2, <2>1, <2>2, EndStep DEF RecordInvalid
<1>3. CASE RecordExhausted(c)
  <2>1. Active(c) \in Job
    BY <1>1, <1>3 DEF RecordExhausted, At, Fine
  <2>2. "mark_failed" \in Places /\ "mark_failed" \notin Worked
    BY DEF Places, Worked
  <2>3. Loops' /\ \A m \in Job : Due(m) => Due(m)'
    BY <1>1, <1>3, <2>1, <2>2, GotoMoves DEF RecordExhausted, IInv
  <2>4. Types'
    BY <1>1, <1>3, HandleTypes DEF RecordExhausted, IInv, Types
  <2> QED
    BY <1>3, <2>3, <2>4, GoStep DEF RecordExhausted
<1> QED
  BY <1>2, <1>3

\* _mark_exhausted_campaign_failed settles the job, or spoils it.
LEMMA MarkFailedStep ==
  ASSUME IInv, NEW c \in Consumer, MarkFailed(c)
  PROVE  IInv'
<1>1. consumer[c].pc # "none" /\ Active(c) \in Job
  <2>1. consumer[c].pc = "mark_failed"
    BY DEF MarkFailed, At
  <2> QED
    BY <2>1, InHand DEF IInv, Fine
<1>2. EndDelivery(c) /\ UNCHANGED <<queue, received, handled, disturbances>>
  BY DEF MarkFailed
<1>3. CASE /\ version' = [version EXCEPT ![Active(c)] = IF @ = "open" THEN "over" ELSE @]
           /\ lease' = [lease EXCEPT ![Active(c)] = None]
           /\ outlived' = outlived \ {Active(c)}
           /\ spoiled' = spoiled
  <2>1. version \in [Job -> {"open", "over", "completed"}]
    BY DEF IInv, Types
  <2>2. Types'
    BY <1>2, <1>3 DEF IInv, Types
  <2>3. version'[Active(c)] # "open" /\ \A m \in Job : version'[m] = "open" => version[m] = "open"
    BY <1>1, <1>3, <2>1
  <2> QED
    BY <1>1, <1>2, <1>3, <2>2, <2>3, EndStep
<1>4. CASE spoiled' = spoiled \cup {Active(c)} /\ UNCHANGED <<version, lease, outlived>>
  <2>1. Types'
    BY <1>1, <1>2, <1>4 DEF IInv, Types
  <2> QED
    BY <1>1, <1>2, <1>4, <2>1, EndStep
<1> QED
  BY <1>3, <1>4 DEF MarkFailed

LEMMA LoadStep ==
  ASSUME IInv, NEW c \in Consumer, Load(c)
  PROVE  IInv'
<1>1. consumer[c].pc \in Worked /\ "acquire" \in Worked
  BY DEF Load, At, Worked
<1>2. Loops' /\ \A m \in Job : Due(m) => Due(m)'
  BY <1>1, WorkMoves DEF Load, IInv
<1>3. Types'
  BY DEF Load, IInv, Types
<1> QED
  BY <1>2, <1>3, GoStep DEF Load

LEMMA AcquireStep ==
  ASSUME IInv, NEW c \in Consumer, Acquire(c)
  PROVE  IInv'
<1>1. consumer[c].pc \in Worked /\ "check" \in Worked
  BY DEF Acquire, At, Worked
<1>2. UNCHANGED <<queue, received, version, handled, spoiled, disturbances>>
  BY DEF Acquire
<1>3. CASE Take(c, Active(c)) /\ Goto(c, "check")
  <2>1. Loops' /\ \A m \in Job : Due(m) => Due(m)'
    BY <1>1, <1>3, WorkMoves DEF IInv
  <2>2. Types'
    BY <1>2, <1>3 DEF Take, IInv, Types
  <2> QED
    BY <1>2, <2>1, <2>2, GoStep
<1>4. CASE EndDelivery(c) /\ UNCHANGED <<lease, outlived>>
  <2>1. Types'
    BY <1>2, <1>4 DEF IInv, Types
  <2> QED
    BY <1>1, <1>2, <1>4, <2>1, AtWork, EndStep
<1> QED
  BY <1>3, <1>4 DEF Acquire

LEMMA CheckStep ==
  ASSUME IInv, NEW c \in Consumer, Check(c)
  PROVE  IInv'
<1>1. consumer[c].pc \in Worked /\ "release" \in Worked /\ "work" \in Worked
  BY DEF Check, At, Worked
<1>2. Types'
  BY <1>1, AtWork, HandleTypes DEF Check, IInv, Types
<1>3. Loops' /\ \A m \in Job : Due(m) => Due(m)'
  <2>1. Goto(c, "release") \/ Goto(c, "work")
    BY DEF Check
  <2> QED
    BY <1>1, <2>1, WorkMoves DEF IInv
<1> QED
  BY <1>2, <1>3, GoStep DEF Check

LEMMA ReleaseStep ==
  ASSUME IInv, NEW c \in Consumer, Release(c)
  PROVE  IInv'
<1>1. consumer[c].pc \in Worked /\ "delete" \in Worked
  BY DEF Release, At, Worked
<1>2. Types'
  BY DEF Release, IInv, Types
<1>3. CASE lease[Active(c)] = c
  <2>1. Loops' /\ \A m \in Job : Due(m) => Due(m)'
    BY <1>1, <1>3, WorkMoves DEF Release, IInv
  <2> QED
    BY <1>2, <2>1, GoStep DEF Release
<1>4. CASE lease[Active(c)] # c
  BY <1>1, <1>2, <1>4, AtWork, EndStep DEF Release
<1> QED
  BY <1>3, <1>4

LEMMA WorkStep ==
  ASSUME IInv, NEW c \in Consumer, Work(c)
  PROVE  IInv'
<1>1. consumer[c].pc \in Worked /\ "complete" \in Worked
  BY DEF Work, At, Worked
<1>2. version \in [Job -> {"open", "over", "completed"}]
  BY DEF IInv, Types
<1>3. CASE version' = [version EXCEPT ![Active(c)] = "over"] /\ Goto(c, "complete")
  <2>1. Loops' /\ \A m \in Job : Due(m) => Due(m)'
    BY <1>1, <1>3, WorkMoves DEF IInv
  <2>2. Types' /\ \A m \in Job : version'[m] = "open" => version[m] = "open"
    BY <1>2, <1>3 DEF Work, IInv, Types
  <2> QED
    BY <2>1, <2>2, GoStep DEF Work
<1>4. CASE EndDelivery(c) /\ UNCHANGED version
  <2>1. Types'
    BY <1>4 DEF Work, IInv, Types
  <2> QED
    BY <1>1, <1>4, <2>1, AtWork, EndStep DEF Work
<1> QED
  BY <1>3, <1>4 DEF Work

LEMMA CompleteStep ==
  ASSUME IInv, NEW c \in Consumer, Complete(c)
  PROVE  IInv'
<1>1. consumer[c].pc \in Worked /\ "delete" \in Worked
  BY DEF Complete, At, Worked
<1>2. version \in [Job -> {"open", "over", "completed"}]
  BY DEF IInv, Types
<1>3. CASE lease[Active(c)] = c
  <2>1. Loops' /\ \A m \in Job : Due(m) => Due(m)'
    BY <1>1, <1>3, WorkMoves DEF Complete, IInv
  <2>2. Types' /\ \A m \in Job : version'[m] = "open" => version[m] = "open"
    BY <1>2, <1>3 DEF Complete, IInv, Types
  <2> QED
    BY <2>1, <2>2, GoStep DEF Complete
<1>4. CASE lease[Active(c)] # c
  <2>1. EndDelivery(c) /\ UNCHANGED <<queue, received, version, lease, outlived, handled, spoiled, disturbances>>
    BY <1>4 DEF Complete
  <2>2. Types'
    BY <2>1 DEF IInv, Types
  <2> QED
    BY <1>1, <2>1, <2>2, AtWork, EndStep
<1> QED
  BY <1>3, <1>4

LEMMA DeleteStep ==
  ASSUME IInv, NEW c \in Consumer, Delete(c)
  PROVE  IInv'
<1>1. consumer[c].pc \in Worked
  BY DEF Delete, At, Worked
<1>2. queue \in [Message -> {"visible", "hidden", "deleted", "dead"}]
  BY DEF IInv, Types
<1>3. Types' /\ \A m \in Message : queue'[m] = "dead" => queue[m] = "dead"
  BY <1>2 DEF Delete, IInv, Types
<1> QED
  BY <1>1, <1>3, AtWork, EndStep DEF Delete

-----------------------------------------------------------------------------
(* Failures, shutdown and the queue.                                       *)

LEMMA CallFailsStep ==
  ASSUME IInv, NEW c \in Consumer, CallFails(c)
  PROVE  IInv'
<1>1. consumer[c].pc # "none" /\ UNCHANGED <<queue, received, version, lease, outlived, handled>>
      /\ disturbances' \in 0..MaxDisturbances
  BY DisturbanceBound DEF CallFails
<1>2. CASE EndDelivery(c) /\ Drop(<<Delivery(c)>>)
  <2>1. spoiled \subseteq spoiled' /\ spoiled' \subseteq Job
    BY <1>2 DEF Drop, IInv, Types
  <2>2. Types'
    BY <1>1, <2>1 DEF IInv, Types
  <2>3. Active(c) \in Job /\ Exhausted(Delivery(c)) => Active(c) \in spoiled'
    <3> SUFFICES ASSUME Active(c) \in Job, Exhausted(Delivery(c)) PROVE Active(c) \in spoiled'
      OBVIOUS
    <3> DEFINE batch == <<Delivery(c)>>
    <3>1. 1 \in DOMAIN batch /\ batch[1] = Delivery(c)
      OBVIOUS
    <3> HIDE DEF batch
    <3>2. spoiled' = spoiled \cup {m \in Job : \E i \in DOMAIN batch : batch[i].message = m /\ Exhausted(batch[i])}
      BY <1>2 DEF Drop, batch
    <3> QED
      BY <3>1, <3>2 DEF Active
  <2> QED
    BY <1>1, <1>2, <2>1, <2>2, <2>3, EndStep
<1>3. CASE consumer' = [consumer EXCEPT ![c] = Ended(c)] /\ Drop(consumer[c].batch)
  BY <1>1, <1>3, EndedFine, DropStep DEF IInv
<1> QED
  BY <1>2, <1>3 DEF CallFails

LEMMA CrashStep ==
  ASSUME IInv, NEW c \in Consumer, Crash(c)
  PROVE  IInv'
<1> DEFINE t == [Ended(c) EXCEPT !.shutdown = "no"]
<1>1. t \in State /\ Fine(t)
  BY EndedFine DEF State, Fine, Worked, IInv
<1>2. consumer' = [consumer EXCEPT ![c] = t]
  BY DEF Crash
<1> HIDE DEF t
<1> QED
  BY <1>1, <1>2, DropStep, DisturbanceBound DEF Crash

\* A consumer that keeps its batch.
LEMMA KeepStep ==
  ASSUME IInv, NEW c \in Consumer, NEW s \in State, Fine(s), s.batch = consumer[c].batch,
         consumer' = [consumer EXCEPT ![c] = s],
         UNCHANGED <<queue, received, version, lease, outlived, handled, spoiled>>, disturbances' \in 0..MaxDisturbances
  PROVE  IInv'
<1>1. Loops' /\ consumer'[c] = s /\ \A d \in Consumer \ {c} : consumer'[d] = consumer[d]
  BY Change DEF IInv
<1>2. \A d \in Consumer : consumer'[d].batch = consumer[d].batch
  BY <1>1
<1>3. \A m \in Job : Due(m) => Due(m)'
  BY <1>2 DEF Due, Exhausted
<1>4. Types'
  BY DEF IInv, Types
<1> QED
  BY <1>1, <1>3, <1>4, GoStep

LEMMA ShutdownStep ==
  ASSUME IInv, NEW c \in Consumer, Shutdown(c)
  PROVE  IInv'
<1> DEFINE t == [consumer[c] EXCEPT !.stopping = TRUE, !.shutdown = IF At(c, "none") THEN "returned" ELSE "waiting"]
<1>1. consumer[c] \in State /\ Fine(consumer[c])
  BY DEF IInv, Loops
<1>2. t \in State /\ t.batch = consumer[c].batch
  BY <1>1 DEF State
<1>3. Fine(t)
  BY <1>1 DEF State, Fine, At
<1>4. consumer' = [consumer EXCEPT ![c] = t]
  BY DEF Shutdown
<1> HIDE DEF t
<1> QED
  BY <1>2, <1>3, <1>4, KeepStep, DisturbanceBound DEF Shutdown

LEMMA GraceEndsStep ==
  ASSUME IInv, NEW c \in Consumer, GraceEnds(c)
  PROVE  IInv'
<1>1. consumer[c] \in State /\ Fine(consumer[c]) /\ consumer[c].shutdown = "waiting"
  BY DEF IInv, Loops, GraceEnds
<1>2. CASE At(c, "none")
  <2> DEFINE t == [consumer[c] EXCEPT !.shutdown = "returned"]
  <2>1. t \in State /\ t.batch = consumer[c].batch
    BY <1>1 DEF State
  <2>2. Fine(t)
    BY <1>1, <1>2 DEF State, Fine, At
  <2>3. consumer' = [consumer EXCEPT ![c] = t] /\ UNCHANGED <<queue, received, version, lease, outlived, handled, spoiled, disturbances>>
    BY <1>2 DEF GraceEnds
  <2> HIDE DEF t
  <2> QED
    BY <2>1, <2>2, <2>3, KeepStep, DisturbanceBound
<1>3. CASE ~At(c, "none")
  <2> DEFINE t == [Ended(c) EXCEPT !.shutdown = "returned"]
  <2>1. t \in State /\ Fine(t)
    BY <1>1, EndedFine DEF State, Fine, Worked, IInv
  <2>2. consumer' = [consumer EXCEPT ![c] = t] /\ Drop(consumer[c].batch)
    BY <1>3 DEF GraceEnds
  <2> HIDE DEF t
  <2> QED
    BY <2>1, <2>2, DropStep, DisturbanceBound DEF GraceEnds
<1> QED
  BY <1>2, <1>3

LEMMA QueueStep ==
  ASSUME IInv, NEW m \in Message, Reappear(m) \/ DeadLetter(m)
  PROVE  IInv'
<1>1. UNCHANGED <<received, version, consumer, handled, spoiled>>
  BY DEF Reappear, DeadLetter
<1>2. Loops' /\ Settled'
  BY <1>1 DEF IInv, Loops, Settled, Due
<1>3. disturbances' \in 0..MaxDisturbances
  BY DisturbanceBound DEF Reappear, DeadLetter
<1>4. queue' \in [Message -> {"visible", "hidden", "deleted", "dead"}]
  BY DEF IInv, Types, Reappear, DeadLetter
<1>5. lease' \in [Job -> Consumer \cup {Former, None}] /\ outlived' \subseteq Job
  BY DEF IInv, Types, Reappear, DeadLetter
<1>6. Types'
  BY <1>1, <1>3, <1>4, <1>5 DEF IInv, Types
<1>7. Buried'
  <2>1. queue \in [Message -> {"visible", "hidden", "deleted", "dead"}]
    BY DEF IInv, Types
  <2> QED
    BY <1>1, <2>1 DEF IInv, Buried, Reappear, DeadLetter
<1> QED
  BY <1>2, <1>6, <1>7 DEF IInv

-----------------------------------------------------------------------------
LEMMA NextIInv == IInv /\ [Next]_vars => IInv'
<1> SUFFICES ASSUME IInv, [Next]_vars PROVE IInv'
  OBVIOUS
<1>1. CASE UNCHANGED vars
  BY <1>1 DEF vars, IInv, Types, Loops, Settled, Buried, Due
<1>2. ASSUME NEW c \in Consumer, Loop(c) PROVE IInv'
  BY <1>2, ReceiveStep, LoopStep, NextMessageStep DEF Loop
<1>3. ASSUME NEW c \in Consumer, Deliver(c) PROVE IInv'
  BY <1>3, ParseStep, RecordStep, MarkFailedStep, LoadStep, AcquireStep, CheckStep, ReleaseStep, WorkStep,
     CompleteStep, DeleteStep DEF Deliver
<1>4. ASSUME NEW c \in Consumer,
             ReceiveFails(c) \/ CallFails(c) \/ Crash(c) \/ Shutdown(c) \/ GraceEnds(c) \/ Restart(c)
      PROVE  IInv'
  BY <1>4, LoopStep, CallFailsStep, CrashStep, ShutdownStep, GraceEndsStep
<1>5. ASSUME NEW m \in Message, Reappear(m) \/ DeadLetter(m) PROVE IInv'
  BY <1>5, QueueStep
<1> QED
  BY <1>1, <1>2, <1>3, <1>4, <1>5 DEF Next

\* The invariant holds in every reachable state, whatever the constants are.
THEOREM Inductive == Spec => []IInv
<1> QED
  BY InitIInv, NextIInv, PTL DEF Spec

\* The types of the variables, for any number of consumers and messages.
THEOREM TypeCorrect == Spec => []TypeOK
<1> QED
  BY Inductive, InvTypes, PTL

\* Once shutdown() has returned, by the end of the delivery or by its
\* cancellation, no delivery is active and run starts none.
THEOREM NothingRunsAfterShutdownHolds == Spec => []NothingRunsAfterShutdown
<1>1. IInv => NothingRunsAfterShutdown
  BY DEF IInv, Loops, Fine, NothingRunsAfterShutdown, At
<1> QED
  BY <1>1, Inductive, PTL

\* sqs.tf's order of the two bounds is enough for the campaign of a
\* dead-lettered job to be FAILED, but for a delivery that was cut off or
\* refused the lease: between two bounds that are equal, as in prod, no
\* delivery is ever exhausted.
THEOREM DeadLetteredIsFailedHolds ==
  ASSUME MaxDeliveryAttempts < MaxReceiveCount
  PROVE  Spec => []DeadLetteredIsFailed
<1>1. IInv => DeadLetteredIsFailed
  <2> SUFFICES ASSUME IInv, NEW m \in Job, queue[m] = "dead", Pending(m) = {}, version[m] = "open"
               PROVE  m \in spoiled
    BY DEF DeadLetteredIsFailed
  <2>1. received[m] = MaxReceiveCount /\ received[m] > MaxDeliveryAttempts
    BY Constants DEF IInv, Buried
  <2>2. m \in spoiled \/ Due(m)
    BY <2>1 DEF IInv, Settled
  <2>3. ~Due(m)
    BY DEF Due, Pending
  <2> QED
    BY <2>2, <2>3
<1> QED
  BY <1>1, Inductive, PTL

-----------------------------------------------------------------------------
(* What every delivery is spent on.  Work and disturbances pay for two     *)
(* deliveries each: for one that they end or cause, and for the one that   *)
(* may be refused the lease that is left behind.                           *)

Has(s, m) == \E i \in DOMAIN s.batch : s.batch[i].message = m
Busy(s, m) == s.pc # "none" /\ Head(s.batch).message = m

\* Past the call that counts the delivery as handled.
Done == {"mark_failed", "release", "work", "complete", "delete"}

\* The delivery of m that s has is paid for: it was counted, or the signal
\* counts it; an active one is paid for twice, as it may leave a lease.
Spent(s, m) == (s.stopping /\ Has(s, m)) \/ (s.pc \in Done /\ Busy(s, m))
Stopped(s, m) == s.stopping /\ Busy(s, m)

Owed(m) == {c \in Consumer : Spent(consumer[c], m)}
Late(m) == {c \in Consumer : Stopped(consumer[c], m)}

\* Consumers that may receive one batch more, and will leave it.
Prepaid == {c \in Consumer : consumer[c].stopping /\ consumer[c].loop = "receive"}

Outlay(m) == received[m] + Cardinality(Prepaid) + Cardinality(Owed(m)) + Cardinality(Late(m))

\* The owner of the lease has m in hand and is about to be counted, or was.
Entering(m) == \E c \in Consumer : lease[m] = c /\ consumer[c].pc = "check" /\ Busy(consumer[c], m)
Engaged(m) == \E c \in Consumer : lease[m] = c /\ consumer[c].pc \in Done /\ Busy(consumer[c], m)

\* What the lease of m may still cost: it is kept by its owner, or it was left
\* and has outlived one visibility timeout, or it was left and may outlive one.
Grade(m) ==
    IF m \notin Job THEN 0
    ELSE IF lease[m] = None \/ Entering(m) THEN 0
    ELSE IF Engaged(m) \/ m \in outlived THEN 1 ELSE 2

Paid(m) == 2 * (handled[m] + disturbances)

\* One delivery at a time may wait to be paid for, none of a visible message.
Balanced(m) ==
    /\ Outlay(m) + Grade(m) <= Paid(m) + 1
    /\ queue[m] = "visible" => Outlay(m) + Grade(m) <= Paid(m)
    /\ Pending(m) = {} => Outlay(m) <= Paid(m)

Accounted == \A m \in Message : Balanced(m)

-----------------------------------------------------------------------------
LEMMA ConsumersFinite == IsFiniteSet(Consumer) /\ None \notin Consumer /\ Former \notin Consumer /\ None # Former
  BY ConsumerLoopAssumption

\* Sets that lose or gain one element.
LEMMA Sizes ==
  ASSUME NEW A, IsFiniteSet(A), NEW B, NEW c
  PROVE  /\ Cardinality(A) \in Nat
         /\ A # {} => Cardinality(A) >= 1
         /\ B \subseteq A => Cardinality(B) \in Nat /\ Cardinality(B) <= Cardinality(A)
         /\ B \subseteq A \cup {c} => Cardinality(B) \in Nat /\ Cardinality(B) <= Cardinality(A) + 1
         /\ B \subseteq A \ {c} /\ c \in A => Cardinality(B) + 1 <= Cardinality(A)
<1>1. Cardinality(A) \in Nat
  BY FS_CardinalityType
<1>2. A # {} => Cardinality(A) >= 1
  <2>1. A # {} => Cardinality(A) # 0
    BY FS_EmptySet
  <2> QED
    BY <1>1, <2>1
<1>3. ASSUME B \subseteq A PROVE Cardinality(B) \in Nat /\ Cardinality(B) <= Cardinality(A)
  BY <1>3, FS_Subset, FS_CardinalityType
<1>4. ASSUME B \subseteq A \cup {c} PROVE Cardinality(B) \in Nat /\ Cardinality(B) <= Cardinality(A) + 1
  <2>1. IsFiniteSet(A \cup {c}) /\ Cardinality(A \cup {c}) \in {Cardinality(A), Cardinality(A) + 1}
    BY FS_AddElement
  <2>2. Cardinality(B) \in Nat /\ Cardinality(B) <= Cardinality(A \cup {c})
    BY <1>4, <2>1, FS_Subset, FS_CardinalityType
  <2> QED
    BY <1>1, <2>1, <2>2
<1>5. ASSUME B \subseteq A \ {c}, c \in A PROVE Cardinality(B) + 1 <= Cardinality(A)
  <2>1. IsFiniteSet(A \ {c}) /\ Cardinality(A \ {c}) = Cardinality(A) - 1
    BY <1>5, FS_RemoveElement
  <2>2. Cardinality(B) \in Nat /\ Cardinality(B) <= Cardinality(A \ {c})
    BY <1>5, <2>1, FS_Subset, FS_CardinalityType
  <2> QED
    BY <1>1, <2>1, <2>2
<1> QED
  BY <1>1, <1>2, <1>3, <1>4, <1>5

\* The grade is one of three.
LEMMA Grades == ASSUME NEW m PROVE Grade(m) \in {0, 1, 2} /\ Grade(m)' \in {0, 1, 2}
  BY DEF Grade

\* The sets are finite, and the numbers are.
LEMMA Numbers ==
  ASSUME IInv, NEW m \in Message
  PROVE  /\ IsFiniteSet(Prepaid) /\ IsFiniteSet(Owed(m)) /\ IsFiniteSet(Late(m))
         /\ Cardinality(Prepaid) \in Nat /\ Cardinality(Owed(m)) \in Nat /\ Cardinality(Late(m)) \in Nat
         /\ received[m] \in Nat /\ handled[m] \in Nat /\ disturbances \in Nat
<1>1. Prepaid \subseteq Consumer /\ Owed(m) \subseteq Consumer /\ Late(m) \subseteq Consumer
  BY DEF Prepaid, Owed, Late
<1>2. IsFiniteSet(Prepaid) /\ IsFiniteSet(Owed(m)) /\ IsFiniteSet(Late(m))
  BY <1>1, ConsumersFinite, FS_Subset
<1>3. received[m] \in Nat /\ handled[m] \in Nat /\ disturbances \in Nat
  BY Constants DEF IInv, Types
<1> QED
  BY <1>2, <1>3, FS_CardinalityType

\* Who is busy with a message has it in hand.
LEMMA BusyHas ==
  ASSUME Loops, NEW c \in Consumer, NEW m, Busy(consumer[c], m)
  PROVE  Has(consumer[c], m) /\ m = Active(c) /\ m \in Message
<1>1. /\ consumer[c].batch \in Seq(Deliveries) /\ consumer[c].batch # <<>> /\ Active(c) \in Message
      /\ Active(c) = consumer[c].batch[1].message /\ Active(c) = Head(consumer[c].batch).message
  BY InHand, Rest DEF Busy
<1>2. 1 \in DOMAIN consumer[c].batch
  BY <1>1, Rest
<1> QED
  BY <1>1, <1>2 DEF Has, Busy

LEMMA HasActive ==
  ASSUME Loops, NEW c \in Consumer, consumer[c].pc # "none"
  PROVE  Busy(consumer[c], Active(c)) /\ Has(consumer[c], Active(c)) /\ Active(c) \in Message
<1>1. Busy(consumer[c], Active(c))
  BY InHand DEF Busy
<1> QED
  BY <1>1, BusyHas

\* Only who has the message owes for it.
Idle(m) == Pending(m) = {} => Owed(m) = {} /\ Late(m) = {} /\ ~Entering(m) /\ ~Engaged(m)

LEMMA OnlyPending == Loops => \A m : Idle(m)
<1> SUFFICES ASSUME Loops, NEW m, Pending(m) = {}
             PROVE  Owed(m) = {} /\ Late(m) = {} /\ ~Entering(m) /\ ~Engaged(m)
  BY DEF Idle
<1>1. \A c \in Consumer : ~Has(consumer[c], m)
  BY DEF Pending, Has
<1>2. \A c \in Consumer : ~Busy(consumer[c], m)
  BY <1>1, BusyHas
<1>3. \A c \in Consumer : consumer[c].pc \in Done \/ consumer[c].pc = "check" => consumer[c].pc # "none"
  BY DEF Done
<1> QED
  BY <1>1, <1>2, <1>3 DEF Owed, Late, Spent, Stopped, Entering, Engaged

LEMMA OnlyPendingNext == Loops' => (\A m : Idle(m))'
  BY OnlyPending, PTL

-----------------------------------------------------------------------------
(* The account, in numbers.                                                *)

LEMMA QuietSum ==
  ASSUME NEW o \in Nat, NEW l \in Nat, NEW g \in Nat, NEW o2 \in Nat, NEW l2 \in Nat, NEW g2 \in Nat,
         g2 <= 2, o2 <= o, l2 <= l,
         g2 <= g \/ (g2 <= g + 1 /\ (o2 + 1 <= o \/ l2 + 1 <= l)) \/ (o2 + 1 <= o /\ l2 + 1 <= l)
  PROVE  o2 + l2 + g2 <= o + l + g
  BY SMTT(60)

LEMMA TotalSum ==
  ASSUME NEW r \in Nat, NEW k \in Nat, NEW o \in Nat, NEW l \in Nat, NEW g \in Nat,
         NEW k2 \in Nat, NEW o2 \in Nat, NEW l2 \in Nat, NEW g2 \in Nat,
         k2 <= k, o2 + l2 + g2 <= o + l + g
  PROVE  r + k2 + o2 + l2 + g2 <= r + k + o + l + g
  BY SMTT(60)

LEMMA PaidSum ==
  ASSUME NEW k \in Nat, NEW o \in Nat, NEW l \in Nat, NEW g \in Nat,
         NEW k2 \in Nat, NEW o2 \in Nat, NEW l2 \in Nat, NEW g2 \in Nat, g2 <= 2,
         \/ k2 <= k /\ o2 <= o + 1 /\ l2 <= l /\ g2 <= g + 1
         \/ k2 <= k /\ o2 <= o /\ l2 <= l
         \/ k2 <= k /\ o2 <= o + 1 /\ l2 <= l + 1 /\ g2 <= g
         \/ k2 <= k + 1 /\ o2 <= o /\ l2 <= l /\ g2 <= g
  PROVE  k2 + o2 + l2 + g2 <= k + o + l + g + 2 /\ k2 <= k + 1
  BY SMTT(60)

\* A step that spends nothing and gains nothing.
LEMMA Quiet ==
  ASSUME IInv, IInv', NEW m \in Message, Balanced(m), received'[m] = received[m],
         handled'[m] = handled[m], disturbances' = disturbances,
         Prepaid' \subseteq Prepaid, Owed(m)' \subseteq Owed(m), Late(m)' \subseteq Late(m),
         \/ Grade(m)' <= Grade(m)
         \/ Grade(m)' <= Grade(m) + 1 /\ (Owed(m)' # Owed(m) \/ Late(m)' # Late(m))
         \/ Owed(m)' # Owed(m) /\ Late(m)' # Late(m),
         queue'[m] = "visible" => queue[m] = "visible",
         Pending(m)' = {} => Pending(m) = {} \/ Owed(m) # {} \/ Grade(m) >= 1
  PROVE  Balanced(m)'
<1> DEFINE k == Cardinality(Prepaid)
           o == Cardinality(Owed(m))
           l == Cardinality(Late(m))
           g == Grade(m)
           p == Paid(m)
<1>1. /\ k \in Nat /\ o \in Nat /\ l \in Nat /\ received[m] \in Nat /\ handled[m] \in Nat /\ disturbances \in Nat
      /\ g \in {0, 1, 2} /\ g' \in {0, 1, 2}
  BY Numbers, Grades
<1>2. k' \in Nat /\ o' \in Nat /\ l' \in Nat /\ k' <= k /\ o' <= o /\ l' <= l
  BY Numbers, Sizes
<1>3. Owed(m)' # Owed(m) => o' + 1 <= o
  <2> SUFFICES ASSUME Owed(m)' # Owed(m) PROVE o' + 1 <= o
    OBVIOUS
  <2>1. PICK c \in Owed(m) : Owed(m)' \subseteq Owed(m) \ {c}
    OBVIOUS
  <2> QED
    BY <2>1, Numbers, Sizes
<1>4. Late(m)' # Late(m) => l' + 1 <= l
  <2> SUFFICES ASSUME Late(m)' # Late(m) PROVE l' + 1 <= l
    OBVIOUS
  <2>1. PICK c \in Late(m) : Late(m)' \subseteq Late(m) \ {c}
    OBVIOUS
  <2> QED
    BY <2>1, Numbers, Sizes
<1>5. o' + l' + g' <= o + l + g
  <2>1. \/ g' <= g
        \/ g' <= g + 1 /\ (o' + 1 <= o \/ l' + 1 <= l)
        \/ o' + 1 <= o /\ l' + 1 <= l
    BY <1>3, <1>4
  <2>2. g \in Nat /\ g' \in Nat /\ g' <= 2
    BY <1>1
  <2> HIDE DEF o, l, g
  <2> QED
    BY <1>1, <1>2, <2>1, <2>2, QuietSum
<1>6. Owed(m) # {} => o >= 1
  BY Numbers, Sizes
<1>7. Pending(m)' = {} => o' = 0 /\ l' = 0
  <2>1. Pending(m)' = {} => Owed(m)' = {} /\ Late(m)' = {}
    BY OnlyPendingNext DEF IInv, Idle
  <2> QED
    BY <2>1, FS_EmptySet
<1>8. /\ received[m] + k + o + l + g <= p + 1
      /\ queue[m] = "visible" => received[m] + k + o + l + g <= p
      /\ Pending(m) = {} => received[m] + k + o + l <= p
  BY DEF Balanced, Outlay
<1>9. Outlay(m)' = received[m] + k' + o' + l' /\ p' = p /\ Outlay(m)' + Grade(m)' = received[m] + k' + o' + l' + g'
  BY DEF Outlay, Paid
<1>10. p \in Nat
  BY <1>1 DEF Paid
<1>11. Pending(m)' = {} => Pending(m) = {} \/ o >= 1 \/ g >= 1
  BY <1>6
<1> HIDE DEF k, o, l, g, p
<1>15. received[m] + k' + o' + l' + g' <= received[m] + k + o + l + g /\ received[m] + k' + o' + l' + g' \in Nat
  <2>1. /\ received[m] \in Nat /\ k \in Nat /\ o \in Nat /\ l \in Nat /\ g \in Nat
        /\ k' \in Nat /\ o' \in Nat /\ l' \in Nat /\ g' \in Nat
    BY <1>1, <1>2
  <2>2. k' <= k
    BY <1>2
  <2>3. received[m] + k' + o' + l' + g' \in Nat
    BY <2>1
  <2>4. received[m] + k' + o' + l' + g' <= received[m] + k + o + l + g
    BY <2>1, <2>2, <1>5, TotalSum, ZenonT(60)
  <2> QED
    BY <2>3, <2>4
<1>12. Outlay(m)' + Grade(m)' <= p' + 1
  BY <1>1, <1>8, <1>9, <1>10, <1>15, SMTT(60)
<1>13. queue'[m] = "visible" => Outlay(m)' + Grade(m)' <= p'
  BY <1>1, <1>8, <1>9, <1>10, <1>15, SMTT(60)
<1>14. Pending(m)' = {} => Outlay(m)' <= p'
  BY <1>1, <1>2, <1>7, <1>8, <1>9, <1>10, <1>11, SMTT(60)
<1> QED
  BY <1>12, <1>13, <1>14 DEF Balanced, p

\* A step that pays for two: for one delivery of consumer c, or for its last
\* batch, and for a lease that may be left.
LEMMA Pays ==
  ASSUME IInv, IInv', NEW m \in Message, Balanced(m), received'[m] = received[m], NEW c,
         handled'[m] + disturbances' = handled[m] + disturbances + 1,
         \/ Prepaid' \subseteq Prepaid /\ Owed(m)' \subseteq Owed(m) \cup {c} /\ Late(m)' \subseteq Late(m) /\ Grade(m)' <= Grade(m) + 1
         \/ Prepaid' \subseteq Prepaid /\ Owed(m)' \subseteq Owed(m) /\ Late(m)' \subseteq Late(m)
         \/ Prepaid' \subseteq Prepaid /\ Owed(m)' \subseteq Owed(m) \cup {c} /\ Late(m)' \subseteq Late(m) \cup {c} /\ Grade(m)' <= Grade(m)
         \/ Prepaid' \subseteq Prepaid \cup {c} /\ Owed(m)' \subseteq Owed(m) /\ Late(m)' \subseteq Late(m) /\ Grade(m)' <= Grade(m),
         queue'[m] = "visible" => queue[m] = "visible"
  PROVE  Balanced(m)'
<1> DEFINE k == Cardinality(Prepaid)
           o == Cardinality(Owed(m))
           l == Cardinality(Late(m))
           g == Grade(m)
           p == Paid(m)
<1>1. /\ k \in Nat /\ o \in Nat /\ l \in Nat /\ received[m] \in Nat /\ handled[m] \in Nat /\ disturbances \in Nat
      /\ g \in {0, 1, 2} /\ g' \in {0, 1, 2}
  BY Numbers, Grades
<1>11. handled'[m] \in Nat /\ disturbances' \in Nat
  BY Constants DEF IInv, Types
<1>2. /\ k' \in Nat /\ o' \in Nat /\ l' \in Nat
      /\ \/ k' <= k /\ o' <= o + 1 /\ l' <= l /\ g' <= g + 1
         \/ k' <= k /\ o' <= o /\ l' <= l
         \/ k' <= k /\ o' <= o + 1 /\ l' <= l + 1 /\ g' <= g
         \/ k' <= k + 1 /\ o' <= o /\ l' <= l /\ g' <= g
  BY Numbers, Sizes
<1>3. Pending(m)' = {} => o' = 0 /\ l' = 0
  <2>1. Pending(m)' = {} => Owed(m)' = {} /\ Late(m)' = {}
    BY OnlyPendingNext DEF IInv, Idle
  <2> QED
    BY <2>1, FS_EmptySet
<1>4. /\ received[m] + k + o + l + g <= p + 1
      /\ queue[m] = "visible" => received[m] + k + o + l + g <= p
  BY DEF Balanced, Outlay
<1>5. Outlay(m)' = received[m] + k' + o' + l' /\ Outlay(m)' + Grade(m)' = received[m] + k' + o' + l' + g'
  BY DEF Outlay
<1>6. p \in Nat /\ p' = p + 2
  BY <1>1, <1>11 DEF Paid
<1> HIDE DEF k, o, l, g, p
<1>7. k' + o' + l' + g' <= k + o + l + g + 2 /\ k' <= k + 1
  <2>1. g \in Nat /\ g' \in Nat /\ g' <= 2
    BY <1>1
  <2> QED
    BY <1>1, <1>2, <2>1, PaidSum
<1>8. Outlay(m)' + Grade(m)' <= p' + 1
  BY <1>1, <1>2, <1>4, <1>5, <1>6, <1>7, SMTT(60)
<1>9. queue'[m] = "visible" => Outlay(m)' + Grade(m)' <= p'
  BY <1>1, <1>2, <1>4, <1>5, <1>6, <1>7, SMTT(60)
<1>10. Pending(m)' = {} => Outlay(m)' <= p'
  BY <1>1, <1>2, <1>3, <1>4, <1>5, <1>6, <1>7, SMTT(60)
<1> QED
  BY <1>8, <1>9, <1>10 DEF Balanced, p
-----------------------------------------------------------------------------
(* What the step of one consumer does to the account.                      *)

Prepays(s) == s.stopping /\ s.loop = "receive"

LEMMA Turn ==
  ASSUME NEW c \in Consumer, \A d \in Consumer \ {c} : consumer'[d] = consumer[d], NEW m
  PROVE  /\ Prepaid' \subseteq Prepaid \cup {c} /\ Owed(m)' \subseteq Owed(m) \cup {c} /\ Late(m)' \subseteq Late(m) \cup {c}
         /\ (Prepays(consumer'[c]) => Prepays(consumer[c])) => Prepaid' \subseteq Prepaid
         /\ (Spent(consumer'[c], m) => Spent(consumer[c], m)) => Owed(m)' \subseteq Owed(m)
         /\ (Stopped(consumer'[c], m) => Stopped(consumer[c], m)) => Late(m)' \subseteq Late(m)
         /\ Spent(consumer[c], m) /\ ~Spent(consumer'[c], m) => Owed(m)' # Owed(m)
         /\ Stopped(consumer[c], m) /\ ~Stopped(consumer'[c], m) => Late(m)' # Late(m)
         /\ Pending(m)' = {} => Pending(m) = {} \/ (Has(consumer[c], m) /\ ~Has(consumer'[c], m))
         /\ Spent(consumer[c], m) => Owed(m) # {}
<1>1. /\ Prepaid = {d \in Consumer : Prepays(consumer[d])} /\ Prepaid' = {d \in Consumer : Prepays(consumer'[d])}
  BY DEF Prepaid, Prepays
<1>2. /\ Owed(m) = {d \in Consumer : Spent(consumer[d], m)} /\ Owed(m)' = {d \in Consumer : Spent(consumer'[d], m)}
      /\ Late(m) = {d \in Consumer : Stopped(consumer[d], m)} /\ Late(m)' = {d \in Consumer : Stopped(consumer'[d], m)}
  BY DEF Owed, Spent, Late, Stopped, Has, Busy
<1>3. /\ Pending(m) = {d \in Consumer : Has(consumer[d], m)} /\ Pending(m)' = {d \in Consumer : Has(consumer'[d], m)}
  BY DEF Pending, Has
<1> QED
  BY <1>1, <1>2, <1>3

\* The owner of a lease that keeps its place keeps what the lease may cost.
Enters(s, m) == s.pc = "check" /\ Busy(s, m)
Engages(s, m) == s.pc \in Done /\ Busy(s, m)

LEMMA GradeTurn ==
  ASSUME NEW c \in Consumer, \A d \in Consumer \ {c} : consumer'[d] = consumer[d], NEW m,
         m \in Job => /\ lease'[m] = None <=> lease[m] = None
                      /\ \A d \in Consumer \ {c} : lease'[m] = d <=> lease[m] = d
                      /\ m \in outlived' <=> m \in outlived
                      /\ lease'[m] = c /\ Enters(consumer'[c], m) <=> lease[m] = c /\ Enters(consumer[c], m)
                      /\ lease'[m] = c /\ Engages(consumer'[c], m) <=> lease[m] = c /\ Engages(consumer[c], m)
  PROVE  Grade(m)' = Grade(m)
<1>1. CASE m \notin Job
  BY <1>1 DEF Grade
<1>2. CASE m \in Job
  <2>1. /\ Entering(m) <=> \E d \in Consumer : lease[m] = d /\ Enters(consumer[d], m)
        /\ Entering(m)' <=> \E d \in Consumer : lease'[m] = d /\ Enters(consumer'[d], m)
        /\ Engaged(m) <=> \E d \in Consumer : lease[m] = d /\ Engages(consumer[d], m)
        /\ Engaged(m)' <=> \E d \in Consumer : lease'[m] = d /\ Engages(consumer'[d], m)
    BY DEF Entering, Engaged, Enters, Engages, Busy
  <2>2. (Entering(m)' <=> Entering(m)) /\ (Engaged(m)' <=> Engaged(m))
    BY <1>2, <2>1
  <2> QED
    BY <1>2, <2>2 DEF Grade
<1> QED
  BY <1>1, <1>2

\* The lease of another is not touched by what c does.
LEMMA GradeOther ==
  ASSUME NEW c \in Consumer, \A d \in Consumer \ {c} : consumer'[d] = consumer[d], NEW m,
         m \in Job => lease'[m] = lease[m] /\ (m \in outlived' <=> m \in outlived),
         \/ m \in Job => lease[m] # c
         \/ ~Busy(consumer[c], m) /\ ~Busy(consumer'[c], m)
         \/ consumer[c].pc \notin Done \cup {"check"} /\ consumer'[c].pc \notin Done \cup {"check"}
         \/ /\ Busy(consumer'[c], m) <=> Busy(consumer[c], m)
            /\ consumer'[c].pc = "check" <=> consumer[c].pc = "check"
            /\ consumer'[c].pc \in Done <=> consumer[c].pc \in Done
  PROVE  Grade(m)' = Grade(m)
  BY GradeTurn DEF Enters, Engages

LEMMA QuietMove ==
  ASSUME IInv, IInv', NEW m \in Message, Balanced(m), received'[m] = received[m],
         handled'[m] = handled[m], disturbances' = disturbances, queue'[m] = "visible" => queue[m] = "visible",
         NEW c \in Consumer, \A d \in Consumer \ {c} : consumer'[d] = consumer[d],
         Prepays(consumer'[c]) => Prepays(consumer[c]),
         Spent(consumer'[c], m) => Spent(consumer[c], m),
         Stopped(consumer'[c], m) => Stopped(consumer[c], m),
         Has(consumer[c], m) => Has(consumer'[c], m) \/ Spent(consumer[c], m) \/ Grade(m) >= 1 \/ Pending(m)' # {},
         \/ Grade(m)' <= Grade(m)
         \/ /\ Grade(m)' <= Grade(m) + 1
            /\ \/ Spent(consumer[c], m) /\ ~Spent(consumer'[c], m)
               \/ Stopped(consumer[c], m) /\ ~Stopped(consumer'[c], m)
         \/ /\ Spent(consumer[c], m) /\ ~Spent(consumer'[c], m)
            /\ Stopped(consumer[c], m) /\ ~Stopped(consumer'[c], m)
  PROVE  Balanced(m)'
<1>1. Prepaid' \subseteq Prepaid /\ Owed(m)' \subseteq Owed(m) /\ Late(m)' \subseteq Late(m)
  BY Turn
<1>2. /\ Spent(consumer[c], m) /\ ~Spent(consumer'[c], m) => Owed(m)' # Owed(m)
      /\ Stopped(consumer[c], m) /\ ~Stopped(consumer'[c], m) => Late(m)' # Late(m)
  BY Turn
<1>3. \/ Grade(m)' <= Grade(m)
      \/ Grade(m)' <= Grade(m) + 1 /\ (Owed(m)' # Owed(m) \/ Late(m)' # Late(m))
      \/ Owed(m)' # Owed(m) /\ Late(m)' # Late(m)
  BY <1>2
<1>4. Pending(m)' = {} => Pending(m) = {} \/ Owed(m) # {} \/ Grade(m) >= 1
  BY Turn
<1> QED
  BY <1>1, <1>3, <1>4, Quiet

\* The grade stays, most of the time.
LEMMA SameGrade ==
  ASSUME NEW m, Grade(m)' = Grade(m)
  PROVE  Grade(m)' <= Grade(m) /\ Grade(m)' <= Grade(m) + 1
  BY Grades

\* A delivery that goes on, and one that ends.
LEMMA GotoHas ==
  ASSUME Loops, NEW c \in Consumer, consumer[c].pc # "none", NEW pc, pc # "none", Goto(c, pc), NEW m
  PROVE  /\ \A d \in Consumer \ {c} : consumer'[d] = consumer[d]
         /\ consumer'[c].stopping = consumer[c].stopping /\ consumer'[c].loop = consumer[c].loop /\ consumer'[c].pc = pc
         /\ Has(consumer'[c], m) <=> Has(consumer[c], m)
         /\ Busy(consumer'[c], m) <=> Busy(consumer[c], m)
         /\ Busy(consumer[c], m) <=> m = Active(c)
<1>1. consumer[c] \in State /\ Active(c) = Head(consumer[c].batch).message
  BY InHand DEF Loops
<1>2. /\ \A d \in Consumer \ {c} : consumer'[d] = consumer[d]
      /\ consumer'[c].stopping = consumer[c].stopping /\ consumer'[c].loop = consumer[c].loop
      /\ consumer'[c].batch = consumer[c].batch /\ consumer'[c].pc = pc
  BY <1>1 DEF Goto, Loops, State
<1> QED
  BY <1>1, <1>2 DEF Has, Busy

LEMMA EndHas ==
  ASSUME Loops, NEW c \in Consumer, consumer[c].pc # "none", EndDelivery(c), NEW m
  PROVE  /\ \A d \in Consumer \ {c} : consumer'[d] = consumer[d]
         /\ consumer'[c].stopping = consumer[c].stopping /\ consumer'[c].loop = "batch" /\ consumer'[c].pc = "none"
         /\ Has(consumer'[c], m) => Has(consumer[c], m)
         /\ Has(consumer[c], m) /\ m # Active(c) => Has(consumer'[c], m)
         /\ ~Busy(consumer'[c], m) /\ (Busy(consumer[c], m) <=> m = Active(c))
<1> DEFINE batch == consumer[c].batch
<1>1. /\ batch \in Seq(Deliveries) /\ batch # <<>> /\ Active(c) = batch[1].message /\ consumer[c] \in State
      /\ consumer[c].loop = "batch" /\ Active(c) = Head(consumer[c].batch).message
  BY InHand, Rest
<1>2. consumer'[c].batch = Tail(batch) /\ \A d \in Consumer \ {c} : consumer'[d] = consumer[d]
  BY EndMoves
<1>3. consumer'[c].stopping = consumer[c].stopping /\ consumer'[c].loop = "batch" /\ consumer'[c].pc = "none"
  BY <1>1 DEF EndDelivery, Loops, State
<1>4. /\ DOMAIN batch = 1..Len(batch) /\ DOMAIN Tail(batch) = 1..(Len(batch) - 1) /\ Len(batch) \in Nat \ {0}
      /\ \A i \in 1..(Len(batch) - 1) : Tail(batch)[i] = batch[i + 1]
  BY <1>1, Rest
<1>5. ~Busy(consumer'[c], m) /\ (Busy(consumer[c], m) <=> m = Active(c))
  BY <1>1, <1>3 DEF Busy
<1> HIDE DEF batch
<1>6. \A i \in DOMAIN Tail(batch) : i + 1 \in DOMAIN batch /\ Tail(batch)[i] = batch[i + 1]
  BY <1>4
<1>7. ASSUME NEW i \in DOMAIN batch, i # 1 PROVE \E k \in DOMAIN Tail(batch) : Tail(batch)[k] = batch[i]
  <2>1. i - 1 \in 1..(Len(batch) - 1) /\ (i - 1) + 1 = i
    BY <1>4, <1>7
  <2> QED
    BY <1>4, <2>1
<1>8. Has(consumer'[c], m) => Has(consumer[c], m)
  BY <1>2, <1>6 DEF Has, batch
<1>9. ASSUME NEW i \in DOMAIN batch, batch[i].message = m, i # 1 PROVE Has(consumer'[c], m)
  BY <1>2, <1>7, <1>9 DEF Has
<1>10. Has(consumer[c], m) /\ m # Active(c) => Has(consumer'[c], m)
  BY <1>1, <1>9 DEF Has, batch
<1> QED
  BY <1>2, <1>3, <1>5, <1>8, <1>10

\* The loop outside deliveries, and the restart.
LEMMA LoopBalanced ==
  ASSUME IInv, IInv', Accounted, NEW c \in Consumer, consumer[c].pc = "none",
         ReceiveNothing(c) \/ Wake(c) \/ NextMessage(c) \/ GraceEnds(c) \/ Restart(c)
  PROVE  Accounted'
<1>1. consumer[c] \in State /\ Fine(consumer[c]) /\ DOMAIN consumer = Consumer
  BY DEF IInv, Loops
<1>2. UNCHANGED <<queue, received, outlived, handled, disturbances>>
  BY DEF ReceiveNothing, Wake, NextMessage, GraceEnds, Restart
<1>3. PICK s : consumer' = [consumer EXCEPT ![c] = s]
  BY DEF ReceiveNothing, Wake, NextMessage, GraceEnds, Restart
<1>4. consumer'[c] = s /\ \A d \in Consumer \ {c} : consumer'[d] = consumer[d]
  BY <1>1, <1>3
<1>5. \/ /\ s.batch = <<>> /\ s.pc = "none" /\ (consumer[c].batch # <<>> => consumer[c].stopping)
         /\ s.stopping => consumer[c].stopping
         /\ Prepays(s) => Prepays(consumer[c])
      \/ s.batch = consumer[c].batch /\ s.loop = consumer[c].loop /\ s.stopping = consumer[c].stopping /\ s.pc = "none"
      \/ s.batch = consumer[c].batch /\ s.loop = consumer[c].loop /\ s.pc = "parse" /\ ~s.stopping
  <2>1. CASE ReceiveNothing(c)
    <3>1. consumer[c].batch = <<>> /\ consumer[c].loop = "receive"
      BY <1>1, <2>1 DEF ReceiveNothing, Fine
    <3>2. CASE consumer[c].stopping
      BY <1>1, <1>4, <2>1, <3>1, <3>2 DEF ReceiveNothing, Ended, State, Prepays
    <3>3. CASE ~consumer[c].stopping
      BY <1>1, <1>4, <2>1, <3>1, <3>3 DEF ReceiveNothing, State
    <3> QED
      BY <3>2, <3>3
  <2>2. CASE Wake(c)
    <3>1. consumer[c].batch = <<>>
      BY <1>1, <2>2 DEF Wake, Fine
    <3> QED
      BY <1>1, <1>4, <2>2, <3>1 DEF Wake, Top, State, Prepays
  <2>3. CASE NextMessage(c)
    <3> DEFINE stop == consumer[c].stopping \/ consumer[c].batch = <<>>
    <3>1. s = IF stop THEN [Ended(c) EXCEPT !.loop = Top(c)] ELSE [consumer[c] EXCEPT !.pc = "parse"]
      BY <1>1, <1>4, <2>3 DEF NextMessage
    <3>2. CASE stop
      BY <1>1, <3>1, <3>2 DEF State, Ended, Top, Prepays
    <3>3. CASE ~stop
      BY <1>1, <3>1, <3>3 DEF State
    <3> QED
      BY <3>2, <3>3
  <2>4. CASE GraceEnds(c)
    BY <1>1, <1>4, <2>4 DEF GraceEnds, State, At
  <2>5. CASE Restart(c)
    <3>1. consumer[c].batch = <<>>
      BY <1>1, <2>5 DEF Restart, Fine
    <3> QED
      BY <1>1, <1>4, <2>5, <3>1 DEF Restart, Running, Prepays
  <2> QED
    BY <2>1, <2>2, <2>3, <2>4, <2>5
<1>7. ASSUME NEW m \in Message
      PROVE  /\ Prepays(s) => Prepays(consumer[c])
             /\ Spent(s, m) => Spent(consumer[c], m)
             /\ ~Stopped(s, m)
             /\ Has(consumer[c], m) => Has(s, m) \/ Spent(consumer[c], m)
  <2>1. DOMAIN <<>> = {}
    OBVIOUS
  <2> QED
    BY <1>5, <2>1 DEF Prepays, Spent, Stopped, Has, Busy, Done
<1>8. ASSUME NEW m \in Message PROVE Grade(m)' = Grade(m)
  <2>1. s.pc \notin Done \cup {"check"} /\ consumer[c].pc \notin Done \cup {"check"}
    BY <1>5 DEF Done
  <2>2. m \in Job => /\ lease'[m] = None <=> lease[m] = None
                     /\ \A d \in Consumer \ {c} : lease'[m] = d <=> lease[m] = d
    BY ConsumersFinite DEF ReceiveNothing, Wake, NextMessage, GraceEnds, Restart
  <2> QED
    BY <1>2, <1>4, <2>1, <2>2, GradeTurn DEF Enters, Engages
<1>9. ASSUME NEW m \in Message PROVE Balanced(m)'
  BY <1>2, <1>4, <1>7, <1>8, SameGrade, QuietMove DEF Accounted
<1> QED
  BY <1>9 DEF Accounted

\* The end of the grace period cancels a delivery that the signal paid for
\* twice.
LEMMA CancelBalanced ==
  ASSUME IInv, IInv', Accounted, NEW c \in Consumer, consumer[c].pc # "none", GraceEnds(c)
  PROVE  Accounted'
<1>1. consumer[c] \in State /\ Fine(consumer[c]) /\ DOMAIN consumer = Consumer
  BY DEF IInv, Loops
<1>2. consumer[c].stopping /\ UNCHANGED <<queue, received, lease, outlived, handled, disturbances>>
  BY <1>1 DEF GraceEnds, Fine
<1>3. /\ \A d \in Consumer \ {c} : consumer'[d] = consumer[d]
      /\ consumer'[c].loop = "ended" /\ consumer'[c].batch = <<>> /\ consumer'[c].pc = "none"
  BY <1>1 DEF GraceEnds, Ended, State, At
<1>4. ASSUME NEW m \in Message
      PROVE  /\ ~Prepays(consumer'[c]) /\ ~Spent(consumer'[c], m) /\ ~Stopped(consumer'[c], m) /\ ~Busy(consumer'[c], m)
             /\ Has(consumer[c], m) => Spent(consumer[c], m)
             /\ Busy(consumer[c], m) => Stopped(consumer[c], m) /\ Spent(consumer[c], m)
  <2>1. DOMAIN <<>> = {}
    OBVIOUS
  <2>2. Busy(consumer[c], m) => Has(consumer[c], m)
    BY BusyHas DEF IInv
  <2> QED
    BY <1>2, <1>3, <2>1, <2>2 DEF Prepays, Spent, Stopped, Has, Busy, Done
<1>5. ASSUME NEW m \in Message PROVE Balanced(m)'
  <2>1. CASE Busy(consumer[c], m)
    BY <1>2, <1>3, <1>4, <2>1, QuietMove DEF Accounted
  <2>2. CASE ~Busy(consumer[c], m)
    <3>1. Grade(m)' = Grade(m)
      BY <1>2, <1>3, <1>4, <2>2, GradeOther
    <3> QED
      BY <1>2, <1>3, <1>4, <3>1, SameGrade, QuietMove DEF Accounted
  <2> QED
    BY <2>1, <2>2
<1> QED
  BY <1>5 DEF Accounted

\* A delivery goes on, and nothing is counted.
LEMMA GoBalanced ==
  ASSUME IInv, IInv', Accounted, NEW c \in Consumer, consumer[c].pc # "none", NEW pc, pc # "none", Goto(c, pc),
         UNCHANGED <<queue, received, handled, disturbances>>,
         pc \in Done => consumer[c].pc \in Done,
         \A m \in Job : \/ /\ lease'[m] = lease[m] /\ (m \in outlived' <=> m \in outlived)
                           /\ pc = "check" <=> consumer[c].pc = "check"
                           /\ pc \in Done <=> consumer[c].pc \in Done
                        \/ lease'[m] = lease[m] /\ (m \in outlived' <=> m \in outlived) /\ m # Active(c)
                        \/ lease'[m] = None
                        \/ lease'[m] = c /\ pc = "check" /\ m = Active(c)
  PROVE  Accounted'
<1>1. Loops
  BY DEF IInv
<1>2. ASSUME NEW m \in Message PROVE Balanced(m)'
  <2>1. /\ \A d \in Consumer \ {c} : consumer'[d] = consumer[d]
        /\ consumer'[c].stopping = consumer[c].stopping /\ consumer'[c].loop = consumer[c].loop /\ consumer'[c].pc = pc
        /\ Has(consumer'[c], m) <=> Has(consumer[c], m)
        /\ Busy(consumer'[c], m) <=> Busy(consumer[c], m)
        /\ Busy(consumer[c], m) <=> m = Active(c)
    BY <1>1, GotoHas
  <2>2. Grade(m)' <= Grade(m)
    <3>1. CASE m \notin Job
      BY <3>1 DEF Grade
    <3>2. CASE m \in Job /\ (lease'[m] = None \/ (lease'[m] = c /\ pc = "check" /\ m = Active(c)))
      <4>1. Grade(m)' = 0
        BY <2>1, <3>2 DEF Grade, Entering, Busy
      <4> QED
        BY <4>1, Grades
    <3>3. CASE m \in Job /\ lease'[m] = lease[m] /\ (m \in outlived' <=> m \in outlived)
                         /\ (m # Active(c) \/ ((pc = "check" <=> consumer[c].pc = "check") /\ (pc \in Done <=> consumer[c].pc \in Done)))
      <4>1. Grade(m)' = Grade(m)
        BY <2>1, <3>3, GradeOther
      <4> QED
        BY <4>1, SameGrade
    <3> QED
      BY <3>1, <3>2, <3>3
  <2>3. /\ Prepays(consumer'[c]) => Prepays(consumer[c])
        /\ Spent(consumer'[c], m) => Spent(consumer[c], m)
        /\ Stopped(consumer'[c], m) => Stopped(consumer[c], m)
    BY <2>1 DEF Prepays, Spent, Stopped
  <2> QED
    BY <2>1, <2>2, <2>3, QuietMove DEF Accounted
<1> QED
  BY <1>2 DEF Accounted

\* What the end of a delivery leaves of what was paid.
LEMMA EndSpends ==
  ASSUME Loops, NEW c \in Consumer, consumer[c].pc # "none", EndDelivery(c), NEW m
  PROVE  /\ Prepays(consumer'[c]) => Prepays(consumer[c])
         /\ Spent(consumer'[c], m) => Spent(consumer[c], m)
         /\ ~Stopped(consumer'[c], m)
         /\ m = Active(c) /\ consumer[c].pc \in Done => Spent(consumer[c], m)
         /\ m = Active(c) /\ consumer[c].pc \in Done =>
               \/ Stopped(consumer[c], m) /\ ~Stopped(consumer'[c], m)
               \/ Spent(consumer[c], m) /\ ~Spent(consumer'[c], m)
<1>1. /\ consumer'[c].stopping = consumer[c].stopping /\ consumer'[c].loop = "batch" /\ consumer'[c].pc = "none"
      /\ Has(consumer'[c], m) => Has(consumer[c], m)
      /\ ~Busy(consumer'[c], m) /\ (Busy(consumer[c], m) <=> m = Active(c))
  BY EndHas
<1> QED
  BY <1>1 DEF Prepays, Spent, Stopped, Done

\* A delivery that was counted ends, and may leave its lease.
LEMMA EndBalanced ==
  ASSUME IInv, IInv', Accounted, NEW c \in Consumer, EndDelivery(c), consumer[c].pc \in Done,
         UNCHANGED <<received, handled, disturbances>>,
         \A m \in Message : queue'[m] = "visible" => queue[m] = "visible",
         \A m \in Job : \/ lease'[m] = lease[m] /\ (m \in outlived' <=> m \in outlived)
                        \/ lease'[m] = None
  PROVE  Accounted'
<1>1. Loops /\ consumer[c].pc # "none" /\ consumer[c].pc # "check"
  BY DEF IInv, Done
<1>2. ASSUME NEW m \in Message PROVE Balanced(m)'
  <2>1. /\ \A d \in Consumer \ {c} : consumer'[d] = consumer[d]
        /\ Has(consumer[c], m) /\ m # Active(c) => Has(consumer'[c], m)
        /\ ~Busy(consumer'[c], m) /\ (Busy(consumer[c], m) <=> m = Active(c)) /\ consumer'[c].pc = "none"
    BY <1>1, EndHas
  <2>2. /\ Prepays(consumer'[c]) => Prepays(consumer[c])
        /\ Spent(consumer'[c], m) => Spent(consumer[c], m)
        /\ Stopped(consumer'[c], m) => Stopped(consumer[c], m)
        /\ m = Active(c) => Spent(consumer[c], m)
        /\ m = Active(c) => \/ Stopped(consumer[c], m) /\ ~Stopped(consumer'[c], m)
                            \/ Spent(consumer[c], m) /\ ~Spent(consumer'[c], m)
    BY <1>1, EndSpends
  <2>3. Has(consumer[c], m) => Has(consumer'[c], m) \/ Spent(consumer[c], m)
    BY <2>1, <2>2
  <2>4. CASE m \in Job => lease'[m] = None
    <3>1. Grade(m)' = 0
      BY <2>4 DEF Grade
    <3>2. Grade(m)' <= Grade(m)
      BY <3>1, Grades
    <3> QED
      BY <2>1, <2>2, <2>3, <3>2, QuietMove DEF Accounted
  <2>5. CASE m \in Job /\ lease'[m] = lease[m] /\ (m \in outlived' <=> m \in outlived) /\ (m # Active(c) \/ lease[m] # c)
    <3>1. Grade(m)' = Grade(m)
      BY <2>1, <2>5, GradeOther
    <3> QED
      BY <2>1, <2>2, <2>3, <3>1, SameGrade, QuietMove DEF Accounted
  <2>6. CASE m \in Job /\ m = Active(c) /\ lease[m] = c
    <3>1. Engaged(m)
      BY <2>1, <2>6 DEF Engaged
    <3>2. ~Entering(m)
      BY <1>1, <2>6 DEF Entering
    <3>3. Grade(m) = 1
      BY <2>6, <3>1, <3>2, ConsumersFinite DEF Grade
    <3>4. Grade(m)' <= Grade(m) + 1
      BY <3>3, Grades
    <3> QED
      BY <2>1, <2>2, <2>3, <2>6, <3>4, QuietMove DEF Accounted
  <2> QED
    BY <2>4, <2>5, <2>6
<1> QED
  BY <1>2 DEF Accounted

\* A refused delivery is one of several, or the lease was left for one.
LEMMA AcquireBalanced ==
  ASSUME IInv, IInv', Accounted, NEW c \in Consumer, Acquire(c)
  PROVE  Accounted'
<1>1. /\ consumer[c].pc = "acquire" /\ consumer[c].pc # "none" /\ Loops /\ Active(c) \in Job
      /\ lease \in [Job -> Consumer \cup {Former, None}]
      /\ UNCHANGED <<queue, received, handled, disturbances>>
  BY AtWork DEF Acquire, At, Worked, IInv, Types
<1>2. CASE Take(c, Active(c)) /\ Goto(c, "check")
  <2>1. "check" \notin Done /\ "check" # "none"
    BY DEF Done
  <2>2. \A m \in Job : \/ lease'[m] = lease[m] /\ (m \in outlived' <=> m \in outlived) /\ m # Active(c)
                       \/ lease'[m] = c /\ m = Active(c)
    BY <1>1, <1>2 DEF Take
  <2> QED
    BY <1>1, <1>2, <2>1, <2>2, GoBalanced
<1>3. CASE Refused(c, Active(c)) /\ EndDelivery(c) /\ UNCHANGED <<lease, outlived>>
  <2>1. ASSUME NEW m \in Message PROVE Balanced(m)'
    <3>1. /\ \A d \in Consumer \ {c} : consumer'[d] = consumer[d]
          /\ Has(consumer[c], m) /\ m # Active(c) => Has(consumer'[c], m)
          /\ ~Busy(consumer'[c], m) /\ consumer'[c].pc = "none"
      BY <1>1, <1>3, EndHas
    <3>2. /\ Prepays(consumer'[c]) => Prepays(consumer[c])
          /\ Spent(consumer'[c], m) => Spent(consumer[c], m)
          /\ Stopped(consumer'[c], m) => Stopped(consumer[c], m)
      BY <1>1, <1>3, EndSpends
    <3>3. Grade(m)' = Grade(m)
      <4>1. consumer[c].pc \notin Done \cup {"check"} /\ consumer'[c].pc \notin Done \cup {"check"}
        BY <1>1, <3>1 DEF Done
      <4> QED
        BY <1>3, <3>1, <4>1, GradeOther
    <3>4. m = Active(c) => Grade(m) >= 1 \/ Pending(m)' # {}
      <4> SUFFICES ASSUME m = Active(c), Pending(m)' = {} PROVE Grade(m) >= 1
        OBVIOUS
      <4>1. ~Entering(m)'
        BY OnlyPendingNext DEF IInv, Idle
      <4>2. lease[m] # None /\ lease'[m] = lease[m] /\ m \in Job
        BY <1>1, <1>3 DEF Refused
      <4>3. Grade(m)' # 0
        BY <4>1, <4>2 DEF Grade
      <4> QED
        BY <3>3, <4>3, Grades
    <3> QED
      BY <1>1, <3>1, <3>2, <3>3, <3>4, SameGrade, QuietMove DEF Accounted
  <2> QED
    BY <2>1 DEF Accounted
<1> QED
  BY <1>2, <1>3 DEF Acquire

\* A delivery is counted.
LEMMA PaidMove ==
  ASSUME IInv, IInv', NEW m \in Message, Balanced(m), received'[m] = received[m],
         handled'[m] + disturbances' = handled[m] + disturbances + 1, queue'[m] = "visible" => queue[m] = "visible",
         NEW c \in Consumer, \A d \in Consumer \ {c} : consumer'[d] = consumer[d],
         Prepays(consumer'[c]) => Prepays(consumer[c]),
         Stopped(consumer'[c], m) => Stopped(consumer[c], m),
         \/ Spent(consumer'[c], m) => Spent(consumer[c], m)
         \/ Grade(m)' <= Grade(m) + 1
  PROVE  Balanced(m)'
<1>1. Prepaid' \subseteq Prepaid /\ Owed(m)' \subseteq Owed(m) \cup {c} /\ Late(m)' \subseteq Late(m)
      /\ ((Spent(consumer'[c], m) => Spent(consumer[c], m)) => Owed(m)' \subseteq Owed(m))
  BY Turn
<1> QED
  BY <1>1, Pays

\* Work begins: from now on the lease, if it is held, may be left.
LEMMA CheckBalanced ==
  ASSUME IInv, IInv', Accounted, NEW c \in Consumer, NEW pc, pc \in Done, consumer[c].pc \notin Done \cup {"none"},
         Goto(c, pc), Handle(c), UNCHANGED <<queue, received, lease, outlived, disturbances>>
  PROVE  Accounted'
<1>1. Loops /\ handled \in [Message -> Nat] /\ consumer[c].pc # "none" /\ pc # "none"
  BY DEF IInv, Types, Done
<1>2. ASSUME NEW m \in Message PROVE Balanced(m)'
  <2>1. /\ \A d \in Consumer \ {c} : consumer'[d] = consumer[d]
        /\ consumer'[c].stopping = consumer[c].stopping /\ consumer'[c].loop = consumer[c].loop /\ consumer'[c].pc = pc
        /\ Has(consumer'[c], m) <=> Has(consumer[c], m)
        /\ Busy(consumer'[c], m) <=> Busy(consumer[c], m)
        /\ Busy(consumer[c], m) <=> m = Active(c)
    BY <1>1, GotoHas
  <2>2. /\ Prepays(consumer'[c]) => Prepays(consumer[c])
        /\ Stopped(consumer'[c], m) => Stopped(consumer[c], m)
        /\ m # Active(c) /\ Spent(consumer'[c], m) => Spent(consumer[c], m)
    BY <2>1 DEF Prepays, Spent, Stopped
  <2>3. CASE m # Active(c)
    <3>1. Grade(m)' = Grade(m) /\ handled'[m] = handled[m]
      BY <1>1, <2>1, <2>3, GradeOther DEF Handle
    <3> QED
      BY <2>1, <2>2, <2>3, <3>1, SameGrade, QuietMove DEF Accounted
  <2>4. CASE m = Active(c)
    <3>1. handled'[m] = handled[m] + 1 /\ disturbances \in Nat /\ handled[m] \in Nat
      BY <1>1, <2>4, Numbers DEF Handle
    <3>2. handled'[m] + disturbances' = handled[m] + disturbances + 1
      BY <3>1
    <3>3. Grade(m)' <= Grade(m) + 1
      <4>1. CASE m \in Job => lease[m] # c
        <5>1. Grade(m)' = Grade(m)
          BY <2>1, <4>1, GradeOther
        <5> QED
          BY <5>1, SameGrade
      <4>2. CASE m \in Job /\ lease[m] = c /\ pc \in Done
        <5>1. Engaged(m)'
          BY <2>1, <2>4, <4>2 DEF Engaged, Busy
        <5>2. Grade(m)' \in {0, 1}
          BY <5>1 DEF Grade
        <5> QED
          BY <5>2, Grades
      <4> QED
        BY <4>1, <4>2
    <3> QED
      BY <2>1, <2>2, <3>2, <3>3, PaidMove DEF Accounted
  <2> QED
    BY <2>3, <2>4
<1> QED
  BY <1>2 DEF Accounted

LEMMA ParseBalanced ==
  ASSUME IInv, IInv', Accounted, NEW c \in Consumer, Parse(c)
  PROVE  Accounted'
<1>1. consumer[c].pc = "parse" /\ consumer[c].pc # "none" /\ Loops
      /\ UNCHANGED <<queue, received, lease, outlived, handled, disturbances>>
  BY DEF Parse, At, IInv
<1>2. \E pc : Goto(c, pc) /\ pc \notin Done \cup {"none", "check"}
  <2>1. Active(c) \in Message /\ Message = Job \cup Junk /\ Job \cap Junk = {}
    BY <1>1, InHand, Constants
  <2>2. CASE Active(c) \in Junk
    BY <2>1, <2>2 DEF Parse, Done
  <2>3. CASE Active(c) \in Job /\ Exhausted(Delivery(c))
    BY <2>1, <2>3 DEF Parse, Done
  <2>4. CASE Active(c) \in Job /\ ~Exhausted(Delivery(c))
    BY <2>1, <2>4 DEF Parse, Done
  <2> QED
    BY <2>1, <2>2, <2>3, <2>4
<1>3. PICK pc : Goto(c, pc) /\ pc \notin Done \cup {"none", "check"}
  BY <1>2
<1>4. consumer[c].pc \notin Done \cup {"check"}
  BY <1>1 DEF Done
<1> QED
  BY <1>1, <1>3, <1>4, GoBalanced

\* A message that does not parse has no lease to leave.
LEMMA InvalidBalanced ==
  ASSUME IInv, IInv', Accounted, NEW c \in Consumer, RecordInvalid(c)
  PROVE  Accounted'
<1>1. /\ Loops /\ handled \in [Message -> Nat] /\ consumer[c].pc = "record_invalid" /\ consumer[c].pc # "none"
      /\ EndDelivery(c) /\ Handle(c) /\ UNCHANGED <<queue, received, lease, outlived, disturbances>>
  BY DEF IInv, Types, RecordInvalid, At
<1>2. Active(c) \notin Job
  BY <1>1, InHand, Constants DEF Fine
<1>3. ASSUME NEW m \in Message PROVE Balanced(m)'
  <2>1. /\ \A d \in Consumer \ {c} : consumer'[d] = consumer[d]
        /\ Has(consumer[c], m) /\ m # Active(c) => Has(consumer'[c], m)
        /\ ~Busy(consumer'[c], m) /\ (Busy(consumer[c], m) <=> m = Active(c))
    BY <1>1, EndHas
  <2>2. /\ Prepays(consumer'[c]) => Prepays(consumer[c])
        /\ Spent(consumer'[c], m) => Spent(consumer[c], m)
        /\ Stopped(consumer'[c], m) => Stopped(consumer[c], m)
    BY <1>1, EndSpends
  <2>3. CASE m # Active(c)
    <3>1. Grade(m)' = Grade(m) /\ handled'[m] = handled[m]
      BY <1>1, <2>1, <2>3, GradeOther DEF Handle
    <3> QED
      BY <1>1, <2>1, <2>2, <2>3, <3>1, SameGrade, QuietMove DEF Accounted
  <2>4. CASE m = Active(c)
    <3>1. handled'[m] = handled[m] + 1 /\ disturbances \in Nat /\ handled[m] \in Nat
      BY <1>1, <2>4, Numbers DEF Handle
    <3>2. handled'[m] + disturbances' = handled[m] + disturbances + 1
      BY <1>1, <3>1
    <3> QED
      BY <1>1, <2>1, <2>2, <3>2, PaidMove DEF Accounted
  <2> QED
    BY <2>3, <2>4
<1> QED
  BY <1>3 DEF Accounted

LEMMA CountedBalanced ==
  ASSUME IInv, IInv', Accounted, NEW c \in Consumer, RecordExhausted(c) \/ Check(c)
  PROVE  Accounted'
<1>1. consumer[c].pc \notin Done \cup {"none"}
  BY DEF RecordExhausted, Check, At, Done
<1>2. Handle(c) /\ UNCHANGED <<queue, received, lease, outlived, disturbances>>
  BY DEF RecordExhausted, Check
<1>3. \E pc \in Done : Goto(c, pc)
  <2>1. {"mark_failed", "release", "work"} \subseteq Done
    BY DEF Done
  <2> QED
    BY <2>1 DEF RecordExhausted, Check
<1> QED
  BY <1>1, <1>2, <1>3, CheckBalanced

\* The calls that end a delivery give the lease back, or leave it as it is.
LEMMA SettlingBalanced ==
  ASSUME IInv, IInv', Accounted, NEW c \in Consumer,
         Load(c) \/ MarkFailed(c) \/ Release(c) \/ Work(c) \/ Complete(c) \/ Delete(c)
  PROVE  Accounted'
<1>1. /\ Loops /\ lease \in [Job -> Consumer \cup {Former, None}]
      /\ queue \in [Message -> {"visible", "hidden", "deleted", "dead"}]
      /\ UNCHANGED <<received, handled, disturbances>>
  BY DEF IInv, Types, Load, MarkFailed, Release, Work, Complete, Delete
<1>2. "check" \notin Done /\ "none" \notin Done /\ {"complete", "delete"} \subseteq Done
  BY DEF Done
<1>3. ASSUME Load(c) PROVE Accounted'
  <2>1. /\ Goto(c, "acquire") /\ consumer[c].pc = "load" /\ UNCHANGED <<queue, lease, outlived>>
        /\ "acquire" \notin Done /\ "load" \notin Done
    BY <1>3 DEF Load, Done, At
  <2> QED
    BY <1>1, <2>1, GoBalanced
<1>4. ASSUME MarkFailed(c) PROVE Accounted'
  <2>1. consumer[c].pc \in Done /\ EndDelivery(c) /\ queue' = queue
    BY <1>4 DEF MarkFailed, Done, At
  <2>2. \A m \in Job : \/ lease'[m] = lease[m] /\ (m \in outlived' <=> m \in outlived)
                       \/ lease'[m] = None
    BY <1>1, <1>4 DEF MarkFailed
  <2> QED
    BY <1>1, <2>1, <2>2, EndBalanced
<1>5. ASSUME Release(c) PROVE Accounted'
  <2>1. /\ consumer[c].pc \in Done /\ UNCHANGED <<queue, outlived>>
        /\ lease' = [lease EXCEPT ![Active(c)] = IF @ = c THEN None ELSE @]
    BY <1>5 DEF Release, Done, At
  <2>2. \A m \in Job : lease'[m] = lease[m] \/ lease'[m] = None
    BY <1>1, <2>1
  <2>3. Goto(c, "delete") \/ EndDelivery(c)
    BY <1>5 DEF Release
  <2>4. CASE Goto(c, "delete")
    BY <1>1, <1>2, <2>1, <2>2, <2>4, GoBalanced
  <2>5. CASE EndDelivery(c)
    BY <1>1, <2>1, <2>2, <2>5, EndBalanced
  <2> QED
    BY <2>3, <2>4, <2>5
<1>6. ASSUME Work(c) PROVE Accounted'
  <2>1. consumer[c].pc \in Done /\ UNCHANGED <<queue, lease, outlived>>
    BY <1>6 DEF Work, Done, At
  <2>2. CASE Goto(c, "complete")
    BY <1>1, <1>2, <2>1, <2>2, GoBalanced
  <2>3. CASE EndDelivery(c)
    BY <1>1, <2>1, <2>3, EndBalanced
  <2> QED
    BY <1>6, <2>2, <2>3 DEF Work
<1>7. ASSUME Complete(c) PROVE Accounted'
  <2>1. consumer[c].pc \in Done /\ UNCHANGED <<queue, outlived>>
    BY <1>7 DEF Complete, Done, At
  <2>2. CASE lease[Active(c)] = c
    <3>1. Goto(c, "delete") /\ lease' = [lease EXCEPT ![Active(c)] = None]
      BY <1>7, <2>2 DEF Complete
    <3>2. \A m \in Job : lease'[m] = lease[m] \/ lease'[m] = None
      BY <1>1, <3>1
    <3> QED
      BY <1>1, <1>2, <2>1, <3>1, <3>2, GoBalanced
  <2>3. CASE lease[Active(c)] # c
    <3>1. EndDelivery(c) /\ lease' = lease
      BY <1>7, <2>3 DEF Complete
    <3> QED
      BY <1>1, <2>1, <3>1, EndBalanced
  <2> QED
    BY <2>2, <2>3
<1>8. ASSUME Delete(c) PROVE Accounted'
  <2>1. /\ consumer[c].pc \in Done /\ EndDelivery(c) /\ UNCHANGED <<lease, outlived>>
        /\ queue' = [queue EXCEPT ![Active(c)] = IF @ = "dead" THEN @ ELSE "deleted"]
    BY <1>8 DEF Delete, Done, At
  <2>2. \A m \in Message : queue'[m] = "visible" => queue[m] = "visible"
    BY <1>1, <2>1
  <2> QED
    BY <1>1, <2>1, <2>2, EndBalanced
<1> QED
  BY <1>3, <1>4, <1>5, <1>6, <1>7, <1>8

LEMMA DeliverBalanced ==
  ASSUME IInv, IInv', Accounted, NEW c \in Consumer, Deliver(c)
  PROVE  Accounted'
  BY ParseBalanced, InvalidBalanced, CountedBalanced, SettlingBalanced, AcquireBalanced DEF Deliver

\* A disturbance pays for the lease that it leaves, and no consumer gets a
\* message by it.
LEMMA DisturbBalanced ==
  ASSUME IInv, IInv', Accounted, NEW c \in Consumer, ReceiveFails(c) \/ CallFails(c) \/ Crash(c)
  PROVE  Accounted'
<1>1. /\ UNCHANGED <<queue, received, lease, outlived, handled>> /\ disturbances' = disturbances + 1
      /\ Loops /\ consumer[c] \in State /\ Fine(consumer[c]) /\ DOMAIN consumer = Consumer
  BY DEF ReceiveFails, CallFails, Crash, Disturb, IInv, Loops
<1>2. ASSUME NEW m \in Message
      PROVE  /\ \A d \in Consumer \ {c} : consumer'[d] = consumer[d]
             /\ consumer'[c].loop # "receive" /\ consumer'[c].pc = "none"
             /\ consumer'[c].stopping = consumer[c].stopping
             /\ Has(consumer'[c], m) => Has(consumer[c], m)
  <2>1. CASE EndDelivery(c) /\ consumer[c].pc # "none"
    BY <1>1, <2>1, EndHas
  <2>2. CASE ~(EndDelivery(c) /\ consumer[c].pc # "none")
    <3>1. /\ \A d \in Consumer \ {c} : consumer'[d] = consumer[d]
          /\ consumer'[c].loop # "receive" /\ consumer'[c].pc = "none"
          /\ consumer'[c].stopping = consumer[c].stopping
          /\ consumer'[c].batch \in {<<>>, consumer[c].batch}
      <4>1. CASE ReceiveFails(c)
        BY <1>1, <4>1 DEF ReceiveFails, State, Fine
      <4>2. CASE CallFails(c)
        <5>1. consumer' = [consumer EXCEPT ![c] = Ended(c)]
          BY <2>2, <4>2 DEF CallFails
        <5> QED
          BY <1>1, <5>1 DEF Ended, State
      <4>3. CASE Crash(c)
        BY <1>1, <4>3 DEF Crash, Ended, State
      <4> QED
        BY <4>1, <4>2, <4>3
    <3>2. DOMAIN <<>> = {}
      OBVIOUS
    <3> QED
      BY <3>1, <3>2 DEF Has
  <2> QED
    BY <2>1, <2>2
<1>3. ASSUME NEW m \in Message PROVE Balanced(m)'
  <2>1. /\ Prepays(consumer'[c]) => Prepays(consumer[c])
        /\ Spent(consumer'[c], m) => Spent(consumer[c], m)
        /\ ~Stopped(consumer'[c], m)
    BY <1>2 DEF Prepays, Spent, Stopped, Busy, Done
  <2>2. handled'[m] + disturbances' = handled[m] + disturbances + 1
    BY <1>1, Numbers
  <2> QED
    BY <1>1, <1>2, <2>1, <2>2, PaidMove DEF Accounted
<1> QED
  BY <1>3 DEF Accounted

\* The signal pays for the delivery in hand with the rest of the batch, or for
\* the batch that a call under way may still return.
LEMMA ShutdownBalanced ==
  ASSUME IInv, IInv', Accounted, NEW c \in Consumer, Shutdown(c)
  PROVE  Accounted'
<1>1. /\ UNCHANGED <<queue, received, lease, outlived, handled>> /\ disturbances' = disturbances + 1
      /\ Loops /\ consumer[c] \in State /\ Fine(consumer[c]) /\ DOMAIN consumer = Consumer
  BY DEF Shutdown, Disturb, IInv, Loops
<1>2. /\ \A d \in Consumer \ {c} : consumer'[d] = consumer[d]
      /\ consumer'[c].loop = consumer[c].loop /\ consumer'[c].batch = consumer[c].batch /\ consumer'[c].pc = consumer[c].pc
  BY <1>1 DEF Shutdown, State
<1>3. ASSUME NEW m \in Message PROVE Balanced(m)'
  <2>1. (Has(consumer'[c], m) <=> Has(consumer[c], m)) /\ (Busy(consumer'[c], m) <=> Busy(consumer[c], m))
    BY <1>2 DEF Has, Busy
  <2>2. handled'[m] + disturbances' = handled[m] + disturbances + 1
    BY <1>1, Numbers
  <2>3. Grade(m)' = Grade(m)
    BY <1>1, <1>2, <2>1, GradeOther
  <2>4. CASE consumer[c].loop = "receive"
    <3>1. ~Has(consumer'[c], m) /\ ~Busy(consumer'[c], m)
      <4>1. consumer[c].batch = <<>> /\ consumer[c].pc = "none" /\ DOMAIN <<>> = {}
        BY <1>1, <2>4 DEF Fine
      <4> QED
        BY <2>1, <4>1 DEF Has, Busy
    <3>2. ~Spent(consumer'[c], m) /\ ~Stopped(consumer'[c], m)
      BY <3>1 DEF Spent, Stopped
    <3>3. Prepaid' \subseteq Prepaid \cup {c} /\ Owed(m)' \subseteq Owed(m) /\ Late(m)' \subseteq Late(m)
      BY <1>2, <3>2, Turn
    <3> QED
      BY <1>1, <2>2, <2>3, <3>3, SameGrade, Pays DEF Accounted
  <2>5. CASE consumer[c].loop # "receive"
    <3>1. ~Prepays(consumer'[c])
      BY <1>2, <2>5 DEF Prepays
    <3>2. Prepaid' \subseteq Prepaid /\ Owed(m)' \subseteq Owed(m) \cup {c} /\ Late(m)' \subseteq Late(m) \cup {c}
      BY <1>2, <3>1, Turn
    <3> QED
      BY <1>1, <2>2, <2>3, <3>2, SameGrade, Pays DEF Accounted
  <2> QED
    BY <2>4, <2>5
<1> QED
  BY <1>3 DEF Accounted

\* One delivery more for the message, paid for by what was even before.
LEMMA BeginSum ==
  ASSUME NEW k \in Nat, NEW o \in Nat, NEW l \in Nat, NEW g \in Nat, NEW r \in Nat, NEW p \in Nat,
         NEW k2 \in Nat, NEW o2 \in Nat, NEW l2 \in Nat,
         r + k + o + l + g <= p, l2 <= l, (k2 <= k /\ o2 <= o) \/ (k2 + 1 <= k /\ o2 <= o + 1)
  PROVE  r + 1 + k2 + o2 + l2 + g <= p + 1
  OBVIOUS

\* A delivery begins: the message was visible, so the account was even.
LEMMA Begins ==
  ASSUME IInv, IInv', NEW m \in Message, Balanced(m), queue[m] = "visible", received'[m] = received[m] + 1,
         handled'[m] = handled[m], disturbances' = disturbances, NEW c,
         \/ Prepaid' \subseteq Prepaid /\ Owed(m)' \subseteq Owed(m)
         \/ c \in Prepaid /\ Prepaid' \subseteq Prepaid \ {c} /\ Owed(m)' \subseteq Owed(m) \cup {c},
         Late(m)' \subseteq Late(m), Grade(m)' = Grade(m), queue'[m] # "visible", Pending(m)' # {}
  PROVE  Balanced(m)'
<1> DEFINE k == Cardinality(Prepaid)
           o == Cardinality(Owed(m))
           l == Cardinality(Late(m))
           g == Grade(m)
           p == Paid(m)
<1>1. /\ k \in Nat /\ o \in Nat /\ l \in Nat /\ received[m] \in Nat /\ handled[m] \in Nat /\ disturbances \in Nat
      /\ g \in {0, 1, 2}
  BY Numbers, Grades
<1>2. k' \in Nat /\ o' \in Nat /\ ((k' <= k /\ o' <= o) \/ (k' + 1 <= k /\ o' <= o + 1))
  <2>1. CASE Prepaid' \subseteq Prepaid /\ Owed(m)' \subseteq Owed(m)
    BY <2>1, Numbers, Sizes
  <2>2. CASE c \in Prepaid /\ Prepaid' \subseteq Prepaid \ {c} /\ Owed(m)' \subseteq Owed(m) \cup {c}
    <3>1. Prepaid' \subseteq Prepaid
      BY <2>2
    <3> QED
      BY <2>2, <3>1, Numbers, Sizes
  <2> QED
    BY <2>1, <2>2
<1>3. l' \in Nat /\ l' <= l
  BY Numbers, Sizes
<1>4. received[m] + k + o + l + g <= p
  BY DEF Balanced, Outlay
<1>5. Outlay(m)' + Grade(m)' = received[m] + 1 + k' + o' + l' + g
  BY DEF Outlay
<1>6. p \in Nat /\ p' = p /\ g \in Nat
  BY <1>1 DEF Paid
<1> HIDE DEF k, o, l, g, p
<1>7. received[m] + 1 + k' + o' + l' + g <= p + 1
  BY <1>1, <1>2, <1>3, <1>4, <1>6, BeginSum
<1>8. Outlay(m)' + Grade(m)' <= p' + 1
  BY <1>5, <1>6, <1>7
<1> QED
  BY <1>8 DEF Balanced, p

LEMMA ReceiveBalanced ==
  ASSUME IInv, IInv', Accounted, NEW c \in Consumer, Receive(c)
  PROVE  Accounted'
<1>1. /\ UNCHANGED <<lease, outlived, handled, disturbances>> /\ Loops /\ Loops'
      /\ consumer[c] \in State /\ consumer[c].loop = "receive" /\ consumer[c].batch = <<>> /\ consumer[c].pc = "none"
      /\ consumer'[c] \in State /\ received \in [Message -> 0..MaxReceiveCount]
  BY DEF IInv, Loops, Types, Receive, Fine
<1>2. PICK n \in 1..BatchSize : \E batch \in [1..n -> Message] :
          /\ \A i \in 1..n : queue[batch[i]] = "visible"
          /\ received' = [m \in Message |-> IF \E i \in 1..n : batch[i] = m THEN received[m] + 1 ELSE received[m]]
          /\ queue' = [m \in Message |-> IF \E i \in 1..n : batch[i] = m THEN "hidden" ELSE queue[m]]
          /\ consumer' = [consumer EXCEPT
                ![c] = [@ EXCEPT !.loop = "batch", !.backoff = 1,
                                 !.batch = [i \in 1..n |-> [message |-> batch[i], count |-> received'[batch[i]]]]]]
  BY DEF Receive
<1>3. PICK batch \in [1..n -> Message] :
          /\ \A i \in 1..n : queue[batch[i]] = "visible"
          /\ received' = [m \in Message |-> IF \E i \in 1..n : batch[i] = m THEN received[m] + 1 ELSE received[m]]
          /\ queue' = [m \in Message |-> IF \E i \in 1..n : batch[i] = m THEN "hidden" ELSE queue[m]]
          /\ consumer' = [consumer EXCEPT
                ![c] = [@ EXCEPT !.loop = "batch", !.backoff = 1,
                                 !.batch = [i \in 1..n |-> [message |-> batch[i], count |-> received'[batch[i]]]]]]
  BY <1>2
<1> DEFINE deliveries == [i \in 1..n |-> [message |-> batch[i], count |-> received'[batch[i]]]]
<1>4. /\ \A d \in Consumer \ {c} : consumer'[d] = consumer[d]
      /\ consumer'[c].loop = "batch" /\ consumer'[c].batch = deliveries /\ consumer'[c].pc = "none"
      /\ consumer'[c].stopping = consumer[c].stopping
  BY <1>1, <1>3 DEF Loops, State
<1>5. DOMAIN deliveries = 1..n /\ \A i \in 1..n : deliveries[i].message = batch[i]
  OBVIOUS
<1> HIDE DEF deliveries
<1>6. \A m \in Message : Has(consumer'[c], m) <=> \E i \in 1..n : batch[i] = m
  BY <1>4, <1>5 DEF Has
<1>7. ASSUME NEW m \in Message
      PROVE  /\ ~Has(consumer[c], m) /\ ~Stopped(consumer'[c], m) /\ ~Prepays(consumer'[c])
             /\ Grade(m)' = Grade(m)
  <2>1. DOMAIN <<>> = {}
    OBVIOUS
  <2>2. consumer[c].pc \notin Done \cup {"check"} /\ consumer'[c].pc \notin Done \cup {"check"}
    BY <1>1, <1>4 DEF Done
  <2>3. Grade(m)' = Grade(m)
    BY <1>1, <1>4, <2>2, GradeOther
  <2> QED
    BY <1>1, <1>4, <2>1, <2>3 DEF Has, Stopped, Busy, Prepays
<1>8. ASSUME NEW m \in Message, ~\E i \in 1..n : batch[i] = m PROVE Balanced(m)'
  <2>1. received'[m] = received[m] /\ queue'[m] = queue[m] /\ ~Has(consumer'[c], m)
    BY <1>3, <1>6, <1>8
  <2>2. ~Spent(consumer'[c], m)
    BY <1>4, <2>1 DEF Spent, Done
  <2> QED
    BY <1>1, <1>4, <1>7, <2>1, <2>2, SameGrade, QuietMove DEF Accounted
<1>9. ASSUME NEW m \in Message, \E i \in 1..n : batch[i] = m PROVE Balanced(m)'
  <2>1. /\ received'[m] = received[m] + 1 /\ queue[m] = "visible" /\ queue'[m] # "visible"
        /\ Has(consumer'[c], m)
    BY <1>3, <1>6, <1>9
  <2>2. Pending(m)' # {}
    BY <2>1 DEF Pending, Has
  <2>3. Late(m)' \subseteq Late(m) /\ Owed(m)' \subseteq Owed(m) \cup {c} /\ Prepaid' \subseteq Prepaid
    BY <1>4, <1>7, Turn
  <2>4. CASE consumer[c].stopping
    <3>1. c \in Prepaid /\ Prepaid' \subseteq Prepaid \ {c}
      <4>1. c \notin Prepaid'
        BY <1>7 DEF Prepaid, Prepays
      <4>2. c \in Prepaid
        BY <1>1, <2>4 DEF Prepaid
      <4> QED
        BY <2>3, <4>1, <4>2
    <3> QED
      BY <1>1, <1>7, <2>1, <2>2, <2>3, <3>1, Begins DEF Accounted
  <2>5. CASE ~consumer[c].stopping
    <3>1. ~Spent(consumer'[c], m)
      BY <1>4, <2>5 DEF Spent, Done
    <3>2. Owed(m)' \subseteq Owed(m)
      BY <1>4, <3>1, Turn
    <3> QED
      BY <1>1, <1>7, <2>1, <2>2, <2>3, <3>2, Begins DEF Accounted
  <2> QED
    BY <2>4, <2>5
<1> QED
  BY <1>8, <1>9 DEF Accounted

-----------------------------------------------------------------------------
(* The queue: a message that becomes visible while somebody has it costs a *)
(* disturbance, and with one that nobody has the lease that was left for   *)
(* it ages.                                                                *)

LEMMA Frozen ==
  ASSUME consumer' = consumer, NEW m
  PROVE  /\ Prepaid' = Prepaid /\ Pending(m)' = Pending(m) /\ Owed(m)' = Owed(m) /\ Late(m)' = Late(m)
         /\ (m \in Job => lease'[m] = lease[m] /\ (m \in outlived' <=> m \in outlived)) => Grade(m)' = Grade(m)
<1>1. Prepaid' = Prepaid /\ Pending(m)' = Pending(m) /\ Owed(m)' = Owed(m) /\ Late(m)' = Late(m)
  BY DEF Prepaid, Pending, Owed, Late, Spent, Stopped, Has, Busy
<1>2. (m \in Job => lease'[m] = lease[m] /\ (m \in outlived' <=> m \in outlived)) => Grade(m)' = Grade(m)
  BY DEF Grade, Entering, Engaged, Busy
<1> QED
  BY <1>1, <1>2

LEMMA AgeSum ==
  ASSUME NEW k \in Nat, NEW o \in Nat, NEW l \in Nat, NEW g \in Nat, NEW r \in Nat, NEW p \in Nat, NEW g2 \in Nat,
         r + k + o + l <= p, r + k + o + l + g <= p + 1, g2 = 0 \/ g2 + 1 <= g
  PROVE  r + k + o + l + g2 <= p
  OBVIOUS

LEMMA Evens ==
  ASSUME IInv, IInv', NEW m \in Message, Balanced(m), received'[m] = received[m], handled'[m] = handled[m],
         Prepaid' = Prepaid, Owed(m)' = Owed(m), Late(m)' = Late(m), Pending(m)' = Pending(m),
         \/ disturbances' = disturbances + 1 /\ Grade(m)' = Grade(m)
         \/ /\ disturbances' = disturbances /\ Pending(m) = {}
            /\ Grade(m)' = 0 \/ Grade(m)' + 1 <= Grade(m)
  PROVE  Balanced(m)'
<1> DEFINE k == Cardinality(Prepaid)
           o == Cardinality(Owed(m))
           l == Cardinality(Late(m))
           g == Grade(m)
           p == Paid(m)
<1>1. /\ k \in Nat /\ o \in Nat /\ l \in Nat /\ received[m] \in Nat /\ handled[m] \in Nat /\ disturbances \in Nat
      /\ g \in {0, 1, 2} /\ g' \in {0, 1, 2}
  BY Numbers, Grades
<1>2. /\ received[m] + k + o + l + g <= p + 1
      /\ Pending(m) = {} => received[m] + k + o + l <= p
  BY DEF Balanced, Outlay
<1>3. Outlay(m)' = received[m] + k + o + l /\ Outlay(m)' + Grade(m)' = received[m] + k + o + l + g'
  BY DEF Outlay
<1>4. p \in Nat /\ (disturbances' = disturbances + 1 => p' = p + 2) /\ (disturbances' = disturbances => p' = p)
  BY <1>1 DEF Paid
<1> HIDE DEF k, o, l, g, p
<1>5. CASE disturbances' = disturbances + 1 /\ g' = g
  <2>1. Outlay(m)' + Grade(m)' <= p' /\ Outlay(m)' <= p' /\ p' \in Nat /\ Outlay(m)' + Grade(m)' \in Nat
    BY <1>1, <1>2, <1>3, <1>4, <1>5
  <2>2. Outlay(m)' + Grade(m)' <= p' + 1
    BY <2>1
  <2> QED
    BY <2>1, <2>2 DEF Balanced, p
<1>6. CASE disturbances' = disturbances /\ Pending(m) = {} /\ (g' = 0 \/ g' + 1 <= g)
  <2>1. received[m] + k + o + l <= p /\ received[m] + k + o + l + g <= p + 1 /\ p' = p
    BY <1>2, <1>4, <1>6
  <2>2. g \in Nat /\ g' \in Nat
    BY <1>1
  <2>3. received[m] + k + o + l + g' <= p
    BY <1>1, <1>4, <1>6, <2>1, <2>2, AgeSum
  <2>4. Outlay(m)' + Grade(m)' <= p' /\ Outlay(m)' <= p' /\ p' \in Nat /\ Outlay(m)' + Grade(m)' \in Nat
    BY <1>1, <1>3, <1>4, <2>1, <2>2, <2>3
  <2>5. Outlay(m)' + Grade(m)' <= p' + 1
    BY <2>4
  <2> QED
    BY <2>4, <2>5 DEF Balanced, p
<1> QED
  BY <1>5, <1>6 DEF g

LEMMA ReappearBalanced ==
  ASSUME IInv, IInv', Accounted, NEW r \in Message, Reappear(r)
  PROVE  Accounted'
<1>1. /\ UNCHANGED <<received, consumer, handled>> /\ Loops /\ Loops'
      /\ lease \in [Job -> Consumer \cup {Former, None}] /\ outlived \subseteq Job
      /\ queue' = [queue EXCEPT ![r] = "visible"] /\ queue \in [Message -> {"visible", "hidden", "deleted", "dead"}]
  BY DEF Reappear, IInv, Types
<1>2. CASE Pending(r) # {}
  <2>1. disturbances' = disturbances + 1 /\ UNCHANGED <<lease, outlived>>
    BY <1>2 DEF Reappear, Disturb
  <2>2. ASSUME NEW m \in Message PROVE Balanced(m)'
    BY <1>1, <2>1, Frozen, Evens DEF Accounted
  <2> QED
    BY <2>2 DEF Accounted
<1>3. CASE Pending(r) = {}
  <2> DEFINE left == {n \in Job : n = r /\ lease[n] # None}
  <2>1. /\ disturbances' = disturbances
        /\ lease' = [n \in Job |-> IF n \in left \cap outlived THEN None ELSE lease[n]]
        /\ outlived' = (outlived \ {r}) \cup (left \ outlived)
    BY <1>3 DEF Reappear
  <2>2. ASSUME NEW m \in Message, m # r PROVE Balanced(m)'
    <3>1. m \in Job => lease'[m] = lease[m] /\ (m \in outlived' <=> m \in outlived)
      BY <2>1, <2>2
    <3>2. Grade(m)' = Grade(m) /\ queue'[m] = queue[m]
      BY <1>1, <2>2, <3>1, Frozen
    <3> QED
      BY <1>1, <2>1, <3>2, SameGrade, Frozen, Quiet DEF Accounted
  <2>3. Grade(r)' = 0 \/ Grade(r)' + 1 <= Grade(r)
    <3>1. ~Entering(r) /\ ~Engaged(r) /\ ~Entering(r)' /\ ~Engaged(r)'
      <4>1. Pending(r)' = {}
        BY <1>1, <1>3, Frozen
      <4> QED
        BY <1>1, <1>3, <4>1, OnlyPending, OnlyPendingNext DEF Idle
    <3>2. CASE r \notin Job
      BY <3>2 DEF Grade
    <3>3. CASE r \in Job /\ (lease[r] = None \/ r \in outlived)
      <4>1. lease'[r] = None
        BY <2>1, <3>3
      <4> QED
        BY <4>1 DEF Grade
    <3>4. CASE r \in Job /\ lease[r] # None /\ r \notin outlived
      <4>1. r \in outlived'
        BY <2>1, <3>4
      <4>2. Grade(r)' \in {0, 1}
        BY <3>1, <4>1 DEF Grade
      <4>3. Grade(r) = 2
        BY <3>1, <3>4 DEF Grade
      <4> QED
        BY <4>2, <4>3
    <3> QED
      BY <3>2, <3>3, <3>4
  <2>4. Balanced(r)'
    BY <1>1, <1>3, <2>1, <2>3, Frozen, Evens DEF Accounted
  <2> QED
    BY <2>2, <2>4 DEF Accounted
<1> QED
  BY <1>2, <1>3

LEMMA StillBalanced ==
  ASSUME IInv, IInv', Accounted, UNCHANGED <<received, lease, outlived, consumer, handled, disturbances>>,
         \A m \in Message : queue'[m] = "visible" => queue[m] = "visible"
  PROVE  Accounted'
<1>1. ASSUME NEW m \in Message PROVE Balanced(m)'
  BY Frozen, SameGrade, Quiet DEF Accounted
<1> QED
  BY <1>1 DEF Accounted

-----------------------------------------------------------------------------
LEMMA InitAccounted == Init => Accounted
<1> SUFFICES ASSUME Init, NEW m \in Message PROVE Balanced(m)
  BY DEF Accounted
<1>1. \A c \in Consumer : /\ consumer[c].batch = <<>> /\ consumer[c].pc = "none" /\ consumer[c].stopping = FALSE
                          /\ consumer[c].loop = "receive"
  BY DEF Init, Running
<1>2. Prepaid = {} /\ Owed(m) = {} /\ Late(m) = {}
  BY <1>1 DEF Prepaid, Owed, Late, Spent, Stopped, Busy, Done
<1>3. Grade(m) = 0
  BY DEF Init, Grade
<1>4. Cardinality(Prepaid) = 0 /\ Cardinality(Owed(m)) = 0 /\ Cardinality(Late(m)) = 0
      /\ received[m] = 0 /\ handled[m] = 0 /\ disturbances = 0
  BY <1>2, FS_EmptySet DEF Init
<1>5. Outlay(m) = 0 /\ Paid(m) = 0
  BY <1>4 DEF Outlay, Paid
<1> QED
  BY <1>3, <1>5 DEF Balanced

LEMMA NextAccounted == IInv /\ IInv' /\ Accounted /\ [Next]_vars => Accounted'
<1> SUFFICES ASSUME IInv, IInv', Accounted, [Next]_vars PROVE Accounted'
  OBVIOUS
<1>1. ASSUME NEW c \in Consumer, Loop(c) \/ Restart(c) PROVE Accounted'
  <2>1. consumer[c].loop = "receive" => consumer[c].pc = "none"
    BY DEF IInv, Loops, Fine
  <2>2. CASE Receive(c)
    BY <2>2, ReceiveBalanced
  <2>3. CASE ReceiveNothing(c) \/ Wake(c) \/ NextMessage(c) \/ Restart(c)
    <3>1. consumer[c].pc = "none"
      BY <2>3 DEF ReceiveNothing, Wake, NextMessage, Restart, At, IInv, Loops, Fine
    <3> QED
      BY <2>3, <3>1, LoopBalanced
  <2> QED
    BY <1>1, <2>2, <2>3 DEF Loop
<1>2. ASSUME NEW c \in Consumer, GraceEnds(c) PROVE Accounted'
  BY <1>2, LoopBalanced, CancelBalanced
<1>3. ASSUME NEW c \in Consumer, Deliver(c) PROVE Accounted'
  BY <1>3, DeliverBalanced
<1>4. ASSUME NEW c \in Consumer, ReceiveFails(c) \/ CallFails(c) \/ Crash(c) PROVE Accounted'
  BY <1>4, DisturbBalanced
<1>5. ASSUME NEW c \in Consumer, Shutdown(c) PROVE Accounted'
  BY <1>5, ShutdownBalanced
<1>6. ASSUME NEW m \in Message, Reappear(m) PROVE Accounted'
  BY <1>6, ReappearBalanced
<1>7. ASSUME NEW m \in Message, DeadLetter(m) PROVE Accounted'
  <2>1. \A n \in Message : queue'[n] = "visible" => queue[n] = "visible"
    BY <1>7 DEF DeadLetter, IInv, Types
  <2> QED
    BY <1>7, <2>1, StillBalanced DEF DeadLetter
<1>8. CASE UNCHANGED vars
  BY <1>8, StillBalanced DEF vars
<1> QED
  BY <1>1, <1>2, <1>3, <1>4, <1>5, <1>6, <1>7, <1>8 DEF Next

\* The credit argument is inductive: what was received, and what a lease that is
\* left may still cost, is covered twice over by what was handled and disturbed,
\* but for one delivery that is still in somebody's hands.
THEOREM InductiveAccounted == Spec => [](IInv /\ Accounted)
<1>1. Init => IInv /\ Accounted
  BY InitIInv, InitAccounted
<1>2. (IInv /\ Accounted) /\ [Next]_vars => (IInv /\ Accounted)'
  BY NextIInv, NextAccounted
<1> QED
  BY <1>1, <1>2, PTL DEF Spec

\* For any number of consumers, batches and messages: of the times a message
\* that no consumer of run has in hand was received, at least every other one
\* was spent on work, on a record or settlement, or on a failure, a signal or an
\* early redelivery; the others met the lease that such a delivery had left.
THEOREM AttemptsAreAccountedHolds == Spec => []AttemptsAreAccounted
<1>1. IInv /\ Accounted => AttemptsAreAccounted
  <2> SUFFICES ASSUME IInv, Accounted, NEW m \in Message, Pending(m) = {}
               PROVE  ~(received[m] > 2 * (handled[m] + disturbances))
    BY DEF AttemptsAreAccounted
  <2> DEFINE k == Cardinality(Prepaid)
             o == Cardinality(Owed(m))
             l == Cardinality(Late(m))
             p == Paid(m)
  <2>1. k \in Nat /\ o \in Nat /\ l \in Nat /\ received[m] \in Nat /\ handled[m] \in Nat /\ disturbances \in Nat
    BY Numbers
  <2>2. received[m] + k + o + l <= p
    BY DEF Accounted, Balanced, Outlay
  <2>3. p \in Nat /\ p = 2 * (handled[m] + disturbances)
    BY <2>1 DEF Paid
  <2> HIDE DEF k, o, l, p
  <2>4. ~(received[m] > p)
    BY <2>1, <2>2, <2>3
  <2> QED
    BY <2>3, <2>4
<1> QED
  BY <1>1, InductiveAccounted, PTL
=============================================================================
