---------------------------- MODULE EventLogProofs ----------------------------
(***************************************************************************)
(* Theorems about EventLog, for any number of workers, API requests,       *)
(* events and retries, and about the pages that EventPages reads from it,  *)
(* for any page size.                                                      *)
(***************************************************************************)
EXTENDS EventPages, FiniteSetTheorems, TLAPS

-----------------------------------------------------------------------------
(* The inductive invariant.                                                *)

LogInv == seq # 0 /\ LogIsDense /\ MilestonesOnce /\ RecordIsLastEvent

\* What a worker has read is never ahead of the items; a call's budget and its
\* history fit the place it is at; once the replay check has passed, only the
\* loss of the lease can bring the milestone into the log.
CallInv(w) ==
    LET k == worker[w] IN
    /\ k.held <= lock
    /\ k.seen <= seq
    /\ k.left <= Retries
    /\ k.pc \in {"check", "read", "commit"} => k.left # 0
    /\ k.pc = "commit" => k.first # 0 /\ k.seen >= k.first + (Retries - k.left)
    /\ k.first = 0 => k.left = Retries
    /\ k.first # 0 => seq >= k.first + (Retries - k.left)
    /\ k.pc \in {"read", "commit"} /\ k.id \in Milestone /\ Owns(w) => k.id \notin Ids

IInv == TypeOK /\ LogInv /\ \A w \in Worker : CallInv(w)

-----------------------------------------------------------------------------
(* The shape of every step: one worker changes, or the log grows.          *)

LEMMA CallerUpdates ==
  ASSUME NEW k \in Caller, NEW l \in {"idle", "acquired", "check", "validate", "read", "commit"},
         NEW n \in Nat, NEW m \in Nat
  PROVE  /\ [k EXCEPT !.pc = l] \in Caller
         /\ [k EXCEPT !.held = n] \in Caller
         /\ [k EXCEPT !.pc = l, !.held = n] \in Caller
         /\ [k EXCEPT !.pc = l, !.seen = n, !.first = m] \in Caller
         /\ [k EXCEPT !.left = n, !.pc = l] \in Caller
         /\ [Idle EXCEPT !.held = k.held] \in Caller
         /\ [Idle EXCEPT !.pc = l] \in Caller
         /\ \A e \in Id : [Idle EXCEPT !.pc = l, !.id = e, !.held = k.held] \in Caller
  BY EventLogAssumption DEF Caller, Idle, Id

LEMMA Initially == Init => IInv
<1> SUFFICES ASSUME Init PROVE IInv
  OBVIOUS
<1>1. Idle \in Caller /\ Resting \in Request /\ Created \in Id
  BY EventLogAssumption DEF Idle, Resting, Caller, Request, Id
<1>2. TypeOK
  BY <1>1 DEF Init, TypeOK, Entry
<1>3. ASSUME NEW w \in Worker
      PROVE  CallInv(w)
  <2>1. worker[w] = Idle
    BY DEF Init
  <2>2. Idle.pc = "idle" /\ Idle.seen = 0 /\ Idle.left = Retries /\ Idle.first = 0 /\ Idle.held = 0
    BY DEF Idle
  <2> QED
    BY <2>1, <2>2, EventLogAssumption DEF Init, CallInv
<1>4. LogIsDense /\ MilestonesOnce
  BY DEF Init, LogIsDense, MilestonesOnce
<1>5. RecordIsLastEvent
  BY EventLogAssumption DEF Init, RecordIsLastEvent
<1> QED
  BY <1>2, <1>3, <1>4, <1>5 DEF Init, IInv, LogInv

\* A step that leaves the log alone.
Quiet == UNCHANGED <<log, seq, record>>

LEMMA QuietLog ==
  ASSUME IInv, Quiet
  PROVE  LogInv' /\ Ids' = Ids
  BY DEF IInv, LogInv, Quiet, LogIsDense, MilestonesOnce, RecordIsLastEvent, Ids

\* What a worker that takes no part in a step knows stays true.
LEMMA Bystander ==
  ASSUME IInv, seq' \in Nat, lock' \in Nat, NEW u \in Worker, worker'[u] = worker[u],
         seq' >= seq, lock' >= lock,
         Owns(u)' => Owns(u) /\ Ids' \cap Milestone = Ids \cap Milestone
  PROVE  CallInv(u)'
<1> DEFINE k == worker[u]
<1>1. k \in Caller /\ CallInv(u) /\ worker'[u] = k
  BY DEF IInv, TypeOK
<1>2. k.held \in Nat /\ k.seen \in Nat /\ k.left \in Nat /\ k.first \in Nat
  BY <1>1 DEF Caller
<1>3. seq \in Nat /\ lock \in Nat /\ Retries \in Nat
  BY EventLogAssumption DEF IInv, TypeOK
<1>4. /\ k.held <= lock' /\ k.seen <= seq'
      /\ k.first # 0 => seq' >= k.first + (Retries - k.left)
  BY <1>1, <1>2, <1>3 DEF CallInv
<1>5. k.pc \in {"read", "commit"} /\ k.id \in Milestone /\ Owns(u)' => k.id \notin Ids'
  BY <1>1 DEF CallInv
<1> QED
  BY <1>1, <1>4, <1>5 DEF CallInv

LEMMA OneCaller ==
  ASSUME TypeOK, NEW w \in Worker, NEW k \in Caller, worker' = [worker EXCEPT ![w] = k]
  PROVE  /\ worker' \in [Worker -> Caller]
         /\ worker'[w] = k
         /\ \A u \in Worker \ {w} : worker'[u] = worker[u]
  BY DEF TypeOK

\* A call that ends leaves nothing behind but the lock_version.
LEMMA Ended ==
  ASSUME IInv, NEW w \in Worker, Finish(w)
  PROVE  /\ worker' \in [Worker -> Caller]
         /\ \A u \in Worker \ {w} : worker'[u] = worker[u]
         /\ UNCHANGED lock /\ seq' \in Nat => CallInv(w)'
<1> DEFINE k == [Idle EXCEPT !.held = worker[w].held]
<1>1. k \in Caller
  BY CallerUpdates DEF IInv, TypeOK
<1>2. worker' = [worker EXCEPT ![w] = k]
  BY DEF Finish
<1>3. /\ worker' \in [Worker -> Caller] /\ worker'[w] = k
      /\ \A u \in Worker \ {w} : worker'[u] = worker[u]
  BY <1>1, <1>2, OneCaller DEF IInv
<1>4. k.pc = "idle" /\ k.seen = 0 /\ k.left = Retries /\ k.first = 0 /\ k.held = worker[w].held
  BY DEF Idle
<1>5. ASSUME UNCHANGED lock, seq' \in Nat
      PROVE  CallInv(w)'
  BY <1>3, <1>4, <1>5, EventLogAssumption DEF CallInv, IInv
<1> QED
  BY <1>3, <1>5

\* The steps that touch neither the log nor what the others hold.
LEMMA LocalStep ==
  ASSUME IInv, NEW w \in Worker,
         worker' \in [Worker -> Caller],
         \A u \in Worker \ {w} : worker'[u] = worker[u],
         UNCHANGED <<log, seq, metaLock, owner, lock, record, client>>,
         CallInv(w)'
  PROVE  IInv'
<1>1. LogInv' /\ Ids' = Ids
  BY QuietLog DEF Quiet
<1>2. TypeOK'
  BY DEF IInv, TypeOK
<1>3. ASSUME NEW u \in Worker \ {w}
      PROVE  CallInv(u)'
  <2>1. Owns(u)' => Owns(u)
    BY DEF Owns
  <2> QED
    BY <1>1, <2>1, Bystander DEF IInv, TypeOK
<1> QED
  BY <1>1, <1>2, <1>3 DEF IInv

LEMMA LeaseStep ==
  ASSUME IInv, NEW w \in Worker, Acquire(w) \/ ReadLockVersion(w) \/ Heartbeat(w) \/ Release(w)
  PROVE  IInv'
<1>0. /\ worker[w] \in Caller /\ CallInv(w) /\ lock \in Nat /\ seq \in Nat
      /\ worker \in [Worker -> Caller]
  BY DEF IInv, TypeOK
<1>1. CASE Acquire(w)
  <2> DEFINE k == [Idle EXCEPT !.pc = "acquired"]
  <2>1. k \in Caller
    BY <1>0, CallerUpdates
  <2>2. /\ worker' \in [Worker -> Caller] /\ worker'[w] = k
        /\ \A u \in Worker \ {w} : worker'[u] = worker[u]
    BY <1>1, <2>1, OneCaller DEF Acquire, IInv
  <2>3. LogInv' /\ Ids' = Ids
    BY <1>1, QuietLog DEF Quiet, Acquire
  <2>4. k.pc = "acquired" /\ k.seen = 0 /\ k.left = Retries /\ k.first = 0 /\ k.held = 0
    BY DEF Idle
  <2>5. CallInv(w)'
    BY <1>0, <1>1, <2>2, <2>4, EventLogAssumption DEF CallInv, Acquire
  <2>6. ASSUME NEW u \in Worker \ {w}
        PROVE  CallInv(u)'
    <3>1. ~Owns(u)'
      BY <1>1 DEF Acquire, Owns
    <3> QED
      BY <1>0, <1>1, <2>2, <2>3, <3>1, Bystander DEF Acquire
  <2>7. TypeOK'
    BY <1>0, <1>1, <2>2 DEF IInv, TypeOK, Acquire
  <2> QED
    BY <2>3, <2>5, <2>6, <2>7 DEF IInv
<1>2. CASE ReadLockVersion(w)
  <2> DEFINE k == [worker[w] EXCEPT !.pc = "idle", !.held = lock]
  <2>1. k \in Caller
    BY <1>0, CallerUpdates
  <2>2. /\ worker' \in [Worker -> Caller] /\ worker'[w] = k
        /\ \A u \in Worker \ {w} : worker'[u] = worker[u]
    <3>1. worker' = [worker EXCEPT ![w] = k]
      BY <1>0, <1>2 DEF ReadLockVersion, Caller
    <3> QED
      BY <2>1, <3>1, OneCaller DEF IInv
  <2>3. k.pc = "idle" /\ k.held = lock /\ k.seen = worker[w].seen /\ k.left = worker[w].left
        /\ k.first = worker[w].first
    BY <1>0 DEF Caller
  <2>4. CallInv(w)'
    BY <1>0, <1>2, <2>2, <2>3 DEF CallInv, ReadLockVersion
  <2> QED
    BY <1>2, <2>2, <2>4, LocalStep DEF ReadLockVersion
<1>3. CASE Heartbeat(w)
  <2> DEFINE k == [worker[w] EXCEPT !.held = worker[w].held + 1]
  <2>1. k \in Caller
    <3>1. worker[w].held + 1 \in Nat
      BY <1>0 DEF Caller
    <3> QED
      BY <1>0, <3>1, CallerUpdates
  <2>2. /\ worker' \in [Worker -> Caller] /\ worker'[w] \in {k, worker[w]}
        /\ \A u \in Worker \ {w} : worker'[u] = worker[u]
    BY <1>0, <1>3, <2>1, OneCaller DEF Heartbeat, IInv
  <2>3. LogInv' /\ Ids' = Ids
    BY <1>3, QuietLog DEF Quiet, Heartbeat
  <2>4. /\ worker'[w].held <= lock'
        /\ worker'[w].pc = worker[w].pc /\ worker'[w].seen = worker[w].seen
        /\ worker'[w].left = worker[w].left /\ worker'[w].first = worker[w].first
        /\ worker'[w].id = worker[w].id
    BY <1>0, <1>3, <2>2 DEF Heartbeat, CallInv, Caller
  <2>5. CallInv(w)'
    BY <1>0, <1>3, <2>4 DEF CallInv, Heartbeat, At
  <2>6. ASSUME NEW u \in Worker \ {w}
        PROVE  CallInv(u)'
    <3>1. ~Owns(u)'
      BY <1>3 DEF Heartbeat, Owns
    <3> QED
      BY <1>0, <1>3, <2>2, <2>3, <3>1, Bystander DEF Heartbeat
  <2>7. TypeOK'
    BY <1>0, <1>3, <2>2 DEF IInv, TypeOK, Heartbeat
  <2> QED
    BY <2>3, <2>5, <2>6, <2>7 DEF IInv
<1>4. CASE Release(w)
  <2>1. LogInv' /\ Ids' = Ids
    BY <1>4, QuietLog DEF Quiet, Release
  <2>2. ASSUME NEW u \in Worker
        PROVE  CallInv(u)'
    <3>1. ~Owns(u)'
      BY <1>4, EventLogAssumption DEF Release, Owns
    <3> QED
      BY <1>0, <1>4, <2>1, <3>1, Bystander DEF Release
  <2>3. TypeOK'
    BY <1>0, <1>4 DEF IInv, TypeOK, Release
  <2> QED
    BY <2>1, <2>2, <2>3 DEF IInv
<1> QED
  BY <1>1, <1>2, <1>3, <1>4

-----------------------------------------------------------------------------
(* The loop of _write_state_with_events.                                   *)

\* Steps that only move the call on.
LEMMA GotoKeeps ==
  ASSUME IInv, NEW w \in Worker, NEW l \in {"validate", "read"}, Goto(w, l),
         worker[w].pc = "check", l = "read" => worker[w].id \notin Ids,
         UNCHANGED <<log, seq, metaLock, owner, lock, record, client>>
  PROVE  IInv'
<1> DEFINE k == [worker[w] EXCEPT !.pc = l]
<1>0. worker[w] \in Caller /\ CallInv(w)
  BY DEF IInv, TypeOK
<1>1. k \in Caller
  BY <1>0, CallerUpdates
<1>2. /\ worker' \in [Worker -> Caller] /\ worker'[w] = k
      /\ \A u \in Worker \ {w} : worker'[u] = worker[u]
  BY <1>1, OneCaller DEF Goto, IInv
<1>3. k.pc = l /\ k.held = worker[w].held /\ k.seen = worker[w].seen /\ k.left = worker[w].left
      /\ k.first = worker[w].first /\ k.id = worker[w].id
  BY <1>0 DEF Caller
<1>4. Ids' = Ids
  BY DEF Ids
<1>5. CallInv(w)'
  BY <1>0, <1>2, <1>3, <1>4 DEF CallInv
<1> QED
  BY <1>2, <1>5, LocalStep

LEMMA FinishKeeps ==
  ASSUME IInv, NEW w \in Worker, Finish(w),
         UNCHANGED <<log, seq, metaLock, owner, lock, record, client>>
  PROVE  IInv'
<1>1. seq' \in Nat
  BY DEF IInv, TypeOK
<1> QED
  BY <1>1, Ended, LocalStep

LEMMA CallStep ==
  ASSUME IInv, NEW w \in Worker,
         \/ \E e \in StepEvent \cup Milestone : Begin(w, e)
         \/ CheckEvent(w) \/ ValidateReplay(w) \/ ReadSequence(w)
         \/ Refused(w) \/ Contended(w) \/ Unavailable(w)
  PROVE  IInv'
<1>0. /\ worker[w] \in Caller /\ CallInv(w) /\ lock \in Nat /\ seq \in Nat /\ seq # 0
      /\ worker[w].left \in Nat /\ worker[w].seen \in Nat /\ worker[w].first \in Nat
      /\ Retries \in Nat
  BY EventLogAssumption DEF IInv, LogInv, TypeOK, Caller
<1>1. ASSUME NEW e \in StepEvent \cup Milestone, Begin(w, e)
      PROVE  IInv'
  <2> DEFINE k == [Idle EXCEPT !.pc = "check", !.id = e, !.held = worker[w].held]
  <2>1. k \in Caller
    BY <1>0, CallerUpdates DEF Id
  <2>2. /\ worker' \in [Worker -> Caller] /\ worker'[w] = k
        /\ \A u \in Worker \ {w} : worker'[u] = worker[u]
    BY <1>1, <2>1, OneCaller DEF Begin, IInv
  <2>3. k.pc = "check" /\ k.seen = 0 /\ k.left = Retries /\ k.first = 0 /\ k.held = worker[w].held
    BY DEF Idle
  <2>4. seq' = seq /\ lock' = lock
    BY <1>1 DEF Begin
  <2> HIDE DEF k
  <2>5. CallInv(w)'
    BY <1>0, <2>2, <2>3, <2>4, EventLogAssumption DEF CallInv
  <2> QED
    BY <1>1, <2>2, <2>5, LocalStep DEF Begin
<1>2. CASE CheckEvent(w)
  BY <1>2, GotoKeeps, FinishKeeps DEF CheckEvent, At
<1>3. CASE ValidateReplay(w) \/ Refused(w) \/ Unavailable(w)
  BY <1>3, FinishKeeps DEF ValidateReplay, Refused, Unavailable
<1>4. CASE ReadSequence(w)
  <2> DEFINE k == [worker[w] EXCEPT !.pc = "commit", !.seen = seq, !.first = FirstRead(w)]
  <2>0. FirstRead(w) \in Nat
    BY <1>0 DEF FirstRead
  <2>1. k \in Caller
    BY <1>0, <2>0, CallerUpdates
  <2>2. /\ worker' \in [Worker -> Caller] /\ worker'[w] = k
        /\ \A u \in Worker \ {w} : worker'[u] = worker[u]
    <3>1. worker' = [worker EXCEPT ![w] = k]
      BY <1>0, <1>4 DEF ReadSequence, Caller
    <3> QED
      BY <2>1, <3>1, OneCaller DEF IInv
  <2>3. k.pc = "commit" /\ k.held = worker[w].held /\ k.seen = seq /\ k.left = worker[w].left
        /\ k.first = FirstRead(w) /\ k.id = worker[w].id
    BY <1>0 DEF Caller
  <2>4. FirstRead(w) # 0 /\ seq >= FirstRead(w) + (Retries - worker[w].left)
    BY <1>0 DEF FirstRead, CallInv
  <2>5. Ids' = Ids /\ (Owns(w)' => Owns(w))
    BY <1>0, <1>4, <2>2, <2>3 DEF Ids, ReadSequence, Owns
  <2>6. CallInv(w)'
    BY <1>0, <1>4, <2>2, <2>3, <2>4, <2>5 DEF CallInv, ReadSequence, At
  <2> QED
    BY <1>4, <2>2, <2>6, LocalStep DEF ReadSequence
<1>5. CASE Contended(w)
  <2> DEFINE l == IF worker[w].left = 1 THEN "idle" ELSE "check"
             k == [worker[w] EXCEPT !.left = worker[w].left - 1, !.pc = l]
  <2>0. worker[w].pc = "commit" /\ worker[w].left # 0 /\ worker[w].left - 1 \in Nat
    BY <1>0, <1>5 DEF Contended, At, CallInv
  <2>1. k \in Caller
    BY <1>0, <2>0, CallerUpdates
  <2>2. /\ worker' \in [Worker -> Caller] /\ worker'[w] = k
        /\ \A u \in Worker \ {w} : worker'[u] = worker[u]
    <3>1. worker' = [worker EXCEPT ![w] = k]
      BY <1>0, <1>5 DEF Contended, Caller
    <3> QED
      BY <2>1, <3>1, OneCaller DEF IInv
  <2>3. k.pc = l /\ k.held = worker[w].held /\ k.seen = worker[w].seen
        /\ k.left = worker[w].left - 1 /\ k.first = worker[w].first
    BY <1>0 DEF Caller
  <2>4. seq > worker[w].seen
    BY <1>0, <1>5 DEF Contended, SequenceRefuses, CallInv
  <2>5. seq >= k.first + (Retries - k.left) /\ k.left <= Retries /\ k.first # 0
    BY <1>0, <2>0, <2>3, <2>4 DEF CallInv
  <2>6. l = "check" => k.left # 0
    BY <1>0, <2>0, <2>3
  <2>7. CallInv(w)'
    BY <1>0, <1>5, <2>2, <2>3, <2>5, <2>6 DEF CallInv, Contended
  <2> QED
    BY <1>5, <2>2, <2>7, LocalStep DEF Contended
<1> QED
  BY <1>1, <1>2, <1>3, <1>4, <1>5

-----------------------------------------------------------------------------
(* The log grows.                                                          *)

LEMMA AppendStep ==
  ASSUME IInv, NEW w \in Worker, Append1(w)
  PROVE  IInv'
<1> DEFINE e == worker[w].id
           item == [seq |-> seq + 1, id |-> e]
<1>0. /\ worker[w] \in Caller /\ CallInv(w) /\ lock \in Nat /\ seq \in Nat /\ e \in Id
      /\ worker[w].pc = "commit"
  BY DEF IInv, TypeOK, Caller, Append1, At
<1>1. /\ seq' = seq + 1 /\ log' = log \cup {item}
      /\ record' = IF e \in StepEvent THEN e ELSE record
      /\ UNCHANGED <<metaLock, owner, lock, client>>
  BY DEF Append1, SequenceRefuses, Item
<1>2. log \subseteq Entry /\ item \in Entry /\ item.seq = seq + 1 /\ item.id = e
  BY <1>0 DEF IInv, TypeOK, Entry
<1>3. \A r \in log : r.seq \in Nat /\ r.seq <= seq
  BY <1>0, <1>2 DEF IInv, LogInv, LogIsDense, Entry
<1> HIDE DEF item
<1>4. LogIsDense'
  <2>1. \A r \in log' : r.seq \in 1 .. seq'
    BY <1>0, <1>1, <1>2 DEF IInv, LogInv, LogIsDense
  <2>2. \A n \in 1 .. seq' : \E r \in log' : r.seq = n
    BY <1>0, <1>1, <1>2 DEF IInv, LogInv, LogIsDense
  <2>3. \A r, s \in log' : r.seq = s.seq => r = s
    BY <1>0, <1>1, <1>2, <1>3 DEF IInv, LogInv, LogIsDense
  <2> QED
    BY <2>1, <2>2, <2>3 DEF LogIsDense
<1>5. e \in Milestone => Owns(w) /\ e \notin Ids
  BY <1>0 DEF Append1, LeaseRefuses, CallInv
<1>6. MilestonesOnce'
  BY <1>1, <1>2, <1>5 DEF IInv, LogInv, MilestonesOnce, Ids
<1>7. RecordIsLastEvent'
  <2> SUFFICES ASSUME NEW r \in log', r.id \in StepEvent
               PROVE  \E s \in log' : s.id = record' /\ s.seq >= r.seq
    BY DEF RecordIsLastEvent
  <2>1. CASE e \in StepEvent
    <3>1. item \in log' /\ item.id = record' /\ item.seq >= r.seq
      BY <1>0, <1>1, <1>2, <1>3, <2>1
    <3> QED
      BY <3>1
  <2>2. CASE e \notin StepEvent
    <3>1. r \in log
      BY <1>1, <1>2, <2>2
    <3>2. PICK s \in log : s.id = record /\ s.seq >= r.seq
      BY <3>1 DEF IInv, LogInv, RecordIsLastEvent
    <3> QED
      BY <1>1, <2>2, <3>2
  <2> QED
    BY <2>1, <2>2
<1>8. seq' \in Nat /\ seq' # 0 /\ lock' \in Nat /\ seq' >= seq /\ lock' >= lock
  BY <1>0, <1>1
<1>9. /\ worker' \in [Worker -> Caller]
      /\ \A u \in Worker \ {w} : worker'[u] = worker[u]
      /\ CallInv(w)'
  <2>1. Finish(w)
    BY DEF Append1
  <2> QED
    BY <1>1, <1>8, <2>1, Ended
<1>10. TypeOK'
  <2>1. record' \in StepEvent \cup {None}
    BY <1>1 DEF IInv, TypeOK
  <2> QED
    BY <1>1, <1>2, <1>8, <1>9, <2>1 DEF IInv, TypeOK
<1>11. ASSUME NEW u \in Worker \ {w}
       PROVE  CallInv(u)'
  <2>1. Owns(u)' => Owns(u)
    BY <1>1, <1>9 DEF Owns
  <2>2. Owns(u)' => e \notin Milestone
    BY <1>1, <1>5 DEF Owns
  <2>3. Owns(u)' => Ids' \cap Milestone = Ids \cap Milestone
    BY <1>1, <1>2, <2>2 DEF Ids
  <2> QED
    BY <1>8, <1>9, <2>1, <2>3, Bystander
<1> QED
  BY <1>4, <1>6, <1>7, <1>8, <1>9, <1>10, <1>11 DEF IInv, LogInv

\* What a fresh list of API events puts above the sequence.
LEMMA FreshItems ==
  ASSUME TypeOK, NEW ids \in Fresh
  PROVE  /\ Len(ids) \in {1, 2}
         /\ DOMAIN ids = 1 .. Len(ids)
         /\ \A i \in DOMAIN ids : ids[i] \in ApiEvent
         /\ \A n \in seq + 1 .. seq + Len(ids) : \E r \in Items(seq, ids) : r.seq = n
         /\ \A r \in Items(seq, ids) :
              /\ r \in Entry /\ r.id \in ApiEvent
              /\ r.seq \in seq + 1 .. seq + Len(ids)
         /\ \A r, s \in Items(seq, ids) : r.seq = s.seq => r = s
<1>1. seq \in Nat
  BY DEF TypeOK
<1>2. Len(ids) \in {1, 2} /\ DOMAIN ids = 1 .. Len(ids) /\ \A i \in DOMAIN ids : ids[i] \in ApiEvent
  BY DEF Fresh
<1>3. \A r \in Items(seq, ids) : \E i \in 1 .. Len(ids) : r = [seq |-> seq + i, id |-> ids[i]]
  BY <1>2 DEF Items
<1>4. \A i \in 1 .. Len(ids) : [seq |-> seq + i, id |-> ids[i]] \in Items(seq, ids)
  BY <1>2 DEF Items
<1>5. ASSUME NEW n \in seq + 1 .. seq + Len(ids)
      PROVE  \E r \in Items(seq, ids) : r.seq = n
  <2>1. n - seq \in 1 .. Len(ids) /\ seq + (n - seq) = n
    BY <1>1, <1>2
  <2> QED
    BY <1>4, <2>1
<1>6. ASSUME NEW r \in Items(seq, ids)
      PROVE  r \in Entry /\ r.id \in ApiEvent /\ r.seq \in seq + 1 .. seq + Len(ids)
  BY <1>1, <1>2, <1>3 DEF Entry, Id
<1>7. \A r, s \in Items(seq, ids) : r.seq = s.seq => r = s
  BY <1>1, <1>2, <1>3
<1> QED
  BY <1>2, <1>5, <1>6, <1>7

LEMMA CommitStep ==
  ASSUME IInv, NEW c \in Client, Commit(c)
  PROVE  IInv'
<1>0. lock \in Nat /\ seq \in Nat /\ seq # 0 /\ log \subseteq Entry
  BY DEF IInv, LogInv, TypeOK
<1>1. PICK ids \in Fresh : log' = log \cup Items(seq, ids) /\ seq' = seq + Len(ids)
  BY DEF Commit
<1> DEFINE new == Items(seq, ids)
<1>2. /\ Len(ids) \in {1, 2}
      /\ \A n \in seq + 1 .. seq + Len(ids) : \E r \in new : r.seq = n
      /\ \A r \in new : r \in Entry /\ r.id \in ApiEvent /\ r.seq \in seq + 1 .. seq + Len(ids)
      /\ \A r, s \in new : r.seq = s.seq => r = s
  BY FreshItems DEF IInv
<1>3. \A r \in log : r.seq \in 1 .. seq
  BY DEF IInv, LogInv, LogIsDense
<1> HIDE DEF new
<1>4. seq' \in Nat /\ seq' > seq /\ seq' # 0 /\ seq' = seq + Len(ids) /\ log' = log \cup new
  <2>1. seq' = seq + Len(ids) /\ log' = log \cup new
    BY <1>1 DEF new
  <2>2. Len(ids) = 1 \/ Len(ids) = 2
    BY <1>2
  <2> QED
    BY <1>0, <2>1, <2>2
<1>5. LogIsDense'
  <2>1. \A r \in log' : r.seq \in 1 .. seq'
    BY <1>0, <1>2, <1>3, <1>4
  <2>2. ASSUME NEW n \in 1 .. seq'
        PROVE  \E r \in log' : r.seq = n
    <3>1. CASE n <= seq
      BY <1>0, <1>4, <3>1 DEF IInv, LogInv, LogIsDense
    <3>2. CASE n > seq
      BY <1>0, <1>2, <1>4, <3>2
    <3> QED
      BY <1>0, <3>1, <3>2
  <2>3. \A r, s \in log' : r.seq = s.seq => r = s
    BY <1>0, <1>2, <1>3, <1>4 DEF IInv, LogInv, LogIsDense
  <2> QED
    BY <2>1, <2>2, <2>3 DEF LogIsDense
<1>6. ApiEvent \cap Milestone = {} /\ ApiEvent \cap StepEvent = {}
  BY EventLogAssumption
<1>7. MilestonesOnce'
  BY <1>2, <1>4, <1>6 DEF IInv, LogInv, MilestonesOnce
<1>8. RecordIsLastEvent'
  <2>1. record' = record
    BY DEF Commit
  <2> QED
    BY <1>2, <1>4, <1>6, <2>1 DEF IInv, LogInv, RecordIsLastEvent
<1>9. lock' = lock + 1 /\ metaLock' = lock + 1 /\ UNCHANGED <<owner, record, worker>>
  BY DEF Commit
<1>10. TypeOK'
  <2>1. Resting \in Request
    BY DEF Resting, Request
  <2>2. client' \in [Client -> Request]
    BY <2>1 DEF IInv, TypeOK, Commit
  <2>3. log' \subseteq Entry
    BY <1>0, <1>2, <1>4
  <2> QED
    BY <1>0, <1>4, <1>9, <2>2, <2>3 DEF IInv, TypeOK
<1>11. ASSUME NEW u \in Worker
       PROVE  CallInv(u)'
  <2>1. worker[u].held \in Nat /\ worker[u].held <= lock
    BY DEF IInv, TypeOK, Caller, CallInv
  <2>2. ~Owns(u)'
    BY <1>0, <1>9, <2>1 DEF Owns
  <2> QED
    BY <1>0, <1>4, <1>9, <2>2, Bystander
<1> QED
  BY <1>4, <1>5, <1>7, <1>8, <1>10, <1>11 DEF IInv, LogInv

LEMMA ClientStepKeeps ==
  ASSUME IInv, NEW c \in Client, ClientStep(c)
  PROVE  IInv'
<1>1. CASE Read(c) \/ GiveUp(c)
  <2>1. LogInv' /\ Ids' = Ids
    BY <1>1, QuietLog DEF Quiet, Read, GiveUp
  <2>2. UNCHANGED <<log, seq, metaLock, owner, lock, record, worker>>
    BY <1>1 DEF Read, GiveUp
  <2>3. client' \in [Client -> Request]
    BY <1>1 DEF IInv, TypeOK, Read, GiveUp, Resting, Request
  <2>4. TypeOK'
    BY <2>2, <2>3 DEF IInv, TypeOK
  <2>5. \A u \in Worker : CallInv(u)'
    BY <2>1, <2>2 DEF IInv, CallInv, Owns
  <2> QED
    BY <2>1, <2>4, <2>5 DEF IInv
<1>2. CASE Commit(c)
  BY <1>2, CommitStep
<1> QED
  BY <1>1, <1>2 DEF ClientStep

LEMMA Stutter == IInv /\ UNCHANGED vars => IInv'
<1> SUFFICES ASSUME IInv, UNCHANGED vars PROVE IInv'
  OBVIOUS
<1>1. LogInv' /\ Ids' = Ids
  BY QuietLog DEF Quiet, vars
<1> QED
  BY <1>1 DEF IInv, TypeOK, CallInv, Owns, vars

\* IInv holds in every behaviour.
THEOREM Inductive == Spec => []IInv
<1>1. IInv /\ [Next]_vars => IInv'
  <2> SUFFICES ASSUME IInv, [Next]_vars PROVE IInv'
    OBVIOUS
  <2>1. ASSUME NEW w \in Worker, WorkerStep(w)
        PROVE  IInv'
    BY <2>1, LeaseStep, CallStep, AppendStep DEF WorkerStep
  <2>2. ASSUME NEW c \in Client, ClientStep(c)
        PROVE  IInv'
    BY <2>2, ClientStepKeeps
  <2> QED
    BY <2>1, <2>2, Stutter DEF Next
<1> QED
  BY <1>1, Initially, PTL DEF Spec

\* Every variable keeps its type, the retry budget included.
THEOREM TypeCorrect == Spec => []TypeOK
<1>1. IInv => TypeOK
  BY DEF IInv
<1> QED
  BY <1>1, Inductive, PTL

\* The log is dense and numbered without repetition, for any number of writers:
\* META's condition is enough, and no event's key is ever found taken.
THEOREM LogIsDenseHolds == Spec => []LogIsDense
<1>1. IInv => LogIsDense
  BY DEF IInv, LogInv
<1> QED
  BY <1>1, Inductive, PTL

\* Under the lease's condition the replay check and the append, three requests
\* apart, act as one: no milestone is logged twice.
THEOREM MilestonesOnceHolds == Spec => []MilestonesOnce
<1>1. IInv => MilestonesOnce
  BY DEF IInv, LogInv
<1> QED
  BY <1>1, Inductive, PTL

\* The STEP item and the log never part.
THEOREM RecordIsLastEventHolds == Spec => []RecordIsLastEvent
<1>1. IInv => RecordIsLastEvent
  BY DEF IInv, LogInv
<1> QED
  BY <1>1, Inductive, PTL

\* Contention on the sequence is always another writer's success.
THEOREM ContentionIsProgressHolds == Spec => []ContentionIsProgress
<1>1. IInv => ContentionIsProgress
  BY DEF IInv, CallInv, ContentionIsProgress
<1> QED
  BY <1>1, Inductive, PTL

-----------------------------------------------------------------------------
(* The pages of a reader: EventPages.                                      *)

\* A set of numbers that is not empty has a least one, and with a bound a
\* greatest.
LEMMA Least ==
  ASSUME NEW S, S \subseteq Nat, S # {}
  PROVE  \E x \in S : \A y \in S : x <= y
<1> DEFINE R == OpToRel(<, Nat)
<1>1. \A x, y \in Nat : <<y, x>> \in R <=> y < x
  BY DEF OpToRel
<1>2. IsWellFoundedOn(R, Nat)
  BY NatLessThanWellFounded, Zenon
<1> HIDE DEF R
<1>3. PICK x \in S : \A y \in S : ~(<<y, x>> \in R)
  BY <1>2, WFMin
<1>4. ASSUME NEW y \in S PROVE x <= y
  <2>1. x \in Nat /\ y \in Nat
    OBVIOUS
  <2>2. ~(y < x)
    BY <1>1, <1>3, <2>1
  <2> QED
    BY <2>1, <2>2
<1> QED
  BY <1>4

LEMMA Greatest ==
  ASSUME NEW n \in Nat, NEW S, S \subseteq 0..n, S # {}
  PROVE  \E x \in S : \A y \in S : y <= x
<1> DEFINE T == {n - x : x \in S}
<1>1. T \subseteq Nat /\ T # {}
  <2>1. \A x \in S : n - x \in Nat
    OBVIOUS
  <2> QED
    BY <2>1
<1>2. PICK t \in T : \A u \in T : t <= u
  BY <1>1, Least
<1>3. PICK x \in S : t = n - x
  OBVIOUS
<1>4. ASSUME NEW y \in S PROVE y <= x
  <2>1. n - y \in T
    OBVIOUS
  <2>2. n - x <= n - y
    BY <1>2, <1>3, <2>1
  <2>3. x \in 0..n /\ y \in 0..n
    OBVIOUS
  <2> QED
    BY <2>2, <2>3
<1> QED
  BY <1>4

\* What a page is made of: finitely many events, each at a sequence of its own.
Listed(items) ==
    /\ IsFiniteSet(items) /\ items \subseteq Entry
    /\ \A r, s \in items : r.seq = s.seq => r = s
    /\ \A r \in items : r.seq <= seq

LEMMA SubsetListed ==
  ASSUME NEW items, Listed(items), NEW part, part \subseteq items
  PROVE  Listed(part)
  BY FS_Subset DEF Listed

\* The events up to the n-th are n at most, and begin with the first.
LEMMA FirstNOf ==
  ASSUME seq \in Nat, NEW items, Listed(items), NEW n \in Nat
  PROVE  /\ FirstN(items, n) \subseteq items
         /\ Cardinality(FirstN(items, n)) <= n
         /\ n # 0 /\ items # {} => FirstN(items, n) # {}
         /\ \A p \in FirstN(items, n), r \in items : r.seq <= p.seq => r \in FirstN(items, n)
<1> DEFINE upTo(r) == {s \in items : s.seq <= r.seq}
           first == FirstN(items, n)
<1>1. first = {r \in items : Cardinality(upTo(r)) <= n}
  BY DEF FirstN
<1>2. \A r \in items : r.seq \in 0..seq /\ r.seq \in Nat
  BY DEF Listed, Entry
<1>3. \A r \in items : IsFiniteSet(upTo(r)) /\ Cardinality(upTo(r)) \in Nat
  <2>1. \A r \in items : upTo(r) \subseteq items
    OBVIOUS
  <2> QED
    BY <2>1, FS_Subset, FS_CardinalityType DEF Listed
<1>4. Cardinality(first) <= n
  <2>1. CASE first = {}
    BY <2>1, FS_EmptySet
  <2>2. CASE first # {}
    <3> DEFINE seqs == {r.seq : r \in first}
    <3>1. seqs \subseteq 0..seq /\ seqs # {}
      BY <1>1, <1>2, <2>2
    <3>2. PICK x \in seqs : \A y \in seqs : y <= x
      BY <3>1, Greatest
    <3>3. PICK p \in first : p.seq = x
      OBVIOUS
    <3>4. first \subseteq upTo(p)
      BY <1>1, <3>2, <3>3
    <3>5. p \in items /\ Cardinality(upTo(p)) <= n
      BY <1>1
    <3>6. Cardinality(first) <= Cardinality(upTo(p)) /\ Cardinality(first) \in Nat
      BY <1>3, <3>4, <3>5, FS_Subset, FS_CardinalityType
    <3> QED
      BY <1>3, <3>5, <3>6
  <2> QED
    BY <2>1, <2>2
<1>5. ASSUME n # 0, items # {} PROVE first # {}
  <2> DEFINE seqs == {r.seq : r \in items}
  <2>1. seqs \subseteq Nat /\ seqs # {}
    BY <1>2, <1>5
  <2>2. PICK x \in seqs : \A y \in seqs : x <= y
    BY <2>1, Least
  <2>3. PICK p \in items : p.seq = x
    OBVIOUS
  <2>4. upTo(p) = {p}
    <3>1. \A s \in items : s.seq <= p.seq => s = p
      BY <1>2, <2>2, <2>3 DEF Listed
    <3> QED
      BY <1>2, <3>1
  <2>5. Cardinality(upTo(p)) = 1
    BY <2>4, FS_Singleton
  <2> QED
    BY <1>1, <1>5, <2>5
<1>6. ASSUME NEW p \in first, NEW r \in items, r.seq <= p.seq PROVE r \in first
  <2>1. p \in items /\ Cardinality(upTo(p)) <= n
    BY <1>1
  <2>2. upTo(r) \subseteq upTo(p)
    BY <1>2, <1>6, <2>1
  <2>3. Cardinality(upTo(r)) <= Cardinality(upTo(p))
    BY <1>3, <2>1, <2>2, FS_Subset
  <2>4. Cardinality(upTo(p)) \in Nat /\ Cardinality(upTo(r)) \in Nat
    BY <1>3, <2>1
  <2> HIDE DEF upTo
  <2>5. Cardinality(upTo(r)) <= n
    BY <2>1, <2>3, <2>4
  <2> QED
    BY <1>1, <2>5
<1> QED
  BY <1>1, <1>4, <1>5, <1>6

\* A page that is not the last holds every event up to its cursor.
LEMMA PageIsWhole ==
  ASSUME seq \in Nat, NEW items, Listed(items),
         NEW fetched, fetched = Deduped(FirstN(items, Limit + 1)), Cardinality(fetched) > Limit
  PROVE  /\ \E p \in items : Cursor(fetched) = p.seq
         /\ \A r \in items : r.seq <= Cursor(fetched) => r \in FirstN(fetched, Limit)
<1> DEFINE front == FirstN(items, Limit + 1)
           page == FirstN(fetched, Limit)
<1>1. Limit \in Nat /\ Limit # 0 /\ Limit + 1 \in Nat
  BY LimitAssumption
<1>2. /\ front \subseteq items /\ Cardinality(front) <= Limit + 1
      /\ \A p \in front, r \in items : r.seq <= p.seq => r \in front
  BY <1>1, FirstNOf
<1>3. Listed(front) /\ IsFiniteSet(front)
  BY <1>2, SubsetListed DEF Listed
<1>4. fetched = front
  <2>1. fetched \subseteq front
    BY DEF Deduped
  <2>2. /\ Cardinality(fetched) <= Cardinality(front)
        /\ Cardinality(fetched) = Cardinality(front) => fetched = front
        /\ Cardinality(fetched) \in Nat /\ Cardinality(front) \in Nat
    BY <1>3, <2>1, FS_Subset, FS_CardinalityType
  <2> QED
    BY <1>1, <1>2, <2>2
<1>5. front # {}
  <2>1. front = {} => Cardinality(fetched) = 0
    BY <1>4, FS_EmptySet
  <2> QED
    BY <1>1, <2>1
<1>6. /\ page \subseteq front /\ page # {}
      /\ \A p \in page, r \in front : r.seq <= p.seq => r \in page
  BY <1>1, <1>3, <1>4, <1>5, FirstNOf
<1>7. \E p \in page : Cursor(fetched) = p.seq
  <2> DEFINE seqs == {r.seq : r \in page}
  <2>1. seqs \subseteq 0..seq /\ seqs # {}
    BY <1>3, <1>6 DEF Listed, Entry
  <2>2. PICK x \in seqs : \A y \in seqs : y <= x
    BY <2>1, Greatest
  <2>3. Cursor(fetched) = CHOOSE n \in seqs : \A r \in page : r.seq <= n
    BY DEF Cursor, Last
  <2>4. \A r \in page : r.seq <= x
    BY <2>2
  <2>5. Cursor(fetched) \in seqs
    BY <2>3, <2>4
  <2> QED
    BY <2>5
<1>8. PICK p \in page : Cursor(fetched) = p.seq
  BY <1>7
<1>9. p \in front /\ p \in items
  BY <1>2, <1>6
<1> QED
  BY <1>2, <1>6, <1>8, <1>9

\* What the reader was given covers the log up to its cursor.
ReaderInv ==
    /\ reader.after \in 0..seq
    /\ \A r \in log : r.seq <= reader.after => r \in reader.got
    /\ reader = [after |-> reader.after, got |-> reader.got, over |-> reader.over]

LEMMA LogIsListed ==
  ASSUME IInv
  PROVE  seq \in Nat /\ Listed(log)
<1>1. /\ seq \in Nat /\ log \subseteq Entry /\ \A r \in log : r.seq \in 1..seq
      /\ \A r, s \in log : r.seq = s.seq => r = s
  BY DEF IInv, TypeOK, LogInv, LogIsDense
<1> DEFINE f == [r \in log |-> r.seq]
<1>2. f \in Injection(log, 1..seq)
  BY <1>1 DEF Injection, IsInjective
<1>3. IsFiniteSet(1..seq)
  BY <1>1, FS_Interval
<1>4. IsFiniteSet(log)
  BY <1>2, <1>3, FS_Injection
<1> QED
  BY <1>1, <1>4 DEF Listed

\* The log only grows, above the sequence.
LEMMA LogGrows ==
  ASSUME IInv, [Next]_vars
  PROVE  seq' \in Nat /\ seq <= seq' /\ \A r \in log' : r \in log \/ (r.seq \in Nat /\ r.seq > seq)
<1>0. seq \in Nat
  BY DEF IInv, TypeOK
<1>1. CASE UNCHANGED <<log, seq>>
  BY <1>0, <1>1
<1>2. ASSUME NEW w \in Worker, WorkerStep(w), ~UNCHANGED <<log, seq>>
      PROVE  seq' \in Nat /\ seq <= seq' /\ \A r \in log' : r \in log \/ (r.seq \in Nat /\ r.seq > seq)
  <2>1. Append1(w)
    BY <1>2 DEF WorkerStep, Acquire, ReadLockVersion, Heartbeat, Release, Begin, CheckEvent, ValidateReplay,
            ReadSequence, Refused, Contended, Unavailable
  <2>2. worker[w].seen = seq /\ log' = log \cup {Item(w)} /\ seq' = worker[w].seen + 1
    BY <2>1 DEF Append1, SequenceRefuses
  <2>3. Item(w).seq = seq + 1
    BY <2>2 DEF Item
  <2> QED
    BY <1>0, <2>2, <2>3
<1>3. ASSUME NEW c \in Client, Commit(c)
      PROVE  seq' \in Nat /\ seq <= seq' /\ \A r \in log' : r \in log \/ (r.seq \in Nat /\ r.seq > seq)
  <2>1. PICK ids \in Fresh : log' = log \cup Items(seq, ids) /\ seq' = seq + Len(ids)
    BY <1>3 DEF Commit
  <2>2. Len(ids) \in {1, 2} /\ \A r \in Items(seq, ids) : r.seq \in seq + 1 .. seq + Len(ids)
    BY FreshItems DEF IInv
  <2> QED
    BY <1>0, <2>1, <2>2
<1>4. CASE UNCHANGED vars
  BY <1>1, <1>4 DEF vars
<1> QED
  BY <1>1, <1>2, <1>3, <1>4 DEF Next, ClientStep, Read, GiveUp

LEMMA PollStep ==
  ASSUME IInv, ReaderInv, Poll
  PROVE  ReaderInv'
<1>1. PICK upto \in 0 .. seq :
         reader' = [after |-> IF Cardinality(Fetched(upto)) > Limit THEN Cursor(Fetched(upto)) ELSE reader.after,
                    got |-> reader.got \cup FirstN(Fetched(upto), Limit),
                    over |-> ~(Cardinality(Fetched(upto)) > Limit)]
  BY DEF Poll
<1> DEFINE items == {r \in log : reader.after < r.seq /\ r.seq <= upto}
           fetched == Fetched(upto)
<1>2. fetched = Deduped(FirstN(items, Limit + 1))
  BY DEF Fetched
<1>3. seq \in Nat /\ Listed(items) /\ log' = log /\ seq' = seq
  BY LogIsListed, SubsetListed DEF Poll, vars
<1>4. \A r \in log : r.seq \in Nat
  BY LogIsListed DEF Listed, Entry
<1> HIDE DEF fetched
<1>5. reader'.got = reader.got \cup FirstN(fetched, Limit)
      /\ reader'.after = (IF Cardinality(fetched) > Limit THEN Cursor(fetched) ELSE reader.after)
      /\ reader' = [after |-> reader'.after, got |-> reader'.got, over |-> reader'.over]
  BY <1>1 DEF fetched
<1>6. CASE ~(Cardinality(fetched) > Limit)
  BY <1>3, <1>5, <1>6 DEF ReaderInv
<1>7. CASE Cardinality(fetched) > Limit
  <2>1. /\ \E p \in items : Cursor(fetched) = p.seq
        /\ \A r \in items : r.seq <= Cursor(fetched) => r \in FirstN(fetched, Limit)
    BY <1>2, <1>3, <1>7, PageIsWhole
  <2>2. reader'.after = Cursor(fetched)
    BY <1>5, <1>7
  <2>3. Cursor(fetched) \in 0..seq /\ Cursor(fetched) <= upto
    BY <1>3, <1>4, <2>1
  <2>4. \A r \in log : r.seq <= Cursor(fetched) => r.seq <= reader.after \/ r \in items
    BY <1>3, <1>4, <2>3 DEF ReaderInv
  <2> QED
    BY <1>3, <1>5, <2>1, <2>2, <2>3, <2>4 DEF ReaderInv
<1> QED
  BY <1>6, <1>7

\* A client's pages are read from the log as its writers leave it.
THEOREM PagesOfTheLog == PagesSpec => Spec
<1>1. PagesInit => Init
  BY DEF PagesInit
<1>2. [PagesNext]_<<vars, reader>> => [Next]_vars
  BY DEF PagesNext, Poll
<1> QED
  BY <1>1, <1>2, PTL DEF PagesSpec, Spec

\* Whatever the log, the page size and the lag of the queries: an event at or
\* below the cursor was in a page.
THEOREM ReaderSkipsNothingHolds == PagesSpec => []ReaderSkipsNothing
<1>1. PagesInit => ReaderInv
  <2>1. PagesInit => IInv
    BY Initially DEF PagesInit
  <2>2. IInv => \A r \in log : r.seq # 0
    BY DEF IInv, TypeOK, LogInv, LogIsDense
  <2> QED
    BY <2>1, <2>2 DEF PagesInit, Init, Start, ReaderInv
<1>2. IInv /\ ReaderInv /\ [PagesNext]_<<vars, reader>> => ReaderInv'
  <2> SUFFICES ASSUME IInv, ReaderInv, [PagesNext]_<<vars, reader>> PROVE ReaderInv'
    OBVIOUS
  <2>1. CASE Poll
    BY <2>1, PollStep
  <2>2. CASE [Next]_vars /\ reader' = reader
    <3>1. seq' \in Nat /\ seq <= seq' /\ \A r \in log' : r \in log \/ (r.seq \in Nat /\ r.seq > seq)
      BY <2>2, LogGrows
    <3>2. seq \in Nat /\ \A r \in log : r.seq \in Nat
      BY LogIsListed DEF Listed, Entry
    <3>3. ASSUME NEW r \in log', r.seq <= reader.after PROVE r \in reader.got
      BY <3>1, <3>2, <3>3 DEF ReaderInv
    <3> QED
      BY <2>2, <3>1, <3>2, <3>3 DEF ReaderInv
  <2> QED
    BY <2>1, <2>2 DEF PagesNext
<1>3. ReaderInv => ReaderSkipsNothing
  BY DEF ReaderInv, ReaderSkipsNothing
<1> QED
  BY <1>1, <1>2, <1>3, PagesOfTheLog, Inductive, PTL DEF PagesSpec
==============================================================================
