------------------------ MODULE CampaignVersionsProofs ------------------------
(***************************************************************************)
(* CommitIsFresh and AcceptedRevisionIsTheChild, for any number of         *)
(* versions, consumers and requests.                                       *)
(*                                                                         *)
(* META's lock_version is no part of the argument: it may decrease.  What  *)
(* makes a write fresh is the event_sequence, which every write of the API *)
(* advances and nothing takes back.  What keeps a child's revision is that *)
(* no consumer holds the body of a version that does not exist yet.        *)
(***************************************************************************)
EXTENDS CampaignVersions, TLAPS

\* A request writes the version that was current when it read; its read is not newer
\* than META, and as new as META only if no write came since.
ReadsAge ==
    \A c \in Client : client[c].pc = "commit" =>
        /\ client[c].target = client[c].meta.current
        /\ client[c].meta.seq <= meta.seq
        /\ client[c].meta.seq = meta.seq => client[c].commits = commits

\* Nobody works on a version above the current one.
InRange ==
    /\ \A m \in sent : m.version <= meta.current
    /\ \A w \in Worker : worker[w].pc # "idle" => Target(w) <= meta.current
    /\ \A c \in Client : client[c].pc # "idle" => client[c].target <= meta.current

\* What a consumer would save has the revision of its version.
BodiesKeepRevision ==
    \A w \in Worker : worker[w].pc # "idle" =>
        worker[w].body.revision = versions[Target(w)].body.revision

\* A revision that was written is that of the child.
RevisionWritten ==
    \A c \in Client : client[c].op = "revise" /\ client[c].pc \in {"submit", "accepted"} =>
        /\ client[c].target < meta.current
        /\ versions[client[c].target + 1].body.revision = client[c].feedback

IInv == TypeOK /\ ReadsAge /\ InRange /\ BodiesKeepRevision /\ RevisionWritten

-----------------------------------------------------------------------------
LEMMA QueuedType == ASSUME NEW f \in Feedback \cup {None} PROVE Queued(f) \in Item /\ Queued(f).body.revision = f
  BY DEF Queued, Item, Body, Status

LEMMA InitIInv == Init => IInv
<1> SUFFICES ASSUME Init PROVE IInv
  OBVIOUS
<1>1. 1 \in Number /\ Number \subseteq Nat
  BY VersionsAssumption DEF Number
<1>2. Queued(None) \in Item
  BY QueuedType
<1>3. [Queued(None) EXCEPT !.lock = 1] \in Item /\ [Queued(None) EXCEPT !.lock = 0] \in Item
  BY <1>2 DEF Item
<1>4. versions \in [Number -> Item]
  BY <1>3 DEF Init
<1>5. Idle \in [pc : {"idle", "loaded", "acquired", "running", "saved"}, msg : Message, body : Body, held : Nat]
  BY <1>1, <1>2 DEF Idle, Message, Item
<1>6. Resting \in [pc : {"idle", "commit", "submit", "accepted"}, op : Operation, target : Number,
                   feedback : Feedback \cup {None}, meta : Meta, seen : Item, commits : Nat]
  BY <1>1, <1>2 DEF Resting, Operation, Meta
<1>7. TypeOK
  BY <1>1, <1>4, <1>5, <1>6 DEF Init, TypeOK, Meta, Message
<1>8. (\A w \in Worker : worker[w].pc = "idle") /\ (\A c \in Client : client[c].pc = "idle")
  BY DEF Init, Idle, Resting
<1> QED
  BY <1>1, <1>7, <1>8 DEF Init, IInv, ReadsAge, InRange, BodiesKeepRevision, RevisionWritten

\* A step that changes one consumer at most, in bodies no more than its version's,
\* and takes neither META's sequence nor its current version back.
LEMMA WorkerKeeps ==
  ASSUME IInv, TypeOK', NEW w \in Worker,
         meta'.current = meta.current, meta'.seq >= meta.seq, UNCHANGED <<sent, client, commits>>,
         \A n \in Number : n <= meta.current => versions'[n].body.revision = versions[n].body.revision,
         \A v \in Worker \ {w} : worker'[v] = worker[v],
         worker'[w].pc # "idle" =>
            /\ worker'[w].msg.version <= meta.current
            /\ worker'[w].body.revision = versions[worker'[w].msg.version].body.revision
  PROVE  IInv'
<1>1. ReadsAge'
  <2> SUFFICES ASSUME NEW c \in Client, client[c].pc = "commit"
               PROVE  /\ client[c].target = client[c].meta.current
                      /\ client[c].meta.seq <= meta'.seq
                      /\ client[c].meta.seq = meta'.seq => client[c].commits = commits
    BY DEF ReadsAge
  <2>1. /\ client[c].target = client[c].meta.current /\ client[c].meta.seq <= meta.seq
        /\ client[c].meta.seq = meta.seq => client[c].commits = commits
    BY DEF IInv, ReadsAge
  <2>2. client[c].meta.seq \in Nat /\ meta.seq \in Nat /\ meta'.seq \in Nat
    BY DEF IInv, TypeOK, Meta
  <2> QED
    BY <2>1, <2>2
<1>2. InRange'
  BY DEF IInv, InRange, Target
<1>3. BodiesKeepRevision'
  BY DEF IInv, TypeOK, InRange, BodiesKeepRevision, Target, Message
<1>4. RevisionWritten'
  <2> SUFFICES ASSUME NEW c \in Client, client[c].op = "revise", client[c].pc \in {"submit", "accepted"}
               PROVE  /\ client[c].target < meta.current
                      /\ versions'[client[c].target + 1].body.revision = client[c].feedback
    BY DEF RevisionWritten
  <2>1. /\ client[c].target < meta.current
        /\ versions[client[c].target + 1].body.revision = client[c].feedback
    BY DEF IInv, RevisionWritten
  <2>2. client[c].target \in Number /\ meta.current \in Number
    BY DEF IInv, TypeOK, Meta
  <2>3. client[c].target + 1 \in Number /\ client[c].target + 1 <= meta.current
    BY <2>1, <2>2, VersionsAssumption DEF Number
  <2> QED
    BY <2>1, <2>3
<1> QED
  BY <1>1, <1>2, <1>3, <1>4 DEF IInv

LEMMA LoadStep == ASSUME IInv, NEW w \in Worker, NEW m \in sent, Load(w, m) PROVE IInv'
<1> DEFINE next == [pc |-> "loaded", msg |-> m, body |-> versions[m.version].body, held |-> 0]
<1>1. m \in Message /\ m.version \in Number /\ m.version <= meta.current /\ versions[m.version].body \in Body
  BY DEF IInv, TypeOK, InRange, Message, Item
<1>2. worker' = [worker EXCEPT ![w] = next] /\ UNCHANGED <<meta, versions, lease, sent, done, events, client, commits>>
  BY DEF Load
<1>3. next \in [pc : {"idle", "loaded", "acquired", "running", "saved"}, msg : Message, body : Body, held : Nat]
  BY <1>1
<1>4. next.msg.version = m.version /\ next.body = versions[m.version].body
  OBVIOUS
<1> HIDE DEF next
<1>5. TypeOK'
  BY <1>2, <1>3 DEF IInv, TypeOK
<1>6. meta'.seq >= meta.seq
  BY <1>2 DEF IInv, TypeOK, Meta
<1> QED
  BY <1>1, <1>2, <1>4, <1>5, <1>6, WorkerKeeps DEF IInv, TypeOK

LEMMA AcquireStep == ASSUME IInv, NEW w \in Worker, AcquireLease(w) PROVE IInv'
<1> DEFINE n == Target(w)
           item == [versions[n] EXCEPT !.lock = @ + 1]
<1>1. n \in Number /\ n <= meta.current /\ worker[w].pc = "loaded"
  BY DEF IInv, TypeOK, InRange, AcquireLease, At, Target, Message
<1>2. item \in Item /\ item.body = versions[n].body
  BY <1>1 DEF IInv, TypeOK, Item
<1>3. versions' = [versions EXCEPT ![n] = item] /\ UNCHANGED <<meta, sent, done, events, client, commits>>
  BY DEF AcquireLease
<1>4. worker' = [worker EXCEPT ![w].pc = "acquired"] /\ lease' = [lease EXCEPT ![n] = w]
  BY DEF AcquireLease
<1> HIDE DEF n, item
<1>5. TypeOK'
  BY <1>1, <1>2, <1>3, <1>4 DEF IInv, TypeOK
<1>6. meta'.seq >= meta.seq
  BY <1>3 DEF IInv, TypeOK, Meta
<1>7. worker'[w].msg = worker[w].msg /\ worker'[w].body = worker[w].body
  BY <1>4 DEF IInv, TypeOK
<1>8. worker[w].msg.version <= meta.current /\ worker[w].body.revision = versions[worker[w].msg.version].body.revision
  BY <1>1 DEF IInv, InRange, BodiesKeepRevision, Target
<1>9. \A k \in Number : versions'[k].body = versions[k].body
  BY <1>1, <1>2, <1>3 DEF IInv, TypeOK
<1>10. \A v \in Worker \ {w} : worker'[v] = worker[v]
  BY <1>4 DEF IInv, TypeOK
<1> QED
  BY <1>3, <1>5, <1>6, <1>7, <1>8, <1>9, <1>10, WorkerKeeps

\* The end of a delivery.
LEMMA IdleKeeps ==
  ASSUME IInv, NEW w \in Worker, worker' = [worker EXCEPT ![w] = Idle],
         versions' \in [Number -> Item], \A n \in Number : versions'[n].body = versions[n].body,
         lease' \in [Number -> Worker \cup {None}], done' \subseteq Message,
         UNCHANGED <<meta, sent, events, client, commits>>
  PROVE  IInv'
<1>1. 1 \in Number
  BY VersionsAssumption DEF Number
<1>2. Idle \in [pc : {"idle", "loaded", "acquired", "running", "saved"}, msg : Message, body : Body, held : Nat]
      /\ Idle.pc = "idle"
  BY <1>1, QueuedType DEF Idle, Message, Item
<1>3. TypeOK'
  BY <1>2 DEF IInv, TypeOK
<1>4. meta'.seq >= meta.seq
  BY DEF IInv, TypeOK, Meta
<1>5. worker'[w].pc = "idle" /\ \A v \in Worker \ {w} : worker'[v] = worker[v]
  BY <1>2 DEF IInv, TypeOK
<1> QED
  BY <1>3, <1>4, <1>5, WorkerKeeps

LEMMA AdoptStep == ASSUME IInv, NEW w \in Worker, Adopt(w) PROVE IInv'
<1>1. CASE versions[Target(w)].body.status = "CANCELLED" \/ worker[w].msg \in done
  <2>1. worker' = [worker EXCEPT ![w] = Idle] /\ UNCHANGED <<meta, versions, lease, sent, done, events, client, commits>>
    BY <1>1 DEF Adopt
  <2> QED
    BY <2>1, IdleKeeps DEF IInv, TypeOK
<1>2. CASE ~(versions[Target(w)].body.status = "CANCELLED" \/ worker[w].msg \in done)
  <2> DEFINE next == [worker[w] EXCEPT !.pc = "running", !.held = versions[Target(w)].lock]
  <2>1. worker' = [worker EXCEPT ![w] = next] /\ UNCHANGED <<meta, versions, lease, sent, done, events, client, commits>>
    BY <1>2 DEF Adopt
  <2>2. Target(w) \in Number /\ versions[Target(w)].lock \in Nat /\ worker[w].pc = "acquired"
    BY DEF IInv, TypeOK, Target, Message, Item, Adopt, At
  <2>3. /\ next \in [pc : {"idle", "loaded", "acquired", "running", "saved"}, msg : Message, body : Body, held : Nat]
        /\ next.msg = worker[w].msg /\ next.body = worker[w].body
    BY <2>2 DEF IInv, TypeOK
  <2> HIDE DEF next
  <2>4. TypeOK'
    BY <2>1, <2>3 DEF IInv, TypeOK
  <2>5. meta'.seq >= meta.seq
    BY <2>1 DEF IInv, TypeOK, Meta
  <2>6. worker[w].msg.version <= meta.current /\ worker[w].body.revision = versions[worker[w].msg.version].body.revision
    BY <2>2 DEF IInv, InRange, BodiesKeepRevision, Target
  <2>7. worker'[w] = next /\ \A v \in Worker \ {w} : worker'[v] = worker[v]
    BY <2>1 DEF IInv, TypeOK
  <2> QED
    BY <2>1, <2>3, <2>4, <2>5, <2>6, <2>7, WorkerKeeps
<1> QED
  BY <1>1, <1>2

\* Whatever a run saves, the revision stays.
LEMMA ResultsKeepRevision ==
  ASSUME NEW b \in Body, NEW r \in Results(b) PROVE r \in Body /\ r.revision = b.revision
<1>1. CASE r = b
  BY <1>1
<1>2. CASE r = [b EXCEPT !.status = IF b.status = "READY_FOR_REVIEW" THEN "FINAL" ELSE "READY_FOR_REVIEW"]
  BY <1>2 DEF Body, Status
<1>3. CASE r = [b EXCEPT !.status = "FAILED", !.attempt = b.attempt + 1]
  <2>1. b.attempt + 1 \in Nat /\ "FAILED" \in Status
    BY DEF Body, Status
  <2> QED
    BY <1>3, <2>1 DEF Body
<1> QED
  BY <1>1, <1>2, <1>3 DEF Results

LEMMA SaveStep == ASSUME IInv, NEW w \in Worker, Save(w) PROVE IInv'
<1>0. PICK body \in Results(worker[w].body) :
         LET new == Milestone(w, body) \ events
             replayed == Milestone(w, body) # {} /\ new = {}
         IN /\ versions' = IF replayed THEN versions ELSE [versions EXCEPT ![Target(w)].body = body]
            /\ meta' = [meta EXCEPT !.seq = IF new = {} THEN @ ELSE @ + 1]
            /\ events' = events \cup new
            /\ worker' = [worker EXCEPT ![w] = Saved(w, body)]
  BY DEF Save
<1> DEFINE next == Saved(w, body)
<1>1. /\ Target(w) \in Number /\ worker[w].pc = "running" /\ worker[w].body \in Body
      /\ worker[w] \in [pc : {"idle", "loaded", "acquired", "running", "saved"},
                        msg : Message, body : Body, held : Nat]
  BY DEF IInv, TypeOK, Target, Message, Save, At
<1>2. body \in Body /\ body.revision = worker[w].body.revision
  BY <1>1, ResultsKeepRevision
<1>3. Target(w) <= meta.current /\ body.revision = versions[Target(w)].body.revision
  BY <1>1, <1>2 DEF IInv, InRange, BodiesKeepRevision
<1>4. worker' = [worker EXCEPT ![w] = next]
  BY <1>0
<1>5. /\ next \in [pc : {"idle", "loaded", "acquired", "running", "saved"}, msg : Message, body : Body, held : Nat]
      /\ next.msg = worker[w].msg /\ next.body = body
  BY <1>1, <1>2 DEF Saved
<1>6. versions' \in [Number -> Item] /\ \A n \in Number : versions'[n].body.revision = versions[n].body.revision
  <2>1. CASE versions' = versions
    BY <2>1 DEF IInv, TypeOK
  <2>2. CASE versions' = [versions EXCEPT ![Target(w)].body = body]
    BY <1>1, <1>2, <1>3, <2>2 DEF IInv, TypeOK, Item
  <2> QED
    BY <1>0, <2>1, <2>2
<1>7. meta' \in Meta /\ meta'.current = meta.current /\ meta'.seq >= meta.seq
  BY <1>0 DEF IInv, TypeOK, Meta
<1>8. events' \subseteq Number \X Status \X Nat
  <2>1. Milestone(w, body) \subseteq Number \X Status \X Nat
    BY <1>1, <1>2 DEF Milestone, Body
  <2> QED
    BY <1>0, <2>1 DEF IInv, TypeOK
<1>9. UNCHANGED <<lease, sent, done, client, commits>>
  BY DEF Save
<1> HIDE DEF next
<1>10. TypeOK'
  BY <1>4, <1>5, <1>6, <1>7, <1>8, <1>9 DEF IInv, TypeOK
<1>11. worker'[w] = next /\ \A v \in Worker \ {w} : worker'[v] = worker[v]
  BY <1>4 DEF IInv, TypeOK
<1>12. /\ worker'[w].msg.version <= meta.current
       /\ worker'[w].body.revision = versions[worker'[w].msg.version].body.revision
  BY <1>3, <1>5, <1>11 DEF Target
<1> QED
  BY <1>6, <1>7, <1>9, <1>10, <1>11, <1>12, WorkerKeeps

LEMMA CompleteStep == ASSUME IInv, NEW w \in Worker, Complete(w) PROVE IInv'
<1> DEFINE n == Target(w)
           item == [versions[n] EXCEPT !.lock = @ + 1]
<1>1. n \in Number /\ worker[w].msg \in Message
  BY DEF IInv, TypeOK, Target, Message
<1>2. item \in Item /\ item.body = versions[n].body
  BY <1>1 DEF IInv, TypeOK, Item
<1>3. versions' = [versions EXCEPT ![n] = item]
  BY DEF Complete
<1>4. versions' \in [Number -> Item] /\ \A k \in Number : versions'[k].body = versions[k].body
  <2> HIDE DEF n, item
  <2> QED
    BY <1>1, <1>2, <1>3 DEF IInv, TypeOK
<1>5. lease' \in [Number -> Worker \cup {None}] /\ done' \subseteq Message
  BY <1>1 DEF IInv, TypeOK, Complete
<1> QED
  BY <1>4, <1>5, IdleKeeps DEF Complete

LEMMA AbandonStep == ASSUME IInv, NEW w \in Worker, Abandon(w) PROVE IInv'
  BY IdleKeeps DEF Abandon, IInv, TypeOK

-----------------------------------------------------------------------------
Request == [pc : {"idle", "commit", "submit", "accepted"}, op : Operation, target : Number,
            feedback : Feedback \cup {None}, meta : Meta, seen : Item, commits : Nat]

\* A step of one request that writes no item and sends no more than messages for
\* versions that exist.
LEMMA ClientKeeps ==
  ASSUME IInv, NEW c \in Client, NEW next \in Request, client' = [client EXCEPT ![c] = next],
         sent' \subseteq Message, \A m \in sent' : m.version <= meta.current,
         UNCHANGED <<meta, versions, lease, done, events, worker, commits>>,
         next.pc # "idle" => next.target <= meta.current,
         next.pc = "commit" => next.target = meta.current /\ next.meta = meta /\ next.commits = commits,
         next.op = "revise" /\ next.pc \in {"submit", "accepted"} =>
            /\ next.target < meta.current
            /\ versions[next.target + 1].body.revision = next.feedback
  PROVE  IInv'
<1>1. client'[c] = next /\ \A d \in Client \ {c} : client'[d] = client[d]
  BY DEF IInv, TypeOK
<1>2. TypeOK'
  BY DEF IInv, TypeOK, Request
<1>3. ReadsAge'
  <2> SUFFICES ASSUME NEW d \in Client, client'[d].pc = "commit"
               PROVE  /\ client'[d].target = client'[d].meta.current
                      /\ client'[d].meta.seq <= meta.seq
                      /\ client'[d].meta.seq = meta.seq => client'[d].commits = commits
    BY DEF ReadsAge
  <2>1. meta.seq \in Nat
    BY DEF IInv, TypeOK, Meta
  <2>2. CASE d = c
    BY <1>1, <2>1, <2>2
  <2>3. CASE d # c
    BY <1>1, <2>3 DEF IInv, ReadsAge
  <2> QED
    BY <2>2, <2>3
<1>4. InRange'
  BY <1>1 DEF IInv, InRange, Target
<1>5. BodiesKeepRevision'
  BY DEF IInv, BodiesKeepRevision, Target
<1>6. RevisionWritten'
  BY <1>1 DEF IInv, RevisionWritten
<1> QED
  BY <1>2, <1>3, <1>4, <1>5, <1>6 DEF IInv

LEMMA ReadStep ==
  ASSUME IInv, NEW c \in Client, NEW op \in Operation, NEW n \in Number, NEW f \in Feedback \cup {None},
         op = "revise" => f \in Feedback, Read(c, op, n, f)
  PROVE  IInv'
<1> DEFINE next == [pc |-> IF Replays(op, n, f) THEN "submit" ELSE "commit", op |-> op, target |-> n,
                    feedback |-> f, meta |-> meta, seen |-> Current, commits |-> commits]
<1>1. meta \in Meta /\ meta.current \in Number /\ Current \in Item /\ commits \in Nat /\ Number \subseteq Nat
  BY VersionsAssumption DEF IInv, TypeOK, Meta, Current, Number
<1>2. next \in Request
  BY <1>1 DEF Request
<1>3. client' = [client EXCEPT ![c] = next] /\ UNCHANGED <<meta, versions, lease, sent, done, events, worker, commits>>
  BY DEF Read
<1>4. n <= meta.current
  <2>1. CASE n = meta.current
    BY <1>1, <2>1
  <2>2. CASE meta.current = n + 1
    BY <1>1, <2>2
  <2> QED
    BY <2>1, <2>2 DEF Read, Replays, RevisionReplay
<1>5. op = "revise" /\ Replays(op, n, f) =>
         n < meta.current /\ versions[n + 1].body.revision = f
  <2> SUFFICES ASSUME op = "revise", Replays(op, n, f)
               PROVE  n < meta.current /\ versions[n + 1].body.revision = f
    OBVIOUS
  <2>1. meta.current = n + 1 /\ Current.body.revision = f
    BY DEF Replays, RevisionReplay
  <2> QED
    BY <1>1, <2>1 DEF Current
<1>6. sent' \subseteq Message /\ \A m \in sent' : m.version <= meta.current
  BY <1>3 DEF IInv, TypeOK, InRange
<1>7. next.pc = "commit" => n = meta.current
  BY DEF Read
<1> QED
  BY <1>2, <1>3, <1>4, <1>5, <1>6, <1>7, ClientKeeps

LEMMA RestStep ==
  ASSUME IInv, NEW c \in Client, client' = [client EXCEPT ![c] = Resting],
         sent' \subseteq Message, \A m \in sent' : m.version <= meta.current,
         UNCHANGED <<meta, versions, lease, done, events, worker, commits>>
  PROVE  IInv'
<1>1. 1 \in Number /\ Queued(None) \in Item
  BY VersionsAssumption, QueuedType DEF Number
<1>2. Resting \in Request /\ Resting.pc = "idle"
  BY <1>1 DEF Resting, Request, Operation, Meta
<1> QED
  BY <1>2, ClientKeeps

LEMMA SubmitStep == ASSUME IInv, NEW c \in Client, Submit(c) PROVE IInv'
<1> DEFINE next == [client[c] EXCEPT !.pc = "accepted"]
<1>1. client[c] \in Request /\ client[c].pc = "submit" /\ client[c].target <= meta.current
  BY DEF IInv, TypeOK, Request, InRange, Submit
<1>2. /\ client[c].target \in Number /\ client[c].seen.body.job \in Nat
      /\ meta.current \in Number /\ Number \subseteq Nat
  <2>1. client[c].seen \in Item /\ client[c].target \in Number
    BY <1>1 DEF Request
  <2>2. client[c].seen.body.job \in Nat
    BY <2>1 DEF Item, Body
  <2> QED
    BY <2>1, <2>2, VersionsAssumption DEF IInv, TypeOK, Meta, Number
<1>3. client[c].op = "revise" =>
        client[c].target < meta.current /\ versions[client[c].target + 1].body.revision = client[c].feedback
  BY <1>1 DEF IInv, RevisionWritten
<1>4. CASE client[c].op = "revise"
  <2>1. Command(c) = [version |-> client[c].target + 1, op |-> "REGENERATE", job |-> client[c].seen.body.job]
    BY <1>4 DEF Command
  <2>2. client[c].target + 1 \in Number /\ client[c].target + 1 <= meta.current
    BY <1>2, <1>3, <1>4, VersionsAssumption DEF Number
  <2>3. sent' \subseteq Message /\ \A m \in sent' : m.version <= meta.current
    BY <1>2, <2>1, <2>2 DEF IInv, TypeOK, InRange, Submit, Message
  <2>4. client' = [client EXCEPT ![c] = next] /\ UNCHANGED <<meta, versions, lease, done, events, worker, commits>>
    BY <1>4 DEF Submit
  <2>5. /\ next \in Request /\ next.pc = "accepted" /\ next.target = client[c].target
        /\ next.feedback = client[c].feedback
    BY <1>1 DEF Request
  <2> HIDE DEF next
  <2> QED
    BY <1>1, <1>3, <1>4, <2>3, <2>4, <2>5, ClientKeeps
<1>5. CASE client[c].op # "revise"
  <2>1. Command(c) \in Message /\ Command(c).version <= meta.current
    BY <1>1, <1>2, <1>5 DEF Command, Message
  <2>2. sent' \subseteq Message /\ \A m \in sent' : m.version <= meta.current
    BY <2>1 DEF IInv, TypeOK, InRange, Submit
  <2> QED
    BY <1>5, <2>2, RestStep DEF Submit
<1> QED
  BY <1>4, <1>5

LEMMA GiveUpStep == ASSUME IInv, NEW c \in Client, GiveUp(c) PROVE IInv'
  BY RestStep DEF GiveUp, IInv, TypeOK, InRange

\* A write: META's sequence advances, so no other read is of the present; bodies keep
\* their revision up to the current version, and a new version is the last.
LEMMA CommitKeeps ==
  ASSUME IInv, NEW c \in Client, NEW next \in Request, client' = [client EXCEPT ![c] = next],
         meta' \in Meta, versions' \in [Number -> Item], commits' = commits + 1,
         meta'.seq > meta.seq, meta'.current >= meta.current,
         \A n \in Number : n <= meta.current => versions'[n].body.revision = versions[n].body.revision,
         UNCHANGED <<lease, sent, done, events, worker>>,
         next.pc # "commit", next.pc # "idle" => next.target <= meta'.current,
         next.op = "revise" /\ next.pc \in {"submit", "accepted"} =>
            /\ next.target < meta'.current
            /\ versions'[next.target + 1].body.revision = next.feedback
  PROVE  IInv'
<1>1. client'[c] = next /\ \A d \in Client \ {c} : client'[d] = client[d]
  BY DEF IInv, TypeOK
<1>2. /\ meta.current \in Nat /\ meta'.current \in Nat /\ meta.seq \in Nat /\ meta'.seq \in Nat
      /\ Number \subseteq Nat /\ meta.current \in Number
  BY VersionsAssumption DEF IInv, TypeOK, Meta, Number
<1>3. TypeOK'
  BY DEF IInv, TypeOK, Request
<1>8. \A k \in Number : (k <= meta.current => k <= meta'.current) /\ (k < meta.current => k < meta'.current)
  BY <1>2
<1>4. ReadsAge'
  <2> SUFFICES ASSUME NEW d \in Client, client'[d].pc = "commit"
               PROVE  /\ client'[d].target = client'[d].meta.current
                      /\ client'[d].meta.seq <= meta'.seq
                      /\ client'[d].meta.seq = meta'.seq => client'[d].commits = commits'
    BY DEF ReadsAge
  <2>1. d # c /\ client'[d] = client[d]
    BY <1>1
  <2>2. client[d].target = client[d].meta.current /\ client[d].meta.seq <= meta.seq
    BY <2>1 DEF IInv, ReadsAge
  <2>3. client[d].meta.seq \in Nat
    BY DEF IInv, TypeOK, Meta
  <2> QED
    BY <1>2, <2>1, <2>2, <2>3
<1>5. InRange'
  <2>1. \A m \in sent' : m.version <= meta'.current
    <3>1. \A m \in sent : m.version \in Number /\ m.version <= meta.current
      BY DEF IInv, TypeOK, InRange, Message
    <3> QED
      BY <1>8, <3>1
  <2>2. \A w \in Worker : worker'[w].pc # "idle" => worker'[w].msg.version <= meta'.current
    <3>1. \A w \in Worker : worker[w].pc # "idle" =>
             worker[w].msg.version \in Number /\ worker[w].msg.version <= meta.current
      BY DEF IInv, TypeOK, InRange, Target, Message
    <3> QED
      BY <1>8, <3>1
  <2>3. ASSUME NEW d \in Client, client'[d].pc # "idle" PROVE client'[d].target <= meta'.current
    <3>1. CASE d = c
      BY <1>1, <2>3, <3>1
    <3>2. CASE d # c
      <4>1. client'[d] = client[d] /\ client[d].target <= meta.current /\ client[d].target \in Number
        BY <1>1, <2>3, <3>2 DEF IInv, TypeOK, InRange
      <4> QED
        BY <1>8, <4>1
    <3> QED
      BY <3>1, <3>2
  <2> QED
    BY <2>1, <2>2, <2>3 DEF InRange, Target
<1>6. BodiesKeepRevision'
  BY DEF IInv, TypeOK, InRange, BodiesKeepRevision, Target, Message
<1>7. RevisionWritten'
  <2> SUFFICES ASSUME NEW d \in Client, client'[d].op = "revise", client'[d].pc \in {"submit", "accepted"}
               PROVE  /\ client'[d].target < meta'.current
                      /\ versions'[client'[d].target + 1].body.revision = client'[d].feedback
    BY DEF RevisionWritten
  <2>1. CASE d = c
    BY <1>1, <2>1
  <2>2. CASE d # c
    <3>1. client'[d] = client[d] /\ client[d].target \in Number
      BY <1>1, <2>2 DEF IInv, TypeOK
    <3>2. /\ client[d].target < meta.current
          /\ versions[client[d].target + 1].body.revision = client[d].feedback
      BY <3>1 DEF IInv, RevisionWritten
    <3>3. client[d].target + 1 \in Number /\ client[d].target + 1 <= meta.current
      BY <1>2, <3>1, <3>2, VersionsAssumption DEF Number
    <3>4. versions'[client[d].target + 1].body.revision = versions[client[d].target + 1].body.revision
      BY <3>3
    <3> QED
      BY <1>8, <3>1, <3>2, <3>4
  <2> QED
    BY <2>1, <2>2
<1> QED
  BY <1>3, <1>4, <1>5, <1>6, <1>7 DEF IInv

\* The current version with another status and job.
LEMMA WrittenType ==
  ASSUME IInv, NEW n \in Number, NEW body \in Body
  PROVE  Written(n, body) \in Item /\ Written(n, body).body = body /\ Written(n, body).lock \in Nat
BY DEF IInv, TypeOK, Item, Written

LEMMA CommitReads ==
  ASSUME IInv, NEW c \in Client, NEW op, Committing(c, op)
  PROVE  /\ client[c] \in Request /\ client[c].target \in Number
         /\ client[c].target <= meta.current
         /\ client[c].seen \in Item /\ client[c].feedback \in Feedback \cup {None}
         /\ versions[client[c].target] \in Item /\ versions[client[c].target].body \in Body
         /\ commits' = commits + 1 /\ UNCHANGED <<lease, sent, done, events, worker>>
<1>1. client[c] \in Request /\ client[c].pc = "commit"
  BY DEF IInv, TypeOK, Request, Committing
<1>2. client[c].target \in Number /\ client[c].seen \in Item /\ client[c].feedback \in Feedback \cup {None}
  BY <1>1 DEF Request
<1>3. versions[client[c].target] \in Item
  BY <1>2 DEF IInv, TypeOK
<1>4. versions[client[c].target].body \in Body
  BY <1>3 DEF Item
<1> QED
  BY <1>1, <1>2, <1>3, <1>4 DEF Committing, IInv, InRange

LEMMA CommitCancelStep == ASSUME IInv, NEW c \in Client, CommitCancel(c) PROVE IInv'
<1> DEFINE n == client[c].target
           body == [versions[n].body EXCEPT !.status = "CANCELLED"]
<1>1. Committing(c, "cancel")
  BY DEF CommitCancel
<1>2. n \in Number /\ versions[n].body \in Body
  BY <1>1, CommitReads
<1>3. body \in Body /\ body.revision = versions[n].body.revision
  BY <1>2 DEF Body, Status
<1>4. versions' = [versions EXCEPT ![n] = Written(n, body)]
  BY DEF CommitCancel
<1>5. meta' = [current |-> meta.current, lock |-> versions[n].lock + 1, seq |-> meta.seq + 2] /\ client' = [client EXCEPT ![c] = Resting]
  BY DEF CommitCancel
<1>6. versions[n].lock + 1 \in Nat
  BY <1>1, <1>2, CommitReads DEF Item
<1>7. meta' \in Meta /\ meta'.seq > meta.seq /\ meta'.current = meta.current
  BY <1>5, <1>6 DEF IInv, TypeOK, Meta
<1>8. Resting \in Request /\ Resting.pc = "idle"
  BY VersionsAssumption, QueuedType DEF Resting, Request, Operation, Meta, Number
<1> HIDE DEF n, body
<1>9. versions' \in [Number -> Item] /\ \A k \in Number : versions'[k].body.revision = versions[k].body.revision
  BY <1>2, <1>3, <1>4, WrittenType DEF IInv, TypeOK
<1>10. meta'.current >= meta.current
  BY <1>7, VersionsAssumption DEF IInv, TypeOK, Meta, Number
<1> QED
  BY <1>1, <1>5, <1>7, <1>8, <1>9, <1>10, CommitReads, CommitKeeps

LEMMA CommitRetryStep == ASSUME IInv, NEW c \in Client, CommitRetry(c) PROVE IInv'
<1> DEFINE n == client[c].target
           body == [versions[n].body EXCEPT !.status = "QUEUED", !.job = client[c].seen.body.attempt]
           next == [client[c] EXCEPT !.pc = "submit", !.seen = Written(n, body)]
<1>1. Committing(c, "retry")
  BY DEF CommitRetry
<1>2. n \in Number /\ versions[n].body \in Body /\ client[c].seen.body.attempt \in Nat
  BY <1>1, CommitReads DEF Item, Body
<1>3. body \in Body /\ body.revision = versions[n].body.revision
  BY <1>2 DEF Body, Status
<1>4. versions' = [versions EXCEPT ![n] = Written(n, body)]
  BY DEF CommitRetry
<1>5. meta' = [current |-> meta.current, lock |-> versions[n].lock + 1, seq |-> meta.seq + 1] /\ client' = [client EXCEPT ![c] = next]
  BY DEF CommitRetry
<1>6. versions[n].lock + 1 \in Nat
  BY <1>1, <1>2, CommitReads DEF Item
<1>7. meta' \in Meta /\ meta'.seq > meta.seq /\ meta'.current = meta.current
  BY <1>5, <1>6 DEF IInv, TypeOK, Meta
<1>8. client[c] \in Request /\ client[c].op = "retry" /\ n <= meta.current
  BY <1>1, CommitReads DEF Committing
<1>9. next \in Request /\ next.pc = "submit" /\ next.target = n /\ next.op = "retry"
  <2>1. Written(n, body) \in Item
    BY <1>2, <1>3, WrittenType
  <2> QED
    BY <1>8, <2>1 DEF Request
<1> HIDE DEF n, body, next
<1>10. versions' \in [Number -> Item] /\ \A k \in Number : versions'[k].body.revision = versions[k].body.revision
  BY <1>2, <1>3, <1>4, WrittenType DEF IInv, TypeOK
<1>11. meta'.current >= meta.current
  BY <1>7, VersionsAssumption DEF IInv, TypeOK, Meta, Number
<1> QED
  BY <1>1, <1>5, <1>7, <1>8, <1>9, <1>10, <1>11, CommitReads, CommitKeeps

LEMMA CommitReviseStep == ASSUME IInv, NEW c \in Client, CommitRevise(c) PROVE IInv'
<1> DEFINE n == client[c].target
           child == Queued(client[c].feedback)
           body == [versions[n].body EXCEPT !.status = "REVISION_REQUESTED"]
           frozen == IF client[c].seen.body.status = "FINAL" THEN versions[n] ELSE Written(n, body)
           next == [client[c] EXCEPT !.pc = "submit", !.seen = child]
<1>1. Committing(c, "revise") /\ n < MaxVersion
  BY DEF CommitRevise
<1>2. n \in Number /\ versions[n] \in Item /\ versions[n].body \in Body
  BY <1>1, CommitReads
<1>3. body \in Body /\ body.revision = versions[n].body.revision
  BY <1>2 DEF Body, Status
<1>4. child \in Item /\ child.body.revision = client[c].feedback
  BY <1>1, CommitReads, QueuedType
<1>5. frozen \in Item /\ frozen.body.revision = versions[n].body.revision
  BY <1>2, <1>3, WrittenType
<1>6. versions' = [versions EXCEPT ![n] = frozen, ![n + 1] = child]
  BY DEF CommitRevise
<1>7. /\ meta' = [current |-> n + 1, lock |-> meta.lock + 1, seq |-> meta.seq + 1]
      /\ client' = [client EXCEPT ![c] = next]
  BY DEF CommitRevise
<1>8. client[c] \in Request /\ client[c].op = "revise"
  BY <1>1, CommitReads DEF Committing
<1>9. next \in Request /\ next.pc = "submit" /\ next.target = n /\ next.feedback = client[c].feedback
  BY <1>4, <1>8 DEF Request
<1>10. n + 1 \in Number /\ n \in Nat /\ n + 1 > n
  BY <1>1, <1>2, VersionsAssumption DEF Number
<1>11. n = meta.current
  <2>1. meta = client[c].meta /\ client[c].pc = "commit"
    BY <1>1 DEF Committing, AsRead
  <2> QED
    BY <2>1 DEF IInv, ReadsAge
<1> HIDE DEF n, child, body, frozen, next
<1>12. versions' \in [Number -> Item] /\ versions'[n] = frozen /\ versions'[n + 1] = child
  BY <1>2, <1>4, <1>5, <1>6, <1>10 DEF IInv, TypeOK
<1>13. ASSUME NEW k \in Number, k <= meta.current
       PROVE  versions'[k].body.revision = versions[k].body.revision
  <2>1. k # n + 1
    BY <1>10, <1>11, <1>13, VersionsAssumption DEF Number
  <2>2. CASE k = n
    BY <1>5, <1>12, <2>2
  <2>3. CASE k # n
    BY <1>6, <2>1, <2>3 DEF IInv, TypeOK
  <2> QED
    BY <2>2, <2>3
<1>14. meta' \in Meta /\ meta'.seq > meta.seq /\ meta'.current = n + 1
  BY <1>7, <1>10 DEF IInv, TypeOK, Meta
<1>15. /\ next.target < meta'.current /\ next.target <= meta'.current /\ meta'.current >= meta.current
       /\ versions'[next.target + 1].body.revision = next.feedback
  BY <1>4, <1>9, <1>10, <1>11, <1>12, <1>14
<1>16. commits' = commits + 1 /\ UNCHANGED <<lease, sent, done, events, worker>>
  BY <1>1, CommitReads
<1> QED
  BY <1>7, <1>9, <1>12, <1>13, <1>14, <1>15, <1>16, CommitKeeps

LEMMA NextIInv == IInv /\ [Next]_vars => IInv'
<1> SUFFICES ASSUME IInv, [Next]_vars PROVE IInv'
  OBVIOUS
<1>1. ASSUME NEW w \in Worker, WorkerStep(w) PROVE IInv'
  BY <1>1, LoadStep, AcquireStep, AdoptStep, SaveStep, CompleteStep, AbandonStep DEF WorkerStep
<1>2. ASSUME NEW c \in Client, ClientStep(c) PROVE IInv'
  <2>1. ASSUME NEW op \in Operation, NEW n \in Number,
               NEW f \in (IF op = "revise" THEN Feedback ELSE {None}), Read(c, op, n, f)
        PROVE  IInv'
    BY <2>1, ReadStep
  <2> QED
    BY <1>2, <2>1, CommitCancelStep, CommitRetryStep, CommitReviseStep, SubmitStep, GiveUpStep DEF ClientStep
<1>3. ASSUME UNCHANGED vars PROVE IInv'
  BY <1>3 DEF vars, IInv, TypeOK, ReadsAge, InRange, BodiesKeepRevision, RevisionWritten, Target
<1> QED
  BY <1>1, <1>2, <1>3 DEF Next

\* The strengthening is an invariant: which versions exist, what the requests have read
\* and what the consumers hold.
THEOREM Inductive == Spec => []IInv
BY InitIInv, NextIInv, PTL DEF Spec

\* Every variable has its type: no message names a version that does not exist.
THEOREM TypeCorrect == Spec => []TypeOK
BY Inductive, PTL DEF IInv

\* A revision answered 202 is the one its child was made with.
THEOREM AcceptedRevisionIsTheChildHolds == Spec => []AcceptedRevisionIsTheChild
<1>1. IInv => AcceptedRevisionIsTheChild
  BY DEF IInv, RevisionWritten, AcceptedRevisionIsTheChild
<1> QED
  BY <1>1, Inductive, PTL

\* No API write is based on a state that another API write has replaced, although
\* META's lock_version may return to an earlier value.
THEOREM CommitIsFreshHolds == Spec => CommitIsFresh
<1> DEFINE Fresh == commits' # commits => \E c \in Client :
                      client[c].pc = "commit" /\ client'[c] # client[c] /\ client[c].commits = commits
<1>1. IInv /\ [Next]_vars => [Fresh]_vars
  <2> SUFFICES ASSUME IInv, Next, commits' # commits PROVE Fresh
    OBVIOUS
  <2>1. ASSUME NEW w \in Worker, WorkerStep(w) PROVE FALSE
    BY <2>1 DEF WorkerStep, Load, AcquireLease, Adopt, Save, Complete, Abandon
  <2>2. PICK c \in Client : ClientStep(c)
    BY <2>1 DEF Next
  <2>3. CommitCancel(c) \/ CommitRetry(c) \/ CommitRevise(c)
    BY <2>2 DEF ClientStep, Read, Submit, GiveUp
  <2>4. client[c].pc = "commit" /\ meta = client[c].meta
    BY <2>3 DEF CommitCancel, CommitRetry, CommitRevise, Committing, AsRead
  <2>5. client[c].commits = commits
    BY <2>4 DEF IInv, ReadsAge
  <2>6. client[c] \in Request /\ client \in [Client -> Request]
    BY DEF IInv, TypeOK, Request
  <2>7. client'[c].pc # "commit"
    <3>1. CASE CommitCancel(c)
      BY <2>6, <3>1 DEF CommitCancel, Resting
    <3>2. CASE CommitRetry(c)
      BY <2>6, <3>2 DEF CommitRetry, Request
    <3>3. CASE CommitRevise(c)
      BY <2>6, <3>3 DEF CommitRevise, Request
    <3> QED
      BY <2>3, <3>1, <3>2, <3>3
  <2> QED
    BY <2>4, <2>5, <2>7
<1> QED
  BY <1>1, Inductive, PTL DEF Spec, CommitIsFresh
==============================================================================
