------------------------ MODULE CampaignCreationProofs ------------------------
(***************************************************************************)
(* CreatorActsAlone, AcceptedIsKept, QueuedWasSent and WorkedOnExists hold *)
(* for any number of requests and briefs.  The conditions of               *)
(* rollback_initial protect them in two ways: a consumer leaves its mark   *)
(* on the VERSION's lock_version only, an answer 202 on META's as well.    *)
(***************************************************************************)
EXTENDS CampaignCreation, TLAPS

Acting == {"submitting", "rollingBack", "replacing"}

\* What a consumer, an answer and the status have left on the items.
Marks ==
    /\ working => brief # None /\ lock > 0
    /\ \A c \in Client : client[c].answer = "accepted" => meta.lock > 0
    /\ brief # None /\ status = "QUEUED" => queued > 0
    /\ \A c \in Client : client[c].pc = "replacing" => queued > 0
    /\ brief # None /\ status = "QUEUED" => meta.lock > 0

IInv == TypeOK /\ Marks /\ CreatorActsAlone /\ AcceptedIsKept

-----------------------------------------------------------------------------
LEMMA InitIInv == Init => IInv
<1> SUFFICES ASSUME Init PROVE IInv
  OBVIOUS
<1>1. \A c \in Client : client[c].pc = "creating" /\ client[c].answer = "none"
  BY DEF Init
<1>2. TypeOK
  BY DEF Init, TypeOK, Fresh, Status, Answers
<1> QED
  BY <1>1, <1>2, CreationAssumption DEF Init, IInv, Marks, CreatorActsAlone, AcceptedIsKept

\* A step of one request that writes nothing but its own state.
LEMMA Moves ==
  ASSUME IInv, NEW c \in Client, NEW next \in {"readMeta", "readVersion"},
         Goto(c, next), UNCHANGED <<brief, status, lock, meta, queued, working>>
  PROVE  IInv'
  BY DEF IInv, TypeOK, Marks, CreatorActsAlone, AcceptedIsKept, Goto

\* What Answer does to the client's record.
LEMMA AnswerRecord ==
  ASSUME TypeOK, NEW c \in Client, NEW code \in Answers, Answer(c, code)
  PROVE  /\ client' \in [Client -> [pc : {"answered", "creating", "readMeta", "readVersion",
                                         "submitting", "rollingBack", "replacing"},
                                  brief : Brief, answer : Answers]]
         /\ client'[c].pc = "answered" /\ client'[c].answer = code
         /\ client'[c].brief = client[c].brief
         /\ \A d \in Client \ {c} : client'[d] = client[d]
  BY DEF Answer, TypeOK

LEMMA Answered ==
  ASSUME IInv, NEW c \in Client, NEW code \in Answers \ {"accepted"},
         Answer(c, code), UNCHANGED <<brief, status, lock, meta, queued, working>>
  PROVE  IInv'
  BY AnswerRecord DEF IInv, TypeOK, Marks, CreatorActsAlone, AcceptedIsKept

LEMMA CreateStep == ASSUME IInv, NEW c \in Client, CreateInitial(c) PROVE IInv'
<1>1. CASE brief # None
  BY <1>1, Moves DEF CreateInitial, Exists
<1>2. CASE brief = None
  BY <1>2, CreationAssumption DEF CreateInitial, Exists, IInv, TypeOK, Marks, CreatorActsAlone,
     AcceptedIsKept, Goto, Fresh, Status, At
<1> QED
  BY <1>1, <1>2

LEMMA ReadMetaStep == ASSUME IInv, NEW c \in Client, ReadMeta(c) PROVE IInv'
  BY Moves, Answered DEF ReadMeta, Answers

\* A replay is accepted only for its own brief, and META's lock_version has moved.
LEMMA ReadVersionStep == ASSUME IInv, NEW c \in Client, ReadVersion(c) PROVE IInv'
<1>1. CASE ReplayAnswer(c) = "accepted"
  <2>1. brief = client[c].brief /\ brief # None /\ status = "QUEUED"
    BY <1>1 DEF ReplayAnswer, Exists
  <2> QED
    <3>1. "accepted" \in Answers
      BY DEF Answers
    <3> QED
      BY <1>1, <2>1, <3>1, AnswerRecord DEF ReadVersion, IInv, TypeOK, Marks, CreatorActsAlone, AcceptedIsKept
<1>2. CASE ReplayAnswer(c) # "accepted"
  <2>1. ReplayAnswer(c) \in Answers \ {"accepted"}
    BY <1>2 DEF ReplayAnswer, Answers
  <2> QED
    BY <2>1, Answered DEF ReadVersion
<1> QED
  BY <1>1, <1>2

LEMMA SubmitStep == ASSUME IInv, NEW c \in Client, Submit(c) PROVE IInv'
<1> USE DEF Submit, IInv, TypeOK, Marks, CreatorActsAlone, AcceptedIsKept, Goto, Answer, Answers, At
<1>1. CASE queued' = queued + 1
  BY <1>1
<1>2. CASE queued' = queued
  BY <1>2
<1> QED
  BY <1>1, <1>2

\* Nobody has been answered 202 or executes the job while both items are as created.
LEMMA RollbackStep == ASSUME IInv, NEW c \in Client, RollbackInitial(c) PROVE IInv'
<1>1. CASE RollbackSafe
  <2>1. meta.lock = 0 /\ lock = 0 /\ brief' = None /\ Answer(c, "unavailable")
    BY <1>1 DEF RollbackInitial, RollbackSafe, Fresh
  <2>2. ~working /\ \A d \in Client : client[d].answer # "accepted"
    BY <2>1 DEF IInv, Marks
  <2> QED
    BY <2>1, <2>2 DEF RollbackInitial, IInv, TypeOK, Marks, CreatorActsAlone, AcceptedIsKept, Answer, Answers, At
<1>2. CASE ~RollbackSafe
  BY <1>2, Answered DEF RollbackInitial, Answers
<1> QED
  BY <1>1, <1>2

LEMMA ReplaceStep == ASSUME IInv, NEW c \in Client, ReplaceCurrent(c) PROVE IInv'
<1>1. CASE Replaceable
  BY <1>1 DEF ReplaceCurrent, Replaceable, IInv, TypeOK, Marks, CreatorActsAlone, AcceptedIsKept,
     Answer, Answers, At, Status
<1>2. CASE ~Replaceable
  BY <1>2, Answered DEF ReplaceCurrent, Answers
<1> QED
  BY <1>1, <1>2

LEMMA PostStep == ASSUME IInv, NEW c \in Client, NEW b \in Brief, Post(c, b) PROVE IInv'
  BY DEF Post, IInv, TypeOK, Marks, CreatorActsAlone, AcceptedIsKept, Answers

LEMMA OthersStep == ASSUME IInv, Take \/ Finish \/ Cancel PROVE IInv'
<1> USE DEF IInv, TypeOK, Marks, CreatorActsAlone, AcceptedIsKept, Status, Exists
<1>1. CASE Take
  BY <1>1 DEF Take
<1>2. CASE Finish
  BY <1>2 DEF Finish
<1>3. CASE Cancel
  BY <1>3 DEF Cancel
<1> QED
  BY <1>1, <1>2, <1>3

LEMMA NextIInv == IInv /\ [Next]_vars => IInv'
<1> SUFFICES ASSUME IInv, [Next]_vars PROVE IInv'
  OBVIOUS
<1>1. ASSUME NEW c \in Client, Request(c) PROVE IInv'
  BY <1>1, CreateStep, ReadMetaStep, ReadVersionStep, SubmitStep, RollbackStep, ReplaceStep DEF Request
<1>2. ASSUME NEW c \in Client, Break(c) PROVE IInv'
  BY <1>2, Answered DEF Break, Answers
<1>3. ASSUME NEW c \in Client, NEW b \in Brief, Post(c, b) PROVE IInv'
  BY <1>3, PostStep
<1>4. CASE Take \/ Finish \/ Cancel
  BY <1>4, OthersStep
<1>5. CASE UNCHANGED vars
  BY <1>5 DEF vars, IInv, TypeOK, Marks, CreatorActsAlone, AcceptedIsKept
<1> QED
  BY <1>1, <1>2, <1>3, <1>4, <1>5 DEF Next

-----------------------------------------------------------------------------
\* The invariant that the theorems below are read off: types, what consumers and
\* answers have left on the items, and who acts.
THEOREM Inductive == Spec => []IInv
  BY InitIInv, NextIInv, PTL DEF Spec

\* Every variable keeps its type, for any number of requests and briefs.
THEOREM TypeCorrect == Spec => []TypeOK
<1>1. IInv => TypeOK
  BY DEF IInv
<1> QED
  BY <1>1, Inductive, PTL

\* One request at a time acts for the key, and on its own campaign.
THEOREM CreatorActsAloneHolds == Spec => []CreatorActsAlone
<1>1. IInv => CreatorActsAlone
  BY DEF IInv
<1> QED
  BY <1>1, Inductive, PTL

\* The campaign that a 202 announced stays.
THEOREM AcceptedIsKeptHolds == Spec => []AcceptedIsKept
<1>1. IInv => AcceptedIsKept
  BY DEF IInv
<1> QED
  BY <1>1, Inductive, PTL

\* QUEUED is only written after the queue has accepted the message.
THEOREM QueuedWasSentHolds == Spec => []QueuedWasSent
<1>1. IInv => QueuedWasSent
  BY DEF IInv, Marks, QueuedWasSent, Exists
<1> QED
  BY <1>1, Inductive, PTL

\* No campaign is deleted under a consumer.
THEOREM WorkedOnExistsHolds == Spec => []WorkedOnExists
<1>1. IInv => WorkedOnExists
  BY DEF IInv, Marks, WorkedOnExists, Exists
<1> QED
  BY <1>1, Inductive, PTL
==============================================================================
