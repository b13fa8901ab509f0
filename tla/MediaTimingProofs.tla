-------------------------- MODULE MediaTimingProofs --------------------------
(***************************************************************************)
(* For every brief, every answer of a language model and every pace of     *)
(* speech: the narration fits its budget, and is spoken in time where the  *)
(* budget could reach its band; a voice that is stored has an allowed      *)
(* length; the render refuses nothing that the plan or the voice step      *)
(* should have refused; and shots, texts and sounds of a video are on one  *)
(* clock, whatever shots the plan has.                                     *)
(***************************************************************************)
EXTENDS MediaTiming, WellFoundedInduction, TLAPS

\* A plan that the renderer can show.
Showable(shots) == \A i \in DOMAIN shots : shots[i].transition \in Supported

\* Each step leaves what the next ones rely on.
Promised ==
    /\ plan # None => Showable(plan.shots)
    /\ step = "VIDEO" /\ Spoken(style) => voice \in MinDuration..MaxDuration

IInv == TypeOK /\ Promised /\ RefusedEarly

-----------------------------------------------------------------------------
\* The tempo correction aims inside the bounds, so what it yields lies within
\* them, whatever was measured.
LEMMA CorrectedInRange ==
  ASSUME NEW measured
  PROVE  Corrected(measured) \in {None} \cup MinDuration..MaxDuration
<1>1. TempoTarget(measured) \in {MaxDuration - Margin, MinDuration + Margin}
  BY DEF TempoTarget
<1>2. TempoTarget(measured) \in MinDuration..MaxDuration
  BY <1>1 DEF MinDuration, MaxDuration, Margin
<1> QED
  BY <1>2 DEF Corrected

\* The plans that the code makes itself can be shown.
LEMMA OwnPlans == Showable(LegacyShots) /\ Showable(Deterministic.shots)
<1>1. \A i \in DOMAIN LegacyShots : LegacyShots[i].transition \in {"CUT", "MASK_REVEAL"}
  BY DEF LegacyShots, Shot
<1>2. \A i \in DOMAIN Deterministic.shots : Deterministic.shots[i].transition \in {"CUT", "MASK_REVEAL"}
  BY DEF Deterministic, Shot
<1> QED
  BY <1>1, <1>2 DEF Showable, Supported

\* Whatever the language model answers, the plan that is kept can be shown.
LEMMA PlannedShowable ==
  ASSUME NEW answer \in Answers \cup {None}
  PROVE  Planned(answer) \in Answers \cup {Deterministic} /\ Showable(Planned(answer).shots)
<1>1. CASE answer # None /\ Accepted(answer)
  BY <1>1 DEF Planned, Accepted, Showable
<1>2. CASE ~(answer # None /\ Accepted(answer))
  BY <1>2, OwnPlans DEF Planned
<1> QED
  BY <1>1, <1>2

LEMMA InitIInv == Init => IInv
  BY MediaTimingAssumption DEF Init, IInv, TypeOK, Promised, RefusedEarly

LEMMA NextIInv == IInv /\ [Next]_vars => IInv'
<1> SUFFICES ASSUME IInv, [Next]_vars PROVE IInv'
  OBVIOUS
<1> USE DEF IInv, TypeOK, Promised, RefusedEarly
<1>1. CASE CreateStoryboard
  BY <1>1 DEF CreateStoryboard
<1>2. CASE CreatePlan
  <2>1. PICK answer \in Answers \cup {None} : plan' = Planned(answer)
    BY <1>2 DEF CreatePlan
  <2> QED
    BY <1>2, <2>1, PlannedShowable DEF CreatePlan
<1>3. CASE SkipPlan
  BY <1>3 DEF SkipPlan
<1>4. CASE AcquireVoice
  <2>1. PICK d \in Deviations :
          LET measured == (Estimate(Count(brief, narration.texts)) * (100 + d)) \div 100 IN
          /\ deviation' = d
          /\ voice' = Corrected(measured)
          /\ IF Corrected(measured) = None
             THEN Fail("TEMPO")
             ELSE step' = "VIDEO" /\ UNCHANGED error
    BY <1>4 DEF AcquireVoice
  <2> DEFINE measured == (Estimate(Count(brief, narration.texts)) * (100 + d)) \div 100
  <2>2. /\ deviation' = d /\ voice' = Corrected(measured)
        /\ \/ Corrected(measured) = None /\ Fail("TEMPO")
           \/ Corrected(measured) # None /\ step' = "VIDEO" /\ UNCHANGED error
    BY <2>1
  <2> HIDE DEF measured
  <2>3. Corrected(measured) \in {None} \cup MinDuration..MaxDuration
    BY CorrectedInRange
  <2> QED
    BY <1>4, <2>2, <2>3 DEF AcquireVoice, Fail
<1>5. CASE SkipVoice
  BY <1>5 DEF SkipVoice
<1>6. CASE RefuseVideo
  <2>1. Showable(ShotPlan(plan))
    BY OwnPlans DEF ShotPlan
  <2>2. ~Unrenderable(ShotPlan(plan))
    BY <2>1 DEF Showable, Unrenderable
  <2>3. step = "VIDEO" /\ (Spoken(style) => Timely(Clock(style, voice, plan)))
    BY <1>6 DEF RefuseVideo, Timely, Clock
  <2>4. \/ ~Timely(Clock(style, voice, plan)) /\ Fail("TIMING")
        \/ Fail("INDEX")
    BY <1>6, <2>2 DEF RefuseVideo
  <2> QED
    BY <1>6, <2>3, <2>4 DEF RefuseVideo, Fail
<1>7. CASE RenderVideo
  BY <1>7 DEF RenderVideo
<1>8. CASE UNCHANGED vars
  BY <1>8 DEF vars
<1> QED
  BY <1>1, <1>2, <1>3, <1>4, <1>5, <1>6, <1>7, <1>8 DEF Next

\* The invariant holds in every reachable state.
THEOREM Inductive == Spec => []IInv
<1> QED
  BY InitIInv, NextIInv, PTL DEF Spec

\* Every variable keeps its type: a stored voice is between 13 and 20 seconds
\* long, whatever was spoken and measured.
THEOREM TypeCorrect == Spec => []TypeOK
<1>1. IInv => TypeOK
  BY DEF IInv
<1> QED
  BY <1>1, Inductive, PTL

\* No render is refused for a transition, and none of a spoken advertisement
\* for its length: the steps before it have refused both.
THEOREM RefusedEarlyHolds == Spec => []RefusedEarly
<1>1. IInv => RefusedEarly
  BY DEF IInv
<1> QED
  BY <1>1, Inductive, PTL

-----------------------------------------------------------------------------
(* The narration: the running total of the budget is the number of words.  *)

LEMMA Bounds == MinWords = 32 /\ MaxWords = 36 /\ ShrinkTrigger = 41
  BY DEF MinWords, MaxWords, ShrinkTrigger, WordsIn, Breaks, WordsPerTenSeconds, MaxDuration

\* The parts that a scene's text can have: scene 1 has no filler.
Parts(n) == IF n = 1 THEN {"required", "description", "tone"} ELSE {"required", "optional", "description", "tone"}

LEMMA WordsOf ==
  ASSUME NEW b \in Briefs, NEW n \in Scene
  PROVE  /\ \A part \in Parts(n) : Words(b, n, part) \in Nat
         /\ \A part \in {"description", "tone"} : Words(b, n, part) = Words(b, 1, part)
<1>1. b \in [product : Nat, business : Nat, message : Nat, cta : Nat, description : Nat, tone : Nat]
  BY MediaTimingAssumption
<1>2. n = 1 \/ n = 2 \/ n = 3
  BY DEF Scene
<1>3. Words(b, n, "description") = b.description /\ Words(b, 1, "description") = b.description
  BY DEF Words
<1>4. Words(b, n, "tone") = b.tone + 1 /\ Words(b, 1, "tone") = b.tone + 1
  BY DEF Words
<1>5. Words(b, n, "required") \in Nat
  <2>1. CASE n = 1
    BY <1>1, <2>1 DEF Words
  <2>2. CASE n = 2
    BY <1>1, <2>2 DEF Words
  <2>3. CASE n = 3
    BY <1>1, <2>3 DEF Words
  <2> QED
    BY <1>2, <2>1, <2>2, <2>3
<1>6. n # 1 => Words(b, n, "optional") \in Nat
  <2>1. CASE n = 2
    BY <1>1, <2>1 DEF Words
  <2>2. CASE n = 3
    BY <1>1, <2>2 DEF Words
  <2> QED
    BY <1>2, <2>1, <2>2
<1> QED
  BY <1>1, <1>3, <1>4, <1>5, <1>6 DEF Parts

\* What dropping or adding a part does to a scene.
LEMMA SceneCounts ==
  ASSUME NEW b \in Briefs, NEW n \in Scene, NEW text, text \subseteq Parts(n)
  PROVE  /\ SceneCount(b, n, text) \in Nat
         /\ "optional" \in text =>
               SceneCount(b, n, text \ {"optional"}) = SceneCount(b, n, text) - Words(b, n, "optional")
         /\ \A part \in {"description", "tone"} \ text :
               SceneCount(b, n, text \cup {part}) = SceneCount(b, n, text) + Words(b, n, part)
<1> DEFINE of(part, s) == IF part \in s THEN Words(b, n, part) ELSE 0
<1>1. \A s : SceneCount(b, n, s) = of("required", s) + of("optional", s) + of("description", s) + of("tone", s)
  BY DEF SceneCount
<1>2. \A part, s : s \subseteq Parts(n) => of(part, s) \in Nat
  BY WordsOf
<1>3. SceneCount(b, n, text) \in Nat
  <2>1. of("required", text) \in Nat /\ of("optional", text) \in Nat /\ of("description", text) \in Nat /\ of("tone", text) \in Nat
    BY <1>2
  <2> HIDE DEF of
  <2> QED
    BY <1>1, <2>1
<1>4. ASSUME "optional" \in text
      PROVE  SceneCount(b, n, text \ {"optional"}) = SceneCount(b, n, text) - Words(b, n, "optional")
  <2> DEFINE s == text \ {"optional"}
  <2>1. /\ of("required", s) = of("required", text) /\ of("description", s) = of("description", text)
        /\ of("tone", s) = of("tone", text) /\ of("optional", s) = 0 /\ of("optional", text) = Words(b, n, "optional")
    BY <1>4
  <2>2. of("required", text) \in Nat /\ of("optional", text) \in Nat /\ of("description", text) \in Nat /\ of("tone", text) \in Nat
    BY <1>2
  <2> HIDE DEF of, s
  <2>3. SceneCount(b, n, s) = SceneCount(b, n, text) - Words(b, n, "optional")
    BY <1>1, <2>1, <2>2
  <2> QED
    BY <2>3 DEF s
<1>5. ASSUME NEW part \in {"description", "tone"} \ text
      PROVE  SceneCount(b, n, text \cup {part}) = SceneCount(b, n, text) + Words(b, n, part)
  <2> DEFINE s == text \cup {part}
  <2>1. /\ of("required", s) = of("required", text) /\ of("optional", s) = of("optional", text)
        /\ part = "tone" => of("description", s) = of("description", text)
        /\ part = "description" => of("tone", s) = of("tone", text)
        /\ of(part, text) = 0 /\ of(part, s) = Words(b, n, part)
    BY <1>5
  <2>2. of("required", text) \in Nat /\ of("optional", text) \in Nat /\ of("description", text) \in Nat /\ of("tone", text) \in Nat
    BY <1>2
  <2>3. Words(b, n, part) \in Nat
    BY WordsOf DEF Parts
  <2>4. part = "description" \/ part = "tone"
    OBVIOUS
  <2> HIDE DEF of, s
  <2>5. SceneCount(b, n, s) = SceneCount(b, n, text) + Words(b, n, part)
    <3>1. CASE part = "description"
      BY <1>1, <2>1, <2>2, <2>3, <3>1
    <3>2. CASE part = "tone"
      BY <1>1, <2>1, <2>2, <2>3, <3>2
    <3> QED
      BY <2>4, <3>1, <3>2
  <2> QED
    BY <2>5 DEF s
<1> QED
  BY <1>3, <1>4, <1>5

\* A draft whose running total is the number of its words.
Draft(b, draft) ==
    /\ draft = [texts |-> draft.texts, total |-> draft.total]
    /\ draft.texts \in [Scene -> SUBSET {"required", "optional", "description", "tone"}]
    /\ \A n \in Scene : draft.texts[n] \subseteq Parts(n)
    /\ draft.total = Count(b, draft.texts)

LEMMA Counts ==
  ASSUME NEW b \in Briefs, NEW draft, Draft(b, draft), NEW n \in Scene, NEW text, text \subseteq Parts(n)
  PROVE  /\ draft.total \in Nat
         /\ Count(b, [draft.texts EXCEPT ![n] = text])
              = draft.total + SceneCount(b, n, text) - SceneCount(b, n, draft.texts[n])
<1> DEFINE texts == [draft.texts EXCEPT ![n] = text]
<1>1. 1 \in Scene /\ 2 \in Scene /\ 3 \in Scene /\ n \in {1, 2, 3}
  BY DEF Scene
<1>2. \A m \in Scene : texts[m] = IF m = n THEN text ELSE draft.texts[m]
  BY DEF Draft
<1>3. \A m \in Scene : SceneCount(b, m, draft.texts[m]) \in Nat
  BY SceneCounts DEF Draft
<1>4. SceneCount(b, n, text) \in Nat
  BY SceneCounts
<1>5. draft.total = SceneCount(b, 1, draft.texts[1]) + SceneCount(b, 2, draft.texts[2]) + SceneCount(b, 3, draft.texts[3])
  BY DEF Draft, Count
<1>6. Count(b, texts) = SceneCount(b, 1, texts[1]) + SceneCount(b, 2, texts[2]) + SceneCount(b, 3, texts[3])
  BY DEF Count
<1> HIDE DEF texts
<1>7. Count(b, texts) = draft.total + SceneCount(b, n, text) - SceneCount(b, n, draft.texts[n])
  <2>1. CASE n = 1
    BY <1>1, <1>2, <1>3, <1>4, <1>5, <1>6, <2>1
  <2>2. CASE n = 2
    BY <1>1, <1>2, <1>3, <1>4, <1>5, <1>6, <2>2
  <2>3. CASE n = 3
    BY <1>1, <1>2, <1>3, <1>4, <1>5, <1>6, <2>3
  <2> QED
    BY <1>1, <2>1, <2>2, <2>3
<1> QED
  BY <1>1, <1>3, <1>5, <1>7 DEF texts

LEMMA DraftTotal ==
  ASSUME NEW b \in Briefs, NEW draft, Draft(b, draft)
  PROVE  draft.total \in Nat
<1>1. 1 \in Scene /\ draft.texts[1] \subseteq Parts(1)
  BY DEF Scene, Draft
<1> QED
  BY <1>1, Counts

LEMMA Shortens ==
  ASSUME NEW b \in Briefs, NEW draft, Draft(b, draft), NEW n \in {2, 3}, "optional" \in draft.texts[n]
  PROVE  /\ Draft(b, Shortened(b, draft, n))
         /\ draft.total <= ShrinkTrigger => Shortened(b, draft, n) = draft
         /\ draft.total > ShrinkTrigger =>
               Shortened(b, draft, n).texts = [draft.texts EXCEPT ![n] = draft.texts[n] \ {"optional"}]
<1>1. n \in Scene /\ draft.texts[n] \subseteq Parts(n) /\ draft.total \in Nat /\ ShrinkTrigger \in Nat
  <2>1. n \in Scene /\ draft.texts[n] \subseteq Parts(n)
    BY DEF Draft, Scene
  <2> QED
    BY <2>1, Counts, Bounds
<1>2. CASE draft.total <= ShrinkTrigger
  BY <1>1, <1>2 DEF Shortened
<1>3. CASE draft.total > ShrinkTrigger
  <2> DEFINE text == draft.texts[n] \ {"optional"}
             texts == [draft.texts EXCEPT ![n] = text]
             less == draft.total - Words(b, n, "optional")
  <2>1. Shortened(b, draft, n) = [texts |-> texts, total |-> less]
    <3>1. Shortened(b, draft, n) = [draft EXCEPT !.texts[n] = @ \ {"optional"}, !.total = @ - Words(b, n, "optional")]
      BY <1>1, <1>3 DEF Shortened
    <3> QED
      BY <3>1 DEF Draft
  <2>2. text \subseteq Parts(n)
    BY <1>1
  <2>3. Count(b, texts) = less
    <3>1. SceneCount(b, n, text) = SceneCount(b, n, draft.texts[n]) - Words(b, n, "optional")
          /\ SceneCount(b, n, draft.texts[n]) \in Nat
      BY <1>1, SceneCounts
    <3>2. Count(b, texts) = draft.total + SceneCount(b, n, text) - SceneCount(b, n, draft.texts[n])
      BY <1>1, <2>2, Counts
    <3>3. Words(b, n, "optional") \in Nat
      BY <1>1, WordsOf
    <3> HIDE DEF text, texts
    <3> QED
      BY <1>1, <3>1, <3>2, <3>3
  <2>4. Draft(b, [texts |-> texts, total |-> less])
    BY <1>1, <2>2, <2>3 DEF Draft
  <2> QED
    BY <1>1, <1>3, <2>1, <2>4
<1> QED
  BY <1>1, <1>2, <1>3

LEMMA Extends ==
  ASSUME NEW b \in Briefs, NEW draft, Draft(b, draft), NEW n \in Scene
  PROVE  /\ Draft(b, Extended(b, draft, n))
         /\ \/ Extended(b, draft, n) = draft
            \/ \E part \in {"description", "tone"} :
                  /\ \A m \in Scene : part \notin draft.texts[m]
                  /\ Extended(b, draft, n).texts = [draft.texts EXCEPT ![n] = draft.texts[n] \cup {part}]
                  /\ Extended(b, draft, n).total <= MaxWords
<1> DEFINE parts == Candidates(b, draft)
           best == Best(b, parts)
<1>1. draft.texts[n] \subseteq Parts(n) /\ draft.total \in Nat
  <2>1. draft.texts[n] \subseteq Parts(n)
    BY DEF Draft
  <2> QED
    BY <2>1, Counts
<1>2. CASE draft.total >= MinWords \/ parts = {}
  BY <1>2 DEF Extended
<1>3. CASE ~(draft.total >= MinWords \/ parts = {})
  <2> DEFINE text == draft.texts[n] \cup {best}
             texts == [draft.texts EXCEPT ![n] = text]
             more == draft.total + Words(b, 1, best)
  <2>1. best \in parts
    BY <1>3 DEF Best, Candidates
  <2>2. /\ best \in {"description", "tone"} /\ Words(b, 1, best) <= MaxWords - draft.total
        /\ \A m \in Scene : best \notin draft.texts[m]
    BY <2>1 DEF Candidates
  <2>3. Extended(b, draft, n) = [texts |-> texts, total |-> more]
    <3>1. Extended(b, draft, n) = [draft EXCEPT !.texts[n] = @ \cup {best}, !.total = @ + Words(b, 1, best)]
      BY <1>3 DEF Extended
    <3> QED
      BY <3>1 DEF Draft
  <2>4. text \subseteq Parts(n)
    BY <1>1, <2>2 DEF Parts
  <2>5. Words(b, 1, best) \in Nat /\ Words(b, n, best) = Words(b, 1, best)
    <3>1. 1 \in Scene
      BY DEF Scene
    <3> QED
      BY <2>2, <3>1, WordsOf DEF Parts
  <2> HIDE DEF best, parts
  <2>6. Count(b, texts) = more
    <3>1. SceneCount(b, n, text) = SceneCount(b, n, draft.texts[n]) + Words(b, n, best)
          /\ SceneCount(b, n, draft.texts[n]) \in Nat
      <4>1. best \in {"description", "tone"} \ draft.texts[n]
        BY <2>2
      <4> QED
        BY <1>1, <4>1, SceneCounts
    <3>2. Count(b, texts) = draft.total + SceneCount(b, n, text) - SceneCount(b, n, draft.texts[n])
      BY <2>4, Counts
    <3> HIDE DEF text, texts
    <3> QED
      BY <1>1, <2>5, <3>1, <3>2
  <2>7. Draft(b, [texts |-> texts, total |-> more])
    BY <1>1, <2>2, <2>4, <2>6 DEF Draft
  <2>8. more <= MaxWords
    BY <1>1, <2>2, <2>5, Bounds
  <2>9. Extended(b, draft, n).texts = texts /\ Extended(b, draft, n).total = more /\ Draft(b, Extended(b, draft, n))
    BY <2>3, <2>7
  <2> HIDE DEF more
  <2> QED
    BY <2>2, <2>8, <2>9
<1> QED
  BY <1>2, <1>3

\* What the budget yields, whatever the brief.
LEMMA BudgetFits ==
  ASSUME brief \in Briefs, narration = Budgeted(brief)
  PROVE  NarrationFits
<1> DEFINE full == [texts |-> FullText, total |-> Count(brief, FullText)]
           added(n) == narration.texts[n] \cap {"description", "tone"}
           dropped == {n \in Scene : ~(FullText[n] \subseteq narration.texts[n])}
<1>1. 1 \in Scene /\ 2 \in Scene /\ 3 \in Scene /\ \A n \in Scene : n \in {1, 2, 3}
  BY DEF Scene
<1>2. Draft(brief, full) /\ full.total \in Nat /\ full.texts = FullText
  <2>1. Draft(brief, full)
    BY <1>1 DEF Draft, FullText, Parts
  <2> QED
    BY <1>1, <2>1, Counts DEF Draft
<1>3. FullText[1] = {"required"} /\ FullText[2] = {"required", "optional"} /\ FullText[3] = {"required", "optional"}
      /\ FullText \in [Scene -> SUBSET {"required", "optional", "description", "tone"}]
  BY <1>1 DEF FullText
<1> HIDE DEF full
<1>4. SUFFICES /\ Draft(brief, narration)
               /\ \A n \in Scene : "required" \in narration.texts[n]
               /\ dropped # {} => 3 \in dropped /\ full.total > ShrinkTrigger
               /\ \A m, n \in Scene : m # n => added(m) \cap added(n) = {}
               /\ (\E n \in Scene : added(n) # {}) => dropped = {} /\ narration.total <= MaxWords
  PROOF
  <2>1. full.total > ShrinkTrigger => Estimate(Count(brief, FullText)) > MaxDuration - 2000
    BY <1>2, Bounds DEF full, Estimate, WordsPerTenSeconds, Breaks, MaxDuration
  <2>2. Draft(brief, narration) => narration.total \in Nat
    BY <1>1, Counts DEF Draft
  <2>3. narration.total \in Nat /\ narration.total <= MaxWords => Estimate(narration.total) <= 16000
    BY Bounds DEF Estimate, WordsPerTenSeconds, Breaks
  <2> QED
    BY <2>1, <2>2, <2>3 DEF NarrationFits, Draft
<1>5. CASE full.total > ShrinkTrigger
  <2> DEFINE third == Shortened(brief, full, 3)
  <2>1. narration = Shortened(brief, third, 2)
    <3>1. Budgeted(brief) =
            CASE full.total > ShrinkTrigger -> Shortened(brief, Shortened(brief, full, 3), 2)
              [] full.total \in MinWords..ShrinkTrigger -> full
              [] OTHER -> Extended(brief, Extended(brief, full, 1), 3)
      BY DEF Budgeted, full
    <3>2. full.total \notin MinWords..ShrinkTrigger
      BY <1>2, <1>5, Bounds
    <3> QED
      BY <1>5, <3>1, <3>2
  <2>2. Draft(brief, third) /\ third.texts = [FullText EXCEPT ![3] = {"required"}]
    <3>1. FullText[3] \ {"optional"} = {"required"} /\ "optional" \in full.texts[3]
      BY <1>2, <1>3
    <3>2. /\ Draft(brief, third)
          /\ third.texts = [full.texts EXCEPT ![3] = full.texts[3] \ {"optional"}]
      BY <1>2, <1>5, <3>1, Shortens
    <3> QED
      BY <1>2, <3>1, <3>2
  <2> HIDE DEF third
  <2>3. "optional" \in third.texts[2] /\ third.texts[1] = {"required"} /\ third.texts[3] = {"required"}
        /\ third.texts[2] = {"required", "optional"} /\ third.total \in Nat
    <3>1. third.texts[1] \subseteq Parts(1)
      BY <1>1, <2>2 DEF Draft
    <3>2. third.texts[1] = {"required"} /\ third.texts[2] = {"required", "optional"} /\ third.texts[3] = {"required"}
      BY <1>1, <1>3, <2>2
    <3> QED
      BY <2>2, <3>2, DraftTotal
  <2>4. Draft(brief, narration)
        /\ (narration = third \/ narration.texts = [third.texts EXCEPT ![2] = third.texts[2] \ {"optional"}])
    <3>1. third.total <= ShrinkTrigger \/ third.total > ShrinkTrigger
      BY <2>3, Bounds
    <3>2. 2 \in {2, 3}
      OBVIOUS
    <3>3. /\ Draft(brief, Shortened(brief, third, 2))
          /\ third.total <= ShrinkTrigger => Shortened(brief, third, 2) = third
          /\ third.total > ShrinkTrigger =>
                Shortened(brief, third, 2).texts = [third.texts EXCEPT ![2] = third.texts[2] \ {"optional"}]
      BY <2>2, <2>3, <3>2, Shortens
    <3> QED
      BY <2>1, <3>1, <3>3
  <2>5. /\ narration.texts[1] = {"required"} /\ narration.texts[3] = {"required"}
        /\ narration.texts[2] = {"required", "optional"} \/ narration.texts[2] = {"required"}
    BY <1>1, <2>2, <2>3, <2>4 DEF Draft
  <2>6. 3 \in dropped
    BY <1>1, <1>3, <2>5
  <2>7. \A n \in Scene : "required" \in narration.texts[n] /\ added(n) = {}
    BY <1>1, <2>5
  <2> QED
    BY <1>5, <2>4, <2>6, <2>7
<1>6. CASE full.total \in MinWords..ShrinkTrigger
  <2>1. narration = full
    BY <1>2, <1>6, Bounds DEF Budgeted, full
  <2>2. dropped = {}
    BY <1>2, <2>1
  <2>3. \A n \in Scene : "required" \in narration.texts[n] /\ added(n) = {}
    BY <1>1, <1>2, <1>3, <2>1
  <2> QED
    BY <1>2, <2>1, <2>2, <2>3
<1>7. CASE full.total < MinWords
  <2> DEFINE first == Extended(brief, full, 1)
  <2>1. narration = Extended(brief, first, 3)
    BY <1>2, <1>7, Bounds DEF Budgeted, full
  <2>2. /\ Draft(brief, first)
        /\ \/ first = full
           \/ \E part \in {"description", "tone"} :
                 /\ first.texts = [FullText EXCEPT ![1] = FullText[1] \cup {part}]
                 /\ first.total <= MaxWords
    <3>1. /\ Draft(brief, first)
          /\ \/ first = full
             \/ \E part \in {"description", "tone"} :
                   /\ first.texts = [full.texts EXCEPT ![1] = full.texts[1] \cup {part}]
                   /\ first.total <= MaxWords
      <4>1. /\ Draft(brief, Extended(brief, full, 1))
            /\ \/ Extended(brief, full, 1) = full
               \/ \E part \in {"description", "tone"} :
                     /\ \A m \in Scene : part \notin full.texts[m]
                     /\ Extended(brief, full, 1).texts = [full.texts EXCEPT ![1] = full.texts[1] \cup {part}]
                     /\ Extended(brief, full, 1).total <= MaxWords
        BY <1>1, <1>2, Extends
      <4> QED
        BY <4>1
    <3> QED
      BY <1>2, <3>1
  <2> HIDE DEF first
  <2>3. /\ Draft(brief, narration)
        /\ \/ narration = first
           \/ \E part \in {"description", "tone"} :
                 /\ \A m \in Scene : part \notin first.texts[m]
                 /\ narration.texts = [first.texts EXCEPT ![3] = first.texts[3] \cup {part}]
                 /\ narration.total <= MaxWords
    BY <1>1, <2>1, <2>2, Extends
  <2>4. \E one, three \in SUBSET {"description", "tone"} :
          /\ first.texts[1] = FullText[1] \cup one /\ first.texts[2] = FullText[2] /\ first.texts[3] = FullText[3]
          /\ narration.texts[1] = FullText[1] \cup one /\ narration.texts[2] = FullText[2]
          /\ narration.texts[3] = FullText[3] \cup three
          /\ one \cap three = {}
          /\ one \cup three # {} => narration.total <= MaxWords
    <3>1. PICK one \in SUBSET {"description", "tone"} :
            /\ first.texts = [FullText EXCEPT ![1] = FullText[1] \cup one]
            /\ one # {} => first.total <= MaxWords
      <4>1. CASE first = full
        <5>1. first.texts = [FullText EXCEPT ![1] = FullText[1] \cup {}]
          BY <1>2, <1>3, <4>1
        <5> QED
          BY <5>1
      <4>2. CASE \E part \in {"description", "tone"} :
                 /\ first.texts = [FullText EXCEPT ![1] = FullText[1] \cup {part}]
                 /\ first.total <= MaxWords
        <5>1. PICK part \in {"description", "tone"} :
                 /\ first.texts = [FullText EXCEPT ![1] = FullText[1] \cup {part}]
                 /\ first.total <= MaxWords
          BY <4>2
        <5>2. {part} \in SUBSET {"description", "tone"}
          OBVIOUS
        <5> QED
          BY <5>1, <5>2
      <4> QED
        BY <2>2, <4>1, <4>2
    <3>2. /\ first.texts[1] = FullText[1] \cup one /\ first.texts[2] = FullText[2] /\ first.texts[3] = FullText[3]
          /\ first.texts \in [Scene -> SUBSET {"required", "optional", "description", "tone"}]
      BY <1>1, <1>3, <2>2, <3>1 DEF Draft
    <3>3. CASE narration = first
      <4>1. narration.texts[3] = FullText[3] \cup {}
        BY <3>2, <3>3
      <4>2. one \cap {} = {} /\ one \cup {} = one /\ {} \in SUBSET {"description", "tone"}
        OBVIOUS
      <4>3. /\ narration.texts[1] = FullText[1] \cup one /\ narration.texts[2] = FullText[2]
            /\ one # {} => narration.total <= MaxWords
        BY <3>1, <3>2, <3>3
      <4> QED
        BY <3>2, <4>1, <4>2, <4>3
    <3>4. CASE \E part \in {"description", "tone"} :
                 /\ \A m \in Scene : part \notin first.texts[m]
                 /\ narration.texts = [first.texts EXCEPT ![3] = first.texts[3] \cup {part}]
                 /\ narration.total <= MaxWords
      <4>1. PICK part \in {"description", "tone"} :
                 /\ \A m \in Scene : part \notin first.texts[m]
                 /\ narration.texts = [first.texts EXCEPT ![3] = first.texts[3] \cup {part}]
                 /\ narration.total <= MaxWords
        BY <3>4
      <4>2. /\ narration.texts[1] = FullText[1] \cup one /\ narration.texts[2] = FullText[2]
            /\ narration.texts[3] = FullText[3] \cup {part} /\ one \cap {part} = {}
        BY <1>1, <3>2, <4>1
      <4> QED
        BY <3>2, <4>1, <4>2
    <3> QED
      BY <2>3, <3>3, <3>4
  <2>5. PICK one, three \in SUBSET {"description", "tone"} :
          /\ narration.texts[1] = FullText[1] \cup one /\ narration.texts[2] = FullText[2]
          /\ narration.texts[3] = FullText[3] \cup three
          /\ one \cap three = {}
          /\ one \cup three # {} => narration.total <= MaxWords
    BY <2>4
  <2>6. dropped = {}
    BY <1>1, <2>5
  <2>7. /\ added(1) = one /\ added(2) = {} /\ added(3) = three
        /\ \A n \in Scene : "required" \in narration.texts[n]
    BY <1>1, <1>3, <2>5
  <2>8. \A m, n \in Scene : m # n => added(m) \cap added(n) = {}
    BY <1>1, <2>5, <2>7
  <2>9. (\E n \in Scene : added(n) # {}) => narration.total <= MaxWords
    BY <1>1, <2>5, <2>7
  <2> QED
    BY <2>3, <2>6, <2>7, <2>8, <2>9
<1> QED
  BY <1>2, <1>5, <1>6, <1>7, Bounds

\* A narration of 32 to 41 words, spoken up to 14 % faster or 20 % slower, can
\* be corrected.
LEMMA BandIsSpeakable ==
  ASSUME NEW count \in 32..41, NEW d \in (-14)..20
  PROVE  Corrected((Estimate(count) * (100 + d)) \div 100) # None
<1> DEFINE estimate == Estimate(count)
           measured == (estimate * (100 + d)) \div 100
<1>1. estimate \in 14033..17783
  BY DEF Estimate, WordsPerTenSeconds, Breaks
<1> HIDE DEF estimate
<1>2. measured \in 12068..21339
  <2>1. PICK x : x = estimate * (100 + d)
    OBVIOUS
  <2>2. x >= 14033 * 86 /\ x <= 17783 * 120 /\ x \in Int
    BY <1>1, <2>1
  <2>3. x \div 100 \in 12068..21339
    BY <2>2
  <2>4. measured = x \div 100
    BY <2>1, Zenon
  <2> HIDE DEF measured
  <2> QED
    BY <2>3, <2>4
<1> SUFFICES Corrected(measured) # None
  BY DEF measured, estimate
<1> HIDE DEF measured
<1>3. None \notin Int
  BY MediaTimingAssumption
<1>4. CASE measured \in MinDuration..MaxDuration
  <2>1. Corrected(measured) = measured
    BY <1>4 DEF Corrected
  <2> QED
    BY <1>2, <1>3, <2>1
<1>5. CASE measured \notin MinDuration..MaxDuration
  <2>1. Correctable(measured) /\ TempoTarget(measured) \in Int
    BY <1>2, <1>5 DEF Correctable, TempoTarget, MinDuration, MaxDuration, Margin
  <2>2. Corrected(measured) = TempoTarget(measured)
    BY <1>5, <2>1 DEF Corrected
  <2> QED
    BY <1>3, <2>1, <2>2
<1> QED
  BY <1>4, <1>5

-----------------------------------------------------------------------------
\* The length that is spoken of a narration, and that the correction got.
Measured(count, d) == (Estimate(count) * (100 + d)) \div 100

\* The narration is the budget's, and a campaign that failed on the tempo did so
\* on that narration.
Narrated ==
    /\ narration \in {None, Budgeted(brief)}
    /\ error # None => step = "FAILED"
    /\ error = "TEMPO" => Corrected(Measured(Count(brief, narration.texts), deviation)) = None

LEMMA NextNarrated == Narrated /\ [Next]_vars => Narrated'
<1> SUFFICES ASSUME Narrated, [Next]_vars PROVE Narrated'
  OBVIOUS
<1> USE DEF Narrated
<1>1. CASE CreateStoryboard
  <2>1. error = None /\ "TEMPO" # None /\ narration' = Budgeted(brief) /\ brief' = brief /\ error' = error
    BY <1>1, MediaTimingAssumption DEF CreateStoryboard
  <2> QED
    BY <2>1
<1>2. CASE CreatePlan \/ SkipPlan \/ SkipVoice
  <2>1. error = None /\ "TEMPO" # None /\ UNCHANGED <<brief, narration, error>>
    BY <1>2, MediaTimingAssumption DEF CreatePlan, SkipPlan, SkipVoice
  <2> QED
    BY <2>1
<1>3. CASE AcquireVoice
  <2>1. error = None /\ "TEMPO" # None /\ UNCHANGED <<brief, narration>>
    BY <1>3, MediaTimingAssumption DEF AcquireVoice
  <2>2. PICK d \in Deviations :
          /\ deviation' = d
          /\ \/ Corrected(Measured(Count(brief, narration.texts), d)) = None /\ Fail("TEMPO")
             \/ UNCHANGED error
    BY <1>3 DEF AcquireVoice, Measured
  <2>3. CASE UNCHANGED error
    BY <2>1, <2>3
  <2>4. CASE Corrected(Measured(Count(brief, narration.texts), d)) = None /\ Fail("TEMPO")
    BY <2>1, <2>2, <2>4 DEF Fail
  <2> QED
    BY <2>2, <2>3, <2>4
<1>4. CASE RefuseVideo
  <2>1. UNCHANGED <<brief, narration>> /\ step' = "FAILED" /\ error' # "TEMPO"
    BY <1>4 DEF RefuseVideo, Fail
  <2> QED
    BY <2>1
<1>5. CASE RenderVideo
  <2>1. error = None /\ "TEMPO" # None /\ UNCHANGED <<brief, narration, error>>
    BY <1>5, MediaTimingAssumption DEF RenderVideo
  <2> QED
    BY <2>1
<1>6. CASE UNCHANGED vars
  BY <1>6 DEF vars
<1> QED
  BY <1>1, <1>2, <1>3, <1>4, <1>5, <1>6 DEF Next

\* The narration is the budget's in every behaviour.
THEOREM InductiveNarrated == Spec => [](IInv /\ Narrated)
<1>1. Init => Narrated
  BY MediaTimingAssumption DEF Init, Narrated
<1> QED
  BY <1>1, NextNarrated, Inductive, PTL DEF Spec

\* For every brief, however many words its parts have: the total the budget
\* keeps is the narration's length, nothing required is lost, and sentences are
\* added or dropped only as far as the band wants it.
THEOREM NarrationFitsHolds == Spec => []NarrationFits
<1>1. IInv /\ Narrated => NarrationFits
  <2>1. narration = None => NarrationFits
    BY DEF NarrationFits
  <2> QED
    BY <2>1, BudgetFits DEF IInv, TypeOK, Narrated
<1> QED
  BY <1>1, InductiveNarrated, PTL

\* A campaign whose narration is in the band fails on the tempo only for speech
\* that is further off the calibrated pace than 14 % or 20 %.
THEOREM NarrationIsSpeakableHolds == Spec => []NarrationIsSpeakable
<1>1. Narrated => NarrationIsSpeakable
  <2> SUFFICES ASSUME Narrated, error = "TEMPO", deviation \in (-14)..20, Count(brief, narration.texts) \in 32..41
               PROVE  FALSE
    BY DEF NarrationIsSpeakable
  <2>1. Corrected(Measured(Count(brief, narration.texts), deviation)) = None
    BY DEF Narrated
  <2> QED
    BY <2>1, BandIsSpeakable DEF Measured
<1> QED
  BY <1>1, InductiveNarrated, PTL

-----------------------------------------------------------------------------
(* The clock: what the running total of the lengths is.                    *)

\* A set of numbers that is not empty has a least one.
LEMMA Least ==
  ASSUME NEW S, S \subseteq Nat, S # {}
  PROVE  \E x \in S : \A y \in S : x <= y
<1> DEFINE R == OpToRel(<, Nat)
<1>1. \A x, y \in Nat : <<y, x>> \in R <=> y < x
  BY DEF OpToRel
<1>2. IsWellFoundedOn(R, Nat)
  BY NatLessThanWellFounded, Zenon
<1> HIDE DEF R
<1>3. PICK x \in S : \A y \in S : ~(<<y, x>> \in R)
  BY <1>2, WFMin
<1>4. ASSUME NEW y \in S PROVE x <= y
  <2>1. x \in Nat /\ y \in Nat
    OBVIOUS
  <2>2. ~(y < x)
    BY <1>1, <1>3, <2>1
  <2> QED
    BY <2>1, <2>2
<1> QED
  BY <1>4

\* The running total of the first m lengths.
Runs(m, lengths, f) == f = [n \in 0..m |-> IF n = 0 THEN 0 ELSE f[n - 1] + lengths[n]]

\* It exists for any number of them.
LEMMA RunsExist ==
  ASSUME NEW N \in Nat, NEW lengths
  PROVE  \E f : Runs(N, lengths, f)
<1> DEFINE Bad == {m \in Nat : ~\E f : Runs(m, lengths, f)}
<1> SUFFICES ASSUME Bad # {} PROVE FALSE
  OBVIOUS
<1>1. PICK m \in Bad : \A k \in Bad : m <= k
  BY Least
<1>2. m \in Nat /\ ~\E f : Runs(m, lengths, f)
  OBVIOUS
<1>3. CASE m = 0
  <2>1. Runs(0, lengths, [n \in 0..0 |-> 0])
    BY DEF Runs
  <2> QED
    BY <1>2, <1>3, <2>1
<1>4. CASE m # 0
  <2>1. m - 1 \in Nat /\ ~(m <= m - 1)
    BY <1>2, <1>4
  <2>2. PICK f : Runs(m - 1, lengths, f)
    BY <1>1, <2>1
  <2> DEFINE g == [n \in 0..m |-> IF n = m THEN f[m - 1] + lengths[m] ELSE f[n]]
  <2>3. \A n \in 0..(m - 1) : f[n] = IF n = 0 THEN 0 ELSE f[n - 1] + lengths[n]
    BY <2>1, <2>2 DEF Runs
  <2>4. ASSUME NEW n \in 0..m PROVE g[n] = IF n = 0 THEN 0 ELSE g[n - 1] + lengths[n]
    <3>1. CASE n = m
      <4>1. g[m - 1] = f[m - 1] /\ g[m] = f[m - 1] + lengths[m]
        BY <2>1
      <4> QED
        BY <1>4, <3>1, <4>1
    <3>2. CASE n # m
      <4>1. n \in 0..(m - 1) /\ g[n] = f[n]
        BY <1>2, <3>2
      <4>2. n # 0 => n - 1 \in 0..m /\ n - 1 # m /\ g[n - 1] = f[n - 1]
        BY <1>2, <4>1
      <4> HIDE DEF g
      <4> QED
        BY <2>3, <4>1, <4>2
    <3> QED
      BY <3>1, <3>2
  <2>5. g = [n \in 0..m |-> g[n]]
    OBVIOUS
  <2> HIDE DEF g
  <2>6. g = [n \in 0..m |-> IF n = 0 THEN 0 ELSE g[n - 1] + lengths[n]]
    BY <2>4, <2>5
  <2> QED
    BY <1>2, <2>6 DEF Runs
<1> QED
  BY <1>3, <1>4

\* A sequence of lengths.
Timed(lengths) == Len(lengths) \in Nat /\ \A i \in 1..Len(lengths) : lengths[i] \in Nat

\* It starts at zero and grows by each length in turn.
LEMMA ElapsedIs ==
  ASSUME NEW lengths, Timed(lengths)
  PROVE  /\ Elapsed(lengths)[0] = 0
         /\ \A n \in 1..Len(lengths) : Elapsed(lengths)[n] = Elapsed(lengths)[n - 1] + lengths[n]
         /\ \A n \in 0..Len(lengths) : Elapsed(lengths)[n] \in Nat
<1> DEFINE N == Len(lengths)
           e == Elapsed(lengths)
<1>1. e = CHOOSE f : f = [n \in 0..N |-> IF n = 0 THEN 0 ELSE f[n - 1] + lengths[n]]
  BY DEF Elapsed
<1>2. N \in Nat /\ \E f : f = [n \in 0..N |-> IF n = 0 THEN 0 ELSE f[n - 1] + lengths[n]]
  BY RunsExist DEF Runs, Timed
<1> HIDE DEF e, N
<1>3. e = [n \in 0..N |-> IF n = 0 THEN 0 ELSE e[n - 1] + lengths[n]]
  BY <1>1, <1>2
<1>4. e[0] = 0
  BY <1>2, <1>3
<1>5. ASSUME NEW n \in 1..N PROVE e[n] = e[n - 1] + lengths[n]
  <2>1. n \in 0..N /\ n # 0
    BY <1>2
  <2> QED
    BY <1>3, <2>1
<1>6. ASSUME NEW n \in 0..N PROVE e[n] \in Nat
  <2> DEFINE Bad == {k \in 0..N : e[k] \notin Nat}
  <2> SUFFICES ASSUME Bad # {} PROVE FALSE
    OBVIOUS
  <2>1. PICK k \in Bad : \A j \in Bad : k <= j
    <3>1. Bad \subseteq Nat
      BY <1>2
    <3> QED
      BY <3>1, Least
  <2>2. k # 0
    BY <1>4
  <2>3. k \in 1..N /\ k - 1 \in 0..N /\ ~(k <= k - 1)
    BY <1>2, <2>2
  <2>4. e[k - 1] \in Nat
    BY <2>1, <2>3
  <2>5. lengths[k] \in Nat
    BY <2>3 DEF Timed, N
  <2>6. e[k] \in Nat
    BY <1>5, <2>3, <2>4, <2>5
  <2> QED
    BY <2>6
<1> QED
  BY <1>4, <1>5, <1>6 DEF e, N

\* Stretching every length stretches the running total.
LEMMA Stretched ==
  ASSUME NEW lengths, Timed(lengths), NEW longer, Timed(longer), NEW k \in Nat,
         Len(longer) = Len(lengths), \A i \in 1..Len(lengths) : longer[i] = lengths[i] * k
  PROVE  \A n \in 0..Len(lengths) : Elapsed(longer)[n] = Elapsed(lengths)[n] * k
<1> DEFINE e == Elapsed(lengths)
           d == Elapsed(longer)
           N == Len(lengths)
           Bad == {n \in 0..N : d[n] # e[n] * k}
<1>1. /\ N \in Nat /\ e[0] = 0 /\ d[0] = 0
      /\ \A n \in 1..N : e[n] = e[n - 1] + lengths[n] /\ d[n] = d[n - 1] + longer[n]
      /\ \A n \in 0..N : e[n] \in Nat /\ d[n] \in Nat
  BY ElapsedIs DEF Timed
<1>2. \A i \in 1..N : longer[i] = lengths[i] * k /\ lengths[i] \in Nat
  BY DEF Timed
<1> HIDE DEF e, d, N
<1> SUFFICES ASSUME Bad # {} PROVE FALSE
  BY DEF e, d, N
<1>3. PICK n \in Bad : \A j \in Bad : n <= j
  <2>1. Bad \subseteq Nat
    BY <1>1
  <2> QED
    BY <2>1, Least
<1>4. n # 0
  BY <1>1
<1>5. n \in 1..N /\ n - 1 \in 0..N /\ ~(n <= n - 1)
  BY <1>1, <1>4
<1>6. d[n - 1] = e[n - 1] * k
  BY <1>3, <1>5
<1>7. e[n - 1] * k + lengths[n] * k = (e[n - 1] + lengths[n]) * k
  <2>1. e[n - 1] \in Nat /\ lengths[n] \in Nat
    BY <1>1, <1>2, <1>5
  <2>2. \A a, b, c \in Nat : a * c + b * c = (a + b) * c
    OBVIOUS
  <2> QED
    BY <2>1, <2>2
<1>8. d[n] = e[n] * k
  BY <1>1, <1>2, <1>5, <1>6, <1>7
<1> QED
  BY <1>8

-----------------------------------------------------------------------------
(* The video: three loops over the same shots keep one clock.              *)

\* A shot's record.
AShot(shot) ==
    /\ shot = [scene |-> shot.scene, length |-> shot.length, text |-> shot.text,
               transition |-> shot.transition, cues |-> shot.cues]
    /\ shot.length \in Nat

\* Shots as the plan's contract and the adapter make them: at least one.
Sequenced(shots) ==
    /\ Len(shots) \in Nat \ {0} /\ DOMAIN shots = 1..Len(shots)
    /\ \A i \in DOMAIN shots : AShot(shots[i])

LEMMA SixShots ==
  ASSUME NEW a, NEW b, NEW c, NEW d, NEW e, NEW f,
         AShot(a), AShot(b), AShot(c), AShot(d), AShot(e), AShot(f)
  PROVE  Sequenced(<<a, b, c, d, e, f>>)
<1> DEFINE shots == <<a, b, c, d, e, f>>
<1>1. Len(shots) = 6 /\ DOMAIN shots = 1..6
  OBVIOUS
<1>2. /\ shots[1] = a /\ shots[2] = b /\ shots[3] = c
      /\ shots[4] = d /\ shots[5] = e /\ shots[6] = f
  OBVIOUS
<1>3. \A i \in 1..6 : i = 1 \/ i = 2 \/ i = 3 \/ i = 4 \/ i = 5 \/ i = 6
  OBVIOUS
<1> HIDE DEF shots
<1>4. \A i \in 1..6 : AShot(shots[i])
  BY <1>2, <1>3
<1> QED
  BY <1>1, <1>4 DEF Sequenced, shots

LEMMA OwnShotsSequenced == Sequenced(LegacyShots) /\ Sequenced(Deterministic.shots)
<1>1. ASSUME NEW scene, NEW length \in Nat, NEW text, NEW transition, NEW cues
      PROVE  AShot(Shot(scene, length, text, transition, cues))
  BY DEF Shot, AShot
<1>2. Sequenced(LegacyShots)
  <2>1. /\ AShot(Shot(1, 10, FALSE, "CUT", {}))
        /\ AShot(Shot(2, 9, FALSE, "MASK_REVEAL", {}))
        /\ AShot(Shot(2, 11, FALSE, "CUT", {}))
        /\ AShot(Shot(3, 8, FALSE, "MASK_REVEAL", {}))
        /\ AShot(Shot(3, 12, FALSE, "CUT", {}))
    BY <1>1
  <2> QED
    BY <2>1, SixShots DEF LegacyShots
<1>3. Sequenced(Deterministic.shots)
  <2> DEFINE a == Shot(1, 2500, TRUE, "CUT", {})
             b == Shot(1, 2500, FALSE, "CUT", {})
             c == Shot(2, 2250, FALSE, "MASK_REVEAL", {"TRANSITION_HIT"})
             d == Shot(2, 2750, TRUE, "CUT", {})
             e == Shot(3, 2000, FALSE, "MASK_REVEAL", {"TRANSITION_HIT"})
             f == Shot(3, 3000, TRUE, "CUT", {"BRAND_HIT"})
  <2>1. AShot(a) /\ AShot(b) /\ AShot(d)
    BY DEF Shot, AShot
  <2>2. AShot(c) /\ AShot(e) /\ AShot(f)
    BY DEF Shot, AShot
  <2>3. Deterministic.shots = <<a, b, c, d, e, f>>
    BY DEF Deterministic
  <2> HIDE DEF a, b, c, d, e, f
  <2> QED
    BY <2>1, <2>2, <2>3, SixShots
<1> QED
  BY <1>2, <1>3

LEMMA PlannedSequenced ==
  ASSUME NEW answer \in Answers \cup {None}
  PROVE  Sequenced(Planned(answer).shots)
<1>1. CASE answer # None /\ Accepted(answer)
  <2>1. answer.shots \in
          Seq([scene : 1..3, length : Nat, text : BOOLEAN, transition : STRING, cues : SUBSET STRING])
    BY <1>1, MediaTimingAssumption
  <2>2. PICK shots : shots = answer.shots
    OBVIOUS
  <2>3. Len(shots) \in 5..8
    BY <1>1, <2>2 DEF Accepted, MinShots, MaxShots
  <2>4. DOMAIN shots = 1..Len(shots) /\ \A i \in DOMAIN shots : AShot(shots[i])
    <3>1. PICK S : S = [scene : 1..3, length : Nat, text : BOOLEAN, transition : STRING, cues : SUBSET STRING]
      OBVIOUS
    <3>2. \A shot \in S : AShot(shot)
      BY <3>1 DEF AShot
    <3>3. shots \in Seq(S)
      BY <2>1, <2>2, <3>1
    <3>4. DOMAIN shots = 1..Len(shots) /\ \A i \in DOMAIN shots : shots[i] \in S
      BY <3>3
    <3> QED
      BY <3>2, <3>4
  <2>5. Sequenced(shots)
    BY <2>3, <2>4 DEF Sequenced
  <2> QED
    BY <1>1, <2>2, <2>5 DEF Planned
<1>2. CASE ~(answer # None /\ Accepted(answer))
  BY <1>2, OwnShotsSequenced DEF Planned
<1> QED
  BY <1>1, <1>2

LEMMA LengthsTimed ==
  ASSUME NEW shots, Sequenced(shots)
  PROVE  /\ Timed(Lengths(shots)) /\ Len(Lengths(shots)) = Len(shots)
         /\ \A i \in 1..Len(shots) : Lengths(shots)[i] = shots[i].length
<1>1. PICK n \in Nat : n = Len(shots) /\ DOMAIN shots = 1..n
  BY DEF Sequenced
<1>2. Lengths(shots) = [i \in 1..n |-> shots[i].length]
  BY <1>1 DEF Lengths
<1>3. Len(Lengths(shots)) = n
  BY <1>2
<1>4. \A i \in 1..n : shots[i].length \in Nat
  BY <1>1 DEF Sequenced, AShot
<1> QED
  BY <1>1, <1>2, <1>3, <1>4 DEF Timed

\* Scaling changes lengths only, and makes the shots fill the video.
LEMMA ScaledShots ==
  ASSUME NEW shots, Sequenced(shots), NEW duration \in Nat
  PROVE  /\ Sequenced(Scaled(shots, duration))
         /\ Len(Scaled(shots, duration)) = Len(shots)
         /\ \A i \in DOMAIN shots : /\ Scaled(shots, duration)[i].text = shots[i].text
                                    /\ Scaled(shots, duration)[i].cues = shots[i].cues
         /\ Total(Lengths(Scaled(shots, duration))) = duration * Unit(shots)
         /\ Total(Lengths(shots)) \in Nat
<1> DEFINE s == Scaled(shots, duration)
<1>1. PICK n \in Nat \ {0} : n = Len(shots) /\ DOMAIN shots = 1..n
  BY DEF Sequenced
<1>2. s = [i \in 1..n |-> [shots[i] EXCEPT !.length = @ * 3 * duration]]
  BY <1>1 DEF Scaled
<1>3. Len(s) = n /\ DOMAIN s = 1..n
  BY <1>2
<1>4. ASSUME NEW i \in 1..n
      PROVE  /\ AShot(s[i])
             /\ s[i].text = shots[i].text /\ s[i].cues = shots[i].cues /\ s[i].length = shots[i].length * 3 * duration
  <2>1. AShot(shots[i])
    BY <1>1 DEF Sequenced
  <2>2. PICK more : more = shots[i].length * 3 * duration
    OBVIOUS
  <2>3. more \in Nat
    <3>1. PICK a \in Nat : a = shots[i].length * 3
      BY <2>1 DEF AShot
    <3>2. a * duration \in Nat
      OBVIOUS
    <3> QED
      BY <2>2, <3>1, <3>2
  <2>4. s[i] = [shots[i] EXCEPT !.length = more]
    BY <1>2, <2>2
  <2> QED
    BY <2>1, <2>2, <2>3, <2>4 DEF AShot
<1> HIDE DEF s
<1>5. Sequenced(s)
  BY <1>3, <1>4 DEF Sequenced
<1>6. Total(Lengths(s)) = duration * Unit(shots) /\ Total(Lengths(shots)) \in Nat
  <2> DEFINE a == Lengths(shots)
             b == Lengths(s)
             k == 3 * duration
  <2>1. Timed(a) /\ Timed(b) /\ Len(a) = n /\ Len(b) = n
    BY <1>1, <1>3, <1>5, LengthsTimed
  <2>2. k \in Nat
    OBVIOUS
  <2>3. ASSUME NEW i \in 1..n PROVE b[i] = a[i] * k
    <3>1. a[i] = shots[i].length /\ b[i] = s[i].length
      BY <1>1, <1>3, <1>5, LengthsTimed
    <3>2. shots[i].length \in Nat
      BY <1>1 DEF Sequenced, AShot
    <3>3. \A x \in Nat : x * 3 * duration = x * (3 * duration)
      OBVIOUS
    <3> QED
      BY <1>4, <3>1, <3>2, <3>3
  <2> HIDE DEF a, b, k
  <2>4. Elapsed(b)[n] = Elapsed(a)[n] * k
    <3>1. n \in 0..Len(a)
      BY <2>1
    <3> QED
      BY <2>1, <2>2, <2>3, <3>1, Stretched
  <2>5. Elapsed(a)[n] \in Nat
    BY <2>1, ElapsedIs
  <2>6. Total(a) = Elapsed(a)[n] /\ Total(b) = Elapsed(b)[n]
    BY <2>1 DEF Total
  <2>7. \A x \in Nat : x * (3 * duration) = duration * (3 * x)
    OBVIOUS
  <2>8. Total(b) = duration * (3 * Total(a))
    BY <2>4, <2>5, <2>6, <2>7 DEF k
  <2> QED
    BY <2>5, <2>6, <2>8 DEF a, b, Unit
<1> QED
  BY <1>1, <1>3, <1>4, <1>5, <1>6 DEF s

\* The three loops keep the same time.
LEMMA Clocks ==
  ASSUME NEW shots
  PROVE  /\ ShotClock(shots) = Elapsed(Lengths(shots))
         /\ TextClock(shots) = ShotClock(shots)
         /\ SoundClock(shots) = ShotClock(shots)
<1>1. ShotClock(shots) = Elapsed(Lengths(shots))
  BY Zenon DEF ShotClock, Elapsed
<1>2. TextClock(shots) = Elapsed(Lengths(shots))
  BY Zenon DEF TextClock, Elapsed
<1>3. SoundClock(shots) = Elapsed(Lengths(shots))
  BY Zenon DEF SoundClock, Elapsed
<1> QED
  BY <1>1, <1>2, <1>3

\* The start of each shot is the end of the one before it.
LEMMA PlacedShots ==
  ASSUME NEW shots, Sequenced(shots)
  PROVE  /\ Len(Placed(shots)) = Len(shots) /\ DOMAIN Placed(shots) = DOMAIN shots
         /\ \A i \in DOMAIN shots : Placed(shots)[i].start = Start(shots, i) /\ Placed(shots)[i].length = shots[i].length
         /\ Placed(shots)[1].start = 0
         /\ \A i \in 1..(Len(shots) - 1) : Placed(shots)[i + 1].start = Placed(shots)[i].start + Placed(shots)[i].length
         /\ Placed(shots)[Len(shots)].start + Placed(shots)[Len(shots)].length = Total(Lengths(shots))
<1>1. PICK n \in Nat \ {0} : n = Len(shots) /\ DOMAIN shots = 1..n
  BY DEF Sequenced
<1> DEFINE e == Elapsed(Lengths(shots))
           p == Placed(shots)
<1>2. p = [i \in 1..n |-> [scene |-> shots[i].scene, start |-> e[i - 1], length |-> shots[i].length]]
  BY <1>1, Clocks DEF Placed, Start
<1>3. Len(p) = n /\ DOMAIN p = 1..n
  BY <1>2
<1>4. e[0] = 0 /\ \A i \in 1..n : e[i] = e[i - 1] + shots[i].length
  BY <1>1, LengthsTimed, ElapsedIs
<1>5. Total(Lengths(shots)) = e[n]
  BY <1>1, LengthsTimed DEF Total
<1>6. \A i \in 1..n : p[i].start = e[i - 1] /\ p[i].length = shots[i].length
  BY <1>2
<1>7. \A i \in 1..n : e[i - 1] = Start(shots, i)
  BY Clocks DEF Start
<1> HIDE DEF e, p
<1>8. p[1].start = 0
  <2>1. 1 \in 1..n /\ 1 - 1 = 0
    OBVIOUS
  <2> QED
    BY <1>4, <1>6, <2>1
<1>9. ASSUME NEW i \in 1..(n - 1) PROVE p[i + 1].start = p[i].start + p[i].length
  <2>1. i \in 1..n /\ i + 1 \in 1..n /\ (i + 1) - 1 = i
    OBVIOUS
  <2> QED
    BY <1>4, <1>6, <2>1
<1>10. p[n].start + p[n].length = e[n]
  <2>1. n \in 1..n
    OBVIOUS
  <2> QED
    BY <1>4, <1>6, <2>1
<1> QED
  BY <1>1, <1>3, <1>5, <1>6, <1>7, <1>8, <1>9, <1>10 DEF p

-----------------------------------------------------------------------------
\* A composition is on one clock: what VideoIsOnOneClock says of a video.
OneClock(composed, by, planned) ==
    LET shots == composed.shots
        own == WithText(ShotPlan(planned))
        shown == IF own = {} THEN FallbackShots ELSE own
    IN /\ shots[1].start = 0
       /\ \A i \in 1..(Len(shots) - 1) : shots[i + 1].start = shots[i].start + shots[i].length
       /\ shots[Len(shots)].start + shots[Len(shots)].length = composed.duration * composed.unit
       /\ by = "hyperframes" =>
             /\ composed.texts = {[start |-> shots[i].start, length |-> shots[i].length] : i \in shown}
             /\ \A sound \in composed.sounds : \E i \in DOMAIN shots :
                   shots[i].start = sound.start /\ sound.cue \in planned.shots[i].cues

\* The scenes of the ffmpeg renderer fill the video, a third each.
LEMMA ScenesFill ==
  ASSUME NEW tick \in Nat
  PROVE  /\ Len(Scenes(tick)) = 3 /\ Scenes(tick)[1].start = 0
         /\ \A i \in 1..2 : Scenes(tick)[i + 1].start = Scenes(tick)[i].start + Scenes(tick)[i].length
         /\ Scenes(tick)[3].start + Scenes(tick)[3].length = 3 * tick
<1>1. Len(Scenes(tick)) = 3
  BY DEF Scenes, Scene
<1>2. \A n \in 1..3 : Scenes(tick)[n].start = (n - 1) * tick /\ Scenes(tick)[n].length = tick
  BY DEF Scenes, Scene
<1>3. /\ Scenes(tick)[1].start = 0 /\ Scenes(tick)[2].start = tick /\ Scenes(tick)[3].start = 2 * tick
      /\ Scenes(tick)[1].length = tick /\ Scenes(tick)[2].length = tick /\ Scenes(tick)[3].length = tick
  BY <1>2
<1>4. \A i \in 1..2 : i = 1 \/ i = 2
  OBVIOUS
<1> QED
  BY <1>1, <1>3, <1>4

\* Whatever the plan, the renderer and the length that the video must have.
LEMMA Composed ==
  ASSUME NEW by, NEW playing, NEW planned, NEW duration \in Nat, Sequenced(ShotPlan(planned)),
         by = "hyperframes" /\ WithText(ShotPlan(planned)) = {} => FallbackShots \subseteq DOMAIN ShotPlan(planned)
  PROVE  OneClock(Composition(by, playing, planned, duration), by, planned)
<1> DEFINE own == ShotPlan(planned)
           s == Scaled(own, duration)
           c == Composition(by, playing, planned, duration)
<1>1. /\ c.duration = duration /\ c.unit = Unit(own)
      /\ by = "hyperframes" => c.shots = Placed(s) /\ c.texts = EffectiveCues(s)
      /\ by # "hyperframes" => c.shots = Scenes(duration * Total(Lengths(own)))
      /\ c.sounds = {} \/ (planned # None /\ c.sounds = SfxCues(s))
  <2> DEFINE full == Scenes(duration * Total(Lengths(own)))
             quiet == Spoken(playing) \/ planned = None
  <2>1. c = [duration |-> duration, unit |-> Unit(own),
             shots |-> IF by = "hyperframes" THEN Placed(s) ELSE full,
             texts |-> IF by = "hyperframes" THEN EffectiveCues(s) ELSE {},
             sounds |-> IF quiet THEN {} ELSE SfxCues(s)]
    BY DEF Composition
  <2> HIDE DEF c, s, own, full
  <2>2. /\ c.duration = duration /\ c.unit = Unit(own)
        /\ by = "hyperframes" => c.shots = Placed(s) /\ c.texts = EffectiveCues(s)
        /\ by # "hyperframes" => c.shots = full
    BY <2>1
  <2>3. quiet => c.sounds = {}
    BY <2>1
  <2>4. ~quiet => c.sounds = SfxCues(s)
    BY <2>1
  <2>5. c.sounds = {} \/ (planned # None /\ c.sounds = SfxCues(s))
    BY <2>3, <2>4
  <2> QED
    BY <2>2, <2>5 DEF full
<1>2. /\ Sequenced(s) /\ Len(s) = Len(own)
      /\ \A i \in DOMAIN own : s[i].text = own[i].text /\ s[i].cues = own[i].cues
      /\ Total(Lengths(s)) = duration * Unit(own)
      /\ Total(Lengths(own)) \in Nat
  BY ScaledShots
<1>3. DOMAIN s = DOMAIN own
  BY <1>2 DEF Sequenced
<1> HIDE DEF s, own, c
<1>4. CASE by # "hyperframes"
  <2>1. PICK tick \in Nat : tick = duration * Total(Lengths(own))
    <3>1. \A a \in Nat : duration * a \in Nat
      OBVIOUS
    <3> QED
      BY <1>2, <3>1
  <2>2. 3 * tick = c.duration * c.unit
    <3>1. \A a \in Nat : 3 * (duration * a) = duration * (3 * a)
      OBVIOUS
    <3> QED
      BY <1>1, <1>2, <2>1, <3>1 DEF Unit
  <2> QED
    <3>1. c.shots = Scenes(tick)
      BY <1>1, <1>4, <2>1
    <3>2. /\ Len(c.shots) = 3 /\ c.shots[1].start = 0
          /\ \A i \in 1..(3 - 1) : c.shots[i + 1].start = c.shots[i].start + c.shots[i].length
          /\ c.shots[3].start + c.shots[3].length = c.duration * c.unit
      <4>1. 3 - 1 = 2
        OBVIOUS
      <4> QED
        BY <2>2, <3>1, <4>1, ScenesFill
    <3>3. OneClock(c, by, planned)
      BY <1>4, <3>2 DEF OneClock
    <3> QED
      BY <3>3 DEF c
<1>5. CASE by = "hyperframes"
  <2> DEFINE p == Placed(s)
             shown == IF WithText(own) = {} THEN FallbackShots ELSE WithText(own)
  <2>1. /\ c.shots = p /\ c.texts = EffectiveCues(s) /\ c.duration = duration /\ c.unit = Unit(own)
        /\ c.sounds = {} \/ (planned # None /\ c.sounds = SfxCues(s))
    BY <1>1, <1>5
  <2>2. /\ Len(p) = Len(s) /\ DOMAIN p = DOMAIN s
        /\ \A i \in DOMAIN s : p[i].start = Start(s, i) /\ p[i].length = s[i].length
        /\ p[1].start = 0
        /\ \A i \in 1..(Len(s) - 1) : p[i + 1].start = p[i].start + p[i].length
        /\ p[Len(s)].start + p[Len(s)].length = Total(Lengths(s))
    BY <1>2, PlacedShots
  <2> HIDE DEF p
  <2>3. c.texts = {[start |-> p[i].start, length |-> p[i].length] : i \in shown}
    <3>1. WithText(s) = WithText(own)
      BY <1>2, <1>3 DEF WithText
    <3>2. EffectiveCues(s) = {[start |-> Start(s, i), length |-> s[i].length] : i \in shown}
      <4>1. TextCues(s) = {} <=> WithText(s) = {}
        BY DEF TextCues
      <4> QED
        BY <3>1, <4>1, Clocks DEF EffectiveCues, TextCues, Start
    <3>3. shown \subseteq DOMAIN s
      BY <1>3, <1>5 DEF WithText, own
    <3> QED
      BY <2>1, <2>2, <3>2, <3>3
  <2>4. ASSUME NEW sound \in c.sounds
        PROVE  \E i \in DOMAIN p : p[i].start = sound.start /\ sound.cue \in planned.shots[i].cues
    <3>1. planned # None /\ sound \in SfxCues(s)
      BY <2>1
    <3>2. PICK i \in DOMAIN s : \E cue \in s[i].cues : sound = [cue |-> cue, start |-> Start(s, i)]
      BY <3>1, Clocks DEF SfxCues, Start
    <3>3. sound.start = Start(s, i) /\ sound.cue \in s[i].cues
      BY <3>2
    <3>4. i \in DOMAIN p /\ p[i].start = sound.start
      BY <2>2, <3>3
    <3>5. own = planned.shots
      BY <3>1 DEF own, ShotPlan
    <3>6. sound.cue \in planned.shots[i].cues
      BY <1>2, <1>3, <3>3, <3>5
    <3> QED
      BY <3>4, <3>6
  <2> QED
    BY <1>2, <1>5, <2>1, <2>2, <2>3, <2>4 DEF OneClock, c, own
<1> QED
  BY <1>4, <1>5

\* The plan has shots, and nothing happens after the video is composed.
Composing ==
    /\ plan # None => Sequenced(plan.shots)
    /\ video # None => step = "DONE"
    /\ VideoIsOnOneClock

LEMMA NextComposing == Composing /\ [Next]_vars => Composing'
<1> SUFFICES ASSUME Composing, [Next]_vars PROVE Composing'
  OBVIOUS
<1>0. /\ VideoIsOnOneClock <=> (video # None => OneClock(video, renderer, plan))
      /\ VideoIsOnOneClock' <=> (video' # None => OneClock(video', renderer', plan'))
  BY DEF VideoIsOnOneClock, OneClock
<1>1. CASE CreatePlan
  <2>1. PICK answer \in Answers \cup {None} : plan' = Planned(answer)
    BY <1>1 DEF CreatePlan
  <2>2. video = None /\ video' = None
    BY <1>1 DEF CreatePlan, Composing
  <2> QED
    BY <1>0, <2>1, <2>2, PlannedSequenced DEF Composing
<1>2. CASE CreateStoryboard \/ SkipPlan \/ AcquireVoice \/ SkipVoice \/ RefuseVideo
  <2>1. video = None /\ video' = None /\ plan' = plan
    BY <1>2 DEF CreateStoryboard, SkipPlan, AcquireVoice, SkipVoice, RefuseVideo, Composing
  <2> QED
    BY <1>0, <2>1 DEF Composing
<1>3. CASE RenderVideo
  <2>1. PICK duration : /\ duration = Clock(style, voice, plan)
                        /\ Timely(duration)
                        /\ ~Unplaceable(ShotPlan(plan))
                        /\ video' = Composition(renderer, style, plan, duration)
    BY <1>3 DEF RenderVideo
  <2>2. UNCHANGED <<renderer, plan>> /\ step' = "DONE"
    BY <1>3 DEF RenderVideo
  <2>3. duration \in Nat
    <3>1. duration \in 13000..20000
      BY <2>1 DEF Timely, MinDuration, MaxDuration
    <3> QED
      BY <3>1
  <2>4. Sequenced(ShotPlan(plan))
    BY OwnShotsSequenced DEF ShotPlan, Composing
  <2>5. OneClock(video', renderer, plan)
    BY <2>1, <2>3, <2>4, Composed DEF Unplaceable
  <2> QED
    BY <1>0, <2>2, <2>5 DEF Composing
<1>4. CASE UNCHANGED vars
  BY <1>0, <1>4 DEF vars, Composing
<1> QED
  BY <1>1, <1>2, <1>3, <1>4 DEF Next

\* Shots, scenes, texts and sounds are on one clock in every behaviour.
THEOREM VideoIsOnOneClockHolds == Spec => []VideoIsOnOneClock
<1>1. Init => Composing
  BY DEF Init, Composing, VideoIsOnOneClock
<1>2. Composing => VideoIsOnOneClock
  BY DEF Composing
<1> QED
  BY <1>1, <1>2, NextComposing, PTL DEF Spec
=============================================================================
